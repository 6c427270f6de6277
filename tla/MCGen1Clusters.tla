--------------------------- MODULE MCGen1Clusters ----------------------------
EXTENDS Gen1Properties, TLC

CONSTANTS b1, n1, n2, c1, d1, d2, v1, t1, t2, k1, k2

MCNames == {n1, n2}
MCClusters == {c1}
MCDirectories == {n1, n2, c1}

Plain(bs, dynamic) == [bundles |-> bs, dynamic |-> dynamic, params |-> NoParams, text |-> t1]
Small == [settings |-> [chart |-> k1, size |-> 1, max |-> 1]]
Other == [settings |-> [chart |-> k2, size |-> 1, max |-> 1]]
Files(bs) == [bundles |-> [b \in bs |-> [copy |-> d1]]]

(* A cluster deployed by hand with these same commands, by one user:       *)
(* a static bundle, two dynamic profiles, and a spec under a profile's     *)
(* name.                                                                   *)
Deployed ==
  /\ CliInit
  /\ secret = [b \in Bundles |-> [static |-> TRUE, data |-> d1, text |-> t1]]
  /\ profile = (n1 :> Plain({b1}, TRUE) @@ n2 :> Plain({}, TRUE))
  /\ config = (n1 :> None @@ n2 :> Small)
  /\ app = [c \in Clusters |-> [profile |-> n1, spec |-> n2, settings |-> Small.settings,
                                deleting |-> FALSE]]
  /\ tree = (n1 :> Files({b1}) @@ n2 :> Files({}) @@ c1 :> [of |-> n1])

(* A bundle that is a reference, a static profile, a legacy one, and no    *)
(* cluster yet.                                                            *)
Stocked ==
  /\ CliInit
  /\ secret = [b \in Bundles |-> [static |-> FALSE, data |-> d1, text |-> t1]]
  /\ profile = (n1 :> Plain({b1}, FALSE) @@ n2 :> None)
  /\ config = (n1 :> Other @@ n2 :> [legacy |-> Plain({b1}, FALSE)])
  /\ app = [c \in Clusters |-> None]
  /\ tree = [d \in Directories |-> None]

MCSpec == (Init \/ Deployed \/ Stocked) /\ [][Next]_vars
=============================================================================
