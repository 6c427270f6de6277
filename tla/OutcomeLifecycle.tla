--------------------------- MODULE OutcomeLifecycle ---------------------------
(***************************************************************************)
(* What the ClusterRegistration and the CallHomeConfig controllers promise *)
(* about a resource, whatever is stale, lost or cut off underneath: it is  *)
(* worked on until it comes to an outcome, "complete" or "error"; the      *)
(* outcome stays until the resource is deleted; "complete" is said only of *)
(* what has been made; and nothing that is made is lost while the resource *)
(* says so.                                                                *)
(*                                                                         *)
(* phase[r] is "none" (there is no resource), "open" (no outcome yet), an  *)
(* outcome, or "doomed": marked for deletion.  made has the resources of   *)
(* which there is what was asked for.                                      *)
(***************************************************************************)
CONSTANT Resources

VARIABLES phase, made

vars == <<phase, made>>

Init ==
  /\ phase = [r \in Resources |-> "none"]
  /\ made = {}

Own(r, from, to) == phase[r] \in from /\ phase' = [phase EXCEPT ![r] = to]

(* An earlier resource of this name may have left it made. *)
Declare(r)  == Own(r, {"none"}, "open") /\ made' \in {made, made \cup {r}}
Finish(r)   == r \in made /\ Own(r, {"open"}, "complete") /\ UNCHANGED made
Fail(r)     == Own(r, {"open"}, "error") /\ UNCHANGED made
Doom(r)     == Own(r, {"open", "complete", "error"}, "doomed") /\ UNCHANGED made
Withdraw(r) ==
  Own(r, {"open", "complete", "error", "doomed"}, "none") /\ made' = made \ {r}

Make(r) == phase[r] # "none" /\ made' = made \cup {r} /\ UNCHANGED phase
Lose(r) == phase[r] # "complete" /\ made' = made \ {r} /\ UNCHANGED phase

Next == \E r \in Resources :
  \/ Declare(r) \/ Finish(r) \/ Fail(r) \/ Doom(r) \/ Withdraw(r)
  \/ Make(r) \/ Lose(r)

Spec == Init /\ [][Next]_vars

=============================================================================
