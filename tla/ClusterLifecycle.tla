-------------------------- MODULE ClusterLifecycle --------------------------
(***************************************************************************)
(* What the Cluster controller promises about the two ArgoCD applications  *)
(* of a cluster, whatever crashes, fails or lags underneath: they are made *)
(* only for a resource that holds the controller's finalizer, the kkarlon  *)
(* app first; they are deleted only once that resource is marked for       *)
(* deletion, the cluster app first and completely; and the resource goes   *)
(* away only when neither is left.                                         *)
(*                                                                         *)
(* owner[c] is the Cluster resource: "none", there but not yet "guarded"   *)
(* by the finalizer, guarded, or guarded and "doomed" by its deletion      *)
(* timestamp.                                                              *)
(***************************************************************************)
CONSTANT Clusters

VARIABLES owner, app, kapp

vars == <<owner, app, kapp>>

Init ==
  /\ owner = [c \in Clusters |-> "none"]
  /\ app   = [c \in Clusters |-> "absent"]
  /\ kapp  = [c \in Clusters |-> "absent"]

(* One resource, or one application, goes from one of some states to another. *)
Own(c, from, to) ==
  owner[c] \in from /\ owner' = [owner EXCEPT ![c] = to] /\ UNCHANGED <<app, kapp>>

SetApp(c, from, to) ==
  app[c] = from /\ app' = [app EXCEPT ![c] = to] /\ UNCHANGED <<owner, kapp>>

SetKapp(c, from, to) ==
  kapp[c] = from /\ kapp' = [kapp EXCEPT ![c] = to] /\ UNCHANGED <<owner, app>>

Guarded(c) == owner[c] \in {"guarded", "doomed"}

Declare(c)  == Own(c, {"none"}, "unguarded")
Withdraw(c) == Own(c, {"unguarded"}, "none")
Guard(c)    == Own(c, {"unguarded"}, "guarded")
Doom(c)     == Own(c, {"guarded"}, "doomed")
Release(c)  ==
  app[c] = "absent" /\ kapp[c] = "absent" /\ Own(c, {"doomed"}, "none")

BuildKapp(c) ==
  Guarded(c) /\ app[c] = "absent" /\ SetKapp(c, "absent", "live")
BuildApp(c)  == Guarded(c) /\ kapp[c] = "live" /\ SetApp(c, "absent", "live")
DrainApp(c)  == owner[c] = "doomed" /\ SetApp(c, "live", "deleting")
AppGone(c)   == SetApp(c, "deleting", "absent")
DrainKapp(c) ==
  owner[c] = "doomed" /\ app[c] = "absent" /\ SetKapp(c, "live", "deleting")
KappGone(c)  == SetKapp(c, "deleting", "absent")

Next == \E c \in Clusters :
  \/ Declare(c) \/ Withdraw(c) \/ Guard(c) \/ Doom(c) \/ Release(c)
  \/ BuildKapp(c) \/ BuildApp(c)
  \/ DrainApp(c) \/ AppGone(c) \/ DrainKapp(c) \/ KappGone(c)

Spec == Init /\ [][Next]_vars

=============================================================================
