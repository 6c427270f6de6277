------------------------- MODULE ClusterRegistration -------------------------
(***************************************************************************)
(* The controller of ClusterRegistration resources                         *)
(* (controllers/clusterregistration_controller.go): it waits for the       *)
(* kubeconfig secret of a workload cluster, installs a service account     *)
(* there and registers the cluster in ArgoCD; when the resource is deleted *)
(* it unregisters the cluster.                                             *)
(***************************************************************************)
EXTENDS ControllerRuntime

CONSTANTS
  Names,        \* names an ArgoCD cluster can have
  Unnamed       \* spec.clusterName left empty

ASSUME NamesAssumption == Resources \subseteq Names /\ Unnamed \notin Names

VARIABLES
  argo,         \* the names of the clusters registered in ArgoCD
  secret,       \* the kubeconfig secret of each resource
  unfound       \* names whose lookup went wrong when they were to be removed

outside == <<argo, secret, unfound>>
vars    == <<res, cache, cacheFresh, queued, pc, cur, obj, fresh, settled,
             argo, secret, unfound>>

-----------------------------------------------------------------------------
(* State *)

(* complete and error are final.  valid: the secret's name and key are     *)
(* given.  message: what a registration that is retrying waits for.        *)
States   == {"", "retrying", "complete", "error"}
Messages == {"", "secret", "rbac", "argocd"}
Resource ==
  [ exists : BOOLEAN, deleting : BOOLEAN, fin : BOOLEAN, valid : BOOLEAN,
    name : Names \cup {Unnamed}, state : States, message : Messages ]

NoResource ==
  [ exists |-> FALSE, deleting |-> FALSE, fin |-> FALSE, valid |-> FALSE,
    name |-> Unnamed, state |-> "", message |-> "" ]

ASSUME AbsentAssumption == Absent = NoResource

Steps ==
  { "idle", "addFinalizer", "lookup", "readSecret", "install", "create",
    "report", "reportRetry", "find", "unregister", "removeFinalizer" }

TypeOK ==
  /\ RuntimeTypeOK(Resource, Steps)
  /\ argo \subseteq Names
  /\ secret \in [Resources -> {"missing", "unusable", "usable"}]
  /\ unfound \subseteq Names

Init ==
  /\ RuntimeInit
  /\ argo = {}
  /\ secret = [r \in Resources |-> "missing"]
  /\ unfound = {}

(* The name a cluster is registered under. *)
RegisteredAs(r, o) == IF o.name = Unnamed THEN r ELSE o.name

-----------------------------------------------------------------------------
(* Reconcile *)

(* updateState sets the state of the worker's copy; the write is Report. *)
SetState(state, message, step) ==
  /\ obj' = [obj EXCEPT !.state = state, !.message = message]
  /\ pc' = step
  /\ UNCHANGED <<cur, fresh, queued>>

RetryLater(message) == SetState("retrying", message, "reportRetry")
Done(state)         == SetState(state, "", "report")

(* Mutant of FirstStep: no finalizer before the registration. *)
FirstStepUnguarded(o) ==
  CASE o.deleting                                          -> "find"
    [] ~o.deleting /\ o.state \in {"complete", "error"}    -> "idle"
    [] ~o.deleting /\ o.state \in {"", "retrying"}         ->
         IF o.valid THEN "lookup" ELSE "report"

(* Mutant of FirstStep: a final state is looked at before the deletion. *)
FirstStepFinal(o) ==
  CASE o.state \in {"complete", "error"}                   -> "idle"
    [] o.state \in {"", "retrying"} /\ o.deleting          -> "find"
    [] o.state \in {"", "retrying"} /\ ~o.deleting         ->
         CASE ~o.valid            -> "report"
           [] o.valid /\ ~o.fin   -> "addFinalizer"
           [] o.valid /\ o.fin    -> "lookup"

FirstStep(o) ==
  CASE o.deleting                                          -> "find"
    [] ~o.deleting /\ o.state \in {"complete", "error"}    -> "idle"
    [] ~o.deleting /\ o.state \in {"", "retrying"}         ->
         CASE ~o.valid            -> "report"
           [] o.valid /\ ~o.fin   -> "addFinalizer"
           [] o.valid /\ o.fin    -> "lookup"

(* An invalid specification is an error, there and then. *)
FirstEdit(o) ==
  IF FirstStep(o) = "report" THEN [o EXCEPT !.state = "error", !.message = ""] ELSE o

Take(r) == Begin(r, FirstStep(cache[r]), FirstEdit(cache[r])) /\ UNCHANGED outside

AddFinalizer ==
  /\ pc = "addFinalizer"
  /\ Patch([res[cur] EXCEPT !.fin = TRUE])
  /\ UNCHANGED <<cache, settled, outside>>

(* Mutant of Lookup: a failed lookup is taken for one that found something. *)
LookupHopeful ==
  /\ pc = "lookup"
  /\ \/ (obj.name \in argo \/ ~settled) /\ Done("complete")
     \/ obj.name \notin argo /\ Goto("readSecret")
  /\ UNCHANGED <<api, cache, settled, outside>>

(* A cluster of that name is as good as registered; a failed lookup is     *)
(* taken for one that found nothing, as is the lookup of no name.          *)
Lookup ==
  /\ pc = "lookup"
  /\ \/ obj.name \in argo /\ Done("complete")
     \/ (obj.name \in argo => ~settled) /\ Goto("readSecret")
  /\ UNCHANGED <<api, cache, settled, outside>>

(* The secret is awaited while it is missing; that it cannot be read or    *)
(* used is an error.                                                       *)
ReadSecret ==
  /\ pc = "readSecret"
  /\ \/ secret[cur] = "missing" /\ RetryLater("secret")
     \/ secret[cur] = "usable" /\ Goto("install")
     \/ (secret[cur] = "unusable" \/ ~settled) /\ Done("error")
  /\ UNCHANGED <<api, cache, settled, outside>>

InstallRBAC ==
  /\ pc = "install"
  /\ Goto("create") \/ (~settled /\ RetryLater("rbac"))
  /\ UNCHANGED <<api, cache, settled, outside>>

(* Mutant of Create: under the name that was looked up. *)
CreateLookedUp ==
  /\ pc = "create"
  /\ \/ /\ argo' = argo \cup {obj.name}
        /\ Done("complete") \/ (~settled /\ RetryLater("argocd"))
     \/ /\ ~settled /\ RetryLater("argocd")
        /\ UNCHANGED argo
  /\ UNCHANGED <<api, cache, settled, secret, unfound>>

(* With Upsert: a cluster of that name is replaced. *)
Create ==
  /\ pc = "create"
  /\ \/ /\ argo' = argo \cup {RegisteredAs(cur, obj)}
        /\ Done("complete") \/ (~settled /\ RetryLater("argocd"))
     \/ /\ ~settled /\ RetryLater("argocd")
        /\ UNCHANGED argo
  /\ UNCHANGED <<api, cache, settled, secret, unfound>>

(* Mutant of Report: the status is patched, whatever the version. *)
ReportUnversioned ==
  /\ pc \in {"report", "reportRetry"}
  /\ res[cur].exists
  /\ Write(cur, [res[cur] EXCEPT !.state = obj.state, !.message = obj.message])
  /\ Return(pc = "reportRetry")
  /\ UNCHANGED <<cache, settled, outside>>

Report ==
  /\ pc \in {"report", "reportRetry"}
  /\ StatusUpdate([res[cur] EXCEPT !.state = obj.state, !.message = obj.message],
                  pc = "reportRetry")
  /\ UNCHANGED <<cache, settled, outside>>

-----------------------------------------------------------------------------
(* reconcileDelete *)

(* The lookup goes by spec.clusterName, also where the cluster was         *)
(* registered under the resource's name; any failure means there is none.  *)
Find ==
  /\ pc = "find"
  /\ \/ obj.name \in argo /\ Goto("unregister") /\ UNCHANGED unfound
     \/ /\ obj.name \in argo => ~settled
        /\ Goto("removeFinalizer")
        /\ unfound' = unfound \cup ({RegisteredAs(cur, obj)} \cap argo)
  /\ UNCHANGED <<api, cache, settled, argo, secret>>

(* Deletes whatever cluster the lookup found. *)
Unregister ==
  /\ pc = "unregister"
  /\ \/ /\ obj.name \in argo
        /\ argo' = argo \ {obj.name}
        /\ Goto("removeFinalizer") \/ (~settled /\ Return(TRUE))
     \/ /\ obj.name \in argo => ~settled
        /\ Return(TRUE)
        /\ UNCHANGED argo
  /\ UNCHANGED <<api, cache, settled, secret, unfound>>

Unguarded(s) == IF s.deleting THEN NoResource ELSE [s EXCEPT !.fin = FALSE]

RemoveFinalizer ==
  /\ pc = "removeFinalizer"
  /\ Patch(Unguarded(res[cur]))
  /\ UNCHANGED <<cache, settled, outside>>

Reconcile ==
  \/ AddFinalizer \/ Lookup \/ ReadSecret \/ InstallRBAC \/ Create \/ Report
  \/ Find \/ Unregister \/ RemoveFinalizer

-----------------------------------------------------------------------------
(* The users and the cluster's provider *)

(* Every cluster has one registration. *)
UserCreate(r) ==
  /\ ~res[r].exists
  /\ \E v \in BOOLEAN, n \in Names \cup {Unnamed} :
       LET new == [NoResource EXCEPT !.exists = TRUE, !.valid = v, !.name = n]
       IN /\ \A q \in Resources \ {r} :
               res[q].exists => RegisteredAs(q, res[q]) # RegisteredAs(r, new)
          /\ UserWrite(r, new)
  /\ UNCHANGED outside

UserDelete(r) ==
  /\ res[r].exists /\ ~res[r].deleting
  /\ UserWrite(r, IF res[r].fin THEN [res[r] EXCEPT !.deleting = TRUE] ELSE NoResource)
  /\ UNCHANGED outside

(* The kubeconfig secret comes, whole or without the key, and goes. *)
ProvideSecret(r) ==
  /\ ~settled
  /\ secret' \in {[secret EXCEPT ![r] = s] : s \in {"missing", "unusable", "usable"}}
  /\ secret' # secret
  /\ UNCHANGED <<runtime, argo, unfound>>

-----------------------------------------------------------------------------

Next ==
  \/ \E r \in Resources :
       \/ Take(r)
       \/ (CacheSync(r) \/ Resync(r)) /\ UNCHANGED outside
       \/ UserCreate(r) \/ UserDelete(r) \/ ProvideSecret(r)
  \/ Reconcile
  \/ (Restart \/ Settle) /\ UNCHANGED outside

Spec == Init /\ [][Next]_vars

Fairness ==
  /\ \A r \in Resources :
       SF_vars(Take(r)) /\ WF_vars(CacheSync(r) /\ UNCHANGED outside)
  /\ WF_vars(Reconcile)
  /\ WF_vars(Settle /\ UNCHANGED outside)

FairSpec == Spec /\ Fairness

-----------------------------------------------------------------------------
(* Properties *)

Wanted(r) == res[r].exists /\ ~res[r].deleting

(* The state of a resource that is wanted does not deceive: when it is     *)
(* complete, the cluster is registered.                                    *)
CompleteMeansRegistered ==
  \A r \in Resources :
    Wanted(r) /\ res[r].state = "complete" => RegisteredAs(r, res[r]) \in argo

(* A cluster stays registered no longer than there is a guarded resource   *)
(* for it, except where the lookup at the deletion did not find it: by a   *)
(* failure, or because it was registered under another name than it is     *)
(* looked up.                                                              *)
RegisteredMeansOwned ==
  \A n \in argo :
    n \in unfound \/ \E r \in Resources :
      res[r].exists /\ res[r].fin /\ RegisteredAs(r, res[r]) = n

(* However stale the pass that writes: a final state is never left. *)
FinalStates ==
  [][\A r \in Resources :
       res[r].exists /\ res[r].state \in {"complete", "error"} /\ res'[r].exists
         => res'[r].state = res[r].state]_vars

(* The controller implements OutcomeLifecycle: a registration comes to an  *)
(* outcome that stays, and no other deletion takes the cluster of one that *)
(* is complete.                                                            *)
PhaseOf(o) ==
  CASE ~o.exists                  -> "none"
    [] o.exists /\ o.deleting     -> "doomed"
    [] o.exists /\ ~o.deleting    ->
         IF o.state \in {"complete", "error"} THEN o.state ELSE "open"

Phase == [r \in Resources |-> PhaseOf(res[r])]

Registered == {r \in Resources : res[r].exists /\ RegisteredAs(r, res[r]) \in argo}

Outcome == INSTANCE OutcomeLifecycle WITH phase <- Phase, made <- Registered

ImplementsOutcome == Outcome!Spec

(* Once all has settled, every resource that is valid and has a usable     *)
(* secret gets to a final state, and every deletion ends.                  *)
RegistrationEnds ==
  \A r \in Resources :
    /\ <>[](Wanted(r) /\ res[r].valid /\ secret[r] = "usable"
             => res[r].state \in {"complete", "error"})
    /\ res[r].deleting ~> ~res[r].deleting

(* What architecture.md says: the controller waits for the kubeconfig to   *)
(* become available, at which point it registers the cluster.              *)
KubeconfigAwaited ==
  \A r \in Resources :
    <>[](Wanted(r) /\ res[r].valid /\ secret[r] = "usable"
           => RegisteredAs(r, res[r]) \in argo)

=============================================================================
