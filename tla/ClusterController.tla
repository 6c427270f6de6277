-------------------------- MODULE ClusterController --------------------------
(***************************************************************************)
(* The controller of the gen2 Cluster custom resource                      *)
(* (controllers/cluster_controller.go) with the calls it makes: the        *)
(* informer cache it reads, the API server it writes, ArgoCD's two         *)
(* applications of a cluster (the cluster app and the "-kkarlon" app) and  *)
(* the override directory it keeps in git.                                 *)
(*                                                                         *)
(* One worker serves all the resources, one at a time (the manager sets no *)
(* MaxConcurrentReconciles).  Reconcile is cut at every call that leaves   *)
(* the process: between two calls the users write, the cache lags or       *)
(* catches up, ArgoCD finishes a deletion, the process crashes.  A call    *)
(* that fails may or may not have had its effect.                          *)
(***************************************************************************)

CONSTANTS
  Clusters,     \* names of Cluster resources
  Profiles,     \* values the karlon.io/profiles annotation can take
  NoProfiles,   \* an annotation map without that key
  NilMap        \* no annotation map at all

ASSUME ClustersAssumption == Clusters # {}
ASSUME AnnotationsAssumption ==
  /\ NoProfiles \notin Profiles
  /\ NilMap \notin Profiles \cup {NoProfiles}

VARIABLES
  cr,           \* the Cluster resources in the API server
  cache,        \* what the controller's informer last saw of them
  cacheFresh,   \* is the cached resourceVersion the current one?
  queued,       \* is the resource in the work queue (or waiting to requeue)?
  app,          \* ArgoCD: the cluster app
  kapp,         \* ArgoCD: the "-kkarlon" app
  appAnn,       \* ArgoCD: the annotations of the cluster app
  overlay,      \* git: does the override directory of the cluster exist?
  pc,           \* the worker's next call, or "idle"
  cur,          \* the resource the worker reconciles
  obj,          \* the worker's copy of it
  fresh,        \* is the resourceVersion of obj the current one?
  seen,         \* the worker's copy of the cluster app's annotations
  settled       \* users, services and the process leave the system alone

kube   == <<cr, cacheFresh>>
argo   == <<app, kapp, appAnn>>
worker == <<pc, cur, obj, fresh, seen>>
vars   == <<cr, cache, cacheFresh, queued, app, kapp, appAnn, overlay,
            pc, cur, obj, fresh, seen, settled>>

-----------------------------------------------------------------------------
(* State *)

Annotations == Profiles \cup {NoProfiles, NilMap}

States ==
  { "", "retrying", "template-validated", "override-created", "created",
    "error-deleting-override", "override-deleted",
    "error-deleting-cluster-app", "deleting-cluster-app", "delete-retrying",
    "error-deleting-kkarlon-app", "deleting-kkarlon-app" }

(* A Cluster resource: fin is the finalizer, ovr whether spec.override is  *)
(* given, inner and ovDone the status fields innerClusterName (is it set?) *)
(* and overrideSuccessful.                                                 *)
Resource ==
  [ exists : BOOLEAN, deleting : BOOLEAN, fin : BOOLEAN, ovr : BOOLEAN,
    ann : Annotations, inner : BOOLEAN, ovDone : BOOLEAN, state : States ]

NewResource(o, a) ==
  [ exists |-> TRUE, deleting |-> FALSE, fin |-> FALSE, ovr |-> o, ann |-> a,
    inner |-> FALSE, ovDone |-> FALSE, state |-> "" ]

Absent == [NewResource(FALSE, NilMap) EXCEPT !.exists = FALSE]

(* Annotations of the cluster app: base is whether it still carries the    *)
(* template's repository, revision and path; prof the profiles annotation. *)
AppAnnotations == [base : BOOLEAN, prof : Annotations]
NoAnnotations  == [base |-> FALSE, prof |-> NilMap]

AppStates == {"absent", "live", "deleting"}

Steps ==
  { "idle", "addFinalizer", "validate", "override", "getKapp", "checkName",
    "createKapp", "getApp", "createApp", "updateApp", "report", "reportRetry",
    "findApp", "dropOverlay", "deleteApp", "findKapp", "deleteKapp",
    "removeFinalizer" }

TypeOK ==
  /\ cr \in [Clusters -> Resource]
  /\ cache \in [Clusters -> Resource]
  /\ cacheFresh \in [Clusters -> BOOLEAN]
  /\ queued \in [Clusters -> BOOLEAN]
  /\ app \in [Clusters -> AppStates]
  /\ kapp \in [Clusters -> AppStates]
  /\ appAnn \in [Clusters -> AppAnnotations]
  /\ overlay \in [Clusters -> BOOLEAN]
  /\ pc \in Steps
  /\ cur \in Clusters
  /\ obj \in Resource
  /\ fresh \in BOOLEAN
  /\ seen \in AppAnnotations
  /\ settled \in BOOLEAN

Init ==
  /\ cr = [c \in Clusters |-> Absent]
  /\ cache = cr
  /\ cacheFresh = [c \in Clusters |-> TRUE]
  /\ queued = [c \in Clusters |-> FALSE]
  /\ app = [c \in Clusters |-> "absent"]
  /\ kapp = app
  /\ appAnn = [c \in Clusters |-> NoAnnotations]
  /\ overlay = [c \in Clusters |-> FALSE]
  /\ pc = "idle"
  /\ cur \in Clusters
  /\ obj = Absent
  /\ fresh = FALSE
  /\ seen = NoAnnotations
  /\ settled = FALSE

-----------------------------------------------------------------------------
(* The ways a step of Reconcile ends *)

(* A write to the API server; one that changes nothing leaves the          *)
(* resourceVersion alone and sends no event.                               *)
Write(c, r) ==
  /\ cr' = [cr EXCEPT ![c] = r]
  /\ cacheFresh' = [cacheFresh EXCEPT ![c] = @ /\ r = cr[c]]

Goto(p) ==
  /\ pc' = p
  /\ UNCHANGED <<cur, obj, fresh, seen, queued>>

(* Mutant of Return: errors and requeue requests are dropped. *)
ReturnForgets(again) ==
  /\ pc' = "idle"
  /\ obj' = Absent
  /\ fresh' = FALSE
  /\ seen' = NoAnnotations
  /\ UNCHANGED <<cur, queued>>

(* Reconcile returns; again: with an error, Requeue or RequeueAfter. *)
Return(again) ==
  /\ pc' = "idle"
  /\ queued' = [queued EXCEPT ![cur] = @ \/ again]
  /\ obj' = Absent
  /\ fresh' = FALSE
  /\ seen' = NoAnnotations
  /\ UNCHANGED cur

(* Mutant of UpdateState: the arguments swapped. *)
UpdateStateSwapped(o, state, step) ==
  /\ obj' = [o EXCEPT !.state = step]
  /\ pc' = step
  /\ UNCHANGED <<cur, fresh, seen, queued>>

(* UpdateState sets the state in the worker's copy o; the status write is  *)
(* a step of its own (Report).                                             *)
UpdateState(o, state, step) ==
  /\ obj' = [o EXCEPT !.state = state]
  /\ pc' = step
  /\ UNCHANGED <<cur, fresh, seen, queued>>

(* A call that fails through no fault of the controller. *)
Fails(state) == ~settled /\ UpdateState(obj, state, "reportRetry")

-----------------------------------------------------------------------------
(* Mutants of the steps below *)

(* Provisioning does not wait for the finalizer. *)
FirstStepUnguarded(o) ==
  CASE o.deleting                -> "findApp"
    [] ~o.deleting /\ ~o.inner   -> "validate"
    [] OTHER                     -> "getKapp"

(* The test of overrideSuccessful is inverted. *)
FirstStepInverted(o) ==
  CASE o.deleting               -> "findApp"
    [] ~o.deleting /\ ~o.fin    -> "addFinalizer"
    [] ~o.deleting /\ o.fin /\ ~o.inner -> "validate"
    [] ~o.deleting /\ o.fin /\ o.inner /\ o.ovr /\ o.ovDone -> "override"
    [] OTHER                    -> "getKapp"

(* A missing kkarlon app is not created. *)
GetKappSkips ==
  /\ pc = "getKapp"
  /\ Goto("getApp") \/ Fails("retrying")
  /\ UNCHANGED <<kube, cache, argo, overlay, settled>>

(* The status is patched, whatever the resourceVersion. *)
ReportUnversioned ==
  /\ pc \in {"report", "reportRetry"}
  /\ cr[cur].exists
  /\ Write(cur, [cr[cur] EXCEPT !.inner = obj.inner, !.ovDone = obj.ovDone,
                                !.state = obj.state])
  /\ Return(pc = "reportRetry")
  /\ UNCHANGED <<cache, argo, overlay, settled>>

(* A cluster app being deleted is taken for one that is gone. *)
FindAppImpatient ==
  /\ pc = "findApp"
  /\ \/ app[cur] = "live" /\ Goto("deleteApp")
     \/ app[cur] # "live" /\ Goto("findKapp")
  /\ UNCHANGED <<kube, cache, argo, overlay, settled>>

(* No RequeueAfter while the cluster app is being deleted. *)
FindAppForgets ==
  /\ pc = "findApp"
  /\ \/ app[cur] = "deleting" /\ Return(FALSE)
     \/ app[cur] = "live" /\ Goto("deleteApp")
     \/ app[cur] = "absent" /\ Goto("findKapp")
  /\ UNCHANGED <<kube, cache, argo, overlay, settled>>

(* A kkarlon app being deleted is taken for one that is gone. *)
FindKappImpatient ==
  /\ pc = "findKapp"
  /\ \/ kapp[cur] = "live" /\ Goto("deleteKapp")
     \/ kapp[cur] # "live" /\ Goto("removeFinalizer")
  /\ UNCHANGED <<kube, cache, argo, overlay, settled>>

-----------------------------------------------------------------------------
(* Reconcile *)

FirstStep(o) ==
  CASE o.deleting               -> "findApp"
    [] ~o.deleting /\ ~o.fin    -> "addFinalizer"
    [] ~o.deleting /\ o.fin /\ ~o.inner -> "validate"
    [] ~o.deleting /\ o.fin /\ o.inner /\ o.ovr /\ ~o.ovDone -> "override"
    [] OTHER                    -> "getKapp"

(* Take a resource off the queue and read it from the cache; without an    *)
(* ArgoCD client there is nothing to do but report.                        *)
Begin(c) ==
  /\ pc = "idle"
  /\ queued[c]
  /\ queued' = [queued EXCEPT ![c] = FALSE]
  /\ \/ /\ ~cache[c].exists
        /\ UNCHANGED worker
     \/ /\ cache[c].exists
        /\ cur' = c
        /\ fresh' = cacheFresh[c]
        /\ \/ /\ obj' = cache[c]
              /\ pc' = FirstStep(cache[c])
           \/ /\ ~settled
              /\ obj' = [cache[c] EXCEPT !.state = "retrying"]
              /\ pc' = "reportRetry"
        /\ UNCHANGED seen
  /\ UNCHANGED <<kube, cache, argo, overlay, settled>>

(* The patch carries no resourceVersion: it applies to whatever is there. *)
AddFinalizer ==
  /\ pc = "addFinalizer"
  /\ \/ /\ cr[cur].exists
        /\ Write(cur, [cr[cur] EXCEPT !.fin = TRUE])
        /\ Return(FALSE)
     \/ /\ cr[cur].exists => ~settled
        /\ Return(TRUE)
        /\ UNCHANGED kube
  /\ UNCHANGED <<cache, argo, overlay, settled>>

Validate ==
  /\ pc = "validate"
  /\ \/ UpdateState([obj EXCEPT !.inner = TRUE], "template-validated", "report")
     \/ Fails("retrying")
  /\ UNCHANGED <<kube, cache, argo, overlay, settled>>

(* CreatePatchDir clones, regenerates the directory, commits and pushes.   *)
(* When the directory is already there with the same content, its files    *)
(* count as changed, but the commit of a tree that is no different is      *)
(* refused.                                                                *)
CreateOverride ==
  /\ pc = "override"
  /\ \/ /\ ~overlay[cur]
        /\ overlay' = [overlay EXCEPT ![cur] = TRUE]
        /\ \/ UpdateState([obj EXCEPT !.ovDone = TRUE], "override-created", "report")
           \/ Fails("retrying")
     \/ /\ overlay[cur]
        /\ UpdateState(obj, "retrying", "reportRetry")
        /\ UNCHANGED overlay
     \/ /\ Fails("retrying")
        /\ UNCHANGED overlay
  /\ UNCHANGED <<kube, cache, argo, settled>>

GetKapp ==
  /\ pc = "getKapp"
  /\ \/ kapp[cur] # "absent" /\ Goto("getApp")
     \/ kapp[cur] = "absent" /\ Goto("checkName")
     \/ Fails("retrying")
  /\ UNCHANGED <<kube, cache, argo, overlay, settled>>

(* cluster.Create first refuses when an application bears the cluster's    *)
(* name: for a gen2 cluster, the cluster app.                              *)
CheckName ==
  /\ pc = "checkName"
  /\ \/ app[cur] = "absent" /\ Goto("createKapp")
     \/ app[cur] # "absent" /\ UpdateState(obj, "retrying", "reportRetry")
     \/ Fails("retrying")
  /\ UNCHANGED <<kube, cache, argo, overlay, settled>>

CreateKapp ==
  /\ pc = "createKapp"
  /\ \/ /\ kapp' = [kapp EXCEPT ![cur] = "live"]
        /\ Goto("getApp") \/ Fails("retrying")
     \/ /\ Fails("retrying")
        /\ UNCHANGED kapp
  /\ UNCHANGED <<kube, cache, app, appAnn, overlay, settled>>

(* With annotation maps abstracted to the profiles annotation and NilMap,  *)
(* the two conditions for a sync say that the two sides differ.            *)
GetApp ==
  /\ pc = "getApp"
  /\ \/ app[cur] = "absent" /\ Goto("createApp")
     \/ /\ app[cur] # "absent"
        /\ appAnn[cur].prof # obj.ann
        /\ seen' = appAnn[cur]
        /\ pc' = "updateApp"
        /\ UNCHANGED <<cur, obj, fresh, queued>>
     \/ /\ app[cur] # "absent"
        /\ appAnn[cur].prof = obj.ann
        /\ \/ obj.state = "created" /\ Return(FALSE)
           \/ obj.state # "created" /\ UpdateState(obj, "created", "report")
     \/ Fails("retrying")
  /\ UNCHANGED <<kube, cache, argo, overlay, settled>>

CreateApp ==
  /\ pc = "createApp"
  /\ \/ /\ app' = [app EXCEPT ![cur] = "live"]
        /\ appAnn' = [appAnn EXCEPT ![cur] = [base |-> TRUE, prof |-> NoProfiles]]
        /\ UpdateState(obj, "created", "report") \/ Fails("retrying")
     \/ /\ Fails("retrying")
        /\ UNCHANGED <<app, appAnn>>
  /\ UNCHANGED <<kube, cache, kapp, overlay, settled>>

(* The annotations the sync writes: the worker's copy with the profiles    *)
(* annotation of the resource, or none at all if the resource has none.    *)
Synced(a, ann) == [base |-> ann # NilMap /\ a.base, prof |-> ann]

UpdateApp ==
  /\ pc = "updateApp"
  /\ \/ /\ app[cur] # "absent"
        /\ appAnn' = [appAnn EXCEPT ![cur] = Synced(seen, obj.ann)]
        /\ \/ obj.state = "created" /\ Return(FALSE)
           \/ obj.state # "created" /\ UpdateState(obj, "created", "report")
           \/ Fails("retrying")
     \/ /\ app[cur] = "absent" \/ ~settled
        /\ UpdateState(obj, "retrying", "reportRetry")
        /\ UNCHANGED appAnn
  /\ UNCHANGED <<kube, cache, app, kapp, overlay, settled>>

(* The status write of UpdateState: refused unless the worker's copy has   *)
(* the current resourceVersion.                                            *)
Report ==
  /\ pc \in {"report", "reportRetry"}
  /\ \/ /\ fresh
        /\ Write(cur, [cr[cur] EXCEPT !.inner = obj.inner, !.ovDone = obj.ovDone,
                                      !.state = obj.state])
        /\ \/ Return(pc = "reportRetry")
           \/ ~settled /\ Return(TRUE)
     \/ /\ fresh => ~settled
        /\ Return(TRUE)
        /\ UNCHANGED kube
  /\ UNCHANGED <<cache, argo, overlay, settled>>

-----------------------------------------------------------------------------
(* reconcileDelete *)

FindApp ==
  /\ pc = "findApp"
  /\ \/ /\ app[cur] # "absent"
        /\ obj.ovr /\ obj.ovDone
        /\ seen' = appAnn[cur]
        /\ pc' = "dropOverlay"
        /\ UNCHANGED <<cur, obj, fresh, queued>>
     \/ /\ ~(obj.ovr /\ obj.ovDone)
        /\ \/ app[cur] = "deleting" /\ Return(TRUE)
           \/ app[cur] = "live" /\ Goto("deleteApp")
     \/ app[cur] = "absent" /\ Goto("findKapp")
     \/ Fails("delete-retrying")
  /\ UNCHANGED <<kube, cache, argo, overlay, settled>>

(* DeleteOverridesDir reads the repository from the cluster app's          *)
(* annotations and requires the directory to be there.                     *)
DropOverlay ==
  /\ pc = "dropOverlay"
  /\ \/ /\ seen.base /\ overlay[cur]
        /\ overlay' = [overlay EXCEPT ![cur] = FALSE]
        /\ \/ UpdateState([obj EXCEPT !.ovDone = FALSE], "override-deleted", "report")
           \/ Fails("error-deleting-override")
     \/ /\ ~(seen.base /\ overlay[cur]) \/ ~settled
        /\ UpdateState(obj, "error-deleting-override", "reportRetry")
        /\ UNCHANGED overlay
  /\ UNCHANGED <<kube, cache, argo, settled>>

DeleteApp ==
  /\ pc = "deleteApp"
  /\ \/ /\ app[cur] # "absent"
        /\ app' = [app EXCEPT ![cur] = "deleting"]
        /\ \/ UpdateState(obj, "deleting-cluster-app", "report")
           \/ Fails("error-deleting-cluster-app")
     \/ /\ app[cur] = "absent" \/ ~settled
        /\ UpdateState(obj, "error-deleting-cluster-app", "reportRetry")
        /\ UNCHANGED app
  /\ UNCHANGED <<kube, cache, kapp, appAnn, overlay, settled>>

FindKapp ==
  /\ pc = "findKapp"
  /\ \/ kapp[cur] = "deleting" /\ Return(TRUE)
     \/ kapp[cur] = "live" /\ Goto("deleteKapp")
     \/ kapp[cur] = "absent" /\ Goto("removeFinalizer")
     \/ Fails("delete-retrying")
  /\ UNCHANGED <<kube, cache, argo, overlay, settled>>

DeleteKapp ==
  /\ pc = "deleteKapp"
  /\ \/ /\ kapp[cur] # "absent"
        /\ kapp' = [kapp EXCEPT ![cur] = "deleting"]
        /\ \/ UpdateState(obj, "deleting-kkarlon-app", "report")
           \/ Fails("error-deleting-kkarlon-app")
     \/ /\ kapp[cur] = "absent" \/ ~settled
        /\ UpdateState(obj, "error-deleting-kkarlon-app", "reportRetry")
        /\ UNCHANGED kapp
  /\ UNCHANGED <<kube, cache, app, appAnn, overlay, settled>>

(* Without its finalizer a resource marked for deletion is gone. *)
Unguarded(r) == IF r.deleting THEN Absent ELSE [r EXCEPT !.fin = FALSE]

RemoveFinalizer ==
  /\ pc = "removeFinalizer"
  /\ \/ /\ cr[cur].exists
        /\ Write(cur, Unguarded(cr[cur]))
        /\ Return(FALSE) \/ (~settled /\ Return(TRUE))
     \/ /\ cr[cur].exists => ~settled
        /\ Return(TRUE)
        /\ UNCHANGED kube
  /\ UNCHANGED <<cache, argo, overlay, settled>>

Reconcile ==
  \/ AddFinalizer \/ Validate \/ CreateOverride
  \/ GetKapp \/ CheckName \/ CreateKapp \/ GetApp \/ CreateApp \/ UpdateApp
  \/ Report
  \/ FindApp \/ DropOverlay \/ DeleteApp \/ FindKapp \/ DeleteKapp
  \/ RemoveFinalizer

-----------------------------------------------------------------------------
(* The informer, the process, ArgoCD and the users *)

(* The watch delivers the resource as it now is and queues it. *)
CacheSync(c) ==
  /\ ~cacheFresh[c]
  /\ cache' = [cache EXCEPT ![c] = cr[c]]
  /\ cacheFresh' = [cacheFresh EXCEPT ![c] = TRUE]
  /\ queued' = [queued EXCEPT ![c] = TRUE]
  /\ UNCHANGED <<cr, argo, overlay, worker, settled>>

(* The informer's periodic resync. *)
Resync(c) ==
  /\ cache[c].exists /\ ~queued[c]
  /\ queued' = [queued EXCEPT ![c] = TRUE]
  /\ UNCHANGED <<kube, cache, argo, overlay, worker, settled>>

(* The process dies and starts again: it lists every resource. *)
Restart ==
  /\ ~settled
  /\ cache' = cr
  /\ cacheFresh' = [c \in Clusters |-> TRUE]
  /\ queued' = [c \in Clusters |-> cr[c].exists]
  /\ pc' = "idle"
  /\ obj' = Absent
  /\ fresh' = FALSE
  /\ seen' = NoAnnotations
  /\ UNCHANGED <<cr, cur, argo, overlay, settled>>

(* A cascading deletion ends. *)
AppGone(c) ==
  /\ app[c] = "deleting"
  /\ app' = [app EXCEPT ![c] = "absent"]
  /\ appAnn' = [appAnn EXCEPT ![c] = NoAnnotations]
  /\ UNCHANGED <<kube, cache, queued, kapp, overlay, worker, settled>>

KappGone(c) ==
  /\ kapp[c] = "deleting"
  /\ kapp' = [kapp EXCEPT ![c] = "absent"]
  /\ UNCHANGED <<kube, cache, queued, app, appAnn, overlay, worker, settled>>

UserWrite(c, r) ==
  /\ ~settled
  /\ Write(c, r)
  /\ fresh' = (fresh /\ (c = cur => r = cr[c]))
  /\ UNCHANGED <<cache, queued, argo, overlay, pc, cur, obj, seen, settled>>

UserCreate(c) ==
  /\ ~cr[c].exists
  /\ \E o \in BOOLEAN, a \in Annotations : UserWrite(c, NewResource(o, a))

UserAnnotate(c) ==
  /\ cr[c].exists
  /\ \E a \in Annotations \ {cr[c].ann} : UserWrite(c, [cr[c] EXCEPT !.ann = a])

UserDelete(c) ==
  /\ cr[c].exists /\ ~cr[c].deleting
  /\ UserWrite(c, IF cr[c].fin THEN [cr[c] EXCEPT !.deleting = TRUE] ELSE Absent)

(* From here on nobody writes, nothing fails: what the liveness properties *)
(* wait for.                                                               *)
Settle ==
  /\ ~settled
  /\ settled' = TRUE
  /\ UNCHANGED <<kube, cache, queued, argo, overlay, worker>>

-----------------------------------------------------------------------------

Next ==
  \/ \E c \in Clusters :
       \/ Begin(c) \/ CacheSync(c) \/ Resync(c)
       \/ AppGone(c) \/ KappGone(c)
       \/ UserCreate(c) \/ UserAnnotate(c) \/ UserDelete(c)
  \/ Reconcile
  \/ Restart
  \/ Settle

Spec == Init /\ [][Next]_vars

(* The work queue hands out every item, the worker runs, watches deliver,  *)
(* ArgoCD finishes what it deletes.  Nothing is owed by Resync: progress   *)
(* must not wait for a resync ten hours away.                              *)
Fairness ==
  /\ \A c \in Clusters :
       SF_vars(Begin(c)) /\ WF_vars(CacheSync(c))
       /\ WF_vars(AppGone(c)) /\ WF_vars(KappGone(c))
  /\ WF_vars(Reconcile)
  /\ WF_vars(Settle)

FairSpec == Spec /\ Fairness

=============================================================================
