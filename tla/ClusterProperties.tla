-------------------------- MODULE ClusterProperties --------------------------
(* What ClusterController is checked for. *)
EXTENDS ClusterController

(* An application of a cluster exists only while its Cluster resource does *)
(* and holds the finalizer: no crash, stale cache or re-created resource   *)
(* leaves an application that no teardown will ever find.                  *)
NoOrphanApps ==
  \A c \in Clusters :
    app[c] # "absent" \/ kapp[c] # "absent" => cr[c].exists /\ cr[c].fin

(* The finalizer comes first: a resource without it bears no trace of a    *)
(* reconciliation, so that a pass over an earlier resource of the same     *)
(* name never writes its progress into a later one.                        *)
FinalizerFirst ==
  \A c \in Clusters :
    cr[c].exists /\ ~cr[c].fin =>
      ~cr[c].inner /\ ~cr[c].ovDone /\ cr[c].state \in {"", "retrying"}

(* While a cluster is wanted, the override directory its status records,   *)
(* or its cluster app points at, is in git.                                *)
OverrideRecordTrue ==
  \A c \in Clusters :
    cr[c].ovr /\ ~cr[c].deleting /\ (cr[c].ovDone \/ app[c] # "absent")
      => overlay[c]

(* "created" is not said too early, nor left standing too late: a wanted   *)
(* cluster in that state has both its applications.                        *)
CreatedMeansProvisioned ==
  \A c \in Clusters :
    cr[c].exists /\ ~cr[c].deleting /\ cr[c].state = "created"
      => app[c] = "live" /\ kapp[c] = "live"

(* The controller implements ClusterLifecycle: order of creation, order of *)
(* teardown, finalizer held as long as an application is left.             *)
OwnerOf(r) ==
  CASE ~r.exists                           -> "none"
    [] r.exists /\ ~r.fin                  -> "unguarded"
    [] r.exists /\ r.fin /\ ~r.deleting    -> "guarded"
    [] r.exists /\ r.fin /\ r.deleting     -> "doomed"

Owner == [c \in Clusters |-> OwnerOf(cr[c])]

Lifecycle == INSTANCE ClusterLifecycle WITH owner <- Owner

ImplementsLifecycle == Lifecycle!Spec

-----------------------------------------------------------------------------
(* Why the controller implements ClusterLifecycle: the inductive invariant *)

LiveGuarded(r) == r.exists /\ r.fin /\ ~r.deleting

BuildSteps ==
  { "validate", "override", "getKapp", "checkName", "createKapp", "getApp",
    "createApp", "updateApp" }

DeleteSteps ==
  { "findApp", "dropOverlay", "deleteApp", "findKapp", "deleteKapp",
    "removeFinalizer" }

(* However stale the cache: a resource it shows guarded and wanted is still *)
(* guarded, and one it shows doomed has not come back guarded.              *)
CacheTells ==
  \A c \in Clusters :
    /\ cr[c].deleting => cr[c].fin
    /\ cr[c].fin => cr[c].exists
    /\ LiveGuarded(cache[c]) => cr[c].fin
    /\ cache[c].deleting => ~LiveGuarded(cr[c])

(* ArgoCD is deleting an application only of a doomed resource, and the    *)
(* controller can no longer take that resource for a wanted one.           *)
DrainsDoomed ==
  \A c \in Clusters :
    app[c] = "deleting" \/ kapp[c] = "deleting"
      => cr[c].deleting /\ ~LiveGuarded(cache[c])

(* What the worker has found out on its way still holds. *)
WorkerKnows ==
  /\ pc = "addFinalizer" /\ cache[cur].deleting => cr[cur].deleting
  /\ pc \in BuildSteps =>
       cr[cur].fin /\ app[cur] # "deleting" /\ kapp[cur] # "deleting"
  /\ pc \in {"checkName", "createKapp"} => kapp[cur] = "absent"
  /\ pc = "createKapp" => app[cur] = "absent"
  /\ pc \in {"getApp", "createApp", "updateApp"} => kapp[cur] # "absent"
  /\ pc = "createApp" => app[cur] = "absent"
  /\ pc \in DeleteSteps => ~LiveGuarded(cr[cur]) /\ ~LiveGuarded(cache[cur])
  /\ pc \in {"findKapp", "deleteKapp", "removeFinalizer"} => app[cur] = "absent"
  /\ pc = "removeFinalizer" => kapp[cur] = "absent"

Inductive ==
  TypeOK /\ NoOrphanApps /\ CacheTells /\ DrainsDoomed /\ WorkerKnows

-----------------------------------------------------------------------------
(* Why the progress that the status records is true *)

(* A resource that has not been guarded yet bears no trace of a pass. *)
Untouched(r) ==
  r.exists /\ ~r.fin => ~r.inner /\ ~r.ovDone /\ r.state \in {"", "retrying"}

(* The status of a resource that is wanted says nothing of cluster c that  *)
(* is not so.                                                              *)
RecordsOverride(r, c) == r.ovr /\ r.ovDone => overlay[c]
RecordsApps(r, c) ==
  r.exists /\ r.state = "created" => app[c] = "live" /\ kapp[c] = "live"

SameResource(r, s) ==
  r.exists = s.exists /\ r.deleting = s.deleting /\ r.fin = s.fin /\ r.ovr = s.ovr

(* What the two copies of a resource, the informer's and the worker's, are *)
(* good for when they are current.                                         *)
CopiesAgree ==
  /\ \A c \in Clusters : cacheFresh[c] => cache[c] = cr[c]
  /\ pc = "idle" => ~fresh
  /\ fresh => SameResource(obj, cr[cur])

TracesGuarded ==
  /\ Untouched(obj)
  /\ \A c \in Clusters :
       /\ Untouched(cr[c]) /\ Untouched(cache[c])
       /\ cr[c].ovr => cr[c].exists
       /\ cache[c].deleting => cache[c].fin

RecordsTrue ==
  /\ OverrideRecordTrue /\ CreatedMeansProvisioned
  /\ fresh /\ ~obj.deleting => RecordsOverride(obj, cur) /\ RecordsApps(obj, cur)
  /\ \A c \in Clusters :
       LiveGuarded(cache[c]) => cache[c].ovr = cr[c].ovr /\ RecordsOverride(cache[c], c)

(* What the worker's copy says at its next call, current or not. *)
CopyKnows ==
  /\ pc \in BuildSteps =>
       LiveGuarded(obj) /\ obj.ovr = cr[cur].ovr /\ RecordsOverride(obj, cur)
  /\ pc \in BuildSteps \ {"validate", "override"} => (obj.ovr => obj.ovDone)
  /\ pc \in DeleteSteps => obj.fin /\ obj.deleting

Progress == CopiesAgree /\ TracesGuarded /\ RecordsTrue /\ CopyKnows

-----------------------------------------------------------------------------
(* Liveness, under FairSpec *)

Wanted(c) == cr[c].exists /\ ~cr[c].deleting

Provisioned(c) ==
  /\ app[c] = "live" /\ kapp[c] = "live"
  /\ appAnn[c].prof = cr[c].ann
  /\ cr[c].state = "created"

(* Once users and services settle, every cluster that is still wanted ends *)
(* up, and stays, with both applications, its profiles annotation copied   *)
(* to the cluster app and the state "created", without waiting for a       *)
(* resync.  (A cluster with an override may be stuck before: if the push   *)
(* of the override is not recorded, each retry has nothing to commit.)     *)
Converges ==
  \A c \in Clusters : <>[](Wanted(c) /\ ~cr[c].ovr => Provisioned(c))

(* The override can still be removed: if the status says it is there, so   *)
(* it is, and the cluster app remembers where.                             *)
Removable(c) ==
  cr[c].ovr /\ cr[c].ovDone /\ app[c] # "absent" => overlay[c] /\ appAnn[c].base

(* A deletion comes to its end whenever, with the system settled and the   *)
(* controller between two passes and up to date, the override can still be *)
(* removed.                                                                *)
TeardownCompletes ==
  \A c \in Clusters :
    settled /\ pc = "idle" /\ cacheFresh[c] /\ cr[c].deleting /\ Removable(c)
      ~> ~cr[c].exists

-----------------------------------------------------------------------------
(* What the documentation says and the code does not do *)

(* declarative_clusters.md: a teardown deletes the override directory if   *)
(* there is one, the cluster app, the kkarlon app -- and ends.             *)
TeardownEnds == \A c \in Clusters : cr[c].deleting ~> ~cr[c].exists

(* The sync copies the profiles annotation and leaves the others alone.    *)
BaseAnnotationsKept ==
  [][\A c \in Clusters :
       app[c] # "absent" /\ app'[c] # "absent" /\ appAnn[c].base
         => appAnn'[c].base]_vars

=============================================================================
