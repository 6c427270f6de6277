---------------------------- MODULE ClusterProofs ----------------------------
(* The Cluster controller implements ClusterLifecycle, and the progress it  *)
(* records is true, for every set of clusters and of annotation values.    *)
EXTENDS ClusterProperties, TLAPS

-----------------------------------------------------------------------------
(* Types *)

(* A resource somebody creates, and one that is not there, are resources. *)
LEMMA NewResourceType ==
  /\ \A o \in BOOLEAN, a \in Annotations : NewResource(o, a) \in Resource
  /\ Absent \in Resource
  BY DEF Resource, NewResource, Absent, Annotations, States

(* An application without annotations is typed. *)
LEMMA NoAnnotationsType == NoAnnotations \in AppAnnotations
  BY DEF NoAnnotations, AppAnnotations, Annotations

(* The variables that Goto, Return, UpdateState and Fails decide. *)
WorkerOK ==
  /\ queued \in [Clusters -> BOOLEAN]
  /\ pc \in Steps
  /\ cur \in Clusters
  /\ obj \in Resource
  /\ fresh \in BOOLEAN
  /\ seen \in AppAnnotations

(* Goto keeps the worker in its types. *)
LEMMA GotoType ==
  ASSUME NEW p \in Steps, WorkerOK, Goto(p)
  PROVE  WorkerOK'
  BY DEF WorkerOK, Goto

(* So does Return ... *)
LEMMA ReturnType ==
  ASSUME NEW again \in BOOLEAN, WorkerOK, Return(again)
  PROVE  WorkerOK'
  BY NewResourceType, NoAnnotationsType DEF WorkerOK, Return, Steps

(* ... UpdateState, for a state and a step there are ... *)
LEMMA UpdateStateType ==
  ASSUME NEW o \in Resource, NEW s \in States, NEW p \in Steps,
         WorkerOK, UpdateState(o, s, p)
  PROVE  WorkerOK'
  BY DEF WorkerOK, UpdateState, Resource

(* ... and Fails. *)
LEMMA FailsType ==
  ASSUME NEW s \in States, WorkerOK, Fails(s)
  PROVE  WorkerOK'
  BY UpdateStateType DEF WorkerOK, Fails, Steps

(* A write of a resource keeps the API server in its types. *)
LEMMA WriteType ==
  ASSUME NEW c \in Clusters, NEW r \in Resource,
         cr \in [Clusters -> Resource], cacheFresh \in [Clusters -> BOOLEAN],
         Write(c, r)
  PROVE  cr' \in [Clusters -> Resource] /\ cacheFresh' \in [Clusters -> BOOLEAN]
  BY DEF Write

(* The steps of a pass keep the worker's variables in their types. *)
LEMMA WorkerType ==
  ASSUME TypeOK, Reconcile
  PROVE  WorkerOK'
<1>1. WorkerOK
  BY DEF TypeOK, WorkerOK
<1> USE <1>1, GotoType, ReturnType, UpdateStateType, FailsType DEF Steps, States
<1>2. CASE AddFinalizer
  BY <1>2 DEF AddFinalizer
<1>3. CASE Validate
  <2>1. [obj EXCEPT !.inner = TRUE] \in Resource
    BY DEF WorkerOK, Resource
  <2> QED
    BY <1>3, <2>1 DEF Validate
<1>4. CASE CreateOverride
  <2>1. obj \in Resource /\ [obj EXCEPT !.ovDone = TRUE] \in Resource
    BY DEF WorkerOK, Resource
  <2> QED
    BY <1>4, <2>1 DEF CreateOverride
<1>5. CASE GetKapp
  BY <1>5 DEF GetKapp
<1>6. CASE CheckName
  BY <1>6 DEF CheckName, WorkerOK
<1>7. CASE CreateKapp
  BY <1>7 DEF CreateKapp
<1>8. CASE GetApp
  <2>1. CASE /\ seen' = appAnn[cur]
             /\ pc' = "updateApp"
             /\ UNCHANGED <<cur, obj, fresh, queued>>
    BY <2>1 DEF TypeOK, WorkerOK
  <2> QED
    BY <1>8, <2>1 DEF GetApp, WorkerOK
<1>9. CASE CreateApp
  BY <1>9 DEF CreateApp, WorkerOK
<1>10. CASE UpdateApp
  BY <1>10 DEF UpdateApp, WorkerOK
<1>11. CASE Report
  BY <1>11 DEF Report
<1>12. CASE FindApp
  <2>1. CASE /\ seen' = appAnn[cur]
             /\ pc' = "dropOverlay"
             /\ UNCHANGED <<cur, obj, fresh, queued>>
    BY <2>1 DEF TypeOK, WorkerOK
  <2> QED
    BY <1>12, <2>1 DEF FindApp
<1>13. CASE DropOverlay
  <2>1. obj \in Resource /\ [obj EXCEPT !.ovDone = FALSE] \in Resource
    BY DEF WorkerOK, Resource
  <2> QED
    BY <1>13, <2>1 DEF DropOverlay
<1>14. CASE DeleteApp
  BY <1>14 DEF DeleteApp, WorkerOK
<1>15. CASE FindKapp
  BY <1>15 DEF FindKapp
<1>16. CASE DeleteKapp
  BY <1>16 DEF DeleteKapp, WorkerOK
<1>17. CASE RemoveFinalizer
  BY <1>17 DEF RemoveFinalizer
<1> QED
  BY <1>2, <1>3, <1>4, <1>5, <1>6, <1>7, <1>8, <1>9, <1>10, <1>11, <1>12,
     <1>13, <1>14, <1>15, <1>16, <1>17 DEF Reconcile

(* The steps of a pass keep everything else in its type. *)
LEMMA OutsideType ==
  ASSUME TypeOK, Reconcile
  PROVE  /\ cr' \in [Clusters -> Resource]
         /\ cacheFresh' \in [Clusters -> BOOLEAN]
         /\ app' \in [Clusters -> AppStates]
         /\ kapp' \in [Clusters -> AppStates]
         /\ appAnn' \in [Clusters -> AppAnnotations]
         /\ overlay' \in [Clusters -> BOOLEAN]
         /\ UNCHANGED <<cache, settled>>
<1> USE DEF TypeOK, kube, argo, AppStates
<1>1. cr[cur] \in Resource /\ obj \in Resource
  OBVIOUS
<1>2. CASE AddFinalizer
  <2>1. [cr[cur] EXCEPT !.fin = TRUE] \in Resource
    BY <1>1 DEF Resource
  <2> QED
    BY <1>2, <2>1, WriteType DEF AddFinalizer
<1>3. CASE Report
  <2>1. [cr[cur] EXCEPT !.inner = obj.inner, !.ovDone = obj.ovDone,
                        !.state = obj.state] \in Resource
    BY <1>1 DEF Resource
  <2> QED
    BY <1>3, <2>1, WriteType DEF Report
<1>4. CASE RemoveFinalizer
  <2>1. Unguarded(cr[cur]) \in Resource
    BY <1>1, NewResourceType DEF Resource, Unguarded
  <2> QED
    BY <1>4, <2>1, WriteType DEF RemoveFinalizer
<1>5. CASE CreateKapp
  BY <1>5 DEF CreateKapp
<1>6. CASE CreateApp
  <2>1. [base |-> TRUE, prof |-> NoProfiles] \in AppAnnotations
    BY DEF AppAnnotations, Annotations
  <2> QED
    BY <1>6, <2>1 DEF CreateApp
<1>7. CASE UpdateApp
  <2>1. Synced(seen, obj.ann) \in AppAnnotations
    BY <1>1 DEF Synced, AppAnnotations, Resource
  <2> QED
    BY <1>7, <2>1 DEF UpdateApp
<1>8. CASE DeleteApp
  BY <1>8 DEF DeleteApp
<1>9. CASE DeleteKapp
  BY <1>9 DEF DeleteKapp
<1>10. CASE CreateOverride
  BY <1>10 DEF CreateOverride
<1>11. CASE DropOverlay
  BY <1>11 DEF DropOverlay
<1>12. CASE Validate \/ GetKapp \/ CheckName \/ GetApp \/ FindApp \/ FindKapp
  BY <1>12 DEF Validate, GetKapp, CheckName, GetApp, FindApp, FindKapp
<1> QED
  BY <1>2, <1>3, <1>4, <1>5, <1>6, <1>7, <1>8, <1>9, <1>10, <1>11, <1>12
     DEF Reconcile

(* So do the steps of users, informer, process and ArgoCD. *)
LEMMA EnvironmentType ==
  ASSUME TypeOK, NEW c \in Clusters,
         \/ Begin(c) \/ CacheSync(c) \/ Resync(c)
         \/ AppGone(c) \/ KappGone(c)
         \/ UserCreate(c) \/ UserAnnotate(c) \/ UserDelete(c)
  PROVE  TypeOK'
<1> USE DEF TypeOK, kube, argo, worker
<1>1. cr[c] \in Resource /\ cache[c] \in Resource
  OBVIOUS
<1>2. CASE Begin(c)
  <2>1. [cache[c] EXCEPT !.state = "retrying"] \in Resource
    BY <1>1 DEF Resource, States
  <2> QED
    BY <1>2, <2>1, <1>1 DEF Begin, FirstStep, Steps
<1>3. CASE CacheSync(c) \/ Resync(c)
  BY <1>3 DEF CacheSync, Resync
<1>4. CASE AppGone(c) \/ KappGone(c)
  BY <1>4, NoAnnotationsType DEF AppGone, KappGone, AppStates
<1>5. ASSUME NEW r \in Resource, UserWrite(c, r)
      PROVE  TypeOK'
  BY <1>5, WriteType DEF UserWrite
<1>6. CASE UserCreate(c)
  BY <1>5, <1>6, NewResourceType DEF UserCreate
<1>7. CASE UserAnnotate(c)
  <2>1. \A a \in Annotations : [cr[c] EXCEPT !.ann = a] \in Resource
    BY <1>1 DEF Resource
  <2> QED
    BY <1>5, <1>7, <2>1 DEF UserAnnotate
<1>8. CASE UserDelete(c)
  <2>1. [cr[c] EXCEPT !.deleting = TRUE] \in Resource
    BY <1>1 DEF Resource
  <2> QED
    BY <1>5, <1>8, <2>1, NewResourceType DEF UserDelete
<1> QED
  BY <1>2, <1>3, <1>4, <1>6, <1>7, <1>8

(* Every step keeps every variable in its type. *)
LEMMA TypeStep ==
  ASSUME TypeOK, [Next]_vars
  PROVE  TypeOK'
<1>1. CASE Reconcile
  BY <1>1, WorkerType, OutsideType DEF TypeOK, WorkerOK
<1>2. CASE Restart
  <2>1. \A c \in Clusters : cr[c].exists \in BOOLEAN
    BY DEF TypeOK, Resource
  <2> QED
    BY <1>2, <2>1, NewResourceType, NoAnnotationsType
       DEF Restart, TypeOK, argo, Steps
<1>3. CASE Settle
  BY <1>3 DEF Settle, TypeOK, kube, argo, worker
<1>4. CASE UNCHANGED vars
  BY <1>4 DEF vars, TypeOK
<1>5. ASSUME NEW c \in Clusters,
             \/ Begin(c) \/ CacheSync(c) \/ Resync(c)
             \/ AppGone(c) \/ KappGone(c)
             \/ UserCreate(c) \/ UserAnnotate(c) \/ UserDelete(c)
      PROVE  TypeOK'
  BY <1>5, EnvironmentType
<1> QED
  BY <1>1, <1>2, <1>3, <1>4, <1>5 DEF Next

(* The variables start in their types. *)
LEMMA TypeInit == Init => TypeOK
<1> SUFFICES ASSUME Init PROVE TypeOK
  OBVIOUS
<1>1. /\ cr \in [Clusters -> Resource] /\ cache \in [Clusters -> Resource]
      /\ obj \in Resource
  BY NewResourceType DEF Init
<1>2. /\ appAnn \in [Clusters -> AppAnnotations]
      /\ seen \in AppAnnotations
  BY NoAnnotationsType DEF Init
<1>3. /\ app \in [Clusters -> AppStates] /\ kapp \in [Clusters -> AppStates]
      /\ pc \in Steps /\ cur \in Clusters
  BY DEF Init, AppStates, Steps
<1>4. /\ cacheFresh \in [Clusters -> BOOLEAN]
      /\ queued \in [Clusters -> BOOLEAN]
      /\ overlay \in [Clusters -> BOOLEAN]
      /\ fresh \in BOOLEAN /\ settled \in BOOLEAN
  BY DEF Init
<1> QED
  BY <1>1, <1>2, <1>3, <1>4 DEF TypeOK

(* Every variable keeps its type. *)
THEOREM TypeCorrect == Spec => []TypeOK
<1> QED
  BY TypeInit, TypeStep, PTL DEF Spec

-----------------------------------------------------------------------------
(* The inductive invariant *)

(* The fields that decide who owns the applications. *)
SameFlags(r, s) == r.exists = s.exists /\ r.fin = s.fin /\ r.deleting = s.deleting

(* Writing status, finalizer or annotations leaves the other flags alone. *)
LEMMA FlagEdits ==
  ASSUME NEW r \in Resource
  PROVE  /\ \A a \in Annotations : SameFlags([r EXCEPT !.ann = a], r)
         /\ \A i \in BOOLEAN, d \in BOOLEAN, s \in States :
              SameFlags([r EXCEPT !.inner = i, !.ovDone = d, !.state = s], r)
         /\ [r EXCEPT !.fin = TRUE].exists = r.exists
         /\ [r EXCEPT !.fin = TRUE].fin = TRUE
         /\ [r EXCEPT !.fin = TRUE].deleting = r.deleting
         /\ [r EXCEPT !.fin = FALSE].exists = r.exists
         /\ [r EXCEPT !.fin = FALSE].fin = FALSE
         /\ [r EXCEPT !.fin = FALSE].deleting = r.deleting
         /\ [r EXCEPT !.deleting = TRUE].exists = r.exists
         /\ [r EXCEPT !.deleting = TRUE].fin = r.fin
         /\ [r EXCEPT !.deleting = TRUE].deleting = TRUE
  BY DEF Resource, SameFlags

(* The flags of a new resource and of an absent one. *)
LEMMA NewFlags ==
  /\ ~Absent.exists /\ ~Absent.fin /\ ~Absent.deleting
  /\ \A o, a : LET r == NewResource(o, a)
              IN  r.exists /\ ~r.fin /\ ~r.deleting
  BY DEF Absent, NewResource

Owns == NoOrphanApps /\ CacheTells /\ DrainsDoomed

(* The calls that only look, at ArgoCD, at git or at the template. *)
LEMMA LookStep ==
  ASSUME TypeOK, Owns, WorkerKnows,
         \/ Validate \/ CreateOverride \/ GetKapp \/ CheckName \/ GetApp
         \/ UpdateApp \/ FindApp \/ DropOverlay \/ FindKapp
  PROVE  Owns' /\ WorkerKnows'
<1>1. UNCHANGED <<cr, cache, app, kapp, cur>>
  BY DEF Validate, CreateOverride, GetKapp, CheckName, GetApp, UpdateApp,
         FindApp, DropOverlay, FindKapp, UpdateState, Goto, Return, Fails,
         kube, argo
<1>2. Owns'
  BY <1>1 DEF Owns, NoOrphanApps, CacheTells, DrainsDoomed, LiveGuarded
<1>3. ASSUME pc' \in {"idle", "report", "reportRetry"}
      PROVE  WorkerKnows'
  BY <1>3 DEF WorkerKnows, BuildSteps, DeleteSteps
<1>4. CASE Validate \/ CreateOverride \/ DropOverlay
  BY <1>2, <1>3, <1>4 DEF Validate, CreateOverride, DropOverlay, UpdateState, Fails
<1>5. CASE UpdateApp
  BY <1>2, <1>3, <1>5 DEF UpdateApp, UpdateState, Fails, Return
<1>6. CASE GetKapp
  BY <1>1, <1>2, <1>3, <1>6 DEF GetKapp, UpdateState, Fails, Goto, WorkerKnows, BuildSteps,
     DeleteSteps
<1>7. CASE CheckName
  BY <1>1, <1>2, <1>3, <1>7 DEF CheckName, UpdateState, Fails, Goto, WorkerKnows, BuildSteps,
     DeleteSteps
<1>8. CASE GetApp
  BY <1>1, <1>2, <1>3, <1>8 DEF GetApp, UpdateState, Fails, Goto, Return, WorkerKnows,
     BuildSteps, DeleteSteps
<1>9. CASE FindApp
  BY <1>1, <1>2, <1>3, <1>9 DEF FindApp, UpdateState, Fails, Goto, Return, WorkerKnows,
     BuildSteps, DeleteSteps, LiveGuarded
<1>10. CASE FindKapp
  BY <1>1, <1>2, <1>3, <1>10 DEF FindKapp, UpdateState, Fails, Goto, Return, WorkerKnows,
     BuildSteps, DeleteSteps, LiveGuarded
<1> QED
  BY <1>2, <1>4, <1>5, <1>6, <1>7, <1>8, <1>9, <1>10

(* The calls that create or delete an application. *)
LEMMA ArgoStep ==
  ASSUME TypeOK, Owns, WorkerKnows,
         CreateKapp \/ CreateApp \/ DeleteApp \/ DeleteKapp
  PROVE  Owns' /\ WorkerKnows'
<1>1. UNCHANGED <<cr, cache, cur>>
  BY DEF CreateKapp, CreateApp, DeleteApp, DeleteKapp, UpdateState, Goto, Fails, kube
<1>2. cr[cur].fin => cr[cur].exists
  BY DEF TypeOK, Owns, CacheTells
<1>3. CASE CreateKapp
  <2>1. /\ UNCHANGED app
        /\ \A c \in Clusters : kapp'[c] # kapp[c] => c = cur /\ kapp'[c] = "live"
        /\ pc' = "reportRetry" \/ (pc' = "getApp" /\ kapp'[cur] = "live")
    BY <1>3 DEF CreateKapp, UpdateState, Goto, Fails, TypeOK
  <2>2. cr[cur].fin
    BY <1>3 DEF CreateKapp, WorkerKnows, BuildSteps
  <2>3. Owns'
    BY <1>1, <1>2, <2>1, <2>2
       DEF Owns, NoOrphanApps, CacheTells, DrainsDoomed, LiveGuarded
  <2>4. app[cur] # "deleting"
    BY <1>3 DEF CreateKapp, WorkerKnows, BuildSteps
  <2>5. WorkerKnows'
    BY <1>1, <2>1, <2>2, <2>4 DEF WorkerKnows, BuildSteps, DeleteSteps
  <2> QED
    BY <2>3, <2>5
<1>4. CASE CreateApp
  <2>1. /\ UNCHANGED kapp
        /\ \A c \in Clusters : app'[c] # app[c] => c = cur /\ app'[c] = "live"
        /\ pc' \in {"report", "reportRetry"}
    BY <1>4 DEF CreateApp, UpdateState, Fails, TypeOK
  <2>2. cr[cur].fin
    BY <1>4 DEF CreateApp, WorkerKnows, BuildSteps
  <2>3. Owns'
    BY <1>1, <1>2, <2>1, <2>2
       DEF Owns, NoOrphanApps, CacheTells, DrainsDoomed, LiveGuarded
  <2>4. WorkerKnows'
    BY <2>1 DEF WorkerKnows, BuildSteps, DeleteSteps
  <2> QED
    BY <2>3, <2>4
<1>5. CASE DeleteApp \/ DeleteKapp
  <2>1. /\ \A c \in Clusters : app'[c] # app[c] =>
             c = cur /\ app'[c] = "deleting" /\ app[c] # "absent"
        /\ \A c \in Clusters : kapp'[c] # kapp[c] =>
             c = cur /\ kapp'[c] = "deleting" /\ kapp[c] # "absent"
        /\ pc' \in {"report", "reportRetry"}
    BY <1>5 DEF DeleteApp, DeleteKapp, UpdateState, Fails, TypeOK
  <2>2. ~LiveGuarded(cr[cur]) /\ ~LiveGuarded(cache[cur])
    BY <1>5 DEF DeleteApp, DeleteKapp, WorkerKnows, DeleteSteps
  <2>3. Owns'
    BY <1>1, <1>2, <2>1, <2>2
       DEF Owns, NoOrphanApps, CacheTells, DrainsDoomed, LiveGuarded
  <2>4. WorkerKnows'
    BY <2>1 DEF WorkerKnows, BuildSteps, DeleteSteps
  <2> QED
    BY <2>3, <2>4
<1> QED
  BY <1>3, <1>4, <1>5

(* The writes of a pass to the resource. *)
LEMMA ResourceStep ==
  ASSUME TypeOK, Owns, WorkerKnows, AddFinalizer \/ Report \/ RemoveFinalizer
  PROVE  Owns' /\ WorkerKnows'
<1>1. UNCHANGED <<cache, app, kapp, cur>> /\ pc' = "idle"
  BY DEF AddFinalizer, Report, RemoveFinalizer, Return, argo
<1>2. WorkerKnows'
  BY <1>1 DEF WorkerKnows, BuildSteps, DeleteSteps
<1>3. cr[cur] \in Resource /\ cur \in Clusters /\ obj \in Resource
  BY DEF TypeOK
<1>4. CASE UNCHANGED cr
  BY <1>1, <1>2, <1>4
     DEF Owns, NoOrphanApps, CacheTells, DrainsDoomed, LiveGuarded
<1>5. ASSUME NEW r, cr' = [cr EXCEPT ![cur] = r]
      PROVE  cr'[cur] = r /\ \A c \in Clusters \ {cur} : cr'[c] = cr[c]
  BY <1>5, <1>3 DEF TypeOK
<1>6. CASE AddFinalizer
  <2>1. CASE cr[cur].exists /\ cr' = [cr EXCEPT ![cur] = [cr[cur] EXCEPT !.fin = TRUE]]
    <3>1. /\ cr'[cur].exists /\ cr'[cur].fin
          /\ cr'[cur].deleting = cr[cur].deleting
          /\ \A c \in Clusters \ {cur} : cr'[c] = cr[c]
      <4> DEFINE r == [cr[cur] EXCEPT !.fin = TRUE]
      <4>1. r.exists = cr[cur].exists /\ r.fin /\ r.deleting = cr[cur].deleting
        BY <1>3, FlagEdits
      <4>2. cr' = [cr EXCEPT ![cur] = r]
        BY <2>1
      <4> HIDE DEF r
      <4> QED
        BY <2>1, <4>1, <4>2, <1>5
    <3>2. cache[cur].deleting => cr[cur].deleting
      BY <1>6 DEF AddFinalizer, WorkerKnows
    <3>3. Owns'
      BY <1>1, <3>1, <3>2
         DEF Owns, NoOrphanApps, CacheTells, DrainsDoomed, LiveGuarded
    <3> QED
      BY <3>3, <1>2
  <2> QED
    BY <1>4, <1>6, <2>1 DEF AddFinalizer, Write, kube
<1>7. CASE Report
  <2>1. CASE cr' = [cr EXCEPT ![cur] = [cr[cur] EXCEPT !.inner = obj.inner,
                              !.ovDone = obj.ovDone, !.state = obj.state]]
    <3>1. obj.inner \in BOOLEAN /\ obj.ovDone \in BOOLEAN /\ obj.state \in States
      BY <1>3 DEF Resource
    <3>2. /\ SameFlags(cr'[cur], cr[cur])
          /\ \A c \in Clusters \ {cur} : cr'[c] = cr[c]
      <4> DEFINE r == [cr[cur] EXCEPT !.inner = obj.inner,
                              !.ovDone = obj.ovDone, !.state = obj.state]
      <4>1. SameFlags(r, cr[cur])
        BY <1>3, <3>1, FlagEdits
      <4>2. cr' = [cr EXCEPT ![cur] = r]
        BY <2>1
      <4> HIDE DEF r
      <4> QED
        BY <4>1, <4>2, <1>5
    <3>3. Owns'
      BY <1>1, <3>2
         DEF Owns, NoOrphanApps, CacheTells, DrainsDoomed, LiveGuarded, SameFlags
    <3> QED
      BY <3>3, <1>2
  <2> QED
    BY <1>4, <1>7, <2>1 DEF Report, Write, kube
<1>8. CASE RemoveFinalizer
  <2>1. CASE cr[cur].exists /\ cr' = [cr EXCEPT ![cur] = Unguarded(cr[cur])]
    <3>1. /\ ~cr'[cur].fin /\ ~cr'[cur].deleting
          /\ \A c \in Clusters \ {cur} : cr'[c] = cr[c]
      <4>1. ~Unguarded(cr[cur]).fin /\ ~Unguarded(cr[cur]).deleting
        <5>1. CASE cr[cur].deleting
          BY <5>1, NewFlags DEF Unguarded
        <5>2. CASE ~cr[cur].deleting
          BY <5>2, <1>3, FlagEdits DEF Unguarded
        <5> QED
          BY <5>1, <5>2
      <4> QED
        BY <2>1, <4>1, <1>5
    <3>2. /\ app[cur] = "absent" /\ kapp[cur] = "absent"
          /\ ~LiveGuarded(cache[cur])
      BY <1>8 DEF RemoveFinalizer, WorkerKnows, DeleteSteps
    <3>3. Owns'
      BY <1>1, <3>1, <3>2
         DEF Owns, NoOrphanApps, CacheTells, DrainsDoomed, LiveGuarded
    <3> QED
      BY <3>3, <1>2
  <2> QED
    BY <1>4, <1>8, <2>1 DEF RemoveFinalizer, Write, kube
<1> QED
  BY <1>6, <1>7, <1>8

(* A pass begins with what the cache tells. *)
LEMMA BeginStep ==
  ASSUME TypeOK, Owns, WorkerKnows, NEW c \in Clusters, Begin(c)
  PROVE  Owns' /\ WorkerKnows'
<1>1. UNCHANGED <<cr, cache, app, kapp>>
  BY DEF Begin, kube, argo
<1>2. Owns'
  BY <1>1 DEF Owns, NoOrphanApps, CacheTells, DrainsDoomed, LiveGuarded
<1>3. CASE pc' \in {"idle", "reportRetry"}
  BY <1>2, <1>3 DEF WorkerKnows, BuildSteps, DeleteSteps
<1>4. CASE cache[c].exists /\ cur' = c /\ pc' = FirstStep(cache[c])
  <2>1. CASE cache[c].deleting
    <3>1. pc' = "findApp"
      BY <1>4, <2>1 DEF FirstStep
    <3>2. ~LiveGuarded(cr[c]) /\ ~LiveGuarded(cache[c])
      BY <2>1 DEF Owns, CacheTells, LiveGuarded
    <3> QED
      BY <1>1, <1>2, <1>4, <3>1, <3>2
         DEF WorkerKnows, BuildSteps, DeleteSteps, LiveGuarded
  <2>2. CASE ~cache[c].deleting /\ ~cache[c].fin
    <3>1. pc' = "addFinalizer"
      BY <1>4, <2>2 DEF FirstStep
    <3> QED
      BY <1>1, <1>2, <1>4, <2>2, <3>1 DEF WorkerKnows, BuildSteps, DeleteSteps
  <2>3. CASE ~cache[c].deleting /\ cache[c].fin
    <3>1. pc' \in {"validate", "override", "getKapp"}
      BY <1>4, <2>3 DEF FirstStep
    <3>2. LiveGuarded(cache[c])
      BY <1>4, <2>3 DEF LiveGuarded
    <3>3. cr[c].fin /\ app[c] # "deleting" /\ kapp[c] # "deleting"
      BY <3>2 DEF Owns, CacheTells, DrainsDoomed
    <3> QED
      BY <1>1, <1>2, <1>4, <3>1, <3>3 DEF WorkerKnows, BuildSteps, DeleteSteps
  <2>4. cache[c].deleting \in BOOLEAN /\ cache[c].fin \in BOOLEAN
    BY DEF TypeOK, Resource
  <2> QED
    BY <2>1, <2>2, <2>3, <2>4
<1> QED
  BY <1>3, <1>4 DEF Begin, worker

(* Informer, process and ArgoCD. *)
LEMMA OutsideStep ==
  ASSUME TypeOK, Owns, WorkerKnows,
         \/ \E c \in Clusters : CacheSync(c) \/ Resync(c) \/ AppGone(c) \/ KappGone(c)
         \/ Restart \/ Settle \/ UNCHANGED vars
  PROVE  Owns' /\ WorkerKnows'
<1>1. CASE \E c \in Clusters : CacheSync(c)
  <2>1. PICK c \in Clusters : CacheSync(c)
    BY <1>1
  <2>2. /\ UNCHANGED <<cr, app, kapp, pc, cur>>
        /\ cache'[c] = cr[c] /\ \A d \in Clusters \ {c} : cache'[d] = cache[d]
    BY <2>1 DEF CacheSync, argo, worker, TypeOK
  <2>3. Owns'
    BY <2>2 DEF Owns, NoOrphanApps, CacheTells, DrainsDoomed, LiveGuarded
  <2>4. cur \in Clusters
    BY DEF TypeOK
  <2>5. WorkerKnows'
    BY <2>2, <2>4 DEF WorkerKnows, LiveGuarded
  <2> QED
    BY <2>3, <2>5
<1>2. CASE \E c \in Clusters : Resync(c)
  <2>1. UNCHANGED <<cr, cache, app, kapp, pc, cur>>
    BY <1>2 DEF Resync, kube, argo, worker
  <2> QED
    BY <2>1 DEF Owns, NoOrphanApps, CacheTells, DrainsDoomed, LiveGuarded, WorkerKnows
<1>3. CASE \E c \in Clusters : AppGone(c) \/ KappGone(c)
  <2>1. /\ UNCHANGED <<cr, cache, pc, cur>>
        /\ \A c \in Clusters :
             /\ app'[c] = app[c] \/ (app[c] = "deleting" /\ app'[c] = "absent")
             /\ kapp'[c] = kapp[c] \/ (kapp[c] = "deleting" /\ kapp'[c] = "absent")
    BY <1>3 DEF AppGone, KappGone, kube, worker, TypeOK
  <2>2. Owns'
    BY <2>1 DEF Owns, NoOrphanApps, CacheTells, DrainsDoomed, LiveGuarded
  <2>3. cur \in Clusters
    BY DEF TypeOK
  <2>4. WorkerKnows'
    BY <2>1, <2>3 DEF WorkerKnows, LiveGuarded, BuildSteps
  <2> QED
    BY <2>2, <2>4
<1>4. CASE Restart
  <2>1. UNCHANGED <<cr, app, kapp, cur>> /\ cache' = cr /\ pc' = "idle"
    BY <1>4 DEF Restart, argo
  <2>2. Owns'
    BY <2>1 DEF Owns, NoOrphanApps, CacheTells, DrainsDoomed, LiveGuarded
  <2>3. WorkerKnows'
    BY <2>1 DEF WorkerKnows, BuildSteps, DeleteSteps
  <2> QED
    BY <2>2, <2>3
<1>5. CASE Settle \/ UNCHANGED vars
  <2>1. UNCHANGED <<cr, cache, app, kapp, pc, cur>>
    BY <1>5 DEF Settle, vars, kube, argo, worker
  <2> QED
    BY <2>1 DEF Owns, NoOrphanApps, CacheTells, DrainsDoomed, LiveGuarded, WorkerKnows
<1> QED
  BY <1>1, <1>2, <1>3, <1>4, <1>5

(* How a user's write may change the flags of a resource. *)
UserEdit(r, s) ==
  \/ ~r.exists /\ s.exists /\ ~s.fin /\ ~s.deleting
  \/ SameFlags(s, r)
  \/ r.fin /\ ~r.deleting /\ s.exists = r.exists /\ s.fin /\ s.deleting
  \/ ~r.fin /\ ~r.deleting /\ ~s.exists /\ ~s.fin /\ ~s.deleting

(* What a user can do to a resource is one of UserEdit. *)
LEMMA UserEdits ==
  ASSUME TypeOK, NEW c \in Clusters,
         UserCreate(c) \/ UserAnnotate(c) \/ UserDelete(c)
  PROVE  /\ UNCHANGED <<cache, app, kapp, pc, cur>>
         /\ UserEdit(cr[c], cr'[c])
         /\ \A d \in Clusters \ {c} : cr'[d] = cr[d]
<1>1. cr[c] \in Resource
  BY DEF TypeOK
<1>2. ASSUME NEW r, UserWrite(c, r)
      PROVE  /\ UNCHANGED <<cache, app, kapp, pc, cur>>
             /\ cr'[c] = r
             /\ \A d \in Clusters \ {c} : cr'[d] = cr[d]
  BY <1>2 DEF UserWrite, Write, argo, TypeOK
<1>3. CASE UserCreate(c)
  BY <1>2, <1>3, NewFlags DEF UserCreate, UserEdit
<1>4. CASE UserAnnotate(c)
  <2>1. PICK a \in Annotations : UserWrite(c, [cr[c] EXCEPT !.ann = a])
    BY <1>4 DEF UserAnnotate
  <2> DEFINE r == [cr[c] EXCEPT !.ann = a]
  <2>2. SameFlags(r, cr[c]) /\ UserWrite(c, r)
    BY <1>1, <2>1, FlagEdits
  <2> HIDE DEF r
  <2> QED
    BY <1>2, <2>2 DEF UserEdit
<1>5. CASE UserDelete(c)
  <2>1. CASE cr[c].fin
    <3> DEFINE r == [cr[c] EXCEPT !.deleting = TRUE]
    <3>1. r.exists = cr[c].exists /\ r.fin = cr[c].fin /\ r.deleting
      BY <1>1, FlagEdits
    <3>2. UserWrite(c, r) /\ ~cr[c].deleting
      BY <1>5, <2>1 DEF UserDelete
    <3> HIDE DEF r
    <3> QED
      BY <1>2, <2>1, <3>1, <3>2 DEF UserEdit
  <2>2. CASE ~cr[c].fin
    BY <1>2, <1>5, <2>2, NewFlags DEF UserDelete, UserEdit
  <2> QED
    BY <2>1, <2>2
<1> QED
  BY <1>3, <1>4, <1>5

(* No user breaks what the worker has found out. *)
LEMMA UserStep ==
  ASSUME TypeOK, Owns, WorkerKnows, NEW c \in Clusters,
         UserCreate(c) \/ UserAnnotate(c) \/ UserDelete(c)
  PROVE  Owns' /\ WorkerKnows'
<1>1. /\ UNCHANGED <<cache, app, kapp, pc, cur>>
      /\ UserEdit(cr[c], cr'[c])
      /\ \A d \in Clusters \ {c} : cr'[d] = cr[d]
  BY UserEdits
<1>2. cur \in Clusters
  BY DEF TypeOK
<1>3. /\ cr[c].deleting => cr[c].fin
      /\ cr[c].fin => cr[c].exists
  BY DEF Owns, CacheTells
<1>4. NoOrphanApps'
  BY <1>1, <1>3 DEF Owns, NoOrphanApps, UserEdit, SameFlags
<1>5. CacheTells'
  BY <1>1, <1>3 DEF Owns, CacheTells, UserEdit, SameFlags, LiveGuarded
<1>6. DrainsDoomed'
  BY <1>1, <1>3 DEF Owns, DrainsDoomed, UserEdit, SameFlags, LiveGuarded
<1>7. WorkerKnows'
  BY <1>1, <1>2, <1>3 DEF WorkerKnows, UserEdit, SameFlags, LiveGuarded
<1> QED
  BY <1>4, <1>5, <1>6, <1>7 DEF Owns

(* The inductive invariant is inductive. *)
LEMMA InductiveStep ==
  ASSUME Inductive, [Next]_vars
  PROVE  Inductive'
<1>1. TypeOK /\ Owns /\ WorkerKnows
  BY DEF Inductive, Owns
<1>2. TypeOK'
  BY <1>1, TypeStep
<1>3. Owns' /\ WorkerKnows'
  <2>1. CASE Validate \/ CreateOverride \/ GetKapp \/ CheckName \/ GetApp
             \/ UpdateApp \/ FindApp \/ DropOverlay \/ FindKapp
    BY <1>1, <2>1, LookStep
  <2>2. CASE CreateKapp \/ CreateApp \/ DeleteApp \/ DeleteKapp
    BY <1>1, <2>2, ArgoStep
  <2>3. CASE AddFinalizer \/ Report \/ RemoveFinalizer
    BY <1>1, <2>3, ResourceStep
  <2>4. CASE \E c \in Clusters : Begin(c)
    BY <1>1, <2>4, BeginStep
  <2>5. CASE \/ \E c \in Clusters :
                  CacheSync(c) \/ Resync(c) \/ AppGone(c) \/ KappGone(c)
             \/ Restart \/ Settle \/ UNCHANGED vars
    BY <1>1, <2>5, OutsideStep
  <2>6. CASE \E c \in Clusters : UserCreate(c) \/ UserAnnotate(c) \/ UserDelete(c)
    BY <1>1, <2>6, UserStep
  <2> QED
    BY <2>1, <2>2, <2>3, <2>4, <2>5, <2>6 DEF Next, Reconcile
<1> QED
  BY <1>2, <1>3 DEF Inductive, Owns

(* It holds initially. *)
LEMMA InductiveInit == Init => Inductive
<1> SUFFICES ASSUME Init PROVE Inductive
  OBVIOUS
<1>1. TypeOK
  BY TypeInit
<1>2. NoOrphanApps /\ DrainsDoomed
  BY DEF Init, NoOrphanApps, DrainsDoomed
<1>3. CacheTells
  BY NewFlags DEF Init, CacheTells, LiveGuarded
<1>4. WorkerKnows
  BY DEF Init, WorkerKnows, BuildSteps, DeleteSteps
<1> QED
  BY <1>1, <1>2, <1>3, <1>4 DEF Inductive

(* However stale the cache and whatever the worker is at: what it has found*)
(* out about the resource and its two applications still holds.            *)
THEOREM InductiveCorrect == Spec => []Inductive
<1> QED
  BY InductiveInit, InductiveStep, PTL DEF Spec

(* No application outlives, or comes to be without, its guarded resource. *)
THEOREM NoOrphanAppsCorrect == Spec => []NoOrphanApps
<1>1. Inductive => NoOrphanApps
  BY DEF Inductive
<1> QED
  BY <1>1, InductiveCorrect, PTL

-----------------------------------------------------------------------------
(* Refinement *)

(* The owner states, told apart by the three flags. *)
LEMMA OwnerStates ==
  ASSUME NEW r \in Resource, r.fin => r.exists
  PROVE  /\ OwnerOf(r) = "none"      <=> ~r.exists
         /\ OwnerOf(r) = "unguarded" <=> r.exists /\ ~r.fin
         /\ OwnerOf(r) = "guarded"   <=> r.fin /\ ~r.deleting
         /\ OwnerOf(r) = "doomed"    <=> r.fin /\ r.deleting
<1>1. r.exists \in BOOLEAN /\ r.fin \in BOOLEAN /\ r.deleting \in BOOLEAN
  BY DEF Resource
<1>2. CASE ~r.exists
  BY <1>1, <1>2 DEF OwnerOf
<1>3. CASE r.exists /\ ~r.fin
  BY <1>1, <1>3 DEF OwnerOf
<1>4. CASE r.exists /\ r.fin
  BY <1>1, <1>4 DEF OwnerOf
<1> QED
  BY <1>1, <1>2, <1>3, <1>4

(* A change of one resource that is one of the owner's transitions. *)
OwnerMove(r, s) ==
  \/ SameFlags(s, r)
  \/ ~r.exists /\ s.exists /\ ~s.fin
  \/ ~r.fin /\ ~s.exists
  \/ r.exists /\ ~r.fin /\ s.fin /\ ~s.deleting
  \/ r.fin /\ ~r.deleting /\ s.fin /\ s.deleting

(* A change of one resource is a step of its owner in ClusterLifecycle. *)
LEMMA OwnerStep ==
  ASSUME Inductive, Inductive', NEW c \in Clusters,
         UNCHANGED <<app, kapp>>,
         \A d \in Clusters \ {c} : cr'[d] = cr[d],
         \/ OwnerMove(cr[c], cr'[c])
         \/ /\ cr[c].fin /\ cr[c].deleting /\ ~cr'[c].exists
            /\ app[c] = "absent" /\ kapp[c] = "absent"
  PROVE  [Lifecycle!Next]_Lifecycle!vars
<1>1. /\ cr[c] \in Resource /\ cr'[c] \in Resource
      /\ cr[c].fin => cr[c].exists
      /\ cr'[c].fin => cr'[c].exists
      /\ cr[c].deleting => cr[c].fin
      /\ cr'[c].deleting => cr'[c].fin
  BY DEF Inductive, TypeOK, CacheTells
<1>2. /\ OwnerOf(cr[c]) = "none"      <=> ~cr[c].exists
      /\ OwnerOf(cr[c]) = "unguarded" <=> cr[c].exists /\ ~cr[c].fin
      /\ OwnerOf(cr[c]) = "guarded"   <=> cr[c].fin /\ ~cr[c].deleting
      /\ OwnerOf(cr[c]) = "doomed"    <=> cr[c].fin /\ cr[c].deleting
  BY <1>1, OwnerStates
<1>3. /\ OwnerOf(cr'[c]) = "none"      <=> ~cr'[c].exists
      /\ OwnerOf(cr'[c]) = "unguarded" <=> cr'[c].exists /\ ~cr'[c].fin
      /\ OwnerOf(cr'[c]) = "guarded"   <=> cr'[c].fin /\ ~cr'[c].deleting
      /\ OwnerOf(cr'[c]) = "doomed"    <=> cr'[c].fin /\ cr'[c].deleting
  BY <1>1, OwnerStates
<1>4. /\ Owner[c] = OwnerOf(cr[c])
      /\ Owner' = [Owner EXCEPT ![c] = OwnerOf(cr'[c])]
  BY DEF Owner
<1>5. CASE OwnerOf(cr'[c]) = OwnerOf(cr[c])
  BY <1>4, <1>5 DEF Lifecycle!vars, Owner
<1>6. CASE ~cr[c].exists /\ cr'[c].exists /\ ~cr'[c].fin
  <2>1. Lifecycle!Declare(c)
    BY <1>2, <1>3, <1>4, <1>6 DEF Lifecycle!Declare, Lifecycle!Own
  <2> QED
    BY <2>1 DEF Lifecycle!Next
<1>7. CASE cr[c].exists /\ ~cr[c].fin /\ ~cr'[c].exists
  <2>1. Lifecycle!Withdraw(c)
    BY <1>2, <1>3, <1>4, <1>7 DEF Lifecycle!Withdraw, Lifecycle!Own
  <2> QED
    BY <2>1 DEF Lifecycle!Next
<1>8. CASE cr[c].exists /\ ~cr[c].fin /\ cr'[c].fin /\ ~cr'[c].deleting
  <2>1. Lifecycle!Guard(c)
    BY <1>2, <1>3, <1>4, <1>8 DEF Lifecycle!Guard, Lifecycle!Own
  <2> QED
    BY <2>1 DEF Lifecycle!Next
<1>9. CASE cr[c].fin /\ ~cr[c].deleting /\ cr'[c].fin /\ cr'[c].deleting
  <2>1. Lifecycle!Doom(c)
    BY <1>2, <1>3, <1>4, <1>9 DEF Lifecycle!Doom, Lifecycle!Own
  <2> QED
    BY <2>1 DEF Lifecycle!Next
<1>10. CASE /\ cr[c].fin /\ cr[c].deleting /\ ~cr'[c].exists
            /\ app[c] = "absent" /\ kapp[c] = "absent"
  <2>1. Lifecycle!Release(c)
    BY <1>2, <1>3, <1>4, <1>10 DEF Lifecycle!Release, Lifecycle!Own
  <2> QED
    BY <2>1 DEF Lifecycle!Next
<1>11. CASE SameFlags(cr'[c], cr[c]) \/ (~cr[c].exists /\ ~cr'[c].exists)
  <2>1. OwnerOf(cr'[c]) = OwnerOf(cr[c])
    BY <1>11 DEF OwnerOf, SameFlags
  <2> QED
    BY <1>5, <2>1
<1> QED
  BY <1>1, <1>6, <1>7, <1>8, <1>9, <1>10, <1>11 DEF OwnerMove

(* A step that leaves resources and applications alone is a stutter. *)
LEMMA OwnerStutter ==
  ASSUME UNCHANGED <<cr, app, kapp>>
  PROVE  [Lifecycle!Next]_Lifecycle!vars
  BY DEF Lifecycle!vars, Owner

(* The controller starts where ClusterLifecycle starts. *)
LEMMA RefineInit == Init => Lifecycle!Init
<1> SUFFICES ASSUME Init PROVE Lifecycle!Init
  OBVIOUS
<1>1. Owner = [c \in Clusters |-> "none"]
  BY NewFlags DEF Init, Owner, OwnerOf
<1> QED
  BY <1>1 DEF Init, Lifecycle!Init

(* The writes of a pass to the resource. *)
LEMMA RefineResource ==
  ASSUME Inductive, Inductive', AddFinalizer \/ Report \/ RemoveFinalizer
  PROVE  [Lifecycle!Next]_Lifecycle!vars
<1>1. UNCHANGED <<app, kapp>>
  BY DEF AddFinalizer, Report, RemoveFinalizer, argo
<1>2. cr[cur] \in Resource /\ cur \in Clusters /\ obj \in Resource
  BY DEF Inductive, TypeOK
<1>3. CASE UNCHANGED cr
  BY <1>1, <1>3, OwnerStutter
<1>4. ASSUME NEW r, cr' = [cr EXCEPT ![cur] = r]
      PROVE  cr'[cur] = r /\ \A c \in Clusters \ {cur} : cr'[c] = cr[c]
  BY <1>4 DEF Inductive, TypeOK
<1>5. /\ cr[cur].deleting => cr[cur].fin
      /\ cr[cur].exists \in BOOLEAN /\ cr[cur].fin \in BOOLEAN
      /\ cr[cur].deleting \in BOOLEAN
  BY <1>2 DEF Inductive, CacheTells, Resource
<1>6. CASE AddFinalizer
  <2>1. CASE cr[cur].exists /\ cr' = [cr EXCEPT ![cur] = [cr[cur] EXCEPT !.fin = TRUE]]
    <3> DEFINE r == [cr[cur] EXCEPT !.fin = TRUE]
    <3>1. r.exists = cr[cur].exists /\ r.fin = TRUE /\ r.deleting = cr[cur].deleting
      BY <1>2, FlagEdits
    <3>2. cr' = [cr EXCEPT ![cur] = r]
      BY <2>1
    <3> HIDE DEF r
    <3>3. cr'[cur] = r /\ \A c \in Clusters \ {cur} : cr'[c] = cr[c]
      BY <3>2, <1>4
    <3>4. OwnerMove(cr[cur], cr'[cur])
      BY <1>5, <2>1, <3>1, <3>3 DEF OwnerMove, SameFlags
    <3> QED
      BY <1>1, <1>2, <3>3, <3>4, OwnerStep
  <2> QED
    BY <1>3, <1>6, <2>1 DEF AddFinalizer, Write, kube
<1>7. CASE Report
  <2>1. CASE cr' = [cr EXCEPT ![cur] = [cr[cur] EXCEPT !.inner = obj.inner,
                              !.ovDone = obj.ovDone, !.state = obj.state]]
    <3> DEFINE r == [cr[cur] EXCEPT !.inner = obj.inner,
                            !.ovDone = obj.ovDone, !.state = obj.state]
    <3>1. obj.inner \in BOOLEAN /\ obj.ovDone \in BOOLEAN /\ obj.state \in States
      BY <1>2 DEF Resource
    <3>2. SameFlags(r, cr[cur])
      BY <1>2, <3>1, FlagEdits
    <3>3. cr' = [cr EXCEPT ![cur] = r]
      BY <2>1
    <3> HIDE DEF r
    <3>4. cr'[cur] = r /\ \A c \in Clusters \ {cur} : cr'[c] = cr[c]
      BY <3>3, <1>4
    <3>5. OwnerMove(cr[cur], cr'[cur])
      BY <3>2, <3>4 DEF OwnerMove
    <3> QED
      BY <1>1, <1>2, <3>4, <3>5, OwnerStep
  <2> QED
    BY <1>3, <1>7, <2>1 DEF Report, Write, kube
<1>8. CASE RemoveFinalizer
  <2>1. CASE cr[cur].exists /\ cr' = [cr EXCEPT ![cur] = Unguarded(cr[cur])]
    <3>1. /\ cr'[cur] = Unguarded(cr[cur])
          /\ \A c \in Clusters \ {cur} : cr'[c] = cr[c]
      BY <2>1, <1>4
    <3>2. /\ app[cur] = "absent" /\ kapp[cur] = "absent"
          /\ cr[cur].fin => cr[cur].deleting
      BY <1>8, <2>1
         DEF RemoveFinalizer, Inductive, WorkerKnows, DeleteSteps, LiveGuarded
    <3>3. CASE cr[cur].deleting
      <4>1. ~cr'[cur].exists
        BY <3>1, <3>3, NewFlags DEF Unguarded
      <4> QED
        BY <1>1, <1>2, <1>5, <3>1, <3>2, <3>3, <4>1, OwnerStep
    <3>4. CASE ~cr[cur].deleting
      <4>1. SameFlags(cr'[cur], cr[cur])
        <5> DEFINE r == [cr[cur] EXCEPT !.fin = FALSE]
        <5>1. r.exists = cr[cur].exists /\ r.fin = FALSE /\ r.deleting = cr[cur].deleting
          BY <1>2, FlagEdits
        <5>2. cr'[cur] = r
          BY <3>1, <3>4 DEF Unguarded
        <5> HIDE DEF r
        <5> QED
          BY <1>5, <3>2, <3>4, <5>1, <5>2 DEF SameFlags
      <4>2. OwnerMove(cr[cur], cr'[cur])
        BY <4>1 DEF OwnerMove
      <4> QED
        BY <1>1, <1>2, <3>1, <4>2, OwnerStep
    <3> QED
      BY <3>3, <3>4
  <2> QED
    BY <1>3, <1>8, <2>1 DEF RemoveFinalizer, Write, kube
<1> QED
  BY <1>6, <1>7, <1>8

(* The calls that create or delete an application, ArgoCD ending one. *)
LEMMA RefineArgo ==
  ASSUME Inductive,
         \/ CreateKapp \/ CreateApp \/ DeleteApp \/ DeleteKapp
         \/ \E c \in Clusters : AppGone(c) \/ KappGone(c)
  PROVE  [Lifecycle!Next]_Lifecycle!vars
<1>1. UNCHANGED cr /\ Owner' = Owner
  BY DEF CreateKapp, CreateApp, DeleteApp, DeleteKapp, AppGone, KappGone, kube, Owner
<1>2. cur \in Clusters
  BY DEF Inductive, TypeOK
<1>3. /\ cr[cur] \in Resource
      /\ cr[cur].fin => cr[cur].exists
      /\ app[cur] # "absent" \/ kapp[cur] # "absent" => cr[cur].fin
  BY <1>2 DEF Inductive, TypeOK, CacheTells, NoOrphanApps
<1>4. Owner[cur] = OwnerOf(cr[cur])
  BY <1>2 DEF Owner
<1>5. cr[cur].fin => Lifecycle!Guarded(cur)
  BY <1>3, <1>4, OwnerStates DEF Lifecycle!Guarded
<1>6. cr[cur].fin /\ ~LiveGuarded(cr[cur]) => Owner[cur] = "doomed"
  BY <1>3, <1>4, OwnerStates DEF LiveGuarded
<1>7. app[cur] \in AppStates /\ kapp[cur] \in AppStates
  BY <1>2 DEF Inductive, TypeOK
<1>8. CASE UNCHANGED <<app, kapp>>
  BY <1>1, <1>8, OwnerStutter
<1>9. CASE CreateKapp
  <2>1. CASE kapp' = [kapp EXCEPT ![cur] = "live"]
    <3>1. Lifecycle!BuildKapp(cur)
      BY <1>1, <1>5, <1>9, <2>1
         DEF CreateKapp, Inductive, WorkerKnows, BuildSteps,
             Lifecycle!BuildKapp, Lifecycle!SetKapp
    <3> QED
      BY <1>2, <3>1 DEF Lifecycle!Next
  <2> QED
    BY <1>8, <1>9, <2>1 DEF CreateKapp
<1>10. CASE CreateApp
  <2>1. CASE app' = [app EXCEPT ![cur] = "live"]
    <3>1. /\ kapp[cur] = "live" /\ app[cur] = "absent" /\ cr[cur].fin
          /\ UNCHANGED kapp
      BY <1>7, <1>10 DEF CreateApp, Inductive, WorkerKnows, BuildSteps, AppStates
    <3>2. Lifecycle!BuildApp(cur)
      BY <1>1, <1>5, <2>1, <3>1 DEF Lifecycle!BuildApp, Lifecycle!SetApp
    <3> QED
      BY <1>2, <3>2 DEF Lifecycle!Next
  <2> QED
    BY <1>8, <1>10, <2>1 DEF CreateApp
<1>11. CASE DeleteApp
  <2>1. CASE app[cur] # "absent" /\ app' = [app EXCEPT ![cur] = "deleting"]
    <3>1. Owner[cur] = "doomed" /\ UNCHANGED kapp
      BY <1>3, <1>6, <1>11, <2>1 DEF DeleteApp, Inductive, WorkerKnows, DeleteSteps
    <3>2. CASE app[cur] = "live"
      <4>1. Lifecycle!DrainApp(cur)
        BY <1>1, <2>1, <3>1, <3>2 DEF Lifecycle!DrainApp, Lifecycle!SetApp
      <4> QED
        BY <1>2, <4>1 DEF Lifecycle!Next
    <3>3. CASE app[cur] = "deleting"
      BY <1>8, <2>1, <3>1, <3>3 DEF Inductive, TypeOK
    <3> QED
      BY <1>7, <2>1, <3>2, <3>3 DEF AppStates
  <2> QED
    BY <1>8, <1>11, <2>1 DEF DeleteApp
<1>12. CASE DeleteKapp
  <2>1. CASE kapp[cur] # "absent" /\ kapp' = [kapp EXCEPT ![cur] = "deleting"]
    <3>1. Owner[cur] = "doomed" /\ app[cur] = "absent" /\ UNCHANGED app
      BY <1>3, <1>6, <1>12, <2>1 DEF DeleteKapp, Inductive, WorkerKnows, DeleteSteps
    <3>2. CASE kapp[cur] = "live"
      <4>1. Lifecycle!DrainKapp(cur)
        BY <1>1, <2>1, <3>1, <3>2 DEF Lifecycle!DrainKapp, Lifecycle!SetKapp
      <4> QED
        BY <1>2, <4>1 DEF Lifecycle!Next
    <3>3. CASE kapp[cur] = "deleting"
      BY <1>8, <2>1, <3>1, <3>3 DEF Inductive, TypeOK
    <3> QED
      BY <1>7, <2>1, <3>2, <3>3 DEF AppStates
  <2> QED
    BY <1>8, <1>12, <2>1 DEF DeleteKapp
<1>13. ASSUME NEW c \in Clusters, AppGone(c)
       PROVE  [Lifecycle!Next]_Lifecycle!vars
  <2>1. Lifecycle!AppGone(c)
    BY <1>1, <1>13 DEF AppGone, Lifecycle!AppGone, Lifecycle!SetApp
  <2> QED
    BY <2>1 DEF Lifecycle!Next
<1>14. ASSUME NEW c \in Clusters, KappGone(c)
       PROVE  [Lifecycle!Next]_Lifecycle!vars
  <2>1. Lifecycle!KappGone(c)
    BY <1>1, <1>14 DEF KappGone, Lifecycle!KappGone, Lifecycle!SetKapp
  <2> QED
    BY <2>1 DEF Lifecycle!Next
<1> QED
  BY <1>9, <1>10, <1>11, <1>12, <1>13, <1>14

(* Every step of the controller is a step of ClusterLifecycle or a stutter. *)
LEMMA RefineStep ==
  ASSUME Inductive, Inductive', [Next]_vars
  PROVE  [Lifecycle!Next]_Lifecycle!vars
<1>1. CASE Validate \/ CreateOverride \/ GetKapp \/ CheckName \/ GetApp
           \/ UpdateApp \/ FindApp \/ DropOverlay \/ FindKapp
  <2>1. UNCHANGED <<cr, app, kapp>>
    BY <1>1 DEF Validate, CreateOverride, GetKapp, CheckName, GetApp, UpdateApp,
                FindApp, DropOverlay, FindKapp, kube, argo
  <2> QED
    BY <2>1, OwnerStutter
<1>2. CASE \/ Restart \/ Settle \/ UNCHANGED vars
           \/ \E c \in Clusters : Begin(c) \/ CacheSync(c) \/ Resync(c)
  <2>1. UNCHANGED <<cr, app, kapp>>
    BY <1>2 DEF Restart, Settle, vars, Begin, CacheSync, Resync, kube, argo
  <2> QED
    BY <2>1, OwnerStutter
<1>3. CASE \/ CreateKapp \/ CreateApp \/ DeleteApp \/ DeleteKapp
           \/ \E c \in Clusters : AppGone(c) \/ KappGone(c)
  BY <1>3, RefineArgo
<1>4. CASE AddFinalizer \/ Report \/ RemoveFinalizer
  BY <1>4, RefineResource
<1>5. ASSUME NEW c \in Clusters, UserCreate(c) \/ UserAnnotate(c) \/ UserDelete(c)
      PROVE  [Lifecycle!Next]_Lifecycle!vars
  <2>1. /\ UNCHANGED <<app, kapp>>
        /\ UserEdit(cr[c], cr'[c])
        /\ \A d \in Clusters \ {c} : cr'[d] = cr[d]
    BY <1>5, UserEdits DEF Inductive
  <2>2. OwnerMove(cr[c], cr'[c])
    BY <2>1 DEF UserEdit, OwnerMove
  <2> QED
    BY <2>1, <2>2, OwnerStep
<1> QED
  BY <1>1, <1>2, <1>3, <1>4, <1>5 DEF Next, Reconcile

(* Every behaviour of the controller is one of ClusterLifecycle: creation  *)
(* and teardown in order, the resource gone only when nothing is left.     *)
THEOREM RefinesLifecycle == Spec => ImplementsLifecycle
<1>1. Inductive /\ Inductive' /\ [Next]_vars => [Lifecycle!Next]_Lifecycle!vars
  BY RefineStep
<1> QED
  BY <1>1, RefineInit, InductiveCorrect, PTL
     DEF Spec, ImplementsLifecycle, Lifecycle!Spec

-----------------------------------------------------------------------------
(* The progress that the controller records in the status of a resource is *)
(* true.  First, what the edits of a resource leave alone.                 *)

(* The status fields of a resource are the same. *)
SameStatus(r, s) == r.inner = s.inner /\ r.ovDone = s.ovDone /\ r.state = s.state

(* An edit of the annotations ... *)
LEMMA AnnotationEdit ==
  ASSUME NEW r \in Resource, NEW a \in Annotations, NEW s, s = [r EXCEPT !.ann = a]
  PROVE  SameResource(s, r) /\ SameStatus(s, r)
  BY DEF Resource, SameResource, SameStatus

(* ... of the status as a whole, ... *)
LEMMA StatusEdit ==
  ASSUME NEW r \in Resource, NEW o \in Resource,
         NEW s, s = [r EXCEPT !.inner = o.inner, !.ovDone = o.ovDone, !.state = o.state]
  PROVE  SameResource(s, r) /\ SameStatus(s, o)
  BY DEF Resource, SameResource, SameStatus

(* ... of its state, ... *)
LEMMA StateEdit ==
  ASSUME NEW r \in Resource, NEW t \in States, NEW s, s = [r EXCEPT !.state = t]
  PROVE  SameResource(s, r) /\ s.inner = r.inner /\ s.ovDone = r.ovDone /\ s.state = t
  BY DEF Resource, SameResource

(* ... of the record that the kkarlon app has been made, ... *)
LEMMA InnerEdit ==
  ASSUME NEW r \in Resource, NEW i \in BOOLEAN, NEW s, s = [r EXCEPT !.inner = i]
  PROVE  s \in Resource /\ SameResource(s, r) /\ s.ovDone = r.ovDone
  BY DEF Resource, SameResource

(* ... of the record that the override has been pushed, ... *)
LEMMA OverrideEdit ==
  ASSUME NEW r \in Resource, NEW d \in BOOLEAN, NEW s, s = [r EXCEPT !.ovDone = d]
  PROVE  s \in Resource /\ SameResource(s, r) /\ s.ovDone = d
  BY DEF Resource, SameResource

(* ... of the finalizer, ... *)
LEMMA FinalizerEdit ==
  ASSUME NEW r \in Resource, NEW s, s = [r EXCEPT !.fin = TRUE]
  PROVE  /\ s.exists = r.exists /\ s.deleting = r.deleting /\ s.fin /\ s.ovr = r.ovr
         /\ SameStatus(s, r)
  BY DEF Resource, SameStatus

(* ... and of the deletion mark. *)
LEMMA DeletionEdit ==
  ASSUME NEW r \in Resource, NEW s, s = [r EXCEPT !.deleting = TRUE]
  PROVE  /\ s.exists = r.exists /\ s.deleting /\ s.fin = r.fin /\ s.ovr = r.ovr
         /\ SameStatus(s, r)
  BY DEF Resource, SameStatus

(* What a new resource and an absent one say. *)
LEMMA NewProgress ==
  /\ Untouched(Absent) /\ ~Absent.exists /\ ~Absent.deleting /\ ~Absent.fin
  /\ ~Absent.ovr /\ ~Absent.ovDone
  /\ \A o, a : LET r == NewResource(o, a)
               IN  Untouched(r) /\ r.exists /\ ~r.deleting /\ ~r.fin
                   /\ ~r.ovDone /\ r.state = ""
  BY DEF Untouched, Absent, NewResource

-----------------------------------------------------------------------------
(* The worker's copy *)

(* The parts of Progress that speak of the worker, and those that do not.  *)
CopyOK ==
  /\ pc = "idle" => ~fresh
  /\ fresh => SameResource(obj, cr[cur])
  /\ Untouched(obj)
  /\ fresh /\ ~obj.deleting => RecordsOverride(obj, cur) /\ RecordsApps(obj, cur)
  /\ CopyKnows

StoreOK ==
  /\ \A c \in Clusters : cacheFresh[c] => cache[c] = cr[c]
  /\ \A c \in Clusters :
       /\ Untouched(cr[c]) /\ Untouched(cache[c])
       /\ cr[c].ovr => cr[c].exists
       /\ cache[c].deleting => cache[c].fin
  /\ OverrideRecordTrue /\ CreatedMeansProvisioned
  /\ \A c \in Clusters :
       LiveGuarded(cache[c]) => cache[c].ovr = cr[c].ovr /\ RecordsOverride(cache[c], c)

(* The two make up Progress. *)
LEMMA ProgressParts == Progress <=> CopyOK /\ StoreOK
  BY DEF Progress, CopyOK, StoreOK, CopiesAgree, TracesGuarded, RecordsTrue

(* A pass that returns leaves no copy. *)
LEMMA ReturnCopy ==
  ASSUME NEW again, Return(again)
  PROVE  CopyOK'
  BY NewProgress DEF Return, CopyOK, CopyKnows, BuildSteps, DeleteSteps

(* A pass that reports a state, with what it has done recorded in the copy. *)
LEMMA UpdateStateCopy ==
  ASSUME TypeOK, CopyOK, NEW o \in Resource, NEW s \in States,
         NEW p \in {"report", "reportRetry"},
         UpdateState(o, s, p), UNCHANGED cr,
         SameResource(o, obj), obj.fin,
         ~o.deleting /\ o.ovr /\ o.ovDone => overlay'[cur],
         s = "created" /\ ~o.deleting => app'[cur] = "live" /\ kapp'[cur] = "live"
  PROVE  CopyOK'
<1> DEFINE q == [o EXCEPT !.state = s]
<1>1. SameResource(q, o) /\ q.inner = o.inner /\ q.ovDone = o.ovDone /\ q.state = s
  <2>1. q = [o EXCEPT !.state = s]
    OBVIOUS
  <2> HIDE DEF q
  <2> QED
    BY <2>1, StateEdit
<1>2. /\ obj' = q /\ pc' = p /\ cur' = cur /\ fresh' = fresh /\ cr' = cr
  BY DEF UpdateState
<1> HIDE DEF q
<1>3. pc' \notin BuildSteps /\ pc' \notin DeleteSteps /\ pc' # "idle"
  BY <1>2 DEF BuildSteps, DeleteSteps
<1>4. Untouched(obj')
  BY <1>1, <1>2 DEF SameResource, Untouched
<1>5. SameResource(obj', obj)
  BY <1>1, <1>2 DEF SameResource
<1>6. fresh' => SameResource(obj', cr'[cur'])
  BY <1>2, <1>5 DEF SameResource, CopyOK
<1>7. (fresh /\ ~obj.deleting)' => RecordsOverride(obj, cur)' /\ RecordsApps(obj, cur)'
  BY <1>1, <1>2, <1>5 DEF SameResource, RecordsOverride, RecordsApps
<1> QED
  BY <1>2, <1>3, <1>4, <1>6, <1>7 DEF CopyOK, CopyKnows

(* A call that fails reports the copy as it is. *)
LEMMA FailsCopy ==
  ASSUME TypeOK, CopyOK, NEW s \in States \ {"created"},
         UpdateState(obj, s, "reportRetry"), UNCHANGED cr,
         pc \in BuildSteps \/ pc \in DeleteSteps,
         \A c \in Clusters : pc \in BuildSteps /\ overlay[c] => overlay'[c]
  PROVE  CopyOK'
<1>1. obj \in Resource /\ cur \in Clusters
  BY DEF TypeOK
<1>2. obj.fin /\ SameResource(obj, obj)
  BY DEF CopyOK, CopyKnows, LiveGuarded, SameResource
<1>3. ~obj.deleting /\ obj.ovr /\ obj.ovDone => overlay'[cur]
  BY <1>1 DEF CopyOK, CopyKnows, RecordsOverride
<1> QED
  BY <1>1, <1>2, <1>3, UpdateStateCopy

(* A pass that goes on keeps what its copy says. *)
LEMMA GoOnCopy ==
  ASSUME TypeOK, CopyOK, NEW p,
         pc' = p, UNCHANGED <<cur, obj, fresh, cr>>,
         \/ pc \in BuildSteps /\ p \in BuildSteps \ {"validate", "override"}
         \/ pc \in DeleteSteps /\ p \in DeleteSteps,
         pc \in {"validate", "override"} => (obj.ovr => obj.ovDone),
         overlay'[cur] = overlay[cur],
         ~obj.deleting => /\ app[cur] = "live" => app'[cur] = "live"
                          /\ kapp[cur] = "live" => kapp'[cur] = "live"
  PROVE  CopyOK'
<1>1. pc' # "idle"
  BY DEF BuildSteps, DeleteSteps
<1>2. ~(p \in BuildSteps /\ p \in DeleteSteps)
  BY DEF BuildSteps, DeleteSteps
<1>3. CopyKnows'
  BY <1>2 DEF CopyOK, CopyKnows, RecordsOverride, LiveGuarded, BuildSteps, DeleteSteps
<1> QED
  BY <1>1, <1>3 DEF CopyOK, RecordsOverride, RecordsApps

(* The calls of a pass that are not writes to the resource. *)
LEMMA CallCopy ==
  ASSUME Inductive, CopyOK,
         \/ Validate \/ CreateOverride \/ GetKapp \/ CheckName \/ CreateKapp
         \/ GetApp \/ CreateApp \/ UpdateApp
         \/ FindApp \/ DropOverlay \/ DeleteApp \/ FindKapp \/ DeleteKapp
  PROVE  CopyOK'
<1>1. /\ TypeOK /\ cur \in Clusters /\ obj \in Resource
      /\ overlay \in [Clusters -> BOOLEAN]
      /\ app \in [Clusters -> AppStates] /\ kapp \in [Clusters -> AppStates]
  BY DEF Inductive, TypeOK
<1>2. UNCHANGED cr
  BY DEF Validate, CreateOverride, GetKapp, CheckName, CreateKapp, GetApp, CreateApp,
         UpdateApp, FindApp, DropOverlay, DeleteApp, FindKapp, DeleteKapp, kube
<1>3. /\ {"retrying", "delete-retrying", "error-deleting-override",
          "error-deleting-cluster-app", "error-deleting-kkarlon-app"}
            \subseteq States \ {"created"}
      /\ {"template-validated", "override-created", "created", "override-deleted",
          "deleting-cluster-app", "deleting-kkarlon-app"} \subseteq States
  BY DEF States
<1>4. SameResource(obj, obj)
  BY DEF SameResource
<1> USE <1>1, <1>2
<1>5. CASE Validate
  <2>1. pc \in BuildSteps /\ UNCHANGED <<overlay, app, kapp>>
    BY <1>5 DEF Validate, BuildSteps, argo
  <2>2. CASE UpdateState([obj EXCEPT !.inner = TRUE], "template-validated", "report")
    <3> DEFINE q == [obj EXCEPT !.inner = TRUE]
    <3>1. q \in Resource /\ SameResource(q, obj) /\ q.ovDone = obj.ovDone
      <4>1. q = [obj EXCEPT !.inner = TRUE]
        OBVIOUS
      <4> HIDE DEF q
      <4> QED
        BY <4>1, InnerEdit
    <3>2. UpdateState(q, "template-validated", "report")
      BY <2>2
    <3> HIDE DEF q
    <3>3. obj.fin /\ (q.ovr /\ q.ovDone => overlay'[cur])
      BY <2>1, <3>1 DEF CopyOK, CopyKnows, RecordsOverride, LiveGuarded, SameResource
    <3> QED
      BY <1>3, <3>1, <3>2, <3>3, UpdateStateCopy
  <2> QED
    BY <1>3, <1>5, <2>1, <2>2, FailsCopy DEF Validate, Fails
<1>6. CASE CreateOverride
  <2>1. pc \in BuildSteps /\ \A c \in Clusters : overlay[c] => overlay'[c]
    BY <1>6 DEF CreateOverride, BuildSteps
  <2>2. CASE /\ UpdateState([obj EXCEPT !.ovDone = TRUE], "override-created", "report")
             /\ overlay' = [overlay EXCEPT ![cur] = TRUE]
    <3> DEFINE q == [obj EXCEPT !.ovDone = TRUE]
    <3>1. q \in Resource /\ SameResource(q, obj)
      <4>1. q = [obj EXCEPT !.ovDone = TRUE]
        OBVIOUS
      <4> HIDE DEF q
      <4> QED
        BY <4>1, OverrideEdit
    <3>2. UpdateState(q, "override-created", "report")
      BY <2>2
    <3> HIDE DEF q
    <3>3. obj.fin /\ overlay'[cur]
      BY <2>1, <2>2 DEF CopyOK, CopyKnows, LiveGuarded
    <3> QED
      BY <1>3, <3>1, <3>2, <3>3, UpdateStateCopy
  <2> QED
    BY <1>3, <1>6, <2>1, <2>2, FailsCopy DEF CreateOverride, Fails
<1>7. CASE GetKapp \/ CheckName \/ CreateKapp
  <2>1. /\ pc \in BuildSteps \ {"validate", "override"} /\ UNCHANGED <<overlay, app>>
        /\ kapp[cur] = "live" => kapp'[cur] = "live"
    BY <1>7 DEF GetKapp, CheckName, CreateKapp, BuildSteps, argo
  <2>2. CASE UpdateState(obj, "retrying", "reportRetry")
    BY <1>3, <2>1, <2>2, FailsCopy
  <2>3. CASE Goto("getApp") \/ Goto("checkName") \/ Goto("createKapp")
    BY <2>1, <2>3, GoOnCopy DEF Goto, BuildSteps
  <2> QED
    BY <1>7, <2>2, <2>3 DEF GetKapp, CheckName, CreateKapp, Fails
<1>8. CASE GetApp \/ CreateApp \/ UpdateApp
  <2>1. /\ pc \in {"getApp", "createApp", "updateApp"} /\ UNCHANGED <<overlay, kapp>>
        /\ pc \in BuildSteps \ {"validate", "override"}
        /\ app[cur] = "live" => app'[cur] = "live"
    BY <1>8 DEF GetApp, CreateApp, UpdateApp, BuildSteps, argo
  <2>2. kapp[cur] = "live" /\ app[cur] # "deleting" /\ obj.fin
    BY <2>1 DEF Inductive, WorkerKnows, CopyOK, CopyKnows, LiveGuarded, AppStates
  <2>3. CASE UpdateState(obj, "retrying", "reportRetry")
    BY <1>3, <2>1, <2>3, FailsCopy
  <2>4. CASE UpdateState(obj, "created", "report")
    <3>1. app'[cur] = "live"
      BY <1>8, <2>1, <2>2, <2>4 DEF GetApp, CreateApp, UpdateApp, UpdateState, Goto,
         Return, Fails, AppStates, argo
    <3>2. obj.ovr /\ obj.ovDone => overlay'[cur]
      BY <2>1 DEF CopyOK, CopyKnows, RecordsOverride
    <3> QED
      BY <1>3, <1>4, <2>1, <2>2, <2>4, <3>1, <3>2, UpdateStateCopy
  <2>5. CASE pc' \in {"createApp", "updateApp"} /\ UNCHANGED <<cur, obj, fresh>>
    BY <2>1, <2>5, GoOnCopy DEF BuildSteps
  <2>6. CASE Return(FALSE)
    BY <2>6, ReturnCopy
  <2> QED
    BY <1>8, <2>3, <2>4, <2>5, <2>6 DEF GetApp, CreateApp, UpdateApp, Goto, Fails
<1>9. CASE FindApp \/ FindKapp
  <2>1. pc \in DeleteSteps /\ UNCHANGED <<overlay, app, kapp>>
    BY <1>9 DEF FindApp, FindKapp, DeleteSteps, argo
  <2>2. CASE UpdateState(obj, "delete-retrying", "reportRetry")
    BY <1>3, <2>1, <2>2, FailsCopy DEF BuildSteps, DeleteSteps
  <2>3. CASE /\ pc' \in {"dropOverlay", "deleteApp", "findKapp", "deleteKapp", "removeFinalizer"}
             /\ UNCHANGED <<cur, obj, fresh>>
    BY <2>1, <2>3, GoOnCopy DEF BuildSteps, DeleteSteps
  <2>4. CASE Return(TRUE)
    BY <2>4, ReturnCopy
  <2> QED
    BY <1>9, <2>2, <2>3, <2>4 DEF FindApp, FindKapp, Goto, Fails
<1>10. CASE DropOverlay
  <2>1. pc \in DeleteSteps /\ pc \notin BuildSteps
    BY <1>10 DEF DropOverlay, DeleteSteps, BuildSteps
  <2>2. CASE UpdateState([obj EXCEPT !.ovDone = FALSE], "override-deleted", "report")
    <3> DEFINE q == [obj EXCEPT !.ovDone = FALSE]
    <3>1. q \in Resource /\ SameResource(q, obj) /\ ~q.ovDone
      <4>1. q = [obj EXCEPT !.ovDone = FALSE]
        OBVIOUS
      <4> HIDE DEF q
      <4> QED
        BY <4>1, OverrideEdit
    <3>2. UpdateState(q, "override-deleted", "report")
      BY <2>2
    <3> HIDE DEF q
    <3>3. obj.fin
      BY <2>1 DEF CopyOK, CopyKnows
    <3> QED
      BY <1>3, <3>1, <3>2, <3>3, UpdateStateCopy
  <2> QED
    BY <1>3, <1>10, <2>1, <2>2, FailsCopy DEF DropOverlay, Fails
<1>11. CASE DeleteApp \/ DeleteKapp
  <2>1. pc \in DeleteSteps /\ pc \notin BuildSteps /\ UNCHANGED overlay
    BY <1>11 DEF DeleteApp, DeleteKapp, DeleteSteps, BuildSteps
  <2>2. obj.fin /\ obj.deleting
    BY <2>1 DEF CopyOK, CopyKnows
  <2>3. ASSUME NEW s \in {"deleting-cluster-app", "deleting-kkarlon-app"},
               UpdateState(obj, s, "report")
        PROVE  CopyOK'
    BY <1>3, <1>4, <2>2, <2>3, UpdateStateCopy
  <2> QED
    BY <1>3, <1>11, <2>1, <2>3, FailsCopy DEF DeleteApp, DeleteKapp, Fails
<1> QED
  BY <1>5, <1>6, <1>7, <1>8, <1>9, <1>10, <1>11
-----------------------------------------------------------------------------
(* The API server, the informer, ArgoCD and git *)

(* A resource that is not both wanted and guarded has nothing to record.   *)
LEMMA UnguardedRecords ==
  ASSUME Inductive, StoreOK, NEW c \in Clusters, ~LiveGuarded(cr[c])
  PROVE  /\ ~(cr[c].ovr /\ ~cr[c].deleting /\ (cr[c].ovDone \/ app[c] # "absent"))
         /\ ~(cr[c].exists /\ ~cr[c].deleting /\ cr[c].state = "created")
  BY DEF Inductive, NoOrphanApps, StoreOK, Untouched, LiveGuarded

(* The calls of a pass that are not writes to the resource. *)
LEMMA CallStore ==
  ASSUME Inductive, CopyOK, StoreOK,
         \/ Validate \/ CreateOverride \/ GetKapp \/ CheckName \/ CreateKapp
         \/ GetApp \/ CreateApp \/ UpdateApp
         \/ FindApp \/ DropOverlay \/ DeleteApp \/ FindKapp \/ DeleteKapp
  PROVE  StoreOK'
<1>1. /\ cur \in Clusters
      /\ overlay \in [Clusters -> BOOLEAN]
      /\ app \in [Clusters -> AppStates] /\ kapp \in [Clusters -> AppStates]
  BY DEF Inductive, TypeOK
<1>2. UNCHANGED <<cr, cacheFresh, cache>>
  BY DEF Validate, CreateOverride, GetKapp, CheckName, CreateKapp, GetApp, CreateApp,
         UpdateApp, FindApp, DropOverlay, DeleteApp, FindKapp, DeleteKapp, kube
<1> USE <1>1, <1>2
<1>3. CASE Validate \/ GetKapp \/ CheckName \/ GetApp \/ UpdateApp \/ FindApp \/ FindKapp
  <2>1. UNCHANGED <<overlay, app, kapp>>
    BY <1>3 DEF Validate, GetKapp, CheckName, GetApp, UpdateApp, FindApp, FindKapp, argo
  <2> QED
    BY <2>1 DEF StoreOK, OverrideRecordTrue, CreatedMeansProvisioned, RecordsOverride
<1>4. CASE CreateOverride \/ CreateKapp
  <2>1. /\ \A c \in Clusters : overlay[c] => overlay'[c]
        /\ \A c \in Clusters : kapp[c] = "live" => kapp'[c] = "live"
        /\ UNCHANGED app
    BY <1>4 DEF CreateOverride, CreateKapp, argo
  <2> QED
    BY <2>1 DEF StoreOK, OverrideRecordTrue, CreatedMeansProvisioned, RecordsOverride
<1>5. CASE CreateApp
  <2>1. /\ \A c \in Clusters \ {cur} : app'[c] = app[c]
        /\ \A c \in Clusters : app[c] = "live" => app'[c] = "live"
        /\ UNCHANGED <<overlay, kapp>>
        /\ pc = "createApp"
    BY <1>5 DEF CreateApp
  <2>2. cr[cur].ovr => overlay[cur]
    BY <2>1 DEF CopyOK, CopyKnows, BuildSteps, RecordsOverride
  <2> QED
    BY <2>1, <2>2 DEF StoreOK, OverrideRecordTrue, CreatedMeansProvisioned, RecordsOverride
<1>6. CASE DropOverlay \/ DeleteApp \/ DeleteKapp
  <2>1. /\ \A c \in Clusters \ {cur} :
             overlay'[c] = overlay[c] /\ app'[c] = app[c] /\ kapp'[c] = kapp[c]
        /\ app[cur] = "absent" => app'[cur] = "absent"
        /\ pc \in DeleteSteps
    BY <1>6 DEF DropOverlay, DeleteApp, DeleteKapp, DeleteSteps, argo, AppStates
  <2>2. ~LiveGuarded(cr[cur]) /\ ~LiveGuarded(cache[cur])
    BY <2>1 DEF Inductive, WorkerKnows
  <2>3. /\ ~(cr[cur].ovr /\ ~cr[cur].deleting /\ (cr[cur].ovDone \/ app'[cur] # "absent"))
        /\ ~(cr[cur].exists /\ ~cr[cur].deleting /\ cr[cur].state = "created")
    BY <2>1, <2>2, UnguardedRecords
  <2> QED
    BY <2>1, <2>2, <2>3
       DEF StoreOK, OverrideRecordTrue, CreatedMeansProvisioned, RecordsOverride
<1> QED
  BY <1>3, <1>4, <1>5, <1>6

(* The resource of a cluster is written; the rest of the world waits. *)
OneWritten(c, r) ==
  /\ cr' = [cr EXCEPT ![c] = r]
  /\ cacheFresh' = [cacheFresh EXCEPT ![c] = @ /\ r = cr[c]]
  /\ UNCHANGED <<cache, app, kapp, overlay>>

(* What a write must see to.  The cache, if it shows the resource wanted   *)
(* and guarded, is right about its override.                               *)
LEMMA WriteStore ==
  ASSUME Inductive, StoreOK, NEW c \in Clusters, NEW r, OneWritten(c, r),
         Untouched(r), r.ovr => r.exists,
         r.ovr /\ ~r.deleting /\ (r.ovDone \/ app[c] # "absent") => overlay[c],
         r.exists /\ ~r.deleting /\ r.state = "created" => app[c] = "live" /\ kapp[c] = "live",
         LiveGuarded(cache[c]) => r.ovr = cr[c].ovr
  PROVE  StoreOK'
<1>1. cr \in [Clusters -> Resource] /\ cacheFresh \in [Clusters -> BOOLEAN]
  BY DEF Inductive, TypeOK
<1>2. /\ cr'[c] = r /\ \A d \in Clusters \ {c} : cr'[d] = cr[d]
      /\ cacheFresh'[c] => cacheFresh[c] /\ r = cr[c]
      /\ \A d \in Clusters \ {c} : cacheFresh'[d] = cacheFresh[d]
      /\ UNCHANGED <<cache, app, kapp, overlay>>
  BY <1>1 DEF OneWritten
<1> QED
  BY <1>2 DEF StoreOK, OverrideRecordTrue, CreatedMeansProvisioned, RecordsOverride

(* The writes of a pass to the resource. *)
LEMMA ResourceStore ==
  ASSUME Inductive, CopyOK, StoreOK, AddFinalizer \/ Report \/ RemoveFinalizer
  PROVE  StoreOK'
<1>1. /\ cur \in Clusters /\ cr[cur] \in Resource /\ obj \in Resource
      /\ obj.inner \in BOOLEAN /\ obj.ovDone \in BOOLEAN /\ obj.state \in States
  BY DEF Inductive, TypeOK, Resource
<1>2. UNCHANGED <<cache, app, kapp, overlay>>
  BY DEF AddFinalizer, Report, RemoveFinalizer, argo
<1>3. CASE UNCHANGED kube
  BY <1>2, <1>3 DEF kube, StoreOK, OverrideRecordTrue, CreatedMeansProvisioned,
     RecordsOverride
<1>4. /\ Untouched(cr[cur]) /\ (cr[cur].ovr => cr[cur].exists)
      /\ cr[cur].ovr /\ ~cr[cur].deleting /\ (cr[cur].ovDone \/ app[cur] # "absent")
           => overlay[cur]
      /\ cr[cur].exists /\ ~cr[cur].deleting /\ cr[cur].state = "created"
           => app[cur] = "live" /\ kapp[cur] = "live"
  BY <1>1 DEF StoreOK, OverrideRecordTrue, CreatedMeansProvisioned
<1>5. CASE AddFinalizer /\ Write(cur, [cr[cur] EXCEPT !.fin = TRUE])
  <2> DEFINE r == [cr[cur] EXCEPT !.fin = TRUE]
  <2>1. OneWritten(cur, r)
    BY <1>2, <1>5 DEF OneWritten, Write
  <2>2. /\ r.exists = cr[cur].exists /\ r.deleting = cr[cur].deleting /\ r.fin
        /\ r.ovr = cr[cur].ovr /\ SameStatus(r, cr[cur])
    <3>1. r = [cr[cur] EXCEPT !.fin = TRUE]
      OBVIOUS
    <3> HIDE DEF r
    <3> QED
      BY <1>1, <3>1, FinalizerEdit
  <2> HIDE DEF r
  <2> QED
    BY <1>1, <1>4, <2>1, <2>2, WriteStore DEF Untouched, SameStatus
<1>6. CASE /\ Report /\ fresh
           /\ Write(cur, [cr[cur] EXCEPT !.inner = obj.inner, !.ovDone = obj.ovDone,
                                         !.state = obj.state])
  <2> DEFINE r == [cr[cur] EXCEPT !.inner = obj.inner, !.ovDone = obj.ovDone,
                                  !.state = obj.state]
  <2>1. OneWritten(cur, r)
    BY <1>2, <1>6 DEF OneWritten, Write
  <2>2. SameResource(r, cr[cur]) /\ SameStatus(r, obj)
    <3>1. r = [cr[cur] EXCEPT !.inner = obj.inner, !.ovDone = obj.ovDone,
                              !.state = obj.state]
      OBVIOUS
    <3> HIDE DEF r
    <3> QED
      BY <1>1, <3>1, StatusEdit
  <2> HIDE DEF r
  <2>3. SameResource(obj, cr[cur]) /\ Untouched(obj)
    BY <1>6 DEF CopyOK
  <2>4. Untouched(r) /\ (r.ovr => r.exists)
    BY <1>4, <2>2, <2>3 DEF Untouched, SameResource, SameStatus
  <2>5. r.ovr /\ ~r.deleting /\ (r.ovDone \/ app[cur] # "absent") => overlay[cur]
    BY <1>4, <1>6, <2>2, <2>3
       DEF CopyOK, RecordsOverride, SameResource, SameStatus
  <2>6. r.exists /\ ~r.deleting /\ r.state = "created" => app[cur] = "live" /\ kapp[cur] = "live"
    BY <1>6, <2>2, <2>3 DEF CopyOK, RecordsApps, SameResource, SameStatus
  <2> QED
    BY <1>1, <2>1, <2>2, <2>4, <2>5, <2>6, WriteStore DEF SameResource
<1>7. CASE RemoveFinalizer /\ cr[cur].exists /\ Write(cur, Unguarded(cr[cur]))
  <2>1. ~LiveGuarded(cr[cur]) /\ ~LiveGuarded(cache[cur])
    BY <1>7 DEF RemoveFinalizer, Inductive, WorkerKnows, DeleteSteps
  <2>2. OneWritten(cur, Unguarded(cr[cur]))
    BY <1>2, <1>7 DEF OneWritten, Write
  <2>3. CASE cr[cur].deleting
    <3>1. Unguarded(cr[cur]) = Absent
      BY <2>3 DEF Unguarded
    <3> QED
      BY <1>1, <2>1, <2>2, <3>1, NewProgress, WriteStore
  <2>4. CASE ~cr[cur].deleting
    <3>1. Unguarded(cr[cur]) = cr[cur]
      BY <1>1, <1>7, <2>1, <2>4 DEF Unguarded, LiveGuarded, Resource
    <3> QED
      BY <1>1, <1>4, <2>2, <3>1, WriteStore
  <2> QED
    BY <2>3, <2>4
<1> QED
  BY <1>3, <1>5, <1>6, <1>7 DEF AddFinalizer, Report, RemoveFinalizer

(* They end the pass. *)
LEMMA ResourceCopy ==
  ASSUME AddFinalizer \/ Report \/ RemoveFinalizer
  PROVE  CopyOK'
  BY ReturnCopy DEF AddFinalizer, Report, RemoveFinalizer
-----------------------------------------------------------------------------
(* Begin, informer, process, ArgoCD and users *)

(* A pass begins with a copy of the cache. *)
LEMMA BeginProgress ==
  ASSUME Inductive, CopyOK, StoreOK, NEW c \in Clusters, Begin(c)
  PROVE  CopyOK' /\ StoreOK'
<1>1. UNCHANGED <<cr, cacheFresh, cache, app, kapp, overlay>>
  BY DEF Begin, kube, argo
<1>2. StoreOK'
  BY <1>1 DEF StoreOK, OverrideRecordTrue, CreatedMeansProvisioned, RecordsOverride
<1>3. CASE UNCHANGED worker
  <2>1. UNCHANGED <<cr, app, kapp, overlay, pc, cur, obj, fresh>>
    BY <1>1, <1>3 DEF worker
  <2>2. CopyOK'
    BY <2>1 DEF CopyOK, CopyKnows, RecordsOverride, RecordsApps
  <2> QED
    BY <1>2, <2>2
<1>4. /\ cache[c] \in Resource /\ cr[c] \in Resource
      /\ cache[c].exists \in BOOLEAN /\ cache[c].deleting \in BOOLEAN
      /\ cache[c].fin \in BOOLEAN /\ cache[c].inner \in BOOLEAN
      /\ cache[c].ovr \in BOOLEAN /\ cache[c].ovDone \in BOOLEAN
  BY DEF Inductive, TypeOK, Resource
<1>5. /\ cacheFresh[c] => cache[c] = cr[c]
      /\ Untouched(cache[c])
      /\ cache[c].deleting => cache[c].fin
      /\ LiveGuarded(cache[c]) => cache[c].ovr = cr[c].ovr /\ RecordsOverride(cache[c], c)
      /\ cacheFresh[c] /\ ~cache[c].deleting =>
           RecordsOverride(cache[c], c) /\ RecordsApps(cache[c], c)
  BY DEF StoreOK, OverrideRecordTrue, CreatedMeansProvisioned, RecordsOverride, RecordsApps
<1>6. CASE /\ cache[c].exists /\ cur' = c /\ fresh' = cacheFresh[c]
           /\ obj' = cache[c] /\ pc' = FirstStep(cache[c])
  <2>1. pc' \in {"findApp", "addFinalizer", "validate", "override", "getKapp"}
    BY <1>4, <1>6 DEF FirstStep
  <2>2. /\ pc' = "findApp" => cache[c].deleting
        /\ pc' \in {"validate", "override", "getKapp"} => ~cache[c].deleting /\ cache[c].fin
        /\ pc' = "getKapp" => (cache[c].ovr => cache[c].ovDone)
    BY <1>4, <1>6 DEF FirstStep
  <2>3. CopyKnows'
    BY <1>1, <1>5, <1>6, <2>1, <2>2
       DEF CopyKnows, BuildSteps, DeleteSteps, LiveGuarded, RecordsOverride
  <2>4. (fresh' => SameResource(obj', cr'[cur'])) /\ Untouched(obj')
    BY <1>1, <1>5, <1>6 DEF SameResource
  <2>5. (fresh /\ ~obj.deleting)' => RecordsOverride(obj, cur)' /\ RecordsApps(obj, cur)'
    BY <1>1, <1>5, <1>6 DEF RecordsOverride, RecordsApps
  <2>6. CopyOK'
    BY <2>1, <2>3, <2>4, <2>5 DEF CopyOK
  <2> QED
    BY <1>2, <2>6
<1>7. CASE /\ cache[c].exists /\ cur' = c /\ fresh' = cacheFresh[c]
           /\ obj' = [cache[c] EXCEPT !.state = "retrying"] /\ pc' = "reportRetry"
  <2>1. /\ SameResource(obj', cache[c])
        /\ obj'.inner = cache[c].inner /\ obj'.ovDone = cache[c].ovDone
        /\ obj'.state = "retrying"
    <3> DEFINE q == [cache[c] EXCEPT !.state = "retrying"]
    <3>1. q = [cache[c] EXCEPT !.state = "retrying"] /\ obj' = q /\ "retrying" \in States
      BY <1>7 DEF States
    <3> HIDE DEF q
    <3> QED
      BY <1>4, <3>1, StateEdit
  <2>2. CopyKnows'
    BY <1>7 DEF CopyKnows, BuildSteps, DeleteSteps
  <2>3. Untouched(obj') /\ (fresh' => SameResource(obj', cr'[cur']))
    BY <1>1, <1>5, <1>7, <2>1 DEF Untouched, SameResource
  <2>4. (fresh /\ ~obj.deleting)' => RecordsOverride(obj, cur)' /\ RecordsApps(obj, cur)'
    BY <1>1, <1>5, <1>7, <2>1 DEF SameResource, RecordsOverride, RecordsApps
  <2>5. CopyOK'
    BY <1>7, <2>2, <2>3, <2>4 DEF CopyOK
  <2> QED
    BY <1>2, <2>5
<1> QED
  BY <1>2, <1>3, <1>6, <1>7 DEF Begin

(* The informer and the process copy what is there; ArgoCD ends deletions  *)
(* of clusters that are no longer wanted.                                  *)
LEMMA OutsideProgress ==
  ASSUME Inductive, CopyOK, StoreOK,
         \/ \E c \in Clusters : CacheSync(c) \/ Resync(c) \/ AppGone(c) \/ KappGone(c)
         \/ Restart \/ Settle \/ UNCHANGED vars
  PROVE  CopyOK' /\ StoreOK'
<1>1. /\ cur \in Clusters
      /\ cache \in [Clusters -> Resource] /\ cacheFresh \in [Clusters -> BOOLEAN]
      /\ app \in [Clusters -> AppStates] /\ kapp \in [Clusters -> AppStates]
  BY DEF Inductive, TypeOK
<1>2. \A c \in Clusters : cr[c].deleting => cr[c].fin
  BY DEF Inductive, CacheTells
<1>3. CASE \E c \in Clusters : CacheSync(c)
  <2>1. PICK c \in Clusters : CacheSync(c)
    BY <1>3
  <2>2. /\ UNCHANGED <<cr, app, kapp, overlay, pc, cur, obj, fresh>>
        /\ cache'[c] = cr[c] /\ \A d \in Clusters \ {c} : cache'[d] = cache[d]
        /\ \A d \in Clusters \ {c} : cacheFresh'[d] = cacheFresh[d]
    BY <1>1, <2>1 DEF CacheSync, argo, worker
  <2>3. CopyOK'
    BY <2>2 DEF CopyOK, CopyKnows, RecordsOverride, RecordsApps
  <2>4. StoreOK'
    BY <1>2, <2>2 DEF StoreOK, OverrideRecordTrue, CreatedMeansProvisioned,
       RecordsOverride, LiveGuarded
  <2> QED
    BY <2>3, <2>4
<1>4. CASE Restart
  <2>1. /\ UNCHANGED <<cr, app, kapp, overlay, cur>> /\ cache' = cr
        /\ pc' = "idle" /\ ~fresh' /\ obj' = Absent
    BY <1>4 DEF Restart, argo
  <2>2. CopyOK'
    BY <2>1, NewProgress DEF CopyOK, CopyKnows, BuildSteps, DeleteSteps
  <2>3. StoreOK'
    BY <1>2, <2>1 DEF StoreOK, OverrideRecordTrue, CreatedMeansProvisioned,
       RecordsOverride, LiveGuarded
  <2> QED
    BY <2>2, <2>3
<1>5. CASE \E c \in Clusters : AppGone(c) \/ KappGone(c)
  <2>1. /\ UNCHANGED <<cr, cacheFresh, cache, overlay, pc, cur, obj, fresh>>
        /\ \A c \in Clusters : app[c] = "live" => app'[c] = "live"
        /\ \A c \in Clusters : kapp[c] = "live" => kapp'[c] = "live"
        /\ \A c \in Clusters : app[c] = "absent" => app'[c] = "absent"
    BY <1>1, <1>5 DEF AppGone, KappGone, kube, worker
  <2>2. CopyOK'
    BY <1>1, <2>1 DEF CopyOK, CopyKnows, RecordsOverride, RecordsApps
  <2>3. StoreOK'
    BY <2>1 DEF StoreOK, OverrideRecordTrue, CreatedMeansProvisioned, RecordsOverride
  <2> QED
    BY <2>2, <2>3
<1>6. CASE Settle \/ UNCHANGED vars \/ \E c \in Clusters : Resync(c)
  <2>1. UNCHANGED <<cr, cacheFresh, cache, overlay, app, kapp, pc, cur, obj, fresh>>
    BY <1>6 DEF Settle, vars, Resync, kube, argo, worker
  <2> QED
    BY <2>1 DEF CopyOK, CopyKnows, RecordsApps, StoreOK, OverrideRecordTrue,
       CreatedMeansProvisioned, RecordsOverride
<1> QED
  BY <1>3, <1>4, <1>5, <1>6

(* A user's write to a resource makes the worker's copy of it old. *)
LEMMA UserWriteProgress ==
  ASSUME Inductive, CopyOK, StoreOK, NEW c \in Clusters, NEW r, UserWrite(c, r),
         Untouched(r), r.ovr => r.exists,
         r.ovr /\ ~r.deleting /\ (r.ovDone \/ app[c] # "absent") => overlay[c],
         r.exists /\ ~r.deleting /\ r.state = "created" => app[c] = "live" /\ kapp[c] = "live",
         cr[c].fin => r.ovr = cr[c].ovr
  PROVE  CopyOK' /\ StoreOK'
<1>1. /\ cur \in Clusters /\ cr \in [Clusters -> Resource]
      /\ LiveGuarded(cache[c]) => cr[c].fin
      /\ pc \in BuildSteps => cr[cur].fin
  BY DEF Inductive, TypeOK, CacheTells, WorkerKnows
<1>2. OneWritten(c, r)
  BY DEF UserWrite, Write, OneWritten, argo
<1>3. StoreOK'
  BY <1>1, <1>2, WriteStore
<1>4. /\ UNCHANGED <<app, kapp, overlay, pc, cur, obj>>
      /\ fresh' = (fresh /\ (c = cur => r = cr[c]))
      /\ cr'[c] = r /\ \A d \in Clusters \ {c} : cr'[d] = cr[d]
  BY <1>1 DEF UserWrite, Write, argo
<1>5. CopyOK'
  BY <1>1, <1>4 DEF CopyOK, CopyKnows, RecordsOverride, RecordsApps
<1> QED
  BY <1>3, <1>5

(* No user makes a record false. *)
LEMMA UserProgress ==
  ASSUME Inductive, CopyOK, StoreOK, NEW c \in Clusters,
         UserCreate(c) \/ UserAnnotate(c) \/ UserDelete(c)
  PROVE  CopyOK' /\ StoreOK'
<1>1. /\ cr[c] \in Resource
      /\ cr[c].fin => cr[c].exists
      /\ ~cr[c].exists => app[c] = "absent"
  BY DEF Inductive, TypeOK, CacheTells, NoOrphanApps
<1>2. /\ Untouched(cr[c]) /\ (cr[c].ovr => cr[c].exists)
      /\ cr[c].ovr /\ ~cr[c].deleting /\ (cr[c].ovDone \/ app[c] # "absent") => overlay[c]
      /\ cr[c].exists /\ ~cr[c].deleting /\ cr[c].state = "created"
           => app[c] = "live" /\ kapp[c] = "live"
  BY DEF StoreOK, OverrideRecordTrue, CreatedMeansProvisioned
<1>3. CASE UserCreate(c)
  <2>1. PICK o \in BOOLEAN, a \in Annotations : UserWrite(c, NewResource(o, a))
    BY <1>3 DEF UserCreate
  <2>2. ~cr[c].exists
    BY <1>3 DEF UserCreate
  <2> QED
    BY <1>1, <2>1, <2>2, NewProgress, UserWriteProgress
<1>4. CASE UserAnnotate(c)
  <2>1. PICK a \in Annotations : UserWrite(c, [cr[c] EXCEPT !.ann = a])
    BY <1>4 DEF UserAnnotate
  <2> DEFINE r == [cr[c] EXCEPT !.ann = a]
  <2>2. UserWrite(c, r)
    BY <2>1
  <2>3. SameResource(r, cr[c]) /\ SameStatus(r, cr[c])
    <3>1. r = [cr[c] EXCEPT !.ann = a]
      OBVIOUS
    <3> HIDE DEF r
    <3> QED
      BY <1>1, <3>1, AnnotationEdit
  <2> HIDE DEF r
  <2>4. Untouched(r)
    BY <1>2, <2>3 DEF Untouched, SameResource, SameStatus
  <2> QED
    BY <1>2, <2>2, <2>3, <2>4, UserWriteProgress DEF SameResource, SameStatus
<1>5. CASE UserDelete(c) /\ cr[c].fin
  <2> DEFINE r == [cr[c] EXCEPT !.deleting = TRUE]
  <2>1. UserWrite(c, r)
    BY <1>5 DEF UserDelete
  <2>2. /\ r.exists = cr[c].exists /\ r.deleting /\ r.fin = cr[c].fin /\ r.ovr = cr[c].ovr
        /\ SameStatus(r, cr[c])
    <3>1. r = [cr[c] EXCEPT !.deleting = TRUE]
      OBVIOUS
    <3> HIDE DEF r
    <3> QED
      BY <1>1, <3>1, DeletionEdit
  <2> HIDE DEF r
  <2>3. Untouched(r)
    BY <1>2, <2>2 DEF Untouched, SameStatus
  <2> QED
    BY <1>2, <2>1, <2>2, <2>3, UserWriteProgress
<1>6. CASE UserDelete(c) /\ ~cr[c].fin
  <2>1. UserWrite(c, Absent)
    BY <1>6 DEF UserDelete
  <2> QED
    BY <1>6, <2>1, NewProgress, UserWriteProgress
<1> QED
  BY <1>3, <1>4, <1>5, <1>6

-----------------------------------------------------------------------------
(* The records are true *)

(* Every step keeps Progress. *)
LEMMA ProgressStep ==
  ASSUME Inductive, Progress, [Next]_vars
  PROVE  Progress'
<1>1. CopyOK /\ StoreOK
  BY ProgressParts
<1>2. CASE \/ Validate \/ CreateOverride \/ GetKapp \/ CheckName \/ CreateKapp
           \/ GetApp \/ CreateApp \/ UpdateApp
           \/ FindApp \/ DropOverlay \/ DeleteApp \/ FindKapp \/ DeleteKapp
  BY <1>1, <1>2, CallCopy, CallStore, ProgressParts, PTL
<1>3. CASE AddFinalizer \/ Report \/ RemoveFinalizer
  BY <1>1, <1>3, ResourceCopy, ResourceStore, ProgressParts, PTL
<1>4. CASE \E c \in Clusters : Begin(c)
  <2>1. CopyOK' /\ StoreOK'
    BY <1>1, <1>4, BeginProgress
  <2> QED
    BY <2>1, ProgressParts, PTL
<1>5. CASE \/ \E c \in Clusters : CacheSync(c) \/ Resync(c) \/ AppGone(c) \/ KappGone(c)
           \/ Restart \/ Settle \/ UNCHANGED vars
  BY <1>1, <1>5, OutsideProgress, ProgressParts, PTL
<1>6. CASE \E c \in Clusters : UserCreate(c) \/ UserAnnotate(c) \/ UserDelete(c)
  <2>1. CopyOK' /\ StoreOK'
    BY <1>1, <1>6, UserProgress
  <2> QED
    BY <2>1, ProgressParts, PTL
<1> QED
  BY <1>2, <1>3, <1>4, <1>5, <1>6 DEF Next, Reconcile

(* It holds initially. *)
LEMMA ProgressInit == Init => Progress
<1> SUFFICES ASSUME Init PROVE CopyOK /\ StoreOK
  BY ProgressParts
<1>1. CopyOK
  BY NewProgress DEF Init, CopyOK, CopyKnows, BuildSteps, DeleteSteps
<1>2. StoreOK
  BY NewProgress DEF Init, StoreOK, OverrideRecordTrue, CreatedMeansProvisioned,
     LiveGuarded
<1> QED
  BY <1>1, <1>2

(* However stale the copies and wherever a pass is cut off: copies that    *)
(* count as current agree with the resource, traces of a pass are on       *)
(* guarded resources only, and what is recorded, or about to be, is so.    *)
THEOREM ProgressCorrect == Spec => []Progress
<1> QED
  BY ProgressInit, ProgressStep, InductiveCorrect, PTL DEF Spec

(* A resource that is not guarded bears no trace of a reconciliation. *)
THEOREM FinalizerFirstCorrect == Spec => []FinalizerFirst
<1>1. Progress => FinalizerFirst
  BY DEF Progress, TracesGuarded, Untouched, FinalizerFirst
<1> QED
  BY <1>1, ProgressCorrect, PTL

(* The override that a wanted cluster records, or uses, is in git. *)
THEOREM OverrideRecordCorrect == Spec => []OverrideRecordTrue
<1>1. Progress => OverrideRecordTrue
  BY DEF Progress, RecordsTrue
<1> QED
  BY <1>1, ProgressCorrect, PTL

(* A wanted cluster whose state is "created" has both its applications. *)
THEOREM CreatedCorrect == Spec => []CreatedMeansProvisioned
<1>1. Progress => CreatedMeansProvisioned
  BY DEF Progress, RecordsTrue
<1> QED
  BY <1>1, ProgressCorrect, PTL
===============================================================================
