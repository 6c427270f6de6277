-------------------------- MODULE RegistrationProofs --------------------------
(* ClusterRegistration keeps its promises for every set of resources and   *)
(* of names.                                                               *)
EXTENDS ClusterRegistration, RuntimeProofs

LiveGuarded(s) == s.exists /\ s.fin /\ ~s.deleting

RegisterSteps == {"lookup", "readSecret", "install", "create"}
DeleteSteps   == {"find", "unregister", "removeFinalizer"}

(* However stale the cache: a resource that it shows guarded and wanted is *)
(* still guarded, one that it shows doomed has not come back guarded, and  *)
(* what is guarded is called as the cache has it.                          *)
CacheTells ==
  \A r \in Resources :
    /\ res[r].deleting => res[r].fin
    /\ res[r].fin => res[r].exists
    /\ LiveGuarded(cache[r]) => res[r].fin
    /\ cache[r].deleting => ~LiveGuarded(res[r])
    /\ (LiveGuarded(cache[r]) \/ cache[r].deleting) /\ res[r].fin
         => res[r].name = cache[r].name

(* What the worker has found out on its way still holds. *)
WorkerKnows ==
  /\ pc = "addFinalizer" /\ cache[cur].deleting => res[cur].deleting
  /\ pc \in RegisterSteps => res[cur].fin /\ res[cur].name = obj.name
  /\ pc \in DeleteSteps =>
       /\ ~LiveGuarded(res[cur]) /\ ~LiveGuarded(cache[cur])
       /\ res[cur].fin => res[cur].name = obj.name
  /\ pc = "unregister" => obj.name \in Names
  /\ pc = "removeFinalizer" /\ RegisteredAs(cur, obj) \in argo
       => RegisteredAs(cur, obj) \in unfound

(* A pass that may still report works on a resource in no final state. *)
ReportsOpen ==
  fresh /\ pc \notin DeleteSteps =>
    res[cur].exists /\ res[cur].state \notin {"complete", "error"}

Kept == CacheTells /\ WorkerKnows /\ ReportsOpen /\ RegisteredMeansOwned

RegistrationInv == TypeOK /\ Versions /\ Kept

-----------------------------------------------------------------------------
(* Types *)

OutsideOK ==
  /\ argo \subseteq Names
  /\ secret \in [Resources -> {"missing", "unusable", "usable"}]
  /\ unfound \subseteq Names

(* The type invariant in two parts. *)
LEMMA TypeParts == TypeOK /\ Versions <=> RuntimeOK(Resource, Steps) /\ OutsideOK
  BY DEF TypeOK, RuntimeOK, OutsideOK

(* The absent resource, and the starting point of a pass. *)
LEMMA Records ==
  /\ Absent = NoResource /\ Absent \in Resource
  /\ ~Absent.exists /\ ~Absent.fin /\ ~Absent.deleting
  /\ "idle" \in Steps
  /\ \A s \in Resource : s.exists \in BOOLEAN
  BY AbsentAssumption DEF NoResource, Resource, States, Messages, Steps

(* What the worker and the users write is a resource. *)
LEMMA EditedRecords ==
  ASSUME NEW s \in Resource
  PROVE  /\ \A st \in States, m \in Messages :
              [s EXCEPT !.state = st, !.message = m] \in Resource
         /\ [s EXCEPT !.fin = TRUE] \in Resource
         /\ [s EXCEPT !.deleting = TRUE] \in Resource
         /\ Unguarded(s) \in Resource
         /\ s.state \in States /\ s.message \in Messages
<1>1. [s EXCEPT !.fin = FALSE] \in Resource
  BY DEF Resource
<1>2. Unguarded(s) \in Resource
  BY <1>1, Records DEF Unguarded
<1> QED
  BY <1>2 DEF Resource

(* The name of a cluster is one that ArgoCD can have. *)
LEMMA NameOfRegistration ==
  ASSUME NEW r \in Resources, NEW s \in Resource
  PROVE  RegisteredAs(r, s) \in Names
  BY NamesAssumption DEF RegisteredAs, Resource

-----------------------------------------------------------------------------
(* The calls of a pass that only edit the worker's copy, or nothing *)

(* A pass goes on to p with the copy o, which names the same cluster. *)
LEMMA GoOnKeeps ==
  ASSUME RegistrationInv, OutsideOK', pc # "idle",
         NEW p \in Steps \ {"idle", "addFinalizer"}, NEW o \in Resource,
         pc' = p, obj' = o, o.name = obj.name,
         UNCHANGED <<api, cache, cur, fresh, queued, settled>>,
         pc \notin DeleteSteps => p \notin DeleteSteps /\ unfound' = unfound,
         pc \in DeleteSteps => p \in DeleteSteps,
         p \in RegisterSteps => pc \in RegisterSteps,
         p = "unregister" => obj.name \in Names,
         p = "removeFinalizer" /\ RegisteredAs(cur, obj) \in argo'
           => RegisteredAs(cur, obj) \in unfound',
         unfound \subseteq unfound',
         \A n \in argo' \ argo : pc = "create" /\ n = RegisteredAs(cur, obj)
  PROVE  RegistrationInv'
<1>1. /\ RuntimeOK(Resource, Steps) /\ CacheTells /\ WorkerKnows /\ ReportsOpen
      /\ RegisteredMeansOwned /\ cur \in Resources
  BY TypeParts DEF RegistrationInv, Kept, TypeOK, RuntimeTypeOK
<1>2. RuntimeOK(Resource, Steps)'
  BY <1>1, RuntimeGoOn
<1>3. CacheTells' /\ ReportsOpen'
  BY <1>1 DEF CacheTells, ReportsOpen, api
<1>4. RegisteredAs(cur, o) = RegisteredAs(cur, obj)
  BY DEF RegisteredAs
<1>5. WorkerKnows'
  BY <1>1, <1>4 DEF WorkerKnows, RegisterSteps, DeleteSteps, api
<1>6. RegisteredMeansOwned'
  <2>1. ASSUME NEW n \in argo', n \notin argo
        PROVE  /\ res[cur].exists /\ res[cur].fin
               /\ RegisteredAs(cur, res[cur]) = n
    BY <1>1, <2>1 DEF WorkerKnows, RegisterSteps, RegisteredAs, CacheTells
  <2> QED
    BY <1>1, <2>1 DEF RegisteredMeansOwned, api
<1> QED
  BY <1>2, <1>3, <1>5, <1>6, TypeParts, PTL DEF RegistrationInv, Kept

(* A pass that ends keeps it, whatever is taken from ArgoCD. *)
LEMMA ReturnKeeps ==
  ASSUME RegistrationInv, OutsideOK', Return(TRUE), UNCHANGED <<api, cache, settled>>,
         argo' \subseteq argo, unfound' = unfound
  PROVE  RegistrationInv'
<1>1. RuntimeOK(Resource, Steps) /\ CacheTells /\ RegisteredMeansOwned
  BY TypeParts DEF RegistrationInv, Kept
<1>2. RuntimeOK(Resource, Steps)'
  BY <1>1, Records, RuntimeReturn
<1>3. CacheTells' /\ ReportsOpen' /\ WorkerKnows' /\ RegisteredMeansOwned'
  BY <1>1 DEF CacheTells, ReportsOpen, WorkerKnows, RegisteredMeansOwned, Return, api,
     RegisterSteps, DeleteSteps
<1> QED
  BY <1>2, <1>3, TypeParts, PTL DEF RegistrationInv, Kept

(* A pass that sets the state of its copy goes on to report it. *)
LEMMA SetStateKeeps ==
  ASSUME RegistrationInv, OutsideOK', pc # "idle", pc \notin DeleteSteps,
         NEW st \in States, NEW m \in Messages,
         NEW step \in {"report", "reportRetry"}, SetState(st, m, step),
         UNCHANGED <<api, cache, settled>>, unfound' = unfound,
         \A n \in argo' \ argo : pc = "create" /\ n = RegisteredAs(cur, obj)
  PROVE  RegistrationInv'
<1> DEFINE o == [obj EXCEPT !.state = st, !.message = m]
<1>1. obj \in Resource
  BY DEF RegistrationInv, TypeOK, RuntimeTypeOK
<1>2. o \in Resource /\ o.name = obj.name
  BY <1>1 DEF Resource
<1>3. obj' = o /\ pc' = step /\ UNCHANGED <<cur, fresh, queued>>
  BY DEF SetState
<1>4. step \in Steps \ {"idle", "addFinalizer"} /\ step \notin RegisterSteps \cup DeleteSteps
  BY DEF Steps, RegisterSteps, DeleteSteps
<1> HIDE DEF o
<1> QED
  BY <1>2, <1>3, <1>4, GoOnKeeps DEF DeleteSteps, RegisterSteps

(* The calls of a registration. *)
LEMMA RegisterKeeps ==
  ASSUME RegistrationInv, Lookup \/ ReadSecret \/ InstallRBAC \/ Create
  PROVE  RegistrationInv'
<1>1. /\ obj \in Resource /\ cur \in Resources /\ OutsideOK
      /\ RegisteredAs(cur, obj) \in Names
  BY TypeParts, NameOfRegistration DEF RegistrationInv, TypeOK, RuntimeTypeOK
<1>2. UNCHANGED outside => OutsideOK'
  BY <1>1 DEF OutsideOK, outside
<1>3. /\ {"retrying", "complete", "error"} \subseteq States
      /\ {"", "secret", "rbac", "argocd"} \subseteq Messages
  BY DEF States, Messages
<1>4. CASE Lookup
  <2>1. CASE Done("complete")
    BY <1>2, <1>3, <1>4, <2>1, SetStateKeeps DEF Lookup, Done, DeleteSteps, outside
  <2>2. CASE Goto("readSecret")
    BY <1>1, <1>2, <1>4, <2>2, GoOnKeeps DEF Lookup, Goto, Steps, DeleteSteps,
       RegisterSteps, outside
  <2> QED
    BY <1>4, <2>1, <2>2 DEF Lookup
<1>5. CASE ReadSecret
  <2>1. CASE RetryLater("secret")
    BY <1>2, <1>3, <1>5, <2>1, SetStateKeeps DEF ReadSecret, RetryLater, DeleteSteps, outside
  <2>2. CASE Done("error")
    BY <1>2, <1>3, <1>5, <2>2, SetStateKeeps DEF ReadSecret, Done, DeleteSteps, outside
  <2>3. CASE Goto("install")
    BY <1>1, <1>2, <1>5, <2>3, GoOnKeeps DEF ReadSecret, Goto, Steps, DeleteSteps,
       RegisterSteps, outside
  <2> QED
    BY <1>5, <2>1, <2>2, <2>3 DEF ReadSecret
<1>6. CASE InstallRBAC
  <2>1. CASE RetryLater("rbac")
    BY <1>2, <1>3, <1>6, <2>1, SetStateKeeps DEF InstallRBAC, RetryLater, DeleteSteps, outside
  <2>2. CASE Goto("create")
    BY <1>1, <1>2, <1>6, <2>2, GoOnKeeps DEF InstallRBAC, Goto, Steps, DeleteSteps,
       RegisterSteps, outside
  <2> QED
    BY <1>6, <2>1, <2>2 DEF InstallRBAC
<1>7. CASE Create
  <2>1. /\ OutsideOK' /\ unfound' = unfound
        /\ \A n \in argo' \ argo : n = RegisteredAs(cur, obj)
    BY <1>1, <1>7 DEF Create, OutsideOK
  <2>2. CASE RetryLater("argocd")
    BY <1>3, <1>7, <2>1, <2>2, SetStateKeeps DEF Create, RetryLater, DeleteSteps
  <2>3. CASE Done("complete")
    BY <1>3, <1>7, <2>1, <2>3, SetStateKeeps DEF Create, Done, DeleteSteps
  <2> QED
    BY <1>7, <2>2, <2>3 DEF Create
<1> QED
  BY <1>4, <1>5, <1>6, <1>7

(* The calls of a deletion. *)
LEMMA UnregisterKeeps ==
  ASSUME RegistrationInv, Find \/ Unregister
  PROVE  RegistrationInv'
<1>1. /\ obj \in Resource /\ cur \in Resources /\ OutsideOK /\ WorkerKnows
      /\ RegisteredAs(cur, obj) \in Names
  BY TypeParts, NameOfRegistration DEF RegistrationInv, Kept, TypeOK, RuntimeTypeOK
<1>2. CASE Find
  <2>1. CASE obj.name \in argo /\ Goto("unregister") /\ UNCHANGED unfound
    <3>1. OutsideOK' /\ obj.name \in Names /\ argo' = argo
      BY <1>1, <1>2, <2>1 DEF OutsideOK, Find
    <3> QED
      BY <1>1, <1>2, <2>1, <3>1, GoOnKeeps DEF Find, Goto, Steps, DeleteSteps, RegisterSteps
  <2>2. CASE Goto("removeFinalizer")
    <3>1. OutsideOK' /\ argo' = argo /\ unfound \subseteq unfound'
      BY <1>1, <1>2 DEF OutsideOK, Find
    <3>2. RegisteredAs(cur, obj) \in argo' => RegisteredAs(cur, obj) \in unfound'
      BY <1>2, <2>2 DEF Find, Goto
    <3> QED
      BY <1>1, <1>2, <2>2, <3>1, <3>2, GoOnKeeps DEF Find, Goto, Steps, DeleteSteps,
         RegisterSteps
  <2> QED
    BY <1>2, <2>1, <2>2 DEF Find
<1>3. CASE Unregister
  <2>1. OutsideOK' /\ argo' \subseteq argo /\ unfound' = unfound
    BY <1>1, <1>3 DEF OutsideOK, Unregister
  <2>2. CASE Return(TRUE)
    BY <1>3, <2>1, <2>2, ReturnKeeps DEF Unregister
  <2>3. CASE Goto("removeFinalizer") /\ argo' = argo \ {obj.name}
    <3>1. RegisteredAs(cur, obj) = obj.name
      BY <1>1, <1>3, NamesAssumption DEF WorkerKnows, Unregister, RegisteredAs
    <3> QED
      BY <1>1, <1>3, <2>1, <2>3, <3>1, GoOnKeeps DEF Unregister, Goto, Steps, DeleteSteps,
         RegisterSteps
  <2> QED
    BY <1>3, <2>2, <2>3 DEF Unregister
<1> QED
  BY <1>2, <1>3

-----------------------------------------------------------------------------
(* The writes of a pass, and its start *)

(* A pass ends with its resource written: the status is of no account,     *)
(* a finalizer comes for one that the cache does not show doomed, and goes *)
(* from one of which nothing is registered.                                *)
LEMMA WriteKeeps ==
  ASSUME RegistrationInv, NEW s \in Resource, NEW again \in BOOLEAN, Return(again),
         UNCHANGED <<cache, settled, outside>>,
         UNCHANGED api \/ Write(cur, s),
         \/ s.exists = res[cur].exists /\ s.deleting = res[cur].deleting
            /\ s.name = res[cur].name
            /\ \/ s.fin = res[cur].fin
               \/ pc = "addFinalizer" /\ s.fin /\ res[cur].exists
         \/ pc = "removeFinalizer" /\ ~s.fin /\ ~s.deleting
  PROVE  RegistrationInv'
<1>1. /\ RuntimeOK(Resource, Steps) /\ OutsideOK /\ CacheTells /\ WorkerKnows
      /\ RegisteredMeansOwned /\ cur \in Resources /\ res \in [Resources -> Resource]
  BY TypeParts DEF RegistrationInv, Kept, TypeOK, RuntimeTypeOK
<1>2. RuntimeOK(Resource, Steps)' /\ OutsideOK'
  <2>1. RuntimeOK(Resource, Steps)'
    BY <1>1, Records, RuntimeReturn
  <2> QED
    BY <1>1, <2>1 DEF OutsideOK, outside
<1>3. ReportsOpen' /\ WorkerKnows'
  BY DEF ReportsOpen, WorkerKnows, Return, RegisterSteps, DeleteSteps
<1>4. /\ \A r \in Resources \ {cur} : res'[r] = res[r]
      /\ res'[cur] = res[cur] \/ res'[cur] = s
      /\ cache' = cache /\ argo' = argo /\ unfound' = unfound
  BY <1>1 DEF Write, api, outside
<1>5. CASE res'[cur] = res[cur]
  <2>1. \A r \in Resources : res'[r] = res[r]
    BY <1>4, <1>5
  <2>2. CacheTells' /\ RegisteredMeansOwned'
    BY <1>1, <1>4, <2>1 DEF CacheTells, RegisteredMeansOwned
  <2> QED
    BY <1>2, <1>3, <2>2, TypeParts, PTL DEF RegistrationInv, Kept
<1>6. CASE res'[cur] = s
  <2>1. CacheTells'
    BY <1>1, <1>4, <1>6 DEF CacheTells, WorkerKnows, LiveGuarded, DeleteSteps
  <2>2. ASSUME NEW n \in argo, n \notin unfound
        PROVE  \E r \in Resources :
                 res'[r].exists /\ res'[r].fin /\ RegisteredAs(r, res'[r]) = n
    <3>1. PICK r \in Resources :
            res[r].exists /\ res[r].fin /\ RegisteredAs(r, res[r]) = n
      BY <1>1, <2>2 DEF RegisteredMeansOwned
    <3>2. CASE r # cur
      BY <1>4, <3>1, <3>2
    <3>3. CASE r = cur /\ s.exists /\ s.fin /\ s.name = res[cur].name
      BY <1>6, <3>1, <3>3 DEF RegisteredAs
    <3>4. CASE r = cur /\ pc = "removeFinalizer"
      <4>1. res[cur].name = obj.name
        BY <1>1, <3>1, <3>4 DEF WorkerKnows, DeleteSteps
      <4> QED
        BY <1>1, <2>2, <3>1, <3>4, <4>1 DEF WorkerKnows, RegisteredAs
    <3> QED
      BY <3>1, <3>2, <3>3, <3>4
  <2>3. RegisteredMeansOwned'
    BY <1>4, <2>2 DEF RegisteredMeansOwned
  <2> QED
    BY <1>2, <1>3, <2>1, <2>3, TypeParts, PTL DEF RegistrationInv, Kept
<1> QED
  BY <1>4, <1>5, <1>6

(* The three writes. *)
LEMMA WritesKeep ==
  ASSUME RegistrationInv, AddFinalizer \/ Report \/ RemoveFinalizer
  PROVE  RegistrationInv'
<1>1. res[cur] \in Resource /\ obj \in Resource
  BY DEF RegistrationInv, TypeOK, RuntimeTypeOK
<1>2. CASE AddFinalizer
  <2> DEFINE s == [res[cur] EXCEPT !.fin = TRUE]
  <2>1. /\ s \in Resource /\ s.exists = res[cur].exists /\ s.fin
        /\ s.deleting = res[cur].deleting /\ s.name = res[cur].name
    BY <1>1 DEF Resource
  <2>2. pc = "addFinalizer" /\ Patch(s) /\ UNCHANGED <<cache, settled, outside>>
    BY <1>2 DEF AddFinalizer
  <2> HIDE DEF s
  <2>3. \E b \in BOOLEAN : Return(b)
    BY <2>2 DEF Patch
  <2>4. CASE UNCHANGED api
    BY <1>1, <2>2, <2>3, <2>4, WriteKeeps
  <2>5. CASE res[cur].exists /\ Write(cur, s)
    BY <2>1, <2>2, <2>3, <2>5, WriteKeeps
  <2> QED
    BY <2>2, <2>4, <2>5 DEF Patch
<1>3. CASE Report
  <2> DEFINE s == [res[cur] EXCEPT !.state = obj.state, !.message = obj.message]
  <2>1. /\ s \in Resource /\ s.exists = res[cur].exists /\ s.fin = res[cur].fin
        /\ s.deleting = res[cur].deleting /\ s.name = res[cur].name
    BY <1>1 DEF Resource
  <2>2. StatusUpdate(s, pc = "reportRetry") /\ UNCHANGED <<cache, settled, outside>>
    BY <1>3 DEF Report
  <2> HIDE DEF s
  <2>3. \E b \in BOOLEAN : Return(b)
    BY <2>2 DEF StatusUpdate
  <2>4. UNCHANGED api \/ Write(cur, s)
    BY <2>2 DEF StatusUpdate
  <2> QED
    BY <2>1, <2>2, <2>3, <2>4, WriteKeeps
<1>4. CASE RemoveFinalizer
  <2> DEFINE s == Unguarded(res[cur])
  <2>1. s \in Resource
    BY <1>1, EditedRecords
  <2>2. ~s.fin /\ ~s.deleting
    BY <1>1, Records DEF Unguarded, Resource
  <2>3. pc = "removeFinalizer" /\ Patch(s) /\ UNCHANGED <<cache, settled, outside>>
    BY <1>4 DEF RemoveFinalizer
  <2> HIDE DEF s
  <2>4. \E b \in BOOLEAN : Return(b)
    BY <2>3 DEF Patch
  <2>5. UNCHANGED api \/ Write(cur, s)
    BY <2>3 DEF Patch
  <2> QED
    BY <2>1, <2>2, <2>3, <2>4, <2>5, WriteKeeps
<1> QED
  BY <1>2, <1>3, <1>4

(* A pass begins with what the cache tells. *)
LEMMA TakeKeeps ==
  ASSUME RegistrationInv, NEW r \in Resources, Take(r)
  PROVE  RegistrationInv'
<1> DEFINE step == FirstStep(cache[r])
           copy == FirstEdit(cache[r])
<1>1. /\ RuntimeOK(Resource, Steps) /\ OutsideOK /\ CacheTells /\ WorkerKnows
      /\ RegisteredMeansOwned /\ cache[r] \in Resource /\ Versions /\ ReportsOpen
  BY TypeParts DEF RegistrationInv, Kept, TypeOK, RuntimeTypeOK
<1>2. /\ step \in {"find", "idle", "report", "addFinalizer", "lookup"}
      /\ step = "find" <=> cache[r].deleting
      /\ step = "lookup" => cache[r].fin /\ ~cache[r].deleting
      /\ step \notin {"find", "idle"} => cache[r].state \notin {"complete", "error"}
  BY <1>1 DEF FirstStep, Resource, States
<1>3. /\ copy \in Resource /\ copy.name = cache[r].name
  <2>1. [cache[r] EXCEPT !.state = "error", !.message = ""] \in Resource
    BY <1>1, EditedRecords DEF States, Messages
  <2> QED
    BY <1>1, <2>1 DEF FirstEdit, Resource
<1>4. Begin(r, step, copy) /\ UNCHANGED outside
  BY DEF Take
<1> HIDE DEF step, copy
<1>5. RuntimeOK(Resource, Steps)'
  BY <1>1, <1>2, <1>3, <1>4, RuntimeBegin DEF Steps
<1>6. OutsideOK' /\ RegisteredMeansOwned' /\ CacheTells'
  BY <1>1, <1>4 DEF OutsideOK, RegisteredMeansOwned, CacheTells, Begin, api, outside
<1>7. ReportsOpen' /\ WorkerKnows'
  <2>1. CASE UNCHANGED local
    BY <1>1, <1>4, <2>1 DEF ReportsOpen, WorkerKnows, Begin, api, local, outside
  <2>2. CASE cache[r].exists /\ step # "idle" /\ cur' = r /\ fresh' = cacheFresh[r]
             /\ obj' = copy /\ pc' = step
    <3>1. res' = res /\ cache' = cache /\ argo' = argo /\ unfound' = unfound
      BY <1>4 DEF Begin, api, outside
    <3>2. ReportsOpen'
      BY <1>1, <1>2, <2>2, <3>1 DEF ReportsOpen, Versions, DeleteSteps
    <3>3. step = "lookup" => LiveGuarded(cache[r])
      BY <1>2, <2>2 DEF LiveGuarded
    <3>4. WorkerKnows'
      BY <1>1, <1>2, <1>3, <2>2, <3>1, <3>3 DEF WorkerKnows, CacheTells, RegisterSteps,
         DeleteSteps, LiveGuarded
    <3> QED
      BY <3>2, <3>4
  <2> QED
    BY <1>4, <2>1, <2>2 DEF Begin
<1> QED
  BY <1>5, <1>6, <1>7, TypeParts, PTL DEF RegistrationInv, Kept

-----------------------------------------------------------------------------
(* Outside a pass *)

(* The informer and the process. *)
LEMMA OutsideKeeps ==
  ASSUME RegistrationInv, UNCHANGED outside,
         \/ \E r \in Resources : CacheSync(r) \/ Resync(r)
         \/ Restart \/ Settle
  PROVE  RegistrationInv'
<1>1. /\ RuntimeOK(Resource, Steps) /\ OutsideOK /\ CacheTells /\ WorkerKnows
      /\ RegisteredMeansOwned /\ ReportsOpen
      /\ cache \in [Resources -> Resource] /\ cur \in Resources
  BY TypeParts DEF RegistrationInv, Kept, TypeOK, RuntimeTypeOK
<1>2. RuntimeOK(Resource, Steps)'
  BY <1>1, Records, RuntimeOutside
<1>3. /\ res' = res /\ cur' = cur /\ argo' = argo /\ unfound' = unfound
      /\ \A r \in Resources : cache'[r] = cache[r] \/ cache'[r] = res[r]
      /\ (pc' = "idle" /\ ~fresh') \/ UNCHANGED local
  BY <1>1 DEF CacheSync, Resync, Restart, Settle, api, local, outside
<1>4. OutsideOK' /\ RegisteredMeansOwned'
  BY <1>1, <1>3 DEF OutsideOK, RegisteredMeansOwned, outside
<1>5. CacheTells'
  BY <1>1, <1>3 DEF CacheTells, LiveGuarded
<1>6. ReportsOpen' /\ WorkerKnows'
  BY <1>1, <1>3 DEF ReportsOpen, WorkerKnows, RegisterSteps, DeleteSteps, local
<1> QED
  BY <1>2, <1>4, <1>5, <1>6, TypeParts, PTL DEF RegistrationInv, Kept

(* A user makes a resource that is not there, and marks one for deletion   *)
(* or, if it is not guarded, removes it.                                   *)
LEMMA UserKeeps ==
  ASSUME RegistrationInv, NEW r \in Resources, NEW s \in Resource, UserWrite(r, s),
         UNCHANGED outside,
         \/ ~res[r].fin /\ ~s.fin /\ ~s.deleting
         \/ res[r].fin /\ s.fin /\ s.exists /\ s.deleting /\ s.name = res[r].name
  PROVE  RegistrationInv'
<1>1. /\ RuntimeOK(Resource, Steps) /\ OutsideOK /\ CacheTells /\ WorkerKnows
      /\ RegisteredMeansOwned /\ ReportsOpen
      /\ res \in [Resources -> Resource] /\ cur \in Resources
  BY TypeParts DEF RegistrationInv, Kept, TypeOK, RuntimeTypeOK
<1>2. RuntimeOK(Resource, Steps)'
  BY <1>1, Records, RuntimeOutside
<1>3. /\ res' = [res EXCEPT ![r] = s] /\ cur' = cur /\ argo' = argo
      /\ unfound' = unfound /\ cache' = cache /\ pc' = pc /\ obj' = obj
      /\ fresh' => fresh /\ (r = cur => s = res[r])
  BY DEF UserWrite, Write, outside
<1>4. /\ \A q \in Resources \ {r} : res'[q] = res[q]
      /\ res'[r] = s
  BY <1>1, <1>3
<1>5. OutsideOK' /\ CacheTells'
  BY <1>1, <1>3, <1>4 DEF OutsideOK, CacheTells, LiveGuarded, outside
<1>6. ReportsOpen' /\ WorkerKnows'
  BY <1>1, <1>3, <1>4 DEF ReportsOpen, WorkerKnows, CacheTells, LiveGuarded,
     RegisterSteps, DeleteSteps
<1>7. RegisteredMeansOwned'
  BY <1>1, <1>3, <1>4 DEF RegisteredMeansOwned, RegisteredAs
<1> QED
  BY <1>2, <1>5, <1>6, <1>7, TypeParts, PTL DEF RegistrationInv, Kept

(* What a user does is of that kind. *)
LEMMA UsersKeep ==
  ASSUME RegistrationInv, NEW r \in Resources, UserCreate(r) \/ UserDelete(r)
  PROVE  RegistrationInv'
<1>1. /\ res[r] \in Resource /\ CacheTells
  BY DEF RegistrationInv, Kept, TypeOK, RuntimeTypeOK
<1>2. CASE UserCreate(r)
  <2>1. PICK v \in BOOLEAN, n \in Names \cup {Unnamed} :
          UserWrite(r, [NoResource EXCEPT !.exists = TRUE, !.valid = v, !.name = n])
    BY <1>2 DEF UserCreate
  <2> DEFINE s == [NoResource EXCEPT !.exists = TRUE, !.valid = v, !.name = n]
  <2>2. s \in Resource /\ ~s.fin /\ ~s.deleting
    BY Records DEF NoResource, Resource
  <2>3. UserWrite(r, s) /\ UNCHANGED outside /\ ~res[r].fin
    BY <1>1, <1>2, <2>1 DEF UserCreate, CacheTells
  <2> HIDE DEF s
  <2> QED
    BY <2>2, <2>3, UserKeeps
<1>3. CASE UserDelete(r)
  <2>1. CASE res[r].fin
    <3> DEFINE s == [res[r] EXCEPT !.deleting = TRUE]
    <3>1. /\ s \in Resource /\ s.fin /\ s.exists /\ s.deleting
          /\ s.name = res[r].name
      BY <1>1, <1>3, <2>1 DEF Resource, UserDelete
    <3>2. UserWrite(r, s) /\ UNCHANGED outside
      BY <1>3, <2>1 DEF UserDelete
    <3> HIDE DEF s
    <3> QED
      BY <2>1, <3>1, <3>2, UserKeeps
  <2>2. CASE ~res[r].fin
    BY <1>3, <2>2, Records, UserKeeps DEF UserDelete
  <2> QED
    BY <2>1, <2>2
<1> QED
  BY <1>2, <1>3

(* The secret that the controller waits for. *)
LEMMA ProvideKeeps ==
  ASSUME RegistrationInv, NEW r \in Resources, ProvideSecret(r)
  PROVE  RegistrationInv'
<1>1. RuntimeOK(Resource, Steps) /\ OutsideOK /\ Kept
  BY TypeParts DEF RegistrationInv
<1>2. OutsideOK'
  BY <1>1 DEF OutsideOK, ProvideSecret
<1>3. RuntimeOK(Resource, Steps)' /\ Kept'
  BY <1>1 DEF RuntimeOK, RuntimeTypeOK, Versions, Kept, CacheTells, WorkerKnows,
     ReportsOpen, RegisteredMeansOwned, ProvideSecret, runtime
<1> QED
  BY <1>2, <1>3, TypeParts, PTL DEF RegistrationInv

(* Every step keeps the invariant. *)
LEMMA RegistrationStep == RegistrationInv /\ [Next]_vars => RegistrationInv'
<1> SUFFICES ASSUME RegistrationInv, [Next]_vars PROVE RegistrationInv'
  OBVIOUS
<1>1. ASSUME NEW r \in Resources, Take(r) PROVE RegistrationInv'
  BY <1>1, TakeKeeps
<1>2. ASSUME NEW r \in Resources, CacheSync(r) \/ Resync(r), UNCHANGED outside
      PROVE  RegistrationInv'
  BY <1>2, OutsideKeeps
<1>3. ASSUME NEW r \in Resources, UserCreate(r) \/ UserDelete(r)
      PROVE  RegistrationInv'
  BY <1>3, UsersKeep
<1>4. ASSUME NEW r \in Resources, ProvideSecret(r) PROVE RegistrationInv'
  BY <1>4, ProvideKeeps
<1>5. CASE Reconcile
  BY <1>5, RegisterKeeps, UnregisterKeeps, WritesKeep DEF Reconcile
<1>6. CASE (Restart \/ Settle) /\ UNCHANGED outside
  BY <1>6, OutsideKeeps
<1>7. CASE UNCHANGED vars
  BY <1>7 DEF vars, RegistrationInv, TypeOK, RuntimeTypeOK, Versions, Kept, CacheTells,
     WorkerKnows, ReportsOpen, RegisteredMeansOwned
<1> QED
  BY <1>1, <1>2, <1>3, <1>4, <1>5, <1>6, <1>7 DEF Next

(* It holds initially. *)
LEMMA RegistrationStart == Init => RegistrationInv
<1> SUFFICES ASSUME Init PROVE RegistrationInv
  OBVIOUS
<1>1. RuntimeOK(Resource, Steps)
  BY Records, RuntimeStarts DEF Init
<1>2. OutsideOK /\ Kept
  BY Records DEF Init, RuntimeInit, OutsideOK, Kept, CacheTells, WorkerKnows,
     ReportsOpen, RegisteredMeansOwned, LiveGuarded, RegisterSteps, DeleteSteps
<1> QED
  BY <1>1, <1>2, TypeParts DEF RegistrationInv

-----------------------------------------------------------------------------

(* Every variable of ClusterRegistration keeps its type. *)
THEOREM RegistrationTypeCorrect == Spec => []TypeOK
<1>1. RegistrationInv => TypeOK
  BY DEF RegistrationInv
<1> QED
  BY <1>1, RegistrationStart, RegistrationStep, PTL DEF Spec

(* What was registered is unregistered before its resource loses the       *)
(* finalizer, or its lookup went wrong at the deletion.                    *)
THEOREM OwnedCorrect == Spec => []RegisteredMeansOwned
<1>1. RegistrationInv => RegisteredMeansOwned
  BY DEF RegistrationInv, Kept
<1> QED
  BY <1>1, RegistrationStart, RegistrationStep, PTL DEF Spec

(* A pass that writes a status has read one that is not final. *)
THEOREM RegistrationFinal == Spec => FinalStates
<1>1. ASSUME RegistrationInv, [Next]_vars, NEW r \in Resources,
             res[r].exists, res[r].state \in {"complete", "error"}, res'[r].exists
      PROVE  res'[r].state = res[r].state
  <2>1. ReportsOpen /\ res \in [Resources -> Resource] /\ cur \in Resources
    BY <1>1 DEF RegistrationInv, Kept, TypeOK, RuntimeTypeOK
  <2>2. CASE UNCHANGED res
    BY <2>2
  <2>3. CASE Report
    <3>1. CASE UNCHANGED api
      BY <3>1 DEF api
    <3>2. CASE fresh /\ \E s : Write(cur, s)
      BY <1>1, <2>1, <2>3, <3>2 DEF ReportsOpen, Report, DeleteSteps, Write
    <3> QED
      BY <2>3, <3>1, <3>2 DEF Report, StatusUpdate
  <2>4. ASSUME NEW s, Patch(s), ~s.exists \/ s.state = res[cur].state
        PROVE  res'[r].state = res[r].state
    BY <1>1, <2>1, <2>4 DEF Patch, Write, api
  <2>5. CASE AddFinalizer
    <3> DEFINE s == [res[cur] EXCEPT !.fin = TRUE]
    <3>1. s.state = res[cur].state
      BY <2>1 DEF Resource
    <3>2. Patch(s)
      BY <2>5 DEF AddFinalizer
    <3> HIDE DEF s
    <3> QED
      BY <2>4, <3>1, <3>2
  <2>6. CASE RemoveFinalizer
    <3> DEFINE s == Unguarded(res[cur])
    <3>1. ~s.exists \/ s.state = res[cur].state
      BY <2>1 DEF Resource, Unguarded, NoResource
    <3>2. Patch(s)
      BY <2>6 DEF RemoveFinalizer
    <3> HIDE DEF s
    <3> QED
      BY <2>4, <3>1, <3>2
  <2>7. ASSUME NEW q \in Resources, UserCreate(q)
        PROVE  res'[r].state = res[r].state
    BY <1>1, <2>1, <2>7 DEF UserCreate, UserWrite, Write
  <2>8. ASSUME NEW q \in Resources, UserDelete(q)
        PROVE  res'[r].state = res[r].state
    <3>1. PICK s : UserWrite(q, s) /\ (~s.exists \/ s.state = res[q].state)
      <4> DEFINE s == [res[q] EXCEPT !.deleting = TRUE]
      <4>1. s.state = res[q].state
        BY <2>1 DEF Resource
      <4>2. UserWrite(q, IF res[q].fin THEN s ELSE NoResource)
        BY <2>8 DEF UserDelete
      <4> HIDE DEF s
      <4> QED
        BY <4>1, <4>2, Records
    <3> QED
      BY <1>1, <2>1, <3>1 DEF UserWrite, Write
  <2> QED
    BY <1>1, <2>2, <2>3, <2>5, <2>6, <2>7, <2>8 DEF Next, vars, Take, Begin, api, CacheSync,
       Resync, ProvideSecret, runtime, Reconcile, Lookup, ReadSecret, InstallRBAC, Create,
       Find, Unregister, Restart, Settle
<1>2. RegistrationInv /\ [Next]_vars =>
        [\A r \in Resources :
           res[r].exists /\ res[r].state \in {"complete", "error"} /\ res'[r].exists
             => res'[r].state = res[r].state]_vars
  BY <1>1
<1> QED
  BY <1>2, RegistrationStart, RegistrationStep, PTL DEF Spec, FinalStates

-----------------------------------------------------------------------------
(* Several registrations and one name *)

(* The users give every cluster one registration, but each deletion goes   *)
(* by name: what is asked of the cache is that it never shows two of one   *)
(* name.  An ordered watch gives that, since the cache is then what the    *)
(* API server once held (OneRegistrationCorrect); CacheSync, which has     *)
(* each resource lag by itself, does not.                                  *)
OneRegistrationShown ==
  \A q, r \in Resources :
    q # r /\ cache[q].exists /\ cache[r].exists
      => RegisteredAs(q, cache[q]) # RegisteredAs(r, cache[r])

OneRegistration ==
  \A q, r \in Resources :
    q # r /\ res[q].exists /\ res[r].exists
      => RegisteredAs(q, res[q]) # RegisteredAs(r, res[r])

Complete(r) == Wanted(r) /\ res[r].state = "complete"

(* What is complete is registered and guarded, and known to the cache.     *)
CompleteKnown ==
  \A r \in Resources : Complete(r) =>
    /\ RegisteredAs(r, res[r]) \in argo
    /\ res[r].fin /\ cache[r].exists /\ cache[r].name = res[r].name

(* A copy that is current was read from a cache that is.                   *)
CopyCurrent == fresh => cacheFresh[cur]

(* A pass reports that a cluster is registered when it is.                 *)
ReportTrue ==
  /\ pc \in RegisterSteps => obj.state # "complete"
  /\ pc \in {"report", "reportRetry"} /\ obj.state = "complete" =>
       /\ RegisteredAs(cur, obj) \in argo
       /\ fresh => res[cur].fin /\ res[cur].name = obj.name

(* A deletion takes no cluster that another resource reports registered.   *)
OthersSpared ==
  pc \in {"find", "unregister"} =>
    \A r \in Resources \ {cur} : Complete(r) => RegisteredAs(r, res[r]) # obj.name

Trusted == CompleteKnown /\ CopyCurrent /\ ReportTrue /\ OthersSpared

(* What the invariant says of the types. *)
LEMMA RegistrationFacts ==
  ASSUME RegistrationInv
  PROVE  /\ res \in [Resources -> Resource] /\ cache \in [Resources -> Resource]
         /\ cacheFresh \in [Resources -> BOOLEAN] /\ cur \in Resources
         /\ obj \in Resource /\ argo \subseteq Names
         /\ CacheTells /\ WorkerKnows /\ ReportsOpen /\ Versions
  BY DEF RegistrationInv, Kept, TypeOK, RuntimeTypeOK

(* A pass begins: it deletes only under a name that no other resource the  *)
(* cache shows has, and what is complete is shown.                         *)
LEMMA TakeTrusts ==
  ASSUME RegistrationInv, Trusted, OneRegistrationShown, NEW r \in Resources, Take(r)
  PROVE  Trusted'
<1> DEFINE step == FirstStep(cache[r])
           copy == FirstEdit(cache[r])
<1>1. cache[r] \in Resource /\ cache \in [Resources -> Resource] /\ cur \in Resources
  BY RegistrationFacts
<1>2. /\ step \in {"find", "idle", "report", "addFinalizer", "lookup"}
      /\ step = "lookup" => copy.state # "complete"
      /\ step = "report" => copy.state # "complete"
      /\ copy.name = cache[r].name
  <2>1. [cache[r] EXCEPT !.state = "error", !.message = ""].state = "error"
    BY <1>1 DEF Resource
  <2> QED
    BY <1>1, <2>1 DEF FirstStep, FirstEdit, Resource, States
<1>3. Begin(r, step, copy) /\ UNCHANGED outside
  BY DEF Take
<1> HIDE DEF step, copy
<1>4. res' = res /\ cache' = cache /\ cacheFresh' = cacheFresh /\ argo' = argo
  BY <1>3 DEF Begin, api, outside
<1>5. CompleteKnown'
  BY <1>4 DEF Trusted, CompleteKnown, Complete, Wanted
<1>6. CASE UNCHANGED local
  BY <1>4, <1>5, <1>6 DEF Trusted, CopyCurrent, ReportTrue, OthersSpared, local,
     Complete, Wanted
<1>7. CASE cache[r].exists /\ cur' = r /\ fresh' = cacheFresh[r] /\ obj' = copy /\ pc' = step
  <2>1. CopyCurrent' /\ ReportTrue'
    BY <1>2, <1>4, <1>7 DEF CopyCurrent, ReportTrue, RegisterSteps
  <2>2. ASSUME NEW q \in Resources \ {r}, Complete(q)
        PROVE  RegisteredAs(q, res[q]) # cache[r].name
    <3>1. /\ cache[q].exists /\ RegisteredAs(q, cache[q]) = RegisteredAs(q, res[q])
      BY <2>2 DEF Trusted, CompleteKnown, RegisteredAs
    <3>2. RegisteredAs(q, cache[q]) # RegisteredAs(r, cache[r])
      BY <1>7, <3>1 DEF OneRegistrationShown
    <3>3. RegisteredAs(q, cache[q]) \in Names
      BY <1>1, NameOfRegistration
    <3> QED
      BY <3>1, <3>2, <3>3, NamesAssumption DEF RegisteredAs
  <2>3. OthersSpared'
    BY <1>2, <1>4, <1>7, <2>2 DEF OthersSpared, Complete, Wanted
  <2> QED
    BY <1>5, <2>1, <2>3 DEF Trusted
<1> QED
  BY <1>3, <1>6, <1>7 DEF Begin

(* A pass ends without a write, or goes on to a call that is no deletion,  *)
(* and leaves what is registered of the others.                            *)
LEMMA EndTrusts ==
  ASSUME RegistrationInv, Trusted, NEW again \in BOOLEAN, Return(again),
         UNCHANGED <<api, cache>>,
         \A r \in Resources : Complete(r) => RegisteredAs(r, res[r]) \in argo'
  PROVE  Trusted'
<1>1. pc' = "idle" /\ ~fresh' /\ res' = res /\ cache' = cache
  BY DEF Return, api
<1>2. CompleteKnown'
  BY <1>1 DEF Trusted, CompleteKnown, Complete, Wanted
<1> QED
  BY <1>1, <1>2 DEF Trusted, CopyCurrent, ReportTrue, OthersSpared, RegisterSteps

(* A pass goes on.                                                         *)
LEMMA GoOnTrusts ==
  ASSUME RegistrationInv, Trusted, NEW p, pc' = p, UNCHANGED <<api, cache, cur, fresh>>,
         \A r \in Resources : Complete(r) => RegisteredAs(r, res[r]) \in argo',
         p \in RegisterSteps => obj'.state # "complete",
         p \in {"report", "reportRetry"} /\ obj'.state = "complete" =>
           /\ RegisteredAs(cur, obj') \in argo'
           /\ res[cur].fin /\ res[cur].name = obj'.name,
         p \in {"find", "unregister"} => pc \in {"find", "unregister"} /\ obj' = obj
  PROVE  Trusted'
<1>1. res' = res /\ cacheFresh' = cacheFresh
  BY DEF api
<1>2. CompleteKnown' /\ CopyCurrent' /\ ReportTrue' /\ OthersSpared'
  BY <1>1 DEF Trusted, CompleteKnown, CopyCurrent, ReportTrue, OthersSpared, Complete, Wanted
<1> QED
  BY <1>2 DEF Trusted

(* The calls of a registration: it is complete when a cluster of that name *)
(* was found, or has been made.                                            *)
LEMMA RegisterTrusts ==
  ASSUME RegistrationInv, Trusted, Lookup \/ ReadSecret \/ InstallRBAC \/ Create
  PROVE  Trusted'
<1>1. /\ obj \in Resource /\ cur \in Resources /\ argo \subseteq Names
      /\ pc \in RegisterSteps /\ UNCHANGED <<api, cache, cur, fresh>>
      /\ argo \subseteq argo'
  BY RegistrationFacts DEF Lookup, ReadSecret, InstallRBAC, Create, RegisterSteps, Goto,
     Done, RetryLater, SetState, outside
<1>2. /\ obj.state # "complete" /\ res[cur].fin /\ res[cur].name = obj.name
      /\ \A r \in Resources : Complete(r) => RegisteredAs(r, res[r]) \in argo'
  BY <1>1, RegistrationFacts DEF Trusted, ReportTrue, CompleteKnown, WorkerKnows
<1>3. ASSUME NEW st, NEW m, NEW step \in {"report", "reportRetry"}, SetState(st, m, step),
             st = "complete" => RegisteredAs(cur, obj) \in argo'
      PROVE  Trusted'
  <2> DEFINE o == [obj EXCEPT !.state = st, !.message = m]
  <2>1. obj' = o /\ pc' = step /\ o.name = obj.name /\ o.state = st
    BY <1>1, <1>3 DEF SetState, Resource
  <2> HIDE DEF o
  <2>2. RegisteredAs(cur, o) = RegisteredAs(cur, obj)
    BY <2>1 DEF RegisteredAs
  <2>3. step \notin RegisterSteps \cup {"find", "unregister"}
    BY DEF RegisterSteps
  <2> QED
    BY <1>1, <1>2, <1>3, <2>1, <2>2, <2>3, GoOnTrusts
<1>4. ASSUME NEW p \in RegisterSteps, Goto(p)
      PROVE  Trusted'
  BY <1>1, <1>2, <1>4, GoOnTrusts DEF Goto, RegisterSteps
<1>5. CASE Lookup
  <2>1. CASE obj.name \in argo /\ Done("complete")
    <3>1. RegisteredAs(cur, obj) \in argo'
      BY <1>1, <2>1, NamesAssumption DEF RegisteredAs
    <3> QED
      BY <1>3, <2>1, <3>1 DEF Done
  <2> QED
    BY <1>4, <1>5, <2>1 DEF Lookup, RegisterSteps
<1>6. CASE ReadSecret
  BY <1>3, <1>4, <1>6 DEF ReadSecret, RetryLater, Done, RegisterSteps
<1>7. CASE InstallRBAC
  BY <1>3, <1>4, <1>7 DEF InstallRBAC, RetryLater, RegisterSteps
<1>8. CASE Create
  <2>1. CASE RetryLater("argocd")
    BY <1>3, <2>1 DEF RetryLater
  <2>2. CASE Done("complete") /\ argo' = argo \cup {RegisteredAs(cur, obj)}
    BY <1>3, <2>2 DEF Done
  <2> QED
    BY <1>8, <2>1, <2>2 DEF Create
<1> QED
  BY <1>5, <1>6, <1>7, <1>8

(* The calls of a deletion: what it takes is nobody's who is complete.     *)
LEMMA UnregisterTrusts ==
  ASSUME RegistrationInv, Trusted, Find \/ Unregister
  PROVE  Trusted'
<1>1. UNCHANGED <<api, cache>> /\ pc \in {"find", "unregister"}
  BY DEF Find, Unregister
<1>2. ASSUME NEW r \in Resources, Complete(r)
      PROVE  RegisteredAs(r, res[r]) \in argo'
  <2>1. r # cur
    BY <1>1, <1>2, RegistrationFacts DEF WorkerKnows, DeleteSteps, LiveGuarded, Trusted,
       CompleteKnown, Complete, Wanted
  <2>2. RegisteredAs(r, res[r]) # obj.name /\ RegisteredAs(r, res[r]) \in argo
    BY <1>1, <1>2, <2>1 DEF Trusted, OthersSpared, CompleteKnown
  <2> QED
    BY <2>2 DEF Find, Unregister
<1>3. ASSUME NEW p \in {"unregister", "removeFinalizer"}, Goto(p)
      PROVE  Trusted'
  BY <1>1, <1>2, <1>3, GoOnTrusts DEF Goto, RegisterSteps
<1>4. CASE Return(TRUE)
  BY <1>1, <1>2, <1>4, EndTrusts
<1> QED
  BY <1>3, <1>4 DEF Find, Unregister

(* A pass writes its resource and ends: what it makes complete is          *)
(* registered, what was complete before keeps its finalizer.               *)
LEMMA WriteTrusts ==
  ASSUME RegistrationInv, Trusted, NEW s \in Resource, NEW again \in BOOLEAN, Return(again),
         UNCHANGED <<cache, outside>>, Write(cur, s),
         s.exists /\ ~s.deleting /\ s.state = "complete" =>
           /\ RegisteredAs(cur, s) \in argo
           /\ s.fin /\ cache[cur].exists /\ cache[cur].name = s.name
  PROVE  Trusted'
<1>1. /\ pc' = "idle" /\ ~fresh' /\ cache' = cache /\ argo' = argo
      /\ res' = [res EXCEPT ![cur] = s] /\ res \in [Resources -> Resource]
      /\ cur \in Resources
  BY RegistrationFacts DEF Return, outside, Write
<1>2. CompleteKnown'
  BY <1>1 DEF Trusted, CompleteKnown, Complete, Wanted
<1> QED
  BY <1>1, <1>2 DEF Trusted, CopyCurrent, ReportTrue, OthersSpared, RegisterSteps

(* The three writes. *)
LEMMA WritesTrust ==
  ASSUME RegistrationInv, Trusted, AddFinalizer \/ Report \/ RemoveFinalizer
  PROVE  Trusted'
<1>1. /\ res[cur] \in Resource /\ obj \in Resource /\ cur \in Resources
      /\ WorkerKnows /\ Versions
  BY RegistrationFacts
<1>2. Complete(cur) =>
        /\ RegisteredAs(cur, res[cur]) \in argo
        /\ res[cur].fin /\ cache[cur].exists /\ cache[cur].name = res[cur].name
  BY <1>1 DEF Trusted, CompleteKnown
<1>3. ASSUME NEW b \in BOOLEAN, Return(b), UNCHANGED <<api, cache, outside>>
      PROVE  Trusted'
  BY <1>3, EndTrusts DEF Trusted, CompleteKnown, outside
<1>4. CASE AddFinalizer
  <2> DEFINE s == [res[cur] EXCEPT !.fin = TRUE]
  <2>1. /\ s \in Resource /\ s.exists = res[cur].exists /\ s.fin /\ s.state = res[cur].state
        /\ s.deleting = res[cur].deleting /\ s.name = res[cur].name
    BY <1>1 DEF Resource
  <2>2. Patch(s) /\ UNCHANGED <<cache, outside>>
    BY <1>4 DEF AddFinalizer
  <2> HIDE DEF s
  <2>3. RegisteredAs(cur, s) = RegisteredAs(cur, res[cur])
    BY <2>1 DEF RegisteredAs
  <2>4. ASSUME NEW b \in BOOLEAN, Return(b), Write(cur, s)
        PROVE  Trusted'
    BY <1>2, <2>1, <2>2, <2>3, <2>4, WriteTrusts DEF Complete, Wanted
  <2> QED
    BY <1>3, <2>2, <2>4 DEF Patch
<1>5. CASE Report
  <2> DEFINE s == [res[cur] EXCEPT !.state = obj.state, !.message = obj.message]
  <2>1. /\ s \in Resource /\ s.exists = res[cur].exists /\ s.fin = res[cur].fin
        /\ s.deleting = res[cur].deleting /\ s.name = res[cur].name /\ s.state = obj.state
    BY <1>1 DEF Resource
  <2>2. /\ StatusUpdate(s, pc = "reportRetry") /\ UNCHANGED <<cache, outside>>
        /\ pc \in {"report", "reportRetry"}
    BY <1>5 DEF Report
  <2> HIDE DEF s
  <2>3. ASSUME fresh, s.state = "complete", s.exists
        PROVE  /\ RegisteredAs(cur, s) \in argo
               /\ s.fin /\ cache[cur].exists /\ cache[cur].name = s.name
    <3>1. cache[cur] = res[cur]
      BY <1>1, <2>3 DEF Trusted, CopyCurrent, Versions
    <3>2. /\ RegisteredAs(cur, obj) \in argo
          /\ res[cur].fin /\ res[cur].name = obj.name
      BY <2>1, <2>2, <2>3 DEF Trusted, ReportTrue
    <3> QED
      BY <2>1, <2>3, <3>1, <3>2 DEF RegisteredAs
  <2>4. ASSUME NEW b \in BOOLEAN, Return(b), fresh, Write(cur, s)
        PROVE  Trusted'
    BY <2>1, <2>2, <2>3, <2>4, WriteTrusts
  <2> QED
    BY <1>3, <2>2, <2>4 DEF StatusUpdate
<1>6. CASE RemoveFinalizer
  <2> DEFINE s == Unguarded(res[cur])
  <2>1. s \in Resource
    BY <1>1, EditedRecords
  <2>2. s.exists => ~res[cur].deleting /\ s.exists = res[cur].exists /\ s.state = res[cur].state
    BY <1>1, Records DEF Unguarded, Resource
  <2>3. pc = "removeFinalizer" /\ Patch(s) /\ UNCHANGED <<cache, outside>>
    BY <1>6 DEF RemoveFinalizer
  <2> HIDE DEF s
  <2>4. ~Complete(cur)
    BY <1>1, <1>2, <2>3 DEF WorkerKnows, DeleteSteps, LiveGuarded, Complete, Wanted
  <2>5. ~(s.exists /\ s.state = "complete")
    BY <2>2, <2>4 DEF Complete, Wanted
  <2>6. ASSUME NEW b \in BOOLEAN, Return(b), Write(cur, s)
        PROVE  Trusted'
    BY <2>1, <2>3, <2>5, <2>6, WriteTrusts
  <2> QED
    BY <1>3, <2>3, <2>6 DEF Patch
<1> QED
  BY <1>4, <1>5, <1>6

(* The informer, the process and the secret's provider. *)
LEMMA OutsideTrusts ==
  ASSUME RegistrationInv, Trusted,
         \/ UNCHANGED outside /\ \/ \E r \in Resources : CacheSync(r) \/ Resync(r)
                                 \/ Restart \/ Settle
         \/ \E r \in Resources : ProvideSecret(r)
  PROVE  Trusted'
<1>1. /\ cacheFresh \in [Resources -> BOOLEAN] /\ cache \in [Resources -> Resource]
      /\ cur \in Resources
  BY RegistrationFacts
<1>2. /\ res' = res /\ argo' = argo /\ cur' = cur
      /\ \A r \in Resources : cache'[r] = cache[r] \/ cache'[r] = res[r]
      /\ \A r \in Resources : cacheFresh[r] => cacheFresh'[r]
      /\ (pc' = "idle" /\ ~fresh') \/ UNCHANGED <<pc, obj, fresh>>
  BY <1>1 DEF CacheSync, Resync, Restart, Settle, ProvideSecret, api, local, outside, runtime
<1>3. CompleteKnown'
  BY <1>2 DEF Trusted, CompleteKnown, Complete, Wanted
<1>4. CopyCurrent' /\ ReportTrue' /\ OthersSpared'
  BY <1>1, <1>2 DEF Trusted, CopyCurrent, ReportTrue, OthersSpared, RegisterSteps,
     Complete, Wanted
<1> QED
  BY <1>3, <1>4 DEF Trusted

(* A user's write makes nothing complete. *)
LEMMA UserTrusts ==
  ASSUME RegistrationInv, Trusted, NEW r \in Resources, NEW s \in Resource, UserWrite(r, s),
         UNCHANGED outside, s.state # "complete" \/ s.deleting
  PROVE  Trusted'
<1>1. /\ res \in [Resources -> Resource] /\ cacheFresh \in [Resources -> BOOLEAN]
      /\ cur \in Resources
  BY RegistrationFacts
<1>2. /\ res' = [res EXCEPT ![r] = s] /\ cur' = cur /\ argo' = argo
      /\ cache' = cache /\ pc' = pc /\ obj' = obj
      /\ fresh' => fresh /\ (r = cur => s = res[r])
      /\ cacheFresh' = [cacheFresh EXCEPT ![r] = @ /\ s = res[r]]
  BY DEF UserWrite, Write, outside
<1>3. /\ \A q \in Resources \ {r} : res'[q] = res[q]
      /\ res'[r] = s /\ fresh' => res'[cur] = res[cur]
  BY <1>1, <1>2
<1>4. CompleteKnown' /\ CopyCurrent' /\ ReportTrue' /\ OthersSpared'
  BY <1>1, <1>2, <1>3 DEF Trusted, CompleteKnown, CopyCurrent, ReportTrue, OthersSpared,
     Complete, Wanted
<1> QED
  BY <1>4 DEF Trusted

(* What a user does is of that kind. *)
LEMMA UsersTrust ==
  ASSUME RegistrationInv, Trusted, NEW r \in Resources, UserCreate(r) \/ UserDelete(r)
  PROVE  Trusted'
<1>1. res[r] \in Resource
  BY RegistrationFacts
<1>2. NoResource \in Resource /\ NoResource.state = ""
  BY Records DEF NoResource
<1>3. CASE UserCreate(r)
  <2>1. PICK v \in BOOLEAN, n \in Names \cup {Unnamed} :
          UserWrite(r, [NoResource EXCEPT !.exists = TRUE, !.valid = v, !.name = n])
    BY <1>3 DEF UserCreate
  <2> DEFINE s == [NoResource EXCEPT !.exists = TRUE, !.valid = v, !.name = n]
  <2>2. s \in Resource /\ s.state # "complete"
    BY <1>2 DEF NoResource, Resource
  <2>3. UserWrite(r, s) /\ UNCHANGED outside
    BY <1>3, <2>1 DEF UserCreate
  <2> HIDE DEF s
  <2> QED
    BY <2>2, <2>3, UserTrusts
<1>4. CASE UserDelete(r)
  <2> DEFINE s == [res[r] EXCEPT !.deleting = TRUE]
  <2>1. s \in Resource /\ s.deleting
    BY <1>1 DEF Resource
  <2>2. (UserWrite(r, s) \/ UserWrite(r, NoResource)) /\ UNCHANGED outside
    BY <1>4 DEF UserDelete
  <2> HIDE DEF s
  <2> QED
    BY <1>2, <2>1, <2>2, UserTrusts
<1> QED
  BY <1>3, <1>4

(* Every step from a state whose cache shows no name twice keeps it. *)
LEMMA TrustedStep ==
  RegistrationInv /\ Trusted /\ OneRegistrationShown /\ [Next]_vars => Trusted'
<1> SUFFICES ASSUME RegistrationInv, Trusted, OneRegistrationShown, [Next]_vars
             PROVE  Trusted'
  OBVIOUS
<1>1. CASE UNCHANGED vars
  BY <1>1 DEF vars, Trusted, CompleteKnown, CopyCurrent, ReportTrue, OthersSpared,
     Complete, Wanted
<1>2. CASE Reconcile
  BY <1>2, RegisterTrusts, UnregisterTrusts, WritesTrust DEF Reconcile
<1> QED
  BY <1>1, <1>2, TakeTrusts, OutsideTrusts, UsersTrust DEF Next

(* It holds initially. *)
LEMMA TrustedStart == Init => Trusted
  BY Records DEF Init, RuntimeInit, Trusted, CompleteKnown, CopyCurrent, ReportTrue,
     OthersSpared, Complete, Wanted, RegisterSteps

(* Every write leaves a resource its name, or takes it away. *)
LEMMA NamesStay ==
  ASSUME RegistrationInv, [Next]_vars, NEW r \in Resources, res'[r].exists,
         ~UserCreate(r)
  PROVE  res[r].exists /\ res'[r].name = res[r].name
<1>1. res \in [Resources -> Resource] /\ cur \in Resources /\ ~Absent.exists
  BY RegistrationFacts, Records
<1>2. CASE UNCHANGED res
  BY <1>2
<1>3. ASSUME NEW q \in Resources, NEW s, Write(q, s),
             s.exists => res[q].exists /\ s.name = res[q].name
      PROVE  res[r].exists /\ res'[r].name = res[r].name
  BY <1>1, <1>3 DEF Write
<1>4. CASE AddFinalizer
  <2> DEFINE s == [res[cur] EXCEPT !.fin = TRUE]
  <2>1. s.exists = res[cur].exists /\ s.name = res[cur].name
    BY <1>1 DEF Resource
  <2>2. Write(cur, s) \/ UNCHANGED res
    BY <1>4 DEF AddFinalizer, Patch, api
  <2> HIDE DEF s
  <2> QED
    BY <1>1, <1>2, <1>3, <2>1, <2>2
<1>5. CASE Report
  <2> DEFINE s == [res[cur] EXCEPT !.state = obj.state, !.message = obj.message]
  <2>1. s.exists = res[cur].exists /\ s.name = res[cur].name
    BY <1>1 DEF Resource
  <2>2. Write(cur, s) \/ UNCHANGED res
    BY <1>5 DEF Report, StatusUpdate, api
  <2> HIDE DEF s
  <2> QED
    BY <1>1, <1>2, <1>3, <2>1, <2>2
<1>6. CASE RemoveFinalizer
  <2> DEFINE s == Unguarded(res[cur])
  <2>1. s.exists => res[cur].exists /\ s.name = res[cur].name
    BY <1>1, Records DEF Resource, Unguarded
  <2>2. Write(cur, s) \/ UNCHANGED res
    BY <1>6 DEF RemoveFinalizer, Patch, api
  <2> HIDE DEF s
  <2> QED
    BY <1>1, <1>2, <1>3, <2>1, <2>2
<1>7. ASSUME NEW q \in Resources, UserDelete(q)
      PROVE  res[r].exists /\ res'[r].name = res[r].name
  <2> DEFINE s == [res[q] EXCEPT !.deleting = TRUE]
  <2>1. s.exists = res[q].exists /\ s.name = res[q].name
    BY <1>1 DEF Resource
  <2>2. Write(q, s) \/ Write(q, NoResource)
    BY <1>7 DEF UserDelete, UserWrite
  <2> HIDE DEF s
  <2> QED
    BY <1>3, <2>1, <2>2, Records
<1>8. ASSUME NEW q \in Resources, UserCreate(q)
      PROVE  res[r].exists /\ res'[r].name = res[r].name
  <2>1. q # r
    BY <1>8
  <2>2. PICK s : res' = [res EXCEPT ![q] = s]
    BY <1>8 DEF UserCreate, UserWrite, Write
  <2>3. res'[r] = res[r]
    BY <1>1, <2>1, <2>2
  <2> QED
    BY <2>3
<1> QED
  BY <1>2, <1>4, <1>5, <1>6, <1>7, <1>8 DEF Next, vars, Take, Begin, api, CacheSync, Resync,
     ProvideSecret, runtime, Reconcile, Lookup, ReadSecret, InstallRBAC, Create, Find,
     Unregister, Restart, Settle

-----------------------------------------------------------------------------

(* In the API server no two registrations have one name, now or ever: the  *)
(* users see to it when they make one, and no write of the controller      *)
(* gives a resource another name.                                          *)
THEOREM OneRegistrationCorrect == Spec => []OneRegistration
<1>1. Init => OneRegistration
  BY Records DEF Init, RuntimeInit, OneRegistration
<1>2. ASSUME RegistrationInv, OneRegistration, [Next]_vars
      PROVE  OneRegistration'
  <2>1. res \in [Resources -> Resource]
    BY <1>2, RegistrationFacts
  <2>2. CASE \E r \in Resources : UserCreate(r)
    <3>1. PICK r \in Resources, n \in Resource :
            /\ \A q \in Resources \ {r} :
                 res[q].exists => RegisteredAs(q, res[q]) # RegisteredAs(r, n)
            /\ UserWrite(r, n)
      <4>1. PICK r \in Resources : UserCreate(r)
        BY <2>2
      <4>2. PICK v \in BOOLEAN, m \in Names \cup {Unnamed} :
              LET n == [NoResource EXCEPT !.exists = TRUE, !.valid = v, !.name = m]
              IN /\ \A q \in Resources \ {r} :
                      res[q].exists => RegisteredAs(q, res[q]) # RegisteredAs(r, n)
                 /\ UserWrite(r, n)
        BY <4>1 DEF UserCreate
      <4> DEFINE n == [NoResource EXCEPT !.exists = TRUE, !.valid = v, !.name = m]
      <4>3. n \in Resource
        BY Records DEF NoResource, Resource
      <4> HIDE DEF n
      <4> QED
        BY <4>2, <4>3 DEF n
    <3>2. res' = [res EXCEPT ![r] = n]
      BY <3>1 DEF UserWrite, Write
    <3> QED
      BY <1>2, <2>1, <3>1, <3>2 DEF OneRegistration
  <2>3. CASE \A r \in Resources : ~UserCreate(r)
    <3>1. \A r \in Resources :
            res'[r].exists => res[r].exists /\ res'[r].name = res[r].name
      BY <1>2, <2>3, NamesStay
    <3> QED
      BY <1>2, <3>1 DEF OneRegistration, RegisteredAs
  <2> QED
    BY <2>2, <2>3
<1> QED
  BY <1>1, <1>2, RegistrationStart, RegistrationStep, PTL DEF Spec

(* A registration that says complete is of a registered cluster: as long   *)
(* as the cache shows no two resources of one name, no deletion takes the  *)
(* cluster that another resource reports.                                  *)
THEOREM CompleteCorrect ==
  Spec /\ []OneRegistrationShown => []CompleteMeansRegistered
<1>1. Trusted => CompleteMeansRegistered
  BY DEF Trusted, CompleteKnown, Complete, CompleteMeansRegistered
<1> QED
  BY <1>1, RegistrationStart, RegistrationStep, TrustedStart, TrustedStep, PTL DEF Spec

(* Where there is but one resource, no such condition is needed. *)
THEOREM CompleteAlone ==
  (\A q, r \in Resources : q = r) => (Spec => []CompleteMeansRegistered)
<1> SUFFICES ASSUME \A q, r \in Resources : q = r
             PROVE  Spec => []CompleteMeansRegistered
  OBVIOUS
<1>1. OneRegistrationShown
  BY DEF OneRegistrationShown
<1> QED
  BY <1>1, CompleteCorrect, PTL

-----------------------------------------------------------------------------
(* The controller implements OutcomeLifecycle *)

(* The phases of a resource. *)
LEMMA PhaseStates ==
  ASSUME NEW o \in Resource
  PROVE  /\ PhaseOf(o) \in {"none", "open", "complete", "error", "doomed"}
         /\ PhaseOf(o) = "none" <=> ~o.exists
         /\ PhaseOf(o) = "doomed" <=> o.exists /\ o.deleting
         /\ o.exists /\ ~o.deleting =>
              PhaseOf(o) = IF o.state \in {"complete", "error"} THEN o.state ELSE "open"
  BY DEF PhaseOf, Resource, States

(* A write of one resource that starts it, finishes it, dooms it, takes it *)
(* away, or leaves its phase and its name, is a step of OutcomeLifecycle.  *)
LEMMA OutcomeWrite ==
  ASSUME res \in [Resources -> Resource], NEW r \in Resources, NEW s \in Resource,
         res' = [res EXCEPT ![r] = s], argo' = argo,
         \/ ~res[r].exists /\ PhaseOf(s) = "open"
         \/ ~s.exists
         \/ /\ s.exists /\ res[r].exists /\ s.name = res[r].name
            /\ \/ PhaseOf(s) = PhaseOf(res[r])
               \/ ~res[r].deleting /\ PhaseOf(s) = "doomed"
               \/ PhaseOf(res[r]) = "open" /\ PhaseOf(s) = "error"
               \/ /\ PhaseOf(res[r]) = "open" /\ PhaseOf(s) = "complete"
                  /\ RegisteredAs(r, s) \in argo
  PROVE  [Outcome!Next]_Outcome!vars
<1>1. res[r] \in Resource /\ \A q \in Resources \ {r} : res'[q] = res[q]
  OBVIOUS
<1>2. Phase' = [Phase EXCEPT ![r] = PhaseOf(s)] /\ Phase[r] = PhaseOf(res[r])
  BY DEF Phase
<1>3. Registered' = IF s.exists /\ RegisteredAs(r, s) \in argo THEN Registered \cup {r}
                                                           ELSE Registered \ {r}
  BY DEF Registered
<1>4. /\ PhaseOf(s) = "none" <=> ~s.exists
      /\ PhaseOf(res[r]) = "none" <=> ~res[r].exists
      /\ PhaseOf(res[r]) = "doomed" <=> res[r].exists /\ res[r].deleting
      /\ PhaseOf(res[r]) \in {"none", "open", "complete", "error", "doomed"}
  BY <1>1, PhaseStates
<1>5. r \in Registered <=> res[r].exists /\ RegisteredAs(r, res[r]) \in argo
  BY DEF Registered
<1>6. CASE ~res[r].exists /\ PhaseOf(s) = "open"
  <2>1. r \notin Registered
    BY <1>5, <1>6
  <2>2. Registered' \in {Registered, Registered \cup {r}}
    BY <1>3, <2>1
  <2>3. Outcome!Declare(r)
    BY <1>2, <1>4, <1>6, <2>2 DEF Outcome!Declare, Outcome!Own
  <2> QED
    BY <2>3 DEF Outcome!Next
<1>7. CASE ~s.exists /\ res[r].exists
  <2>1. Outcome!Withdraw(r)
    BY <1>2, <1>3, <1>4, <1>7 DEF Outcome!Withdraw, Outcome!Own
  <2> QED
    BY <2>1 DEF Outcome!Next
<1>8. CASE ~s.exists /\ ~res[r].exists
  <2>1. Phase' = Phase
    BY <1>2, <1>4, <1>8 DEF Phase
  <2>2. Registered' = Registered
    BY <1>3, <1>5, <1>8
  <2> QED
    BY <2>1, <2>2 DEF Outcome!vars
<1>9. CASE s.exists /\ res[r].exists /\ s.name = res[r].name
  <2>1. Registered' = Registered
    BY <1>3, <1>5, <1>9 DEF RegisteredAs
  <2>2. CASE PhaseOf(s) = PhaseOf(res[r])
    <3>1. Phase' = Phase
      BY <1>2, <2>2 DEF Phase
    <3> QED
      BY <2>1, <3>1 DEF Outcome!vars
  <2>3. CASE ~res[r].deleting /\ PhaseOf(s) = "doomed"
    <3>1. Outcome!Doom(r)
      BY <1>2, <1>4, <1>9, <2>1, <2>3 DEF Outcome!Doom, Outcome!Own
    <3> QED
      BY <3>1 DEF Outcome!Next
  <2>4. CASE PhaseOf(res[r]) = "open" /\ PhaseOf(s) = "error"
    <3>1. Outcome!Fail(r)
      BY <1>2, <2>1, <2>4 DEF Outcome!Fail, Outcome!Own
    <3> QED
      BY <3>1 DEF Outcome!Next
  <2>5. CASE PhaseOf(res[r]) = "open" /\ PhaseOf(s) = "complete" /\ RegisteredAs(r, s) \in argo
    <3>1. r \in Registered
      BY <1>5, <1>9, <2>5 DEF RegisteredAs
    <3>2. Outcome!Finish(r)
      BY <1>2, <2>1, <2>5, <3>1 DEF Outcome!Finish, Outcome!Own
    <3> QED
      BY <3>2 DEF Outcome!Next
  <2> QED
    BY <1>4, <1>9, <2>2, <2>3, <2>4, <2>5
<1> QED
  BY <1>6, <1>7, <1>8, <1>9

(* A step that leaves resources and ArgoCD alone is no step. *)
LEMMA OutcomeStutter ==
  ASSUME res' = res, argo' = argo
  PROVE  [Outcome!Next]_Outcome!vars
  BY DEF Outcome!vars, Phase, Registered

(* The writes of a pass. *)
LEMMA OutcomeWrites ==
  ASSUME RegistrationInv, Trusted, AddFinalizer \/ Report \/ RemoveFinalizer
  PROVE  [Outcome!Next]_Outcome!vars
<1>1. /\ res[cur] \in Resource /\ obj \in Resource /\ cur \in Resources
      /\ res \in [Resources -> Resource] /\ ReportsOpen /\ argo' = argo
  BY RegistrationFacts DEF AddFinalizer, Report, RemoveFinalizer, outside
<1>2. CASE res' = res
  BY <1>1, <1>2, OutcomeStutter
<1>3. CASE AddFinalizer
  <2> DEFINE s == [res[cur] EXCEPT !.fin = TRUE]
  <2>1. /\ s \in Resource /\ s.exists = res[cur].exists /\ s.name = res[cur].name
        /\ PhaseOf(s) = PhaseOf(res[cur])
    BY <1>1 DEF Resource, PhaseOf
  <2>2. (res[cur].exists /\ res' = [res EXCEPT ![cur] = s]) \/ res' = res
    BY <1>3 DEF AddFinalizer, Patch, Write, api
  <2> HIDE DEF s
  <2> QED
    BY <1>1, <1>2, <2>1, <2>2, OutcomeWrite
<1>4. CASE Report
  <2> DEFINE s == [res[cur] EXCEPT !.state = obj.state, !.message = obj.message]
  <2>1. /\ s \in Resource /\ s.exists = res[cur].exists /\ s.name = res[cur].name
        /\ s.deleting = res[cur].deleting /\ s.state = obj.state
    BY <1>1 DEF Resource
  <2>2. (fresh /\ res' = [res EXCEPT ![cur] = s]) \/ res' = res
    BY <1>4 DEF Report, StatusUpdate, Write, api
  <2> HIDE DEF s
  <2>3. ASSUME fresh
        PROVE  res[cur].exists /\ res[cur].state \notin {"complete", "error"}
    BY <1>1, <1>4, <2>3 DEF ReportsOpen, Report, DeleteSteps
  <2>4. ASSUME fresh, s.state = "complete"
        PROVE  RegisteredAs(cur, s) \in argo
    BY <1>4, <2>1, <2>4 DEF Report, Trusted, ReportTrue, RegisteredAs
  <2>5. ASSUME fresh
        PROVE  \/ PhaseOf(s) = PhaseOf(res[cur])
               \/ PhaseOf(res[cur]) = "open" /\ PhaseOf(s) = "error"
               \/ /\ PhaseOf(res[cur]) = "open" /\ PhaseOf(s) = "complete"
                  /\ RegisteredAs(cur, s) \in argo
    <3>1. CASE res[cur].deleting
      BY <1>1, <2>1, <2>3, <2>5, <3>1, PhaseStates
    <3>2. CASE ~res[cur].deleting
      <4>1. PhaseOf(res[cur]) = "open"
        BY <1>1, <2>3, <2>5, <3>2, PhaseStates
      <4>2. PhaseOf(s) = IF s.state \in {"complete", "error"} THEN s.state ELSE "open"
        BY <2>1, <2>3, <2>5, <3>2, PhaseStates
      <4> QED
        BY <2>4, <2>5, <4>1, <4>2
    <3> QED
      BY <3>1, <3>2
  <2>6. CASE fresh /\ res' = [res EXCEPT ![cur] = s]
    BY <1>1, <2>1, <2>3, <2>5, <2>6, OutcomeWrite
  <2> QED
    BY <1>2, <2>2, <2>6
<1>5. CASE RemoveFinalizer
  <2> DEFINE s == Unguarded(res[cur])
  <2>1. s \in Resource
    BY <1>1, EditedRecords
  <2>2. s.exists => /\ s.exists = res[cur].exists /\ s.name = res[cur].name
                    /\ PhaseOf(s) = PhaseOf(res[cur])
    BY <1>1, Records DEF Resource, Unguarded, PhaseOf
  <2>3. res' = [res EXCEPT ![cur] = s] \/ res' = res
    BY <1>5 DEF RemoveFinalizer, Patch, Write, api
  <2> HIDE DEF s
  <2> QED
    BY <1>1, <1>2, <2>1, <2>2, <2>3, OutcomeWrite
<1> QED
  BY <1>3, <1>4, <1>5

(* The registration of a cluster, and its end: no other resource that says *)
(* complete loses its cluster, since no two have one name.                 *)
LEMMA OutcomeArgo ==
  ASSUME RegistrationInv, Trusted, OneRegistration, Create \/ Unregister
  PROVE  [Outcome!Next]_Outcome!vars
<1>1. /\ res \in [Resources -> Resource] /\ cur \in Resources /\ argo \subseteq Names
      /\ res' = res /\ Phase' = Phase
  BY RegistrationFacts DEF Create, Unregister, api, Phase
<1>2. CASE argo' = argo
  BY <1>1, <1>2, OutcomeStutter
<1>3. CASE Create /\ argo' = argo \cup {RegisteredAs(cur, obj)}
  <2>1. /\ res[cur].exists /\ RegisteredAs(cur, obj) = RegisteredAs(cur, res[cur])
    BY <1>3, RegistrationFacts DEF Create, WorkerKnows, RegisterSteps, CacheTells, RegisteredAs
  <2>2. Registered' = Registered \cup {cur}
    BY <1>1, <1>3, <2>1 DEF Registered, OneRegistration
  <2>3. Phase[cur] # "none"
    BY <1>1, <2>1, PhaseStates DEF Phase
  <2>4. Outcome!Make(cur)
    BY <1>1, <2>2, <2>3 DEF Outcome!Make
  <2> QED
    BY <1>1, <2>4 DEF Outcome!Next
<1>4. CASE Unregister /\ argo' = argo \ {obj.name}
  <2>1. CASE \E q \in Resources : res[q].exists /\ RegisteredAs(q, res[q]) = obj.name
    <3>1. PICK q \in Resources : res[q].exists /\ RegisteredAs(q, res[q]) = obj.name
      BY <2>1
    <3>2. Registered' = Registered \ {q}
      BY <1>1, <1>4, <3>1 DEF Registered, OneRegistration
    <3>3. ~Complete(q)
      BY <1>4, <3>1, RegistrationFacts DEF Unregister, Trusted, OthersSpared, WorkerKnows,
         DeleteSteps, LiveGuarded, CompleteKnown, Complete, Wanted
    <3>4. Phase[q] # "complete"
      <4>1. Phase[q] = PhaseOf(res[q]) /\ res[q] \in Resource
        BY <1>1 DEF Phase
      <4> QED
        BY <3>1, <3>3, <4>1, PhaseStates DEF Complete, Wanted
    <3>5. Outcome!Lose(q)
      BY <1>1, <3>2, <3>4 DEF Outcome!Lose
    <3> QED
      BY <3>5 DEF Outcome!Next
  <2>2. CASE \A q \in Resources : ~(res[q].exists /\ RegisteredAs(q, res[q]) = obj.name)
    <3>1. Registered' = Registered
      BY <1>1, <1>4, <2>2 DEF Registered
    <3> QED
      BY <1>1, <3>1 DEF Outcome!vars
  <2> QED
    BY <2>1, <2>2
<1> QED
  BY <1>2, <1>3, <1>4 DEF Create, Unregister

(* The users. *)
LEMMA OutcomeUsers ==
  ASSUME RegistrationInv, NEW r \in Resources, UserCreate(r) \/ UserDelete(r)
  PROVE  [Outcome!Next]_Outcome!vars
<1>1. /\ res[r] \in Resource /\ res \in [Resources -> Resource] /\ argo' = argo
  BY RegistrationFacts DEF UserCreate, UserDelete, outside
<1>2. CASE UserCreate(r)
  <2>1. PICK v \in BOOLEAN, n \in Names \cup {Unnamed} :
          UserWrite(r, [NoResource EXCEPT !.exists = TRUE, !.valid = v, !.name = n])
    BY <1>2 DEF UserCreate
  <2> DEFINE s == [NoResource EXCEPT !.exists = TRUE, !.valid = v, !.name = n]
  <2>2. s \in Resource /\ PhaseOf(s) = "open"
    BY Records DEF NoResource, Resource, PhaseOf
  <2>3. res' = [res EXCEPT ![r] = s] /\ ~res[r].exists
    BY <1>2, <2>1 DEF UserCreate, UserWrite, Write
  <2> HIDE DEF s
  <2> QED
    BY <1>1, <2>2, <2>3, OutcomeWrite
<1>3. CASE UserDelete(r)
  <2> DEFINE s == [res[r] EXCEPT !.deleting = TRUE]
  <2>1. s \in Resource /\ s.exists = res[r].exists /\ s.deleting /\ s.name = res[r].name
    BY <1>1 DEF Resource
  <2>2. /\ res[r].exists /\ ~res[r].deleting
        /\ res' = [res EXCEPT ![r] = s] \/ res' = [res EXCEPT ![r] = NoResource]
    BY <1>3 DEF UserDelete, UserWrite, Write
  <2> HIDE DEF s
  <2>3. PhaseOf(s) = "doomed"
    BY <2>1, <2>2, PhaseStates
  <2> QED
    BY <1>1, <2>1, <2>2, <2>3, Records, OutcomeWrite
<1> QED
  BY <1>2, <1>3

(* Every step is one of OutcomeLifecycle, or a stutter. *)
LEMMA OutcomeStep ==
  ASSUME RegistrationInv, Trusted, OneRegistration, [Next]_vars
  PROVE  [Outcome!Next]_Outcome!vars
<1>1. CASE res' = res /\ argo' = argo
  BY <1>1, OutcomeStutter
<1>2. CASE \/ \E r \in Resources : \/ Take(r) \/ ProvideSecret(r)
                                   \/ (CacheSync(r) \/ Resync(r)) /\ UNCHANGED outside
           \/ (Restart \/ Settle) /\ UNCHANGED outside
           \/ Lookup \/ ReadSecret \/ InstallRBAC \/ Find
           \/ UNCHANGED vars
  BY <1>1, <1>2 DEF vars, Take, Begin, api, CacheSync, Resync, ProvideSecret, runtime, Lookup,
     ReadSecret, InstallRBAC, Find, Restart, Settle, outside
<1> QED
  BY <1>2, OutcomeWrites, OutcomeArgo, OutcomeUsers DEF Next, Reconcile

-----------------------------------------------------------------------------

(* Every behaviour of the controller is one of OutcomeLifecycle: an        *)
(* outcome stays, and is true as long as the resource is wanted.           *)
THEOREM RefinesOutcome == Spec /\ []OneRegistrationShown => ImplementsOutcome
<1>1. Init => Outcome!Init
  BY Records, AbsentAssumption
     DEF Init, RuntimeInit, Outcome!Init, Phase, PhaseOf, Registered
<1>2. RegistrationInv /\ Trusted /\ OneRegistration /\ [Next]_vars
        => [Outcome!Next]_Outcome!vars
  BY OutcomeStep
<1> QED
  BY <1>1, <1>2, RegistrationStart, RegistrationStep, TrustedStart, TrustedStep,
     OneRegistrationCorrect, PTL DEF Spec, ImplementsOutcome, Outcome!Spec

(* Of a single resource, without condition. *)
THEOREM RefinesOutcomeAlone ==
  (\A q, r \in Resources : q = r) => (Spec => ImplementsOutcome)
<1> SUFFICES ASSUME \A q, r \in Resources : q = r
             PROVE  Spec => ImplementsOutcome
  OBVIOUS
<1>1. OneRegistrationShown
  BY DEF OneRegistrationShown
<1> QED
  BY <1>1, RefinesOutcome, PTL
=============================================================================
