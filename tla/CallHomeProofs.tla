---------------------------- MODULE CallHomeProofs ----------------------------
(* CallHome keeps its promises for every set of resources.                 *)
EXTENDS CallHome, RuntimeProofs

(* What a pass knows: a resource it may still report on is not in a final  *)
(* state, and it says "complete" only of a target that is there.           *)
PassKnows ==
  /\ fresh => res[cur].exists /\ res[cur].state \notin {"complete", "error"}
  /\ obj.state = "complete" => target[cur]

CallHomeInv == TypeOK /\ Versions /\ CompleteMeansCreated /\ PassKnows

-----------------------------------------------------------------------------
(* Records *)

(* The records that the controller and the users make are resources. *)
LEMMA ResourceRecords ==
  /\ NoResource \in Resource /\ ~NoResource.exists /\ NoResource.state = ""
  /\ NewResource \in Resource /\ NewResource.state = ""
  /\ \A s \in Resource : s.exists \in BOOLEAN
  BY DEF NoResource, NewResource, Resource, Messages

-----------------------------------------------------------------------------
(* A pass *)

(* What happens outside the controller's own resources. *)
OutsideOK ==
  /\ kubeconfig \in [Resources -> Kubeconfigs]
  /\ account \in [Resources -> BOOLEAN]
  /\ token \in [Resources -> Tokens]
  /\ target \in [Resources -> BOOLEAN]

(* The type invariant in two parts. *)
LEMMA TypeParts == TypeOK /\ Versions <=> RuntimeOK(Resource, Steps) /\ OutsideOK
  BY DEF TypeOK, RuntimeOK, OutsideOK

(* A call that sets the state of the worker's copy, or that finds it set.  *)
LEMMA SetStateKeeps ==
  ASSUME CallHomeInv, pc # "idle", OutsideOK',
         NEW st \in {"retrying", "complete", "error"}, NEW m \in Messages,
         NEW step \in {"report", "reportRetry"}, SetState(st, m, step),
         UNCHANGED <<api, cache, settled>>,
         \A r \in Resources : target[r] => target'[r],
         st = "complete" => target'[cur]
  PROVE  CallHomeInv'
<1> DEFINE new == [obj EXCEPT !.state = st, !.message = m]
<1>1. obj \in Resource /\ cur \in Resources /\ RuntimeOK(Resource, Steps)
  BY TypeParts DEF CallHomeInv, TypeOK, RuntimeTypeOK
<1>a. new = [obj EXCEPT !.state = st, !.message = m]
  OBVIOUS
<1> HIDE DEF new
<1>2. new \in Resource /\ new.state = st
  BY <1>1, <1>a DEF Resource
<1>3. \/ Return(step = "reportRetry")
      \/ obj' = new /\ pc' = step /\ UNCHANGED <<cur, fresh, queued>>
  BY <1>a DEF SetState
<1>4. RuntimeOK(Resource, Steps)'
  <2>1. CASE Return(step = "reportRetry")
    <3>1. Absent \in Resource /\ "idle" \in Steps /\ (step = "reportRetry") \in BOOLEAN
      BY ResourceRecords, AbsentAssumption DEF Steps
    <3> QED
      BY <1>1, <2>1, <3>1, RuntimeReturn
  <2>2. CASE obj' = new /\ pc' = step /\ UNCHANGED <<cur, fresh, queued>>
    <3>1. step \in Steps \ {"idle"}
      BY DEF Steps
    <3> QED
      BY <1>1, <1>2, <2>2, <3>1, RuntimeGoOn
  <2> QED
    BY <1>3, <2>1, <2>2
<1>5. CompleteMeansCreated'
  BY DEF CallHomeInv, CompleteMeansCreated, api
<1>6. PassKnows'
  <2>1. res' = res /\ (fresh' => fresh) /\ cur' = cur
    BY <1>3 DEF Return, api
  <2>2. obj'.state = "complete" => target'[cur]
    BY <1>2, <1>3, ResourceRecords, AbsentAssumption DEF Return
  <2> QED
    BY <2>1, <2>2 DEF CallHomeInv, PassKnows
<1> QED
  BY <1>4, <1>5, <1>6, TypeParts, PTL DEF CallHomeInv

(* A call that finds nothing to report goes on. *)
LEMMA GotoKeeps ==
  ASSUME CallHomeInv, pc # "idle", NEW p \in Steps \ {"idle"}, Goto(p),
         UNCHANGED <<api, cache, settled, outside>>
  PROVE  CallHomeInv'
<1>1. obj \in Resource /\ RuntimeOK(Resource, Steps) /\ OutsideOK
  BY TypeParts DEF CallHomeInv, TypeOK, RuntimeTypeOK
<1>2. RuntimeOK(Resource, Steps)'
  BY <1>1, RuntimeGoOn DEF Goto
<1>3. OutsideOK' /\ CompleteMeansCreated' /\ PassKnows'
  BY <1>1 DEF OutsideOK, CallHomeInv, CompleteMeansCreated, PassKnows, Goto, api, outside
<1> QED
  BY <1>2, <1>3, TypeParts, PTL DEF CallHomeInv

(* A pass begins with a copy of the cache that is not in a final state. *)
LEMMA TakeKeeps ==
  ASSUME CallHomeInv, NEW r \in Resources, Take(r)
  PROVE  CallHomeInv'
<1> DEFINE step == FirstStep(cache[r])
<1>1. /\ RuntimeOK(Resource, Steps) /\ OutsideOK /\ cache[r] \in Resource
      /\ Versions /\ CompleteMeansCreated /\ PassKnows
  BY TypeParts DEF CallHomeInv, TypeOK, RuntimeTypeOK
<1>2. /\ step \in Steps
      /\ step # "idle" => cache[r].state \notin {"complete", "error"}
  BY DEF FirstStep, Steps
<1>3. Begin(r, step, cache[r]) /\ UNCHANGED outside
  BY DEF Take
<1> HIDE DEF step
<1>4. RuntimeOK(Resource, Steps)'
  BY <1>1, <1>2, <1>3, RuntimeBegin
<1>5. OutsideOK' /\ CompleteMeansCreated'
  BY <1>1, <1>3 DEF OutsideOK, CompleteMeansCreated, Begin, api, outside
<1>6. PassKnows'
  BY <1>1, <1>2, <1>3 DEF Versions, PassKnows, Begin, api, local, outside
<1> QED
  BY <1>4, <1>5, <1>6, TypeParts, PTL DEF CallHomeInv

(* A call of a pass. *)
LEMMA ReconcileKeeps ==
  ASSUME CallHomeInv, Reconcile
  PROVE  CallHomeInv'
<1>1. /\ obj \in Resource /\ cur \in Resources /\ OutsideOK
      /\ RuntimeOK(Resource, Steps) /\ PassKnows /\ CompleteMeansCreated
      /\ res[cur] \in Resource
  BY TypeParts DEF CallHomeInv, TypeOK, RuntimeTypeOK
<1>2. UNCHANGED outside => OutsideOK' /\ \A r \in Resources : target[r] => target'[r]
  BY <1>1 DEF OutsideOK, outside
<1>3. CASE ReadKubeconfig
  <2>1. CASE RetryLater("kubeconfig")
    BY <1>1, <1>2, <1>3, <2>1, SetStateKeeps DEF ReadKubeconfig, RetryLater, Messages
  <2>2. CASE Error("kubeconfig")
    BY <1>1, <1>2, <1>3, <2>2, SetStateKeeps DEF ReadKubeconfig, Error, Messages
  <2>3. CASE Goto("findTarget")
    BY <1>3, <2>3, GotoKeeps DEF ReadKubeconfig, Steps
  <2> QED
    BY <1>3, <2>1, <2>2, <2>3 DEF ReadKubeconfig
<1>4. CASE FindTarget
  <2>1. CASE target[cur] /\ SetState("complete", "done", "report")
    BY <1>1, <1>2, <1>4, <2>1, SetStateKeeps DEF FindTarget, Messages
  <2>2. CASE RetryLater("target")
    BY <1>1, <1>2, <1>4, <2>2, SetStateKeeps DEF FindTarget, RetryLater, Messages
  <2>3. CASE Goto("findAccount")
    BY <1>4, <2>3, GotoKeeps DEF FindTarget, Steps
  <2> QED
    BY <1>4, <2>1, <2>2, <2>3 DEF FindTarget
<1>5. CASE FindAccount
  <2>1. CASE RetryLater("account")
    BY <1>1, <1>2, <1>5, <2>1, SetStateKeeps DEF FindAccount, RetryLater, Messages
  <2>2. CASE Error("account")
    BY <1>1, <1>2, <1>5, <2>2, SetStateKeeps DEF FindAccount, Error, Messages
  <2>3. CASE Goto("findToken")
    BY <1>5, <2>3, GotoKeeps DEF FindAccount, Steps
  <2> QED
    BY <1>5, <2>1, <2>2, <2>3 DEF FindAccount
<1>6. CASE FindToken
  <2>1. CASE RetryLater("token")
    BY <1>1, <1>2, <1>6, <2>1, SetStateKeeps DEF FindToken, RetryLater, Messages
  <2>2. CASE Error("token")
    BY <1>1, <1>2, <1>6, <2>2, SetStateKeeps DEF FindToken, Error, Messages
  <2>3. CASE Goto("create")
    BY <1>6, <2>3, GotoKeeps DEF FindToken, Steps
  <2> QED
    BY <1>6, <2>1, <2>2, <2>3 DEF FindToken
<1>7. CASE Create
  <2>1. /\ OutsideOK' /\ \A r \in Resources : target[r] => target'[r]
        /\ UNCHANGED target \/ target'[cur]
    BY <1>1, <1>7 DEF Create, OutsideOK
  <2>2. CASE RetryLater("create")
    BY <1>1, <1>7, <2>1, <2>2, SetStateKeeps DEF Create, RetryLater, Messages
  <2>3. CASE target'[cur] /\ SetState("complete", "done", "report")
    BY <1>1, <1>7, <2>1, <2>3, SetStateKeeps DEF Create, Messages
  <2> QED
    BY <1>1, <1>7, <2>1, <2>2, <2>3 DEF Create, OutsideOK
<1>8. CASE Report
  <2> DEFINE new == [res[cur] EXCEPT !.state = obj.state, !.message = obj.message]
  <2>1. new = [res[cur] EXCEPT !.state = obj.state, !.message = obj.message]
    OBVIOUS
  <2> HIDE DEF new
  <2>2. new \in Resource /\ new.exists = res[cur].exists /\ new.state = obj.state
    BY <1>1, <2>1 DEF Resource
  <2>3. StatusUpdate(new, pc = "reportRetry") /\ UNCHANGED <<cache, settled, outside>>
    BY <1>8, <2>1 DEF Report
  <2>4. /\ Absent \in Resource /\ ~Absent.exists /\ Absent.state = ""
        /\ "idle" \in Steps /\ (pc = "reportRetry") \in BOOLEAN
    BY ResourceRecords, AbsentAssumption DEF Steps
  <2>5. RuntimeOK(Resource, Steps)'
    BY <1>1, <2>2, <2>3, <2>4, RuntimeWrites
  <2>6. res' = res \/ res' = [res EXCEPT ![cur] = new]
    BY <2>3 DEF StatusUpdate, Write, api
  <2>7. CompleteMeansCreated'
    BY <1>1, <2>2, <2>3, <2>6 DEF CompleteMeansCreated, PassKnows, RuntimeOK,
       RuntimeTypeOK, outside
  <2>8. PassKnows'
    BY <2>3, <2>4 DEF PassKnows, StatusUpdate, Return
  <2>9. OutsideOK'
    BY <1>2, <2>3
  <2> QED
    BY <2>5, <2>7, <2>8, <2>9, TypeParts, PTL DEF CallHomeInv
<1> QED
  BY <1>3, <1>4, <1>5, <1>6, <1>7, <1>8 DEF Reconcile

-----------------------------------------------------------------------------
(* Outside a pass *)

(* The informer, the process and the users. *)
LEMMA OutsideKeeps ==
  ASSUME CallHomeInv,
         \/ \E r \in Resources : CacheSync(r) \/ Resync(r)
         \/ \E r \in Resources : UserWrite(r, NewResource) \/ UserWrite(r, NoResource)
         \/ Restart \/ Settle,
         UNCHANGED outside
  PROVE  CallHomeInv'
<1>1. /\ RuntimeOK(Resource, Steps) /\ OutsideOK
      /\ PassKnows /\ CompleteMeansCreated
  BY TypeParts DEF CallHomeInv, TypeOK, RuntimeTypeOK
<1>2. /\ Absent \in Resource /\ Absent.state = "" /\ "idle" \in Steps
      /\ \A s \in Resource : s.exists \in BOOLEAN
  BY ResourceRecords, AbsentAssumption DEF Steps
<1>3. RuntimeOK(Resource, Steps)'
  BY <1>1, <1>2, ResourceRecords, RuntimeOutside
<1>4. OutsideOK' /\ CompleteMeansCreated'
  BY <1>1, ResourceRecords DEF OutsideOK, CompleteMeansCreated, RuntimeOK, RuntimeTypeOK,
     outside, CacheSync, Resync, UserWrite, Write, Restart, Settle, api
<1>5. PassKnows'
  <2>1. ASSUME NEW r \in Resources, CacheSync(r) \/ Resync(r)
        PROVE  PassKnows'
    BY <1>1, <2>1 DEF PassKnows, outside, CacheSync, Resync, api, local
  <2>2. ASSUME NEW r \in Resources, NEW s \in Resource, UserWrite(r, s)
        PROVE  PassKnows'
    BY <1>1, <2>2 DEF PassKnows, RuntimeOK, RuntimeTypeOK, outside, UserWrite, Write
  <2>3. CASE Restart
    BY <1>2, <2>3 DEF PassKnows, Restart
  <2>4. CASE Settle
    BY <1>1, <2>4 DEF PassKnows, outside, Settle, api, local
  <2> QED
    BY <2>1, <2>2, <2>3, <2>4, ResourceRecords
<1> QED
  BY <1>3, <1>4, <1>5, TypeParts, PTL DEF CallHomeInv

(* What the controller waits for. *)
LEMMA ProvideKeeps ==
  ASSUME CallHomeInv, NEW r \in Resources, Provide(r)
  PROVE  CallHomeInv'
<1>1. RuntimeOK(Resource, Steps) /\ OutsideOK /\ PassKnows /\ CompleteMeansCreated
  BY TypeParts DEF CallHomeInv
<1>2. UNCHANGED <<runtime, target>>
  BY DEF Provide
<1>3. RuntimeOK(Resource, Steps)' /\ PassKnows' /\ CompleteMeansCreated'
  BY <1>1, <1>2 DEF RuntimeOK, RuntimeTypeOK, Versions, PassKnows, CompleteMeansCreated,
     runtime
<1>4. OutsideOK'
  BY <1>1 DEF OutsideOK, Provide
<1> QED
  BY <1>3, <1>4, TypeParts, PTL DEF CallHomeInv

(* Every step keeps the invariant. *)
LEMMA CallHomeStep == CallHomeInv /\ [Next]_vars => CallHomeInv'
<1> SUFFICES ASSUME CallHomeInv, [Next]_vars PROVE CallHomeInv'
  OBVIOUS
<1>1. ASSUME NEW r \in Resources, Take(r) PROVE CallHomeInv'
  BY <1>1, TakeKeeps
<1>2. ASSUME NEW r \in Resources, CacheSync(r) \/ Resync(r), UNCHANGED outside
      PROVE  CallHomeInv'
  BY <1>2, OutsideKeeps
<1>3. ASSUME NEW r \in Resources, UserCreate(r) \/ UserDelete(r)
      PROVE  CallHomeInv'
  BY <1>3, OutsideKeeps DEF UserCreate, UserDelete
<1>4. ASSUME NEW r \in Resources, Provide(r) PROVE CallHomeInv'
  BY <1>4, ProvideKeeps
<1>5. CASE Reconcile
  BY <1>5, ReconcileKeeps
<1>6. CASE (Restart \/ Settle) /\ UNCHANGED outside
  BY <1>6, OutsideKeeps
<1>7. CASE UNCHANGED vars
  BY <1>7 DEF vars, CallHomeInv, TypeOK, RuntimeTypeOK, Versions, CompleteMeansCreated,
     PassKnows
<1> QED
  BY <1>1, <1>2, <1>3, <1>4, <1>5, <1>6, <1>7 DEF Next

(* It holds initially. *)
LEMMA CallHomeInit == Init => CallHomeInv
<1> SUFFICES ASSUME Init PROVE CallHomeInv
  OBVIOUS
<1>1. Absent \in Resource /\ ~Absent.exists /\ Absent.state = "" /\ "idle" \in Steps
  BY ResourceRecords, AbsentAssumption DEF Steps
<1>2. RuntimeOK(Resource, Steps)
  BY <1>1, RuntimeStarts DEF Init
<1>3. OutsideOK /\ CompleteMeansCreated /\ PassKnows
  BY <1>1 DEF Init, RuntimeInit, OutsideOK, CompleteMeansCreated, PassKnows, Kubeconfigs, Tokens
<1> QED
  BY <1>2, <1>3, TypeParts DEF CallHomeInv

-----------------------------------------------------------------------------

(* Every variable of CallHome keeps its type. *)
THEOREM CallHomeTypeCorrect == Spec => []TypeOK
<1>1. CallHomeInv => TypeOK
  BY DEF CallHomeInv
<1> QED
  BY <1>1, CallHomeInit, CallHomeStep, PTL DEF Spec

(* A complete resource's target secret has been created, whichever pass    *)
(* wrote the state, and wherever passes were cut off.                      *)
THEOREM CreatedWhenComplete == Spec => []CompleteMeansCreated
<1>1. CallHomeInv => CompleteMeansCreated
  BY DEF CallHomeInv
<1> QED
  BY <1>1, CallHomeInit, CallHomeStep, PTL DEF Spec

(* A pass that writes a status has read one that is not final. *)
THEOREM FinalStatesKept == Spec => FinalStates
<1>1. ASSUME CallHomeInv, [Next]_vars, NEW r \in Resources,
             res[r].exists, res[r].state \in {"complete", "error"}, res'[r].exists
      PROVE  res'[r].state = res[r].state
  <2>1. PassKnows /\ res \in [Resources -> Resource]
    BY <1>1 DEF CallHomeInv, TypeOK, RuntimeTypeOK
  <2>2. CASE UNCHANGED res
    BY <2>2
  <2>3. CASE Report
    <3>1. CASE UNCHANGED api
      BY <3>1 DEF api
    <3>2. CASE fresh /\ \E s : Write(cur, s)
      BY <1>1, <2>1, <3>2 DEF PassKnows, Write
    <3> QED
      BY <2>3, <3>1, <3>2 DEF Report, StatusUpdate
  <2>4. ASSUME NEW q \in Resources, UserCreate(q) \/ UserDelete(q)
        PROVE  res'[r].state = res[r].state
    BY <1>1, <2>1, <2>4, ResourceRecords DEF UserCreate, UserDelete, UserWrite, Write
  <2> QED
    BY <1>1, <2>2, <2>3, <2>4 DEF Next, vars, Take, Begin, api, CacheSync, Resync,
       Provide, runtime, Reconcile, ReadKubeconfig, FindTarget, FindAccount, FindToken,
       Create, Restart, Settle
<1>2. CallHomeInv /\ [Next]_vars =>
        [\A r \in Resources :
           res[r].exists /\ res[r].state \in {"complete", "error"} /\ res'[r].exists
             => res'[r].state = res[r].state]_vars
  BY <1>1
<1> QED
  BY <1>2, CallHomeInit, CallHomeStep, PTL DEF Spec, FinalStates

-----------------------------------------------------------------------------
(* The controller implements OutcomeLifecycle *)

(* A write of one resource, as OutcomeLifecycle sees it. *)
LEMMA OutcomeOfWrite ==
  ASSUME res \in [Resources -> Resource], NEW r \in Resources, NEW s \in Resource,
         res' = [res EXCEPT ![r] = s], target' = target
  PROVE  /\ Phase' = [Phase EXCEPT ![r] = PhaseOf(s)] /\ Phase[r] = PhaseOf(res[r])
         /\ Called' = IF s.exists /\ target[r] THEN Called \cup {r} ELSE Called \ {r}
         /\ r \in Called <=> res[r].exists /\ target[r]
  BY DEF Phase, Called

(* A step that leaves resources and targets alone is no step. *)
LEMMA OutcomeStutter ==
  ASSUME res' = res, target' = target
  PROVE  [Outcome!Next]_Outcome!vars
  BY DEF Outcome!vars, Phase, Called

(* The report: of no outcome, or of one that the resource did not have. *)
LEMMA OutcomeReport ==
  ASSUME CallHomeInv, Report
  PROVE  [Outcome!Next]_Outcome!vars
<1> DEFINE s == [res[cur] EXCEPT !.state = obj.state, !.message = obj.message]
<1>1. /\ res \in [Resources -> Resource] /\ cur \in Resources /\ obj \in Resource
      /\ res[cur] \in Resource /\ PassKnows /\ target' = target
  BY DEF CallHomeInv, TypeOK, RuntimeTypeOK, Report, outside
<1>2. s \in Resource /\ s.exists = res[cur].exists /\ s.state = obj.state
  BY <1>1 DEF Resource
<1>3. (fresh /\ res' = [res EXCEPT ![cur] = s]) \/ res' = res
  BY DEF Report, StatusUpdate, Write, api
<1> HIDE DEF s
<1>4. CASE fresh /\ res' = [res EXCEPT ![cur] = s]
  <2>1. /\ res[cur].exists /\ PhaseOf(res[cur]) = "open" /\ s.exists
        /\ PhaseOf(s) = IF s.state \in {"complete", "error"} THEN s.state ELSE "open"
    BY <1>1, <1>2, <1>4 DEF PassKnows, PhaseOf, Resource
  <2>2. /\ Phase' = [Phase EXCEPT ![cur] = PhaseOf(s)] /\ Phase[cur] = "open"
        /\ Called' = IF target[cur] THEN Called \cup {cur} ELSE Called \ {cur}
        /\ cur \in Called <=> target[cur]
    BY <1>1, <1>2, <1>4, <2>1, OutcomeOfWrite
  <2>3. Called' = Called
    BY <2>2
  <2>4. CASE s.state \notin {"complete", "error"}
    <3>1. Phase' = Phase
      BY <2>1, <2>2, <2>4 DEF Phase
    <3> QED
      BY <2>3, <3>1 DEF Outcome!vars
  <2>5. CASE s.state = "error"
    <3>1. Outcome!Fail(cur)
      BY <2>1, <2>2, <2>3, <2>5 DEF Outcome!Fail, Outcome!Own
    <3> QED
      BY <1>1, <3>1 DEF Outcome!Next
  <2>6. CASE s.state = "complete"
    <3>1. target[cur]
      BY <1>1, <1>2, <2>6 DEF PassKnows
    <3>2. Outcome!Finish(cur)
      BY <2>1, <2>2, <2>3, <2>6, <3>1 DEF Outcome!Finish, Outcome!Own
    <3> QED
      BY <1>1, <3>2 DEF Outcome!Next
  <2> QED
    BY <2>4, <2>5, <2>6
<1> QED
  BY <1>1, <1>3, <1>4, OutcomeStutter

(* The target secret is made for a resource, or for one just gone. *)
LEMMA OutcomeCreate ==
  ASSUME CallHomeInv, Create
  PROVE  [Outcome!Next]_Outcome!vars
<1>1. /\ res \in [Resources -> Resource] /\ cur \in Resources /\ res[cur] \in Resource
      /\ target \in [Resources -> BOOLEAN] /\ res' = res /\ Phase' = Phase
      /\ target' = [target EXCEPT ![cur] = TRUE] \/ target' = target
  BY DEF CallHomeInv, TypeOK, RuntimeTypeOK, Create, api, Phase
<1>2. CASE target' = [target EXCEPT ![cur] = TRUE] /\ res[cur].exists
  <2>1. Called' = Called \cup {cur}
    BY <1>1, <1>2 DEF Called
  <2>2. Phase[cur] # "none"
    BY <1>1, <1>2 DEF Phase, PhaseOf, Resource
  <2>3. Outcome!Make(cur)
    BY <1>1, <2>1, <2>2 DEF Outcome!Make
  <2> QED
    BY <1>1, <2>3 DEF Outcome!Next
<1>3. CASE target' = [target EXCEPT ![cur] = TRUE] /\ ~res[cur].exists
  <2>1. Called' = Called
    BY <1>1, <1>3 DEF Called
  <2> QED
    BY <1>1, <2>1 DEF Outcome!vars
<1> QED
  BY <1>1, <1>2, <1>3, OutcomeStutter

(* The users. *)
LEMMA OutcomeUsers ==
  ASSUME CallHomeInv, NEW r \in Resources, UserCreate(r) \/ UserDelete(r)
  PROVE  [Outcome!Next]_Outcome!vars
<1>1. res \in [Resources -> Resource] /\ res[r] \in Resource /\ target' = target
  BY DEF CallHomeInv, TypeOK, RuntimeTypeOK, UserCreate, UserDelete, outside
<1>2. CASE UserCreate(r)
  <2>1. /\ res' = [res EXCEPT ![r] = NewResource] /\ ~res[r].exists
        /\ NewResource.exists /\ NewResource.state = ""
    BY <1>2 DEF UserCreate, UserWrite, Write, NewResource, NoResource
  <2>2. PhaseOf(NewResource) = "open" /\ PhaseOf(res[r]) = "none"
    BY <2>1 DEF PhaseOf
  <2>3. /\ Phase' = [Phase EXCEPT ![r] = "open"] /\ Phase[r] = "none"
        /\ Called' = IF target[r] THEN Called \cup {r} ELSE Called \ {r}
        /\ r \notin Called
    BY <1>1, <2>1, <2>2, ResourceRecords, OutcomeOfWrite
  <2>4. Called' \in {Called, Called \cup {r}}
    BY <2>3
  <2>5. Outcome!Declare(r)
    BY <2>3, <2>4 DEF Outcome!Declare, Outcome!Own
  <2> QED
    BY <2>5 DEF Outcome!Next
<1>3. CASE UserDelete(r)
  <2>1. res' = [res EXCEPT ![r] = NoResource] /\ res[r].exists
    BY <1>3 DEF UserDelete, UserWrite, Write
  <2>2. /\ PhaseOf(NoResource) = "none"
        /\ PhaseOf(res[r]) \in {"open", "complete", "error", "doomed"}
    BY <1>1, <2>1, ResourceRecords DEF PhaseOf
  <2>3. /\ Phase' = [Phase EXCEPT ![r] = "none"] /\ Phase[r] = PhaseOf(res[r])
        /\ Called' = Called \ {r}
    <3>1. /\ Phase' = [Phase EXCEPT ![r] = PhaseOf(NoResource)] /\ Phase[r] = PhaseOf(res[r])
          /\ Called' = IF NoResource.exists /\ target[r] THEN Called \cup {r}
                                                         ELSE Called \ {r}
      BY <1>1, <2>1, ResourceRecords, OutcomeOfWrite
    <3> QED
      BY <2>2, <3>1, ResourceRecords
  <2>4. Outcome!Withdraw(r)
    BY <2>2, <2>3 DEF Outcome!Withdraw, Outcome!Own
  <2> QED
    BY <2>4 DEF Outcome!Next
<1> QED
  BY <1>2, <1>3

(* Every behaviour of the controller is one of OutcomeLifecycle: an        *)
(* outcome stays, and "complete" is said of a target that is there.        *)
THEOREM CallHomeRefinesOutcome == Spec => ImplementsOutcome
<1>1. Init => Outcome!Init
  BY ResourceRecords, AbsentAssumption
     DEF Init, RuntimeInit, Outcome!Init, Phase, PhaseOf, Called
<1>2. ASSUME CallHomeInv, [Next]_vars
      PROVE  [Outcome!Next]_Outcome!vars
  <2>1. CASE res' = res /\ target' = target
    BY <2>1, OutcomeStutter
  <2>2. CASE \/ \E r \in Resources : \/ Take(r) \/ Provide(r)
                                     \/ (CacheSync(r) \/ Resync(r)) /\ UNCHANGED outside
             \/ (Restart \/ Settle) /\ UNCHANGED outside
             \/ ReadKubeconfig \/ FindTarget \/ FindAccount \/ FindToken
             \/ UNCHANGED vars
    BY <2>1, <2>2 DEF vars, Take, Begin, api, CacheSync, Resync, Provide, runtime,
       ReadKubeconfig, FindTarget, FindAccount, FindToken, Restart, Settle, outside
  <2> QED
    BY <1>2, <2>2, OutcomeReport, OutcomeCreate, OutcomeUsers DEF Next, Reconcile
<1> QED
  BY <1>1, <1>2, CallHomeInit, CallHomeStep, PTL DEF Spec, ImplementsOutcome, Outcome!Spec
=============================================================================
