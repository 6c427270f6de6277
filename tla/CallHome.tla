------------------------------- MODULE CallHome -------------------------------
(***************************************************************************)
(* The controller of CallHomeConfig resources                              *)
(* (controllers/callhomeconfig_controller.go): it puts a kubeconfig of the *)
(* management cluster, made from the token of a service account, into a    *)
(* secret of a workload cluster, as soon as both clusters allow it.        *)
(***************************************************************************)
EXTENDS ControllerRuntime

VARIABLES
  kubeconfig,   \* the secret with the workload cluster's kubeconfig
  account,      \* does the service account exist?
  token,        \* the secret with the service account's token
  target        \* does the target secret exist in the workload cluster?

outside == <<kubeconfig, account, token, target>>
vars    == <<res, cache, cacheFresh, queued, pc, cur, obj, fresh, settled,
             kubeconfig, account, token, target>>

-----------------------------------------------------------------------------
(* State *)

Kubeconfigs == {"missing", "unusable", "usable"}
Tokens      == {"missing", "empty", "no ca", "usable"}
Messages    == {"", "kubeconfig", "target", "account", "token", "create", "done"}

Resource ==
  [ exists : BOOLEAN, state : {"", "retrying", "complete", "error"},
    message : Messages ]

NoResource == [exists |-> FALSE, state |-> "", message |-> ""]
NewResource == [NoResource EXCEPT !.exists = TRUE]

ASSUME AbsentAssumption == Absent = NoResource

Steps ==
  { "idle", "readKubeconfig", "findTarget", "findAccount", "findToken",
    "create", "report", "reportRetry" }

TypeOK ==
  /\ RuntimeTypeOK(Resource, Steps)
  /\ kubeconfig \in [Resources -> Kubeconfigs]
  /\ account \in [Resources -> BOOLEAN]
  /\ token \in [Resources -> Tokens]
  /\ target \in [Resources -> BOOLEAN]

Init ==
  /\ RuntimeInit
  /\ kubeconfig = [r \in Resources |-> "missing"]
  /\ account = [r \in Resources |-> FALSE]
  /\ token = [r \in Resources |-> "missing"]
  /\ target = [r \in Resources |-> FALSE]

-----------------------------------------------------------------------------
(* Reconcile *)

(* Mutant of SetState: a state that is already there ends the pass. *)
SetStateForgets(state, message, step) ==
  IF obj.state = state /\ obj.message = message
  THEN Return(FALSE)
  ELSE /\ obj' = [obj EXCEPT !.state = state, !.message = message]
       /\ pc' = step
       /\ UNCHANGED <<cur, fresh, queued>>

(* updateCallHomeConfigState writes nothing when the worker's copy says it *)
(* already, and returns what it would have returned; else Report writes.   *)
SetState(state, message, step) ==
  IF obj.state = state /\ obj.message = message
  THEN Return(step = "reportRetry")
  ELSE /\ obj' = [obj EXCEPT !.state = state, !.message = message]
       /\ pc' = step
       /\ UNCHANGED <<cur, fresh, queued>>

(* Mutant of RetryLater: state and message swapped. *)
RetryLaterSwapped(message) == SetState(message, "retrying", "reportRetry")

RetryLater(message) == SetState("retrying", message, "reportRetry")
Error(message)      == SetState("error", message, "report")

FirstStep(o) ==
  IF o.state \in {"complete", "error"} THEN "idle" ELSE "readKubeconfig"

Take(r) == Begin(r, FirstStep(cache[r]), cache[r]) /\ UNCHANGED outside

ReadKubeconfig ==
  /\ pc = "readKubeconfig"
  /\ \/ kubeconfig[cur] = "missing" /\ RetryLater("kubeconfig")
     \/ kubeconfig[cur] = "usable" /\ Goto("findTarget")
     \/ (kubeconfig[cur] = "unusable" \/ ~settled) /\ Error("kubeconfig")
  /\ UNCHANGED <<api, cache, settled, outside>>

(* Mutant of FindTarget: a failed query is taken for an answer. *)
FindTargetBlind ==
  /\ pc = "findTarget"
  /\ \/ (target[cur] \/ ~settled) /\ SetState("complete", "done", "report")
     \/ ~target[cur] /\ Goto("findAccount")
  /\ UNCHANGED <<api, cache, settled, outside>>

(* Asks the workload cluster, which may be out of reach. *)
FindTarget ==
  /\ pc = "findTarget"
  /\ \/ target[cur] /\ SetState("complete", "done", "report")
     \/ ~target[cur] /\ Goto("findAccount")
     \/ ~settled /\ RetryLater("target")
  /\ UNCHANGED <<api, cache, settled, outside>>

FindAccount ==
  /\ pc = "findAccount"
  /\ \/ ~account[cur] /\ RetryLater("account")
     \/ account[cur] /\ Goto("findToken")
     \/ ~settled /\ Error("account")
  /\ UNCHANGED <<api, cache, settled, outside>>

FindToken ==
  /\ pc = "findToken"
  /\ \/ (token[cur] \in {"missing", "empty"} \/ ~settled) /\ RetryLater("token")
     \/ token[cur] = "no ca" /\ Error("token")
     \/ token[cur] = "usable" /\ Goto("create")
  /\ UNCHANGED <<api, cache, settled, outside>>

Create ==
  /\ pc = "create"
  /\ \/ /\ ~target[cur]
        /\ target' = [target EXCEPT ![cur] = TRUE]
        /\ SetState("complete", "done", "report") \/ (~settled /\ RetryLater("create"))
     \/ /\ target[cur] \/ ~settled
        /\ RetryLater("create")
        /\ UNCHANGED target
  /\ UNCHANGED <<api, cache, settled, kubeconfig, account, token>>

(* Mutant of Report: the status is patched, whatever the version. *)
ReportUnversioned ==
  /\ pc \in {"report", "reportRetry"}
  /\ res[cur].exists
  /\ Write(cur, [res[cur] EXCEPT !.state = obj.state, !.message = obj.message])
  /\ Return(pc = "reportRetry")
  /\ UNCHANGED <<cache, settled, outside>>

Report ==
  /\ pc \in {"report", "reportRetry"}
  /\ StatusUpdate([res[cur] EXCEPT !.state = obj.state, !.message = obj.message],
                  pc = "reportRetry")
  /\ UNCHANGED <<cache, settled, outside>>

Reconcile ==
  \/ ReadKubeconfig \/ FindTarget \/ FindAccount \/ FindToken \/ Create \/ Report

-----------------------------------------------------------------------------
(* The users, and the two clusters *)

UserCreate(r) ==
  /\ ~res[r].exists
  /\ UserWrite(r, NewResource)
  /\ UNCHANGED outside

UserDelete(r) ==
  /\ res[r].exists
  /\ UserWrite(r, NoResource)
  /\ UNCHANGED outside

(* What the controller waits for comes, and goes; the target stays. *)
Provide(r) ==
  /\ ~settled
  /\ \/ /\ \E k \in Kubeconfigs \ {kubeconfig[r]} :
             kubeconfig' = [kubeconfig EXCEPT ![r] = k]
        /\ UNCHANGED <<account, token>>
     \/ /\ account' = [account EXCEPT ![r] = ~@]
        /\ UNCHANGED <<kubeconfig, token>>
     \/ /\ \E t \in Tokens \ {token[r]} : token' = [token EXCEPT ![r] = t]
        /\ UNCHANGED <<kubeconfig, account>>
  /\ UNCHANGED <<runtime, target>>

-----------------------------------------------------------------------------

Next ==
  \/ \E r \in Resources :
       \/ Take(r)
       \/ (CacheSync(r) \/ Resync(r)) /\ UNCHANGED outside
       \/ UserCreate(r) \/ UserDelete(r) \/ Provide(r)
  \/ Reconcile
  \/ (Restart \/ Settle) /\ UNCHANGED outside

Spec == Init /\ [][Next]_vars

Fairness ==
  /\ \A r \in Resources :
       SF_vars(Take(r)) /\ WF_vars(CacheSync(r) /\ UNCHANGED outside)
  /\ WF_vars(Reconcile)
  /\ WF_vars(Settle /\ UNCHANGED outside)

FairSpec == Spec /\ Fairness

-----------------------------------------------------------------------------
(* Properties *)

(* What the API's documentation says: a complete resource's target secret  *)
(* has been created.                                                       *)
CompleteMeansCreated ==
  \A r \in Resources : res[r].exists /\ res[r].state = "complete" => target[r]

(* A final state is never left, however stale the pass that writes. *)
FinalStates ==
  [][\A r \in Resources :
       res[r].exists /\ res[r].state \in {"complete", "error"} /\ res'[r].exists
         => res'[r].state = res[r].state]_vars

(* The controller implements OutcomeLifecycle: a config comes to an        *)
(* outcome that stays, and is complete only once its target is there.      *)
PhaseOf(o) ==
  CASE ~o.exists                                             -> "none"
    [] o.exists /\ o.state \in {"complete", "error"}         -> o.state
    [] o.exists /\ o.state \notin {"complete", "error"}      -> "open"

Phase == [r \in Resources |-> PhaseOf(res[r])]

Called == {r \in Resources : res[r].exists /\ target[r]}

Outcome == INSTANCE OutcomeLifecycle WITH phase <- Phase, made <- Called

ImplementsOutcome == Outcome!Spec

Ready(r) == kubeconfig[r] = "usable" /\ account[r] /\ token[r] = "usable"

(* Once all has settled with what the controller waits for in place, the   *)
(* target secret is made, also when the resource has said "retrying" with  *)
(* the same message before.  (A failure may have ended it in "error".)     *)
CallsHome ==
  \A r \in Resources :
    <>[](res[r].exists /\ Ready(r) /\ res[r].state # "error"
           => res[r].state = "complete")

=============================================================================
