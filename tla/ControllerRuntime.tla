-------------------------- MODULE ControllerRuntime --------------------------
(***************************************************************************)
(* What controller-runtime gives a controller of one kind of resource, as  *)
(* the controllers under controllers/ use it: an informer cache that lags, *)
(* a work queue, one worker, status writes that are refused when the       *)
(* worker's copy is not the current version, patches that are not, and a   *)
(* process that may die between any two calls.                             *)
(*                                                                         *)
(* A controller extends this module with its steps; its state outside the  *)
(* API server is its own.                                                  *)
(***************************************************************************)
CONSTANTS
  Resources,    \* names of resources
  Absent        \* the record of a resource that is not there

VARIABLES
  res,          \* the resources in the API server
  cache,        \* what the informer last saw of them
  cacheFresh,   \* is the cached resourceVersion the current one?
  queued,       \* is the resource in the work queue (or waiting to requeue)?
  pc,           \* the worker's next call, or "idle"
  cur,          \* the resource the worker reconciles
  obj,          \* the worker's copy of it
  fresh,        \* is the resourceVersion of obj the current one?
  settled       \* users, services and the process leave the system alone

api     == <<res, cacheFresh>>
local   == <<pc, cur, obj, fresh>>
runtime == <<res, cache, cacheFresh, queued, pc, cur, obj, fresh, settled>>

RuntimeTypeOK(Resource, Steps) ==
  /\ res \in [Resources -> Resource]
  /\ cache \in [Resources -> Resource]
  /\ cacheFresh \in [Resources -> BOOLEAN]
  /\ queued \in [Resources -> BOOLEAN]
  /\ pc \in Steps
  /\ cur \in Resources
  /\ obj \in Resource
  /\ fresh \in BOOLEAN
  /\ settled \in BOOLEAN

RuntimeInit ==
  /\ res = [r \in Resources |-> Absent]
  /\ cache = res
  /\ cacheFresh = [r \in Resources |-> TRUE]
  /\ queued = [r \in Resources |-> FALSE]
  /\ pc = "idle"
  /\ cur \in Resources
  /\ obj = Absent
  /\ fresh = FALSE
  /\ settled = FALSE

-----------------------------------------------------------------------------
(* The worker *)

(* A write that changes nothing keeps the version and sends no event. *)
Write(r, s) ==
  /\ res' = [res EXCEPT ![r] = s]
  /\ cacheFresh' = [cacheFresh EXCEPT ![r] = @ /\ s = res[r]]

Goto(p) ==
  /\ pc' = p
  /\ UNCHANGED <<cur, obj, fresh, queued>>

(* Reconcile returns; again: with an error, Requeue or RequeueAfter. *)
Return(again) ==
  /\ pc' = "idle"
  /\ queued' = [queued EXCEPT ![cur] = @ \/ again]
  /\ obj' = Absent
  /\ fresh' = FALSE
  /\ UNCHANGED cur

(* Take a resource off the queue and read it; if it is there and there is  *)
(* a step to take, go there with copy, what Reconcile made of it.          *)
Begin(r, step, copy) ==
  /\ pc = "idle"
  /\ queued[r]
  /\ queued' = [queued EXCEPT ![r] = FALSE]
  /\ \/ /\ ~cache[r].exists \/ step = "idle"
        /\ UNCHANGED local
     \/ /\ cache[r].exists /\ step # "idle"
        /\ cur' = r
        /\ fresh' = cacheFresh[r]
        /\ obj' = copy
        /\ pc' = step
  /\ UNCHANGED <<api, cache, settled>>

(* A write of new, what is there with the status of the worker's copy. *)
StatusUpdate(new, again) ==
  \/ /\ fresh
     /\ Write(cur, new)
     /\ Return(again) \/ (~settled /\ Return(TRUE))
  \/ /\ fresh => ~settled
     /\ Return(TRUE)
     /\ UNCHANGED api

(* A patch makes new of whatever version is there. *)
Patch(new) ==
  \/ /\ res[cur].exists
     /\ Write(cur, new)
     /\ Return(FALSE) \/ (~settled /\ Return(TRUE))
  \/ /\ res[cur].exists => ~settled
     /\ Return(TRUE)
     /\ UNCHANGED api

-----------------------------------------------------------------------------
(* The informer, the process and the users *)

CacheSync(r) ==
  /\ ~cacheFresh[r]
  /\ cache' = [cache EXCEPT ![r] = res[r]]
  /\ cacheFresh' = [cacheFresh EXCEPT ![r] = TRUE]
  /\ queued' = [queued EXCEPT ![r] = TRUE]
  /\ UNCHANGED <<res, local, settled>>

Resync(r) ==
  /\ cache[r].exists /\ ~queued[r]
  /\ queued' = [queued EXCEPT ![r] = TRUE]
  /\ UNCHANGED <<api, cache, local, settled>>

Restart ==
  /\ ~settled
  /\ cache' = res
  /\ cacheFresh' = [r \in Resources |-> TRUE]
  /\ queued' = [r \in Resources |-> res[r].exists]
  /\ pc' = "idle"
  /\ obj' = Absent
  /\ fresh' = FALSE
  /\ UNCHANGED <<res, cur, settled>>

UserWrite(r, s) ==
  /\ ~settled
  /\ Write(r, s)
  /\ fresh' = (fresh /\ (r = cur => s = res[r]))
  /\ UNCHANGED <<cache, queued, pc, cur, obj, settled>>

(* From here on nobody writes, nothing fails. *)
Settle ==
  /\ ~settled
  /\ settled' = TRUE
  /\ UNCHANGED <<api, cache, queued, local>>

=============================================================================
