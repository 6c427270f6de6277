---------------------------- MODULE RuntimeProofs -----------------------------
(* What ControllerRuntime keeps for every controller that is built on it,  *)
(* whatever its resources and its steps are.                               *)
EXTENDS ControllerRuntime, TLAPS

(* A copy that counts as current is; a worker without a pass has none.     *)
Versions ==
  /\ \A r \in Resources : cacheFresh[r] => cache[r] = res[r]
  /\ pc = "idle" => ~fresh /\ obj = Absent

RuntimeOK(Resource, Steps) == RuntimeTypeOK(Resource, Steps) /\ Versions

-----------------------------------------------------------------------------
(* It holds initially. *)
LEMMA RuntimeStarts ==
  ASSUME NEW Resource, NEW Steps, Absent \in Resource, "idle" \in Steps, RuntimeInit
  PROVE  RuntimeOK(Resource, Steps)
  BY DEF RuntimeOK, RuntimeTypeOK, Versions, RuntimeInit

(* The start of a pass. *)
LEMMA RuntimeBegin ==
  ASSUME NEW Resource, NEW Steps, RuntimeOK(Resource, Steps),
         NEW r \in Resources, NEW step \in Steps, NEW copy \in Resource,
         Begin(r, step, copy)
  PROVE  RuntimeOK(Resource, Steps)'
  BY DEF RuntimeOK, RuntimeTypeOK, Versions, Begin, api, local

(* A call that goes on, or that edits the worker's copy and goes on. *)
LEMMA RuntimeGoOn ==
  ASSUME NEW Resource, NEW Steps, RuntimeOK(Resource, Steps), pc # "idle",
         NEW p \in Steps \ {"idle"}, NEW o \in Resource,
         pc' = p, obj' = o, UNCHANGED <<api, cache, cur, fresh, queued, settled>>
  PROVE  RuntimeOK(Resource, Steps)'
  BY DEF RuntimeOK, RuntimeTypeOK, Versions, api

(* The end of a pass, with a write to its resource or without. *)
LEMMA RuntimeReturn ==
  ASSUME NEW Resource, NEW Steps, RuntimeOK(Resource, Steps),
         Absent \in Resource, "idle" \in Steps,
         NEW again \in BOOLEAN, Return(again), UNCHANGED <<cache, settled>>,
         \/ UNCHANGED api
         \/ \E new \in Resource : Write(cur, new)
  PROVE  RuntimeOK(Resource, Steps)'
  BY DEF RuntimeOK, RuntimeTypeOK, Versions, Return, Write, api

(* The two kinds of writes end the pass. *)
LEMMA RuntimeWrites ==
  ASSUME NEW Resource, NEW Steps, RuntimeOK(Resource, Steps),
         Absent \in Resource, "idle" \in Steps,
         NEW new \in Resource, NEW again \in BOOLEAN,
         StatusUpdate(new, again) \/ Patch(new), UNCHANGED <<cache, settled>>
  PROVE  RuntimeOK(Resource, Steps)'
<1>1. \E b \in BOOLEAN : Return(b)
  BY DEF StatusUpdate, Patch
<1>2. UNCHANGED api \/ Write(cur, new)
  BY DEF StatusUpdate, Patch
<1> QED
  BY <1>1, <1>2, RuntimeReturn

(* The informer, the process and the users. *)
LEMMA RuntimeOutside ==
  ASSUME NEW Resource, NEW Steps, RuntimeOK(Resource, Steps),
         Absent \in Resource, "idle" \in Steps,
         \A s \in Resource : s.exists \in BOOLEAN,
         \/ \E r \in Resources : CacheSync(r) \/ Resync(r)
         \/ \E r \in Resources, s \in Resource : UserWrite(r, s)
         \/ Restart \/ Settle
  PROVE  RuntimeOK(Resource, Steps)'
<1> USE DEF RuntimeOK, RuntimeTypeOK, Versions, api, local
<1>1. ASSUME NEW r \in Resources, CacheSync(r)
      PROVE  RuntimeOK(Resource, Steps)'
  BY <1>1 DEF CacheSync
<1>2. ASSUME NEW r \in Resources, Resync(r)
      PROVE  RuntimeOK(Resource, Steps)'
  BY <1>2 DEF Resync
<1>3. ASSUME NEW r \in Resources, NEW s \in Resource, UserWrite(r, s)
      PROVE  RuntimeOK(Resource, Steps)'
  BY <1>3 DEF UserWrite, Write
<1>4. CASE Restart
  BY <1>4 DEF Restart
<1>5. CASE Settle
  BY <1>5 DEF Settle
<1> QED
  BY <1>1, <1>2, <1>3, <1>4, <1>5
=============================================================================
