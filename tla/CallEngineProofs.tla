--------------------------- MODULE CallEngineProofs ---------------------------
(***************************************************************************)
(* Theorems about CallEngine for every set of calls, every cap, number of  *)
(* attempts, breaker and network-check setting: types, ownership of calls  *)
(* and channels, and the two signals, the Notify and the cancel map.       *)
(***************************************************************************)
EXTENDS CallEngine, FiniteSetTheorems, WellFoundedInduction, TLAPS

(* A busy attempt is requeued only while it is not the last one. *)
RetryBound == \A t \in Tasks : pc[t] = "requeue" => t[2] < MaxAttempts

TypeInv == TypeOK /\ RetryBound

-----------------------------------------------------------------------------
(* Operators. *)
LEMMA ResolveType ==
    ASSUME NEW isCancelled, NEW amd, NEW sip, NEW shape
    PROVE  Resolve(isCancelled, amd, sip, shape) \in Dispositions
BY DEF Resolve, OfSip, OfShape, Dispositions

LEMMA SetStateType ==
    ASSUME NEW s \in [Calls -> Record], NEW c \in Calls, NEW st \in CallStates
    PROVE  SetState(s, c, st) \in [Calls -> Record]
BY DEF SetState, Record

LEMMA RecordEndType ==
    ASSUME NEW s \in [Calls -> Record], NEW c \in Calls, NEW d \in Dispositions
    PROVE  Evict(RecordEnd(s, c, d)) \in [Calls -> Record]
<1>1. NoRecord \in Record
    BY DEF NoRecord, Record, CallStates
<1>2. RecordEnd(s, c, d) \in [Calls -> Record]
    BY DEF RecordEnd, Record, CallStates
<1> QED
    BY <1>1, <1>2 DEF Evict

LEMMA FinalizeType ==
    ASSUME TypeOK, NEW c \in Calls, NEW d \in Dispositions, Finalize(c, d)
    PROVE  store' \in [Calls -> Record] /\ finals' \in [Dispositions -> Nat]
BY RecordEndType DEF Finalize, TypeOK

LEMMA InitTypeInv == Init => TypeInv
<1> SUFFICES ASSUME Init PROVE TypeInv
    OBVIOUS
<1>1. NoRecord \in Record /\ Closed \in BreakerState
    BY DEF NoRecord, Record, CallStates, Closed, BreakerState
<1>2. RetryBound
    BY DEF Init, RetryBound
<1>3. cancels \in [Calls -> 0..MaxAttempts]
    BY EngineAssumption DEF Init
<1>4. pc \in [Tasks -> TaskPoints]
    BY DEF Init, TaskPoints, Driving
<1>5. wake \in BOOLEAN
    BY DEF Init
<1> QED
    BY <1>1, <1>2, <1>3, <1>4, <1>5 DEF Init, TypeInv, TypeOK

LEMMA DroppedType ==
    ASSUME TypeOK, NEW c \in Calls
    PROVE  Dropped(c) \in [Tasks -> {"open", "signalled", "closed"}]
BY DEF TypeOK, Dropped

LEMMA TickKeepsType ==
    ASSUME TypeInv, Tick
    PROVE  TypeInv'
BY DEF Tick, TypeInv, TypeOK, RetryBound,
       coreVars, countVars, placeVars, dispVars, taskVars, histVars

(* Producers and end_call.                                                 *)
LEMMA ProducerKeepsType ==
    ASSUME TypeInv, NEW c \in Calls, Producer(c) \/ EndCall(c)
    PROVE  TypeInv'
<1> USE DEF coreVars, countVars, placeVars, dispVars, taskVars, histVars, TypeInv
<1>1. CASE PlaceInsert(c)
  <2>1. [state |-> "queued", disposition |-> None, attempt |-> 1] \in Record
      BY DEF Record, CallStates
  <2>2. PICK delay \in Delays : due' = [due EXCEPT ![c] = now + delay]
      BY <1>1 DEF PlaceInsert
  <2>3. due' \in [Calls -> Nat]
      BY <2>2, EngineAssumption DEF TypeOK
  <2> QED
      BY <1>1, <2>1, <2>3 DEF PlaceInsert, TypeOK, RetryBound
<1>2. CASE PlacePush(c)
  <2>1. [id |-> c, at |-> due[c], attempt |-> 1] \in {e \in Entry : e.attempt \in Attempts}
      BY EngineAssumption DEF TypeOK, Entry, Attempts
  <2> QED
      BY <1>2, <2>1 DEF PlacePush, Push, TypeOK, RetryBound
<1>3. CASE PlaceNotify(c)
  <2>1. wake' \in BOOLEAN
      BY <1>3 DEF PlaceNotify
  <2> QED
      BY <1>3, <2>1 DEF PlaceNotify, TypeOK, RetryBound
<1>4. CASE EndPending(c)
    BY <1>4 DEF EndPending, Without, TypeOK, RetryBound
<1>5. CASE EndPendingFinalize(c)
  <2>1. Resolve(TRUE, None, None, PendingShape) = "cancelled"
      BY DEF Resolve
  <2>2. store' \in [Calls -> Record] /\ finals' \in [Dispositions -> Nat]
      BY <1>5, <2>1, FinalizeType DEF EndPendingFinalize, Dispositions
  <2> QED
      BY <1>5, <2>2 DEF EndPendingFinalize, TypeOK, RetryBound
<1>6. CASE EndDispatched(c)
  <2>1. cancels' \in [Calls -> 0..MaxAttempts]
      BY <1>6, EngineAssumption DEF EndDispatched, TypeOK
  <2>2. rx' \in [Tasks -> {"open", "signalled", "closed"}]
      BY <1>6 DEF EndDispatched, TypeOK
  <2> QED
      BY <1>6, <2>1, <2>2 DEF EndDispatched, TypeOK, RetryBound
<1> QED
    BY <1>1, <1>2, <1>3, <1>4, <1>5, <1>6 DEF Producer, EndCall

(* The entry the dispatcher takes stands for an attempt of a call.         *)
LEMMA EligibleIsTask ==
    ASSUME TypeOK, NEW e \in PopEligible(queue, now)
    PROVE  e \in queue /\ e.id \in Calls /\ e.attempt \in Attempts
           /\ <<e.id, e.attempt>> \in Tasks
BY DEF TypeOK, PopEligible, First, Entry, Tasks

LEMMA HoldUntilType ==
    ASSUME TypeOK PROVE HoldUntil(breaker, now) \in Nat
BY DEF TypeOK, HoldUntil, BreakerState

LEMMA DispatcherKeepsType ==
    ASSUME TypeInv, Dispatcher
    PROVE  TypeInv'
<1> USE DEF coreVars, countVars, placeVars, dispVars, taskVars, histVars, TypeInv
<1>1. CASE DispatchClaim
  <2>1. PICK e \in PopEligible(queue, now) :
          LET t == <<e.id, e.attempt>> IN
          /\ queue' = queue \ {e}
          /\ rx' = [Dropped(e.id) EXCEPT ![t] = "open"]
          /\ cancels' = [cancels EXCEPT ![e.id] = e.attempt]
          /\ pc' = [pc EXCEPT ![t] = "claimed"]
          /\ probeAt' \in {0, now}
          /\ probes' \in {probes, probes \cup {t}}
          /\ since' = [since EXCEPT ![t] = now]
          /\ dpc' \in {"mark", "spawn"}
      BY <1>1 DEF DispatchClaim
  <2>2. e.id \in Calls /\ e.attempt \in Attempts /\ <<e.id, e.attempt>> \in Tasks
      BY EligibleIsTask
  <2>3. rx' \in [Tasks -> {"open", "signalled", "closed"}]
      BY <2>1, <2>2, DroppedType
  <2>4. cancels' \in [Calls -> 0..MaxAttempts]
      BY <2>1, <2>2, EngineAssumption DEF TypeOK, Attempts
  <2>5. pc' \in [Tasks -> TaskPoints] /\ RetryBound'
      BY <2>1, <2>2 DEF TypeOK, TaskPoints, RetryBound
  <2> QED
      BY <1>1, <2>1, <2>2, <2>3, <2>4, <2>5 DEF DispatchClaim, TypeOK
<1>2. CASE DispatchMark
  <2>1. breaker' \in BreakerState
      BY <1>2, BreakerAssumption DEF DispatchMark, MarkProbe, BreakerState, TypeOK
  <2> QED
      BY <1>2, <2>1 DEF DispatchMark, TypeOK, RetryBound
<1>3. CASE DispatchSpawn
  <2>1. PICK t \in Tasks :
          /\ store' = SetState(store, t[1], "ringing")
          /\ pc' = [pc EXCEPT ![t] = IF NetCheck THEN "preflight" ELSE "invite"]
          /\ \/ UNCHANGED <<probes, since>>
             \/ probes' = probes \ {t} /\ since' = [since EXCEPT ![t] = 0]
      BY <1>3 DEF DispatchSpawn, LeavePreflight
  <2>2. store' \in [Calls -> Record]
      BY <2>1, SetStateType DEF TypeOK, Tasks, CallStates
  <2>3. pc' \in [Tasks -> TaskPoints] /\ RetryBound'
      BY <2>1 DEF TypeOK, TaskPoints, RetryBound
  <2>4. probes' \subseteq Tasks /\ since' \in [Tasks -> Nat]
      BY <2>1 DEF TypeOK
  <2> QED
      BY <1>3, <2>2, <2>3, <2>4 DEF DispatchSpawn, TypeOK
<1>4. CASE DispatchBreak
    BY <1>4, HoldUntilType DEF DispatchBreak, TypeOK, RetryBound
<1>5. CASE DispatchPark
  <2>1. NextEligibleAt(queue) \subseteq Nat
      BY DEF NextEligibleAt, First, TypeOK, Entry
  <2>2. timer' \in Nat
      BY <1>5, <2>1 DEF DispatchPark, Soonest, TypeOK
  <2> QED
      BY <1>5, <2>2 DEF DispatchPark, TypeOK, RetryBound
<1>6. CASE DispatchWoken
  <2>1. wake' \in BOOLEAN
      BY <1>6 DEF DispatchWoken, TypeOK
  <2> QED
      BY <1>6, <2>1 DEF DispatchWoken, TypeOK, RetryBound
<1> QED
    BY <1>1, <1>2, <1>3, <1>4, <1>5, <1>6 DEF Dispatcher

(* A step of a task only moves its control point, except that it may also  *)
(* finalize, report, requeue, or give up what the guards own.              *)
LEMMA GotoType ==
    ASSUME TypeInv, NEW t \in Tasks, NEW point \in TaskPoints \ {"requeue"}, Goto(t, point)
    PROVE  pc' \in [Tasks -> TaskPoints] /\ RetryBound'
BY DEF TypeInv, TypeOK, Goto, RetryBound

LEMMA ReportType ==
    ASSUME TypeOK, NEW ok \in BOOLEAN, Report(ok)
    PROVE  breaker' \in BreakerState /\ wake' \in BOOLEAN
<1>1. breaker' = breaker \/ breaker' = OnResult(breaker, ok, now)
    BY DEF Report
<1>2. OnResult(breaker, ok, now) \in BreakerState
    BY BreakerAssumption DEF OnResult, TypeOK, BreakerState
<1>3. wake' \in BOOLEAN
    BY DEF Report, TypeOK
<1> QED
    BY <1>1, <1>2, <1>3 DEF TypeOK

LEMMA LeavePreflightType ==
    ASSUME TypeOK, NEW t \in Tasks, LeavePreflight(t)
    PROVE  probes' \subseteq Tasks /\ since' \in [Tasks -> Nat]
BY DEF TypeOK, LeavePreflight

LEMMA DialKeepsType ==
    ASSUME TypeInv, NEW t \in Tasks,
           \/ PreflightCancelled(t) \/ PreflightUsable(t) \/ PreflightUnusable(t)
           \/ DialFailed(t) \/ InviteSent(t) \/ RingTerminated(t)
    PROVE  TypeInv'
<1> USE DEF coreVars, countVars, placeVars, dispVars, taskVars, histVars
<1>1. t[1] \in Calls /\ TypeOK
    BY DEF Tasks, TypeInv
<1>2. {"guard", "invite", "unusable", "ringing"} \subseteq TaskPoints \ {"requeue"}
    BY DEF TaskPoints
<1>3. CASE PreflightCancelled(t)
  <2>1. Resolve(TRUE, None, None, UnansweredShape) = "cancelled"
      BY DEF Resolve
  <2>2. store' \in [Calls -> Record] /\ finals' \in [Dispositions -> Nat]
      BY <1>1, <1>3, <2>1, FinalizeType DEF PreflightCancelled, Dispositions
  <2>3. pc' \in [Tasks -> TaskPoints] /\ RetryBound'
      BY <1>2, <1>3, GotoType DEF PreflightCancelled
  <2>4. probes' \subseteq Tasks /\ since' \in [Tasks -> Nat]
      BY <1>1, <1>3, LeavePreflightType DEF PreflightCancelled
  <2> QED
      BY <1>1, <1>3, <2>2, <2>3, <2>4 DEF PreflightCancelled, TypeInv, TypeOK
<1>4. CASE PreflightUsable(t)
  <2>1. breaker' \in BreakerState /\ wake' \in BOOLEAN
      BY <1>1, <1>4, ReportType DEF PreflightUsable
  <2>2. pc' \in [Tasks -> TaskPoints] /\ RetryBound'
      BY <1>2, <1>4, GotoType DEF PreflightUsable
  <2>3. probes' \subseteq Tasks /\ since' \in [Tasks -> Nat]
      BY <1>1, <1>4, LeavePreflightType DEF PreflightUsable
  <2> QED
      BY <1>1, <1>4, <2>1, <2>2, <2>3 DEF PreflightUsable, TypeInv, TypeOK
<1>5. CASE PreflightUnusable(t)
  <2>1. breaker' \in BreakerState /\ wake' \in BOOLEAN
      BY <1>1, <1>5, ReportType DEF PreflightUnusable
  <2>2. pc' \in [Tasks -> TaskPoints] /\ RetryBound'
      BY <1>2, <1>5, GotoType DEF PreflightUnusable
  <2>3. probes' \subseteq Tasks /\ since' \in [Tasks -> Nat]
      BY <1>1, <1>5, LeavePreflightType DEF PreflightUnusable
  <2> QED
      BY <1>1, <1>5, <2>1, <2>2, <2>3 DEF PreflightUnusable, TypeInv, TypeOK
<1>6. CASE DialFailed(t)
  <2>1. Resolve(FALSE, None, None, UnansweredShape) \in Dispositions
      BY DEF Resolve, UnansweredShape, OfSip, Dispositions
  <2>2. store' \in [Calls -> Record] /\ finals' \in [Dispositions -> Nat]
      BY <1>1, <1>6, <2>1, FinalizeType DEF DialFailed
  <2>3. pc' \in [Tasks -> TaskPoints] /\ RetryBound'
      BY <1>2, <1>6, GotoType DEF DialFailed
  <2> QED
      BY <1>1, <1>6, <2>2, <2>3 DEF DialFailed, TypeInv, TypeOK
<1>7. CASE InviteSent(t)
  <2>1. pc' \in [Tasks -> TaskPoints] /\ RetryBound'
      BY <1>2, <1>7, GotoType DEF InviteSent
  <2> QED
      BY <1>1, <1>7, <2>1 DEF InviteSent, TypeInv, TypeOK
<1>8. CASE RingTerminated(t)
  <2>1. PICK outcome \in SipOutcomes :
          Finalize(t[1], Resolve(FALSE, None, outcome, UnansweredShape))
      BY <1>8 DEF RingTerminated
  <2>2. Resolve(FALSE, None, outcome, UnansweredShape) \in Dispositions
      BY DEF Resolve, UnansweredShape, OfSip, Dispositions
  <2>3. store' \in [Calls -> Record] /\ finals' \in [Dispositions -> Nat]
      BY <1>1, <2>1, <2>2, FinalizeType
  <2>4. pc' \in [Tasks -> TaskPoints] /\ RetryBound'
      BY <1>2, <1>8, GotoType DEF RingTerminated
  <2> QED
      BY <1>1, <1>8, <2>3, <2>4 DEF RingTerminated, TypeInv, TypeOK
<1> QED
    BY <1>3, <1>4, <1>5, <1>6, <1>7, <1>8

LEMMA RequeueKeepsType ==
    ASSUME TypeInv, NEW t \in Tasks,
           RequeueMark(t) \/ RequeuePush(t) \/ RequeueNotify(t)
    PROVE  TypeInv'
<1> USE DEF coreVars, countVars, placeVars, dispVars, taskVars, histVars
<1>1. t[1] \in Calls /\ t[2] \in Attempts /\ TypeOK
    BY DEF Tasks, TypeInv
<1>2. {"requeued", "guard"} \subseteq TaskPoints \ {"requeue"}
    BY DEF TaskPoints
<1>3. CASE RequeueMark(t)
  <2>1. store' \in [Calls -> Record]
      BY <1>1, <1>3, SetStateType DEF RequeueMark, TypeOK, CallStates
  <2>2. pc' \in [Tasks -> TaskPoints]
      BY <1>1, <1>3 DEF RequeueMark, Goto, TypeOK, TaskPoints, Driving
  <2>3. RetryBound'
      BY <1>1, <1>3 DEF RequeueMark, Goto, ShouldRetryBusy, TypeInv, TypeOK, RetryBound
  <2>4. due' \in [Calls -> Nat]
      BY <1>1, <1>3, EngineAssumption DEF RequeueMark, TypeOK
  <2> QED
      BY <1>1, <1>3, <2>1, <2>2, <2>3, <2>4 DEF RequeueMark, TypeInv, TypeOK
<1>4. CASE RequeuePush(t)
  <2>1. t[2] < MaxAttempts
      BY <1>4 DEF RequeuePush, TypeInv, RetryBound
  <2>2. [id |-> t[1], at |-> due[t[1]], attempt |-> t[2] + 1]
            \in {e \in Entry : e.attempt \in Attempts}
      BY <1>1, <2>1, EngineAssumption DEF TypeOK, Entry, Attempts
  <2>3. pc' \in [Tasks -> TaskPoints] /\ RetryBound'
      BY <1>2, <1>4, GotoType DEF RequeuePush
  <2> QED
      BY <1>1, <1>4, <2>2, <2>3 DEF RequeuePush, Push, TypeInv, TypeOK
<1>5. CASE RequeueNotify(t)
  <2>1. wake' \in BOOLEAN
      BY <1>5 DEF RequeueNotify
  <2>2. pc' \in [Tasks -> TaskPoints] /\ RetryBound'
      BY <1>2, <1>5, GotoType DEF RequeueNotify
  <2> QED
      BY <1>1, <1>5, <2>1, <2>2 DEF RequeueNotify, TypeInv, TypeOK
<1> QED
    BY <1>3, <1>4, <1>5

LEMMA LiveKeepsType ==
    ASSUME TypeInv, NEW t \in Tasks,
           \/ Answered(t) \/ LiveCancelled(t) \/ LiveOver(t)
           \/ LiveFinalize(t) \/ LivePersist(t)
    PROVE  TypeInv'
<1> USE DEF coreVars, countVars, placeVars, dispVars, taskVars, histVars
<1>1. t[1] \in Calls /\ TypeOK
    BY DEF Tasks, TypeInv
<1>2. {"live", "cancelled", "over", "persist", "guard"} \subseteq TaskPoints \ {"requeue"}
    BY DEF TaskPoints
<1>3. CASE Answered(t)
  <2>1. store' \in [Calls -> Record]
      BY <1>1, <1>3, SetStateType DEF Answered, TypeOK, CallStates
  <2>2. pc' \in [Tasks -> TaskPoints] /\ RetryBound'
      BY <1>2, <1>3, GotoType DEF Answered
  <2> QED
      BY <1>1, <1>3, <2>1, <2>2 DEF Answered, TypeInv, TypeOK
<1>4. CASE LiveCancelled(t)
  <2>1. pc' \in [Tasks -> TaskPoints] /\ RetryBound'
      BY <1>2, <1>4, GotoType DEF LiveCancelled
  <2> QED
      BY <1>1, <1>4, <2>1 DEF LiveCancelled, TypeInv, TypeOK
<1>5. CASE LiveOver(t)
  <2>1. pc' \in [Tasks -> TaskPoints] /\ RetryBound'
      BY <1>2, <1>5, GotoType DEF LiveOver
  <2> QED
      BY <1>1, <1>5, <2>1 DEF LiveOver, TypeInv, TypeOK
<1>6. CASE LiveFinalize(t)
  <2>1. PICK r \in LiveResults :
          Finalize(t[1], Resolve(pc[t] = "cancelled", r[1], None, r[2]))
      BY <1>6 DEF LiveFinalize
  <2>2. Resolve(pc[t] = "cancelled", r[1], None, r[2]) \in Dispositions
      BY DEF Resolve, OfSip, OfShape, Dispositions
  <2>3. store' \in [Calls -> Record] /\ finals' \in [Dispositions -> Nat]
      BY <1>1, <2>1, <2>2, FinalizeType
  <2>4. pc' \in [Tasks -> TaskPoints] /\ RetryBound'
      BY <1>2, <1>6, GotoType DEF LiveFinalize
  <2> QED
      BY <1>1, <1>6, <2>3, <2>4 DEF LiveFinalize, TypeInv, TypeOK
<1>7. CASE LivePersist(t)
  <2>1. pc' \in [Tasks -> TaskPoints] /\ RetryBound'
      BY <1>2, <1>7, GotoType DEF LivePersist
  <2> QED
      BY <1>1, <1>7, <2>1 DEF LivePersist, TypeInv, TypeOK
<1> QED
    BY <1>3, <1>4, <1>5, <1>6, <1>7

LEMMA UnwindKeepsType ==
    ASSUME TypeInv, NEW t \in Tasks, pc[t] = "slot" => running # 0,
           Panic(t) \/ DropCancelGuard(t) \/ DropRunningGuard(t) \/ NotifyReleased(t)
    PROVE  TypeInv'
<1> USE DEF coreVars, countVars, placeVars, dispVars, taskVars, histVars
<1>1. t[1] \in Calls /\ TypeOK
    BY DEF Tasks, TypeInv
<1>2. {"guard", "slot", "released", "done"} \subseteq TaskPoints \ {"requeue"}
    BY DEF TaskPoints
<1>3. CASE Panic(t)
  <2>1. pc' \in [Tasks -> TaskPoints] /\ RetryBound'
      BY <1>2, <1>3, GotoType DEF Panic
  <2>2. probes' \subseteq Tasks /\ since' \in [Tasks -> Nat]
      BY <1>1, <1>3, LeavePreflightType DEF Panic
  <2> QED
      BY <1>1, <1>3, <2>1, <2>2 DEF Panic, TypeInv, TypeOK
<1>4. CASE DropCancelGuard(t)
  <2>1. pc' \in [Tasks -> TaskPoints] /\ RetryBound'
      BY <1>2, <1>4, GotoType DEF DropCancelGuard
  <2>2. rx' \in [Tasks -> {"open", "signalled", "closed"}]
      BY <1>1, <1>4, DroppedType DEF DropCancelGuard
  <2>3. cancels' \in [Calls -> 0..MaxAttempts]
      BY <1>1, <1>4, EngineAssumption DEF DropCancelGuard, TypeOK
  <2> QED
      BY <1>1, <1>4, <2>1, <2>2, <2>3 DEF DropCancelGuard, TypeInv, TypeOK
<1>5. CASE DropRunningGuard(t)
  <2>1. pc' \in [Tasks -> TaskPoints] /\ RetryBound'
      BY <1>2, <1>5, GotoType DEF DropRunningGuard
  <2>2. running' \in Nat
      BY <1>1, <1>5 DEF DropRunningGuard, TypeOK
  <2> QED
      BY <1>1, <1>5, <2>1, <2>2 DEF DropRunningGuard, TypeInv, TypeOK
<1>6. CASE NotifyReleased(t)
  <2>1. wake' \in BOOLEAN
      BY <1>6 DEF NotifyReleased
  <2>2. pc' \in [Tasks -> TaskPoints] /\ RetryBound'
      BY <1>2, <1>6, GotoType DEF NotifyReleased
  <2> QED
      BY <1>1, <1>6, <2>1, <2>2 DEF NotifyReleased, TypeInv, TypeOK
<1> QED
    BY <1>3, <1>4, <1>5, <1>6

-----------------------------------------------------------------------------
(* Owners, slots and freshness. *)
(* A queued attempt and all later ones have not been dialled; neither have *)
(* the attempts after one that is still driving its call.                  *)
FreshEntries ==
    \A e \in queue, a \in Attempts : a >= e.attempt => pc[<<e.id, a>>] = "none"

FreshRetries ==
    \A t \in Tasks, a \in Attempts :
        pc[t] \in Driving /\ a > t[2] => pc[<<t[1], a>>] = "none"

(* No two of producer, entry, task and end_call own the same call.         *)
NotYetQueued ==
    \A c \in Calls : placing[c] \in {"new", "inserted"} =>
        /\ c \notin cancelling
        /\ \A e \in queue : e.id # c
        /\ \A a \in Attempts : pc[<<c, a>>] = "none"

OneEntry == \A e, f \in queue : e.id = f.id => e = f

QueuedNotDriven == \A e \in queue, t \in Tasks : pc[t] \in Driving => t[1] # e.id

CancellingAlone ==
    \A c \in cancelling :
        /\ \A e \in queue : e.id # c
        /\ \A t \in Tasks : pc[t] \in Driving => t[1] # c

Exclusive ==
    /\ FreshEntries /\ FreshRetries
    /\ NotYetQueued /\ OneEntry /\ QueuedNotDriven /\ CancellingAlone

(* The owners of a call, each in the form the proofs use.                  *)
Owned(c) ==
    \/ placing[c] = "inserted"
    \/ \E e \in queue : e.id = c
    \/ \E t \in Tasks : t[1] = c /\ pc[t] \in Driving
    \/ c \in cancelling

(* A call is owned exactly from its placement until it is over or crashed. *)
OwnedUntilOver ==
    \A c \in Calls :
        /\ Owned(c) <=> placing[c] # "new" /\ ~Over(c) /\ c \notin crashed
        /\ c \in crashed => placing[c] # "new"

SlotsCounted ==
    /\ IsFiniteSet(SlotHolders)
    /\ running = Cardinality(SlotHolders)
    /\ running <= Cap

EngineInv == TypeInv /\ Exclusive /\ OwnedUntilOver /\ SlotsCounted

-----------------------------------------------------------------------------
(* What the invariant says of the slots. *)
LEMMA HolderCounted ==
    ASSUME SlotsCounted, NEW t \in SlotHolders
    PROVE  running # 0
BY FS_EmptySet DEF SlotsCounted

LEMMA SameHolders ==
    ASSUME SlotsCounted, SlotHolders' = SlotHolders, running' = running
    PROVE  SlotsCounted'
BY DEF SlotsCounted

(* Steps of the clock, the dispatcher or end_call that own nothing.        *)
LEMMA IdleStep ==
    ASSUME EngineInv,
           UNCHANGED <<placing, queue, pc, cancelling, store, crashed, running>>
    PROVE  Exclusive' /\ OwnedUntilOver' /\ SlotsCounted'
<1>1. Exclusive'
    BY DEF EngineInv, Exclusive, FreshEntries, FreshRetries, NotYetQueued, OneEntry,
           QueuedNotDriven, CancellingAlone
<1>2. OwnedUntilOver'
    BY DEF EngineInv, OwnedUntilOver, Owned, Over
<1>3. SlotsCounted'
    BY SameHolders DEF EngineInv, SlotHolders
<1> QED
    BY <1>1, <1>2, <1>3

(* A task that has started moves on, and does not start driving anew.      *)
LEMMA MoveKeepsExclusive ==
    ASSUME TypeOK, Exclusive, NEW t \in Tasks, NEW point \in TaskPoints \ {"none"},
           pc[t] # "none", point \in Driving => pc[t] \in Driving,
           pc' = [pc EXCEPT ![t] = point], UNCHANGED <<placing, queue, cancelling>>
    PROVE  Exclusive'
<1>1. \A u \in Tasks : pc[u] = "none" => pc'[u] = "none"
    BY DEF TypeOK
<1>2. \A u \in Tasks : pc'[u] \in Driving => pc[u] \in Driving
    BY DEF TypeOK
<1>3. \A c \in Calls, a \in Attempts : <<c, a>> \in Tasks
    BY DEF Tasks
<1>4. \A u \in Tasks : u[1] \in Calls
    BY DEF Tasks
<1>5. \A e \in queue : e.id \in Calls
    BY DEF TypeOK, Entry
<1>6. FreshEntries'
    BY <1>1, <1>3, <1>5 DEF Exclusive, FreshEntries
<1>7. FreshRetries'
    BY <1>1, <1>2, <1>3, <1>4 DEF Exclusive, FreshRetries
<1>8. NotYetQueued'
    BY <1>1, <1>3 DEF Exclusive, NotYetQueued
<1>9. OneEntry' /\ QueuedNotDriven' /\ CancellingAlone'
    BY <1>2 DEF Exclusive, OneEntry, QueuedNotDriven, CancellingAlone
<1> QED
    BY <1>6, <1>7, <1>8, <1>9 DEF Exclusive

(* The task that drives a call is the call's only owner.                   *)
LEMMA DriverAlone ==
    ASSUME TypeOK, Exclusive, NEW t \in Tasks, pc[t] \in Driving
    PROVE  /\ t[1] \in Calls /\ t[2] \in Attempts /\ t = <<t[1], t[2]>>
           /\ placing[t[1]] \notin {"new", "inserted"}
           /\ \A e \in queue : e.id # t[1]
           /\ t[1] \notin cancelling
           /\ \A u \in Tasks : u[1] = t[1] /\ pc[u] \in Driving => u = t
<1>1. t[1] \in Calls /\ t[2] \in Attempts /\ t = <<t[1], t[2]>>
    BY DEF Tasks
<1>2. pc[t] # "none"
    BY DEF Driving
<1>3. placing[t[1]] \notin {"new", "inserted"}
    BY <1>1, <1>2 DEF Exclusive, NotYetQueued
<1>4. (\A e \in queue : e.id # t[1]) /\ t[1] \notin cancelling
    BY <1>1 DEF Exclusive, QueuedNotDriven, CancellingAlone
<1>5. ASSUME NEW u \in Tasks, u[1] = t[1], pc[u] \in Driving PROVE u = t
  <2>1. u = <<t[1], u[2]>> /\ u[2] \in Attempts
      BY <1>5 DEF Tasks
  <2>2. pc[u] # "none"
      BY <1>5 DEF Driving
  <2>3. ~(u[2] > t[2])
      BY <1>2, <2>1, <2>2 DEF Exclusive, FreshRetries
  <2>4. ~(t[2] > u[2])
      BY <1>1, <1>2, <1>5, <2>1 DEF Exclusive, FreshRetries
  <2>5. u[2] = t[2]
      BY <1>1, <2>1, <2>3, <2>4, EngineAssumption DEF Attempts
  <2> QED
      BY <1>1, <2>1, <2>5
<1> QED
    BY <1>1, <1>3, <1>4, <1>5

(* set_state on a call that is in flight does not end it.                  *)
LEMMA SetStateKeepsOver ==
    ASSUME TypeOK, NEW c \in Calls, NEW st \in {"queued", "ringing", "in_progress"},
           placing[c] # "new", ~Over(c), store' = SetState(store, c, st), placing' = placing
    PROVE  \A x \in Calls : Over(x)' <=> Over(x)
BY DEF TypeOK, Over, SetState, Record

LEMMA DriveKeepsOwned ==
    ASSUME TypeOK, OwnedUntilOver, NEW t \in Tasks, NEW point \in Driving,
           pc[t] \in Driving, pc' = [pc EXCEPT ![t] = point],
           UNCHANGED <<placing, queue, cancelling, crashed>>,
           \A x \in Calls : Over(x)' <=> Over(x)
    PROVE  OwnedUntilOver'
<1>1. \A u \in Tasks : pc'[u] \in Driving <=> pc[u] \in Driving
    BY DEF TypeOK
<1>2. \A x \in Calls : Owned(x)' <=> Owned(x)
    BY <1>1 DEF Owned
<1> QED
    BY <1>2 DEF OwnedUntilOver

(* finalize ends the call and, through eviction, no other.                 *)
LEMMA FinalizeEnds ==
    ASSUME TypeOK, NEW c \in Calls, NEW d \in Dispositions, Finalize(c, d),
           placing[c] # "new", placing' = placing
    PROVE  Over(c)' /\ \A x \in Calls \ {c} : Over(x)' <=> Over(x)
<1> DEFINE ended == RecordEnd(store, c, d)
<1>1. /\ ended[c].state \in {"ended", "absent"}
      /\ \A x \in Calls \ {c} : ended[x] = store[x]
    BY DEF TypeOK, RecordEnd, Record
<1>2. \A x \in Calls : store'[x] = IF x \in Evicted(ended) THEN NoRecord ELSE ended[x]
    BY DEF Finalize, Evict
<1>3. \A x \in Evicted(ended) : ended[x].state = "ended"
    BY DEF Evicted, EndedCalls
<1> HIDE DEF ended
<1>4. Over(c)'
    BY <1>1, <1>2 DEF Over, NoRecord
<1>5. ASSUME NEW x \in Calls \ {c} PROVE Over(x)' <=> Over(x)
    BY <1>1, <1>2, <1>3 DEF Over, NoRecord
<1> QED
    BY <1>4, <1>5

LEMMA FinalizeKeepsOwned ==
    ASSUME TypeOK, OwnedUntilOver, NEW c \in Calls, NEW d \in Dispositions,
           Finalize(c, d), placing[c] # "new", UNCHANGED <<placing, crashed>>,
           ~Owned(c)', \A x \in Calls \ {c} : Owned(x)' <=> Owned(x)
    PROVE  OwnedUntilOver'
<1>1. Over(c)' /\ \A x \in Calls \ {c} : Over(x)' <=> Over(x)
    BY FinalizeEnds
<1> QED
    BY <1>1 DEF OwnedUntilOver

(* A driver that stops driving leaves its call without an owner.           *)
LEMMA StopDriving ==
    ASSUME TypeOK, Exclusive, NEW t \in Tasks, NEW point \in TaskPoints \ Driving,
           pc[t] \in Driving, pc' = [pc EXCEPT ![t] = point],
           UNCHANGED <<placing, queue, cancelling>>
    PROVE  ~Owned(t[1])' /\ \A x \in Calls \ {t[1]} : Owned(x)' <=> Owned(x)
<1>1. \A u \in Tasks : pc'[u] \in Driving <=> pc[u] \in Driving /\ u # t
    BY DEF TypeOK
<1>2. ~Owned(t[1])'
    BY <1>1, DriverAlone DEF Owned
<1>3. \A x \in Calls \ {t[1]} : Owned(x)' <=> Owned(x)
    BY <1>1 DEF Owned
<1> QED
    BY <1>2, <1>3

(* A finalize at the end of a task: its call is over and out of its hands. *)
LEMMA FinalizeStep ==
    ASSUME EngineInv, NEW t \in Tasks, NEW d \in Dispositions,
           NEW point \in {"guard", "persist"}, pc[t] \in Driving,
           Finalize(t[1], d), pc' = [pc EXCEPT ![t] = point],
           UNCHANGED <<placing, queue, cancelling, crashed, running>>
    PROVE  Exclusive' /\ OwnedUntilOver' /\ SlotsCounted'
<1>1. TypeOK /\ Exclusive /\ OwnedUntilOver /\ SlotsCounted
    BY DEF EngineInv, TypeInv
<1>2. point \in TaskPoints \ Driving /\ point # "none" /\ pc[t] # "none"
    BY DEF TaskPoints, Driving
<1>3. Exclusive'
    BY <1>1, <1>2, MoveKeepsExclusive
<1>4. OwnedUntilOver'
  <2>1. t[1] \in Calls /\ placing[t[1]] # "new"
      BY <1>1, DriverAlone
  <2>2. ~Owned(t[1])' /\ \A x \in Calls \ {t[1]} : Owned(x)' <=> Owned(x)
      BY <1>1, <1>2, StopDriving
  <2> QED
      BY <1>1, <2>1, <2>2, FinalizeKeepsOwned
<1>5. SlotHolders' = SlotHolders
    BY <1>1 DEF SlotHolders, TypeOK, Holding, Driving
<1> QED
    BY <1>1, <1>3, <1>4, <1>5, SameHolders

(* A step of a driving task that keeps driving.                            *)
LEMMA DriveStep ==
    ASSUME EngineInv, NEW t \in Tasks, NEW point \in Driving, pc[t] \in Driving,
           pc' = [pc EXCEPT ![t] = point],
           \/ store' = store
           \/ \E st \in {"queued", "ringing", "in_progress"} :
                  store' = SetState(store, t[1], st),
           UNCHANGED <<placing, queue, cancelling, crashed, running>>
    PROVE  Exclusive' /\ OwnedUntilOver' /\ SlotsCounted'
<1>1. TypeOK /\ Exclusive /\ OwnedUntilOver /\ SlotsCounted
    BY DEF EngineInv, TypeInv
<1>2. point \in TaskPoints \ {"none"} /\ pc[t] # "none"
    BY DEF TaskPoints, Driving
<1>3. Exclusive'
    BY <1>1, <1>2, MoveKeepsExclusive
<1>4. t[1] \in Calls /\ Owned(t[1])
    BY DEF Tasks, Owned
<1>5. \A x \in Calls : Over(x)' <=> Over(x)
  <2>1. CASE store' = store
      BY <2>1 DEF Over
  <2>2. CASE \E st \in {"queued", "ringing", "in_progress"} :
                store' = SetState(store, t[1], st)
    <3>1. placing[t[1]] # "new" /\ ~Over(t[1])
        BY <1>1, <1>4 DEF OwnedUntilOver
    <3> QED
        BY <1>1, <1>4, <2>2, <3>1, SetStateKeepsOver
  <2> QED
      BY <2>1, <2>2
<1>6. OwnedUntilOver'
    BY <1>1, <1>5, DriveKeepsOwned
<1>7. SlotHolders' = SlotHolders
    BY <1>1 DEF SlotHolders, TypeOK, Holding
<1> QED
    BY <1>1, <1>3, <1>6, <1>7, SameHolders

(* A step of a task that no longer drives its call.                        *)
LEMMA AfterStep ==
    ASSUME EngineInv, NEW t \in Tasks, NEW point \in TaskPoints \ Driving,
           pc[t] \in {"requeued", "persist", "guard", "slot", "released"},
           point # "none", pc' = [pc EXCEPT ![t] = point],
           UNCHANGED <<placing, queue, cancelling, crashed, store>>
    PROVE  Exclusive' /\ OwnedUntilOver'
<1>1. TypeOK /\ Exclusive /\ OwnedUntilOver
    BY DEF EngineInv, TypeInv
<1>2. pc[t] # "none" /\ pc[t] \notin Driving
    BY DEF Driving
<1>3. Exclusive'
    BY <1>1, <1>2, MoveKeepsExclusive
<1>4. \A u \in Tasks : pc'[u] \in Driving <=> pc[u] \in Driving
    BY <1>1, <1>2 DEF TypeOK
<1>5. OwnedUntilOver'
    BY <1>1, <1>4 DEF OwnedUntilOver, Owned, Over
<1> QED
    BY <1>3, <1>5

LEMMA UnwindKeeps ==
    ASSUME EngineInv, NEW t \in Tasks,
           \/ RequeueNotify(t) \/ LivePersist(t)
           \/ DropCancelGuard(t) \/ DropRunningGuard(t) \/ NotifyReleased(t)
    PROVE  Exclusive' /\ OwnedUntilOver' /\ SlotsCounted'
<1> USE DEF coreVars, countVars, placeVars, dispVars, taskVars, histVars, Goto
<1>1. TypeOK /\ SlotsCounted
    BY DEF EngineInv, TypeInv
<1>2. {"guard", "slot", "released", "done"} \subseteq TaskPoints \ Driving
    BY DEF TaskPoints, Driving
<1>3. CASE RequeueNotify(t)
  <2>1. Exclusive' /\ OwnedUntilOver'
      BY <1>2, <1>3, AfterStep DEF RequeueNotify
  <2>2. SlotHolders' = SlotHolders
      BY <1>1, <1>3 DEF RequeueNotify, SlotHolders, TypeOK, Holding
  <2> QED
      BY <1>1, <1>3, <2>1, <2>2, SameHolders DEF RequeueNotify
<1>4. CASE LivePersist(t)
  <2>1. Exclusive' /\ OwnedUntilOver'
      BY <1>2, <1>4, AfterStep DEF LivePersist
  <2>2. SlotHolders' = SlotHolders
      BY <1>1, <1>4 DEF LivePersist, SlotHolders, TypeOK, Holding
  <2> QED
      BY <1>1, <1>4, <2>1, <2>2, SameHolders DEF LivePersist
<1>5. CASE DropCancelGuard(t)
  <2>1. Exclusive' /\ OwnedUntilOver'
      BY <1>2, <1>5, AfterStep DEF DropCancelGuard
  <2>2. SlotHolders' = SlotHolders
      BY <1>1, <1>5 DEF DropCancelGuard, SlotHolders, TypeOK, Holding
  <2> QED
      BY <1>1, <1>5, <2>1, <2>2, SameHolders DEF DropCancelGuard
<1>6. CASE DropRunningGuard(t)
  <2>1. Exclusive' /\ OwnedUntilOver'
      BY <1>2, <1>6, AfterStep DEF DropRunningGuard
  <2>2. t \in SlotHolders
      BY <1>6 DEF DropRunningGuard, SlotHolders, Holding
  <2>3. SlotHolders' = SlotHolders \ {t}
      BY <1>1, <1>6 DEF DropRunningGuard, SlotHolders, TypeOK, Holding, Driving
  <2>4. IsFiniteSet(SlotHolders') /\ Cardinality(SlotHolders') = running - 1
      BY <1>1, <2>2, <2>3, FS_RemoveElement DEF SlotsCounted
  <2> QED
      BY <1>1, <1>6, <2>1, <2>4, EngineAssumption DEF DropRunningGuard, SlotsCounted, TypeOK
<1>7. CASE NotifyReleased(t)
  <2>1. Exclusive' /\ OwnedUntilOver'
      BY <1>2, <1>7, AfterStep DEF NotifyReleased
  <2>2. SlotHolders' = SlotHolders
      BY <1>1, <1>7 DEF NotifyReleased, SlotHolders, TypeOK, Holding, Driving
  <2> QED
      BY <1>1, <1>7, <2>1, <2>2, SameHolders DEF NotifyReleased
<1> QED
    BY <1>3, <1>4, <1>5, <1>6, <1>7

LEMMA PanicKeeps ==
    ASSUME EngineInv, NEW t \in Tasks, Panic(t)
    PROVE  Exclusive' /\ OwnedUntilOver' /\ SlotsCounted'
<1> USE DEF coreVars, countVars, placeVars, dispVars, taskVars, histVars, Goto
<1>1. TypeOK /\ Exclusive /\ OwnedUntilOver /\ SlotsCounted
    BY DEF EngineInv, TypeInv
<1>2. "guard" \in TaskPoints \ Driving /\ pc[t] \in Driving /\ pc[t] # "none"
    BY DEF Panic, TaskPoints, Driving
<1>3. Exclusive'
    BY <1>1, <1>2, MoveKeepsExclusive DEF Panic
<1>4. ~Owned(t[1])' /\ \A x \in Calls \ {t[1]} : Owned(x)' <=> Owned(x)
    BY <1>1, <1>2, StopDriving DEF Panic
<1>5. OwnedUntilOver'
  <2>1. t[1] \in Calls /\ placing[t[1]] # "new"
      BY <1>1, <1>2, DriverAlone
  <2> QED
      BY <1>1, <1>4, <2>1 DEF Panic, OwnedUntilOver, Over
<1>6. SlotHolders' = SlotHolders
    BY <1>1, <1>2 DEF Panic, SlotHolders, TypeOK, Holding
<1> QED
    BY <1>1, <1>3, <1>5, <1>6, SameHolders DEF Panic

(* The task hands its call back to the queue.                              *)
LEMMA RequeuePushKeeps ==
    ASSUME EngineInv, NEW t \in Tasks, RequeuePush(t)
    PROVE  Exclusive' /\ OwnedUntilOver' /\ SlotsCounted'
<1> DEFINE e == [id |-> t[1], at |-> due[t[1]], attempt |-> t[2] + 1]
<1>1. TypeOK /\ Exclusive /\ OwnedUntilOver /\ SlotsCounted
    BY DEF EngineInv, TypeInv
<1>2. pc[t] \in Driving /\ pc' = [pc EXCEPT ![t] = "requeued"]
    BY DEF RequeuePush, Goto, Driving
<1>3. UNCHANGED <<placing, cancelling, crashed, store, running>>
    BY DEF RequeuePush, countVars, dispVars, histVars
<1>4. /\ t[1] \in Calls /\ t[2] \in Attempts /\ t = <<t[1], t[2]>>
      /\ placing[t[1]] \notin {"new", "inserted"}
      /\ \A f \in queue : f.id # t[1]
      /\ t[1] \notin cancelling
      /\ \A u \in Tasks : u[1] = t[1] /\ pc[u] \in Driving => u = t
    BY <1>1, <1>2, DriverAlone
<1>5. queue' = queue \cup {e} /\ e.id = t[1] /\ e.attempt = t[2] + 1
    BY <1>4 DEF RequeuePush, Push
<1> HIDE DEF e
<1>6. /\ \A u \in Tasks : pc[u] = "none" => pc'[u] = "none"
      /\ \A u \in Tasks : pc'[u] \in Driving <=> pc[u] \in Driving /\ u # t
    BY <1>1, <1>2 DEF TypeOK, Driving
<1>7. \A c \in Calls, a \in Attempts : <<c, a>> \in Tasks
    BY DEF Tasks
<1>8. \A f \in queue : f.id \in Calls
    BY <1>1 DEF TypeOK, Entry
<1>9. FreshEntries'
  <2>1. ASSUME NEW a \in Attempts, a >= t[2] + 1 PROVE pc[<<t[1], a>>] = "none"
      BY <1>1, <1>2, <1>4, <2>1, EngineAssumption DEF Exclusive, FreshRetries, Attempts
  <2> QED
      BY <1>1, <1>4, <1>5, <1>6, <1>7, <1>8, <2>1 DEF Exclusive, FreshEntries
<1>10. FreshRetries'
    BY <1>1, <1>6, <1>7 DEF Exclusive, FreshRetries, Tasks
<1>11. NotYetQueued'
    BY <1>1, <1>3, <1>4, <1>5, <1>6, <1>7 DEF Exclusive, NotYetQueued
<1>12. OneEntry' /\ QueuedNotDriven' /\ CancellingAlone'
    BY <1>1, <1>3, <1>4, <1>5, <1>6
       DEF Exclusive, OneEntry, QueuedNotDriven, CancellingAlone
<1>13. OwnedUntilOver'
  <2>1. \A x \in Calls : Owned(x)' <=> Owned(x)
    <3>1. Owned(t[1])' /\ Owned(t[1])
        BY <1>2, <1>5 DEF Owned
    <3>2. \A x \in Calls \ {t[1]} : Owned(x)' <=> Owned(x)
        BY <1>3, <1>5, <1>6 DEF Owned
    <3> QED
        BY <3>1, <3>2
  <2> QED
      BY <1>1, <1>3, <2>1 DEF OwnedUntilOver, Over
<1>14. SlotHolders' = SlotHolders
    BY <1>1, <1>2 DEF SlotHolders, TypeOK, Holding
<1> QED
    BY <1>1, <1>3, <1>9, <1>10, <1>11, <1>12, <1>13, <1>14, SameHolders DEF Exclusive

(* The dispatcher takes an entry: its attempt was never dialled, so a slot *)
(* is claimed for a task that holds none.                                  *)
LEMMA ClaimKeeps ==
    ASSUME EngineInv, DispatchClaim
    PROVE  Exclusive' /\ OwnedUntilOver' /\ SlotsCounted'
<1>1. TypeOK /\ Exclusive /\ OwnedUntilOver /\ SlotsCounted
    BY DEF EngineInv, TypeInv
<1>2. PICK e \in PopEligible(queue, now) :
          queue' = queue \ {e} /\ pc' = [pc EXCEPT ![<<e.id, e.attempt>>] = "claimed"]
    BY DEF DispatchClaim
<1> DEFINE t == <<e.id, e.attempt>>
<1>3. /\ e \in queue /\ e.id \in Calls /\ e.attempt \in Attempts
      /\ t \in Tasks /\ t[1] = e.id /\ t[2] = e.attempt
    BY <1>1, EligibleIsTask
<1>4. UNCHANGED <<placing, cancelling, crashed, store>> /\ running' = running + 1
    BY DEF DispatchClaim, countVars, placeVars
<1>5. pc[t] = "none"
    BY <1>1, <1>3, EngineAssumption DEF Exclusive, FreshEntries, Attempts
<1>6. pc' = [pc EXCEPT ![t] = "claimed"]
    BY <1>2
<1> HIDE DEF t
<1>7. \A u \in Tasks : pc'[u] = IF u = t THEN "claimed" ELSE pc[u]
    BY <1>1, <1>6 DEF TypeOK
<1>8. \A u \in Tasks : pc'[u] \in Driving <=> pc[u] \in Driving \/ u = t
    BY <1>5, <1>7 DEF Driving
<1>9. \A f \in queue' : f \in queue /\ f.id # e.id /\ f.id \in Calls
    BY <1>1, <1>2, <1>3 DEF Exclusive, OneEntry, TypeOK, Entry
<1>10. \A c \in Calls, a \in Attempts : <<c, a>> \in Tasks
    BY DEF Tasks
<1>11. FreshEntries'
  <2>1. ASSUME NEW f \in queue', NEW a \in Attempts, a >= f.attempt
        PROVE  pc'[<<f.id, a>>] = "none"
    <3>1. <<f.id, a>> # t /\ <<f.id, a>> \in Tasks
        BY <1>3, <1>9, <1>10 DEF t
    <3>2. pc[<<f.id, a>>] = "none"
        BY <1>1, <1>9, <2>1 DEF Exclusive, FreshEntries
    <3> QED
        BY <1>7, <3>1, <3>2
  <2> QED
      BY <2>1 DEF FreshEntries
<1>12. FreshRetries'
  <2>1. ASSUME NEW u \in Tasks, NEW a \in Attempts, pc'[u] \in Driving, a > u[2]
        PROVE  pc'[<<u[1], a>>] = "none"
    <3>1. u[1] \in Calls /\ u[2] \in Attempts /\ <<u[1], a>> \in Tasks
        BY <1>10 DEF Tasks
    <3>2. CASE u = t
      <4>1. pc[<<t[1], a>>] = "none"
          BY <1>1, <1>3, <2>1, <3>2, EngineAssumption
             DEF Exclusive, FreshEntries, Attempts
      <4>2. <<u[1], a>> # t
          BY <1>3, <2>1, <3>1, <3>2, EngineAssumption DEF Attempts, t
      <4> QED
          BY <1>7, <3>1, <3>2, <4>1, <4>2
    <3>3. CASE u # t
      <4>1. pc[u] \in Driving
          BY <1>8, <2>1, <3>3
      <4>2. pc[<<u[1], a>>] = "none" /\ u[1] # e.id
          BY <1>1, <1>3, <2>1, <4>1 DEF Exclusive, FreshRetries, QueuedNotDriven
      <4> QED
          BY <1>7, <3>1, <4>2 DEF t
    <3> QED
        BY <3>2, <3>3
  <2> QED
      BY <2>1 DEF FreshRetries
<1>13. NotYetQueued'
  <2>1. \A c \in Calls : placing[c] \in {"new", "inserted"} => c # e.id
      BY <1>1, <1>3 DEF Exclusive, NotYetQueued
  <2>2. \A c \in Calls, a \in Attempts : c # e.id => pc'[<<c, a>>] = pc[<<c, a>>]
      BY <1>7, <1>10 DEF t
  <2> QED
      BY <1>1, <1>4, <1>9, <2>1, <2>2 DEF Exclusive, NotYetQueued
<1>14. OneEntry' /\ QueuedNotDriven' /\ CancellingAlone'
    BY <1>1, <1>3, <1>4, <1>8, <1>9
       DEF Exclusive, OneEntry, QueuedNotDriven, CancellingAlone
<1>15. OwnedUntilOver'
  <2>1. Owned(e.id)' /\ Owned(e.id)
      BY <1>3, <1>8 DEF Owned
  <2>2. ASSUME NEW x \in Calls \ {e.id} PROVE Owned(x)' <=> Owned(x)
      BY <1>2, <1>3, <1>4, <1>8 DEF Owned
  <2>3. \A x \in Calls : Owned(x)' <=> Owned(x)
      BY <2>1, <2>2
  <2> QED
      BY <1>1, <1>4, <2>3 DEF OwnedUntilOver, Over
<1>16. SlotsCounted'
  <2>1. t \notin SlotHolders /\ SlotHolders' = SlotHolders \cup {t}
      BY <1>3, <1>5, <1>7 DEF SlotHolders, Holding, Driving
  <2>2. IsFiniteSet(SlotHolders') /\ Cardinality(SlotHolders') = running + 1
      BY <1>1, <2>1, FS_AddElement DEF SlotsCounted
  <2>3. running + 1 <= Cap
      BY <1>1, EngineAssumption DEF DispatchClaim, FreeSlot, TypeOK
  <2> QED
      BY <1>4, <2>2, <2>3 DEF SlotsCounted
<1> QED
    BY <1>11, <1>12, <1>13, <1>14, <1>15, <1>16 DEF Exclusive

(* Producers and end_call: an owner hands the call to the next, or the     *)
(* last one ends it.                                                       *)
LEMMA ProducerKeeps ==
    ASSUME EngineInv, NEW c \in Calls, Producer(c)
    PROVE  Exclusive' /\ OwnedUntilOver' /\ SlotsCounted'
<1> USE DEF countVars, dispVars, taskVars, histVars
<1>1. TypeOK /\ Exclusive /\ OwnedUntilOver /\ SlotsCounted
    BY DEF EngineInv, TypeInv
<1>2. UNCHANGED <<pc, cancelling, crashed, running>>
    BY DEF Producer, PlaceInsert, PlacePush, PlaceNotify
<1>3. SlotsCounted'
    BY <1>1, <1>2, SameHolders DEF SlotHolders
<1>4. CASE PlaceInsert(c)
  <2>1. queue' = queue /\ placing[c] = "new"
      BY <1>4 DEF PlaceInsert
  <2>2. placing' = [placing EXCEPT ![c] = "inserted"]
      BY <1>4 DEF PlaceInsert
  <2>3. \A x \in Calls : placing'[x] = IF x = c THEN "inserted" ELSE placing[x]
      BY <1>1, <2>2 DEF TypeOK
  <2>4. Exclusive'
      BY <1>1, <1>2, <2>1, <2>3
         DEF Exclusive, FreshEntries, FreshRetries, NotYetQueued, OneEntry,
             QueuedNotDriven, CancellingAlone
  <2>5. store'[c].state = "queued" /\ \A x \in Calls \ {c} : store'[x] = store[x]
      BY <1>1, <1>4 DEF PlaceInsert, TypeOK
  <2>6. ~Over(c)' /\ \A x \in Calls \ {c} : Over(x)' <=> Over(x)
      BY <2>3, <2>5 DEF Over
  <2>7. Owned(c)' /\ \A x \in Calls \ {c} : Owned(x)' <=> Owned(x)
      BY <1>2, <2>1, <2>3 DEF Owned
  <2>8. c \notin crashed
      BY <1>1, <2>1 DEF OwnedUntilOver
  <2> QED
      BY <1>1, <1>2, <1>3, <2>3, <2>4, <2>6, <2>7, <2>8 DEF OwnedUntilOver
<1>5. CASE PlacePush(c)
  <2>1. placing[c] = "inserted" /\ store' = store
      BY <1>5 DEF PlacePush
  <2>2. \A x \in Calls : placing'[x] = IF x = c THEN "pushed" ELSE placing[x]
      BY <1>1, <1>5 DEF PlacePush, TypeOK
  <2>3. c \notin cancelling /\ \A f \in queue : f.id # c
      BY <1>1, <2>1 DEF Exclusive, NotYetQueued
  <2> DEFINE e == [id |-> c, at |-> due[c], attempt |-> 1]
  <2>4. queue' = queue \cup {e} /\ e.id = c
      BY <1>5, <2>3 DEF PlacePush, Push
  <2> HIDE DEF e
  <2>5. \A a \in Attempts : pc[<<c, a>>] = "none"
      BY <1>1, <2>1 DEF Exclusive, NotYetQueued
  <2>6. \A t \in Tasks : pc[t] \in Driving => t[1] # c
      BY <2>5 DEF Tasks, Driving
  <2>7. Exclusive'
    <3>1. FreshEntries' /\ FreshRetries'
        BY <1>1, <1>2, <2>4, <2>5 DEF Exclusive, FreshEntries, FreshRetries
    <3>2. NotYetQueued'
        BY <1>1, <1>2, <2>2, <2>4 DEF Exclusive, NotYetQueued
    <3>3. OneEntry' /\ QueuedNotDriven'
        BY <1>1, <1>2, <2>3, <2>4, <2>6 DEF Exclusive, OneEntry, QueuedNotDriven
    <3>4. CancellingAlone'
        BY <1>1, <1>2, <2>3, <2>4 DEF Exclusive, CancellingAlone
    <3> QED
        BY <3>1, <3>2, <3>3, <3>4 DEF Exclusive
  <2>8. Owned(c)' /\ Owned(c) /\ \A x \in Calls \ {c} : Owned(x)' <=> Owned(x)
      BY <1>2, <2>1, <2>2, <2>4 DEF Owned
  <2>9. OwnedUntilOver'
      BY <1>1, <1>2, <2>1, <2>2, <2>8 DEF OwnedUntilOver, Over
  <2> QED
      BY <1>3, <2>7, <2>9
<1>6. CASE PlaceNotify(c)
  <2>1. placing[c] = "pushed" /\ store' = store /\ queue' = queue
      BY <1>6 DEF PlaceNotify
  <2>2. \A x \in Calls : placing'[x] = IF x = c THEN "placed" ELSE placing[x]
      BY <1>1, <1>6 DEF PlaceNotify, TypeOK
  <2>3. Exclusive'
      BY <1>1, <1>2, <2>1, <2>2
         DEF Exclusive, FreshEntries, FreshRetries, NotYetQueued, OneEntry,
             QueuedNotDriven, CancellingAlone
  <2>4. \A x \in Calls : Owned(x)' <=> Owned(x)
      BY <1>2, <2>1, <2>2 DEF Owned
  <2>5. OwnedUntilOver'
      BY <1>1, <1>2, <2>1, <2>2, <2>4 DEF OwnedUntilOver, Over
  <2> QED
      BY <1>3, <2>3, <2>5
<1> QED
    BY <1>4, <1>5, <1>6 DEF Producer

LEMMA EndCallKeeps ==
    ASSUME EngineInv, NEW c \in Calls, EndCall(c)
    PROVE  Exclusive' /\ OwnedUntilOver' /\ SlotsCounted'
<1> USE DEF countVars, placeVars, dispVars, taskVars, histVars
<1>1. TypeOK /\ Exclusive /\ OwnedUntilOver /\ SlotsCounted
    BY DEF EngineInv, TypeInv
<1>2. UNCHANGED <<pc, placing, crashed, running>>
    BY DEF EndCall, EndPending, EndPendingFinalize, EndDispatched
<1>3. SlotsCounted'
    BY <1>1, <1>2, SameHolders DEF SlotHolders
<1>4. CASE EndPending(c)
  <2>1. PICK e \in queue : e.id = c
      BY <1>4 DEF EndPending, IsPending
  <2>2. queue' = {f \in queue : f.id # c} /\ cancelling' = cancelling \cup {c}
        /\ store' = store
      BY <1>4 DEF EndPending, Without
  <2>3. placing[c] \notin {"new", "inserted"}
      BY <1>1, <2>1 DEF Exclusive, NotYetQueued
  <2>4. \A t \in Tasks : pc[t] \in Driving => t[1] # c
      BY <1>1, <2>1 DEF Exclusive, QueuedNotDriven
  <2>5. Exclusive'
      BY <1>1, <1>2, <2>2, <2>3, <2>4
         DEF Exclusive, FreshEntries, FreshRetries, NotYetQueued, OneEntry,
             QueuedNotDriven, CancellingAlone
  <2>6. Owned(c)' /\ Owned(c) /\ \A x \in Calls \ {c} : Owned(x)' <=> Owned(x)
      BY <1>2, <2>1, <2>2 DEF Owned
  <2>7. OwnedUntilOver'
      BY <1>1, <1>2, <2>2, <2>6 DEF OwnedUntilOver, Over
  <2> QED
      BY <1>3, <2>5, <2>7
<1>5. CASE EndPendingFinalize(c)
  <2>1. c \in cancelling /\ cancelling' = cancelling \ {c} /\ queue' = queue
      BY <1>5 DEF EndPendingFinalize
  <2>2. Exclusive'
      BY <1>1, <1>2, <2>1
         DEF Exclusive, FreshEntries, FreshRetries, NotYetQueued, OneEntry,
             QueuedNotDriven, CancellingAlone
  <2>3. placing[c] \notin {"new", "inserted"}
      BY <1>1, <2>1 DEF Exclusive, NotYetQueued
  <2>4. (\A e \in queue : e.id # c) /\ \A t \in Tasks : pc[t] \in Driving => t[1] # c
      BY <1>1, <2>1 DEF Exclusive, CancellingAlone
  <2>5. ~Owned(c)' /\ \A x \in Calls \ {c} : Owned(x)' <=> Owned(x)
      BY <1>2, <2>1, <2>3, <2>4 DEF Owned
  <2>6. Resolve(TRUE, None, None, PendingShape) = "cancelled"
      BY DEF Resolve
  <2>7. "cancelled" \in Dispositions /\ Finalize(c, "cancelled")
      BY <1>5, <2>6 DEF EndPendingFinalize, Dispositions
  <2>8. OwnedUntilOver'
      BY <1>1, <1>2, <2>3, <2>5, <2>7, FinalizeKeepsOwned
  <2> QED
      BY <1>3, <2>2, <2>8
<1>6. CASE EndDispatched(c)
    BY <1>6, IdleStep DEF EndDispatched
<1> QED
    BY <1>4, <1>5, <1>6 DEF EndCall

LEMMA DispatcherKeeps ==
    ASSUME EngineInv, Dispatcher
    PROVE  Exclusive' /\ OwnedUntilOver' /\ SlotsCounted'
<1> USE DEF coreVars, countVars, placeVars, taskVars, histVars
<1>1. CASE DispatchClaim
    BY <1>1, ClaimKeeps
<1>2. CASE DispatchSpawn
  <2>1. PICK t \in Tasks :
            /\ pc[t] = "claimed"
            /\ store' = SetState(store, t[1], "ringing")
            /\ pc' = [pc EXCEPT ![t] = IF NetCheck THEN "preflight" ELSE "invite"]
      BY <1>2 DEF DispatchSpawn
  <2>2. (IF NetCheck THEN "preflight" ELSE "invite") \in Driving /\ pc[t] \in Driving
      BY <2>1 DEF Driving
  <2>3. UNCHANGED <<placing, queue, cancelling, crashed, running>>
      BY <1>2 DEF DispatchSpawn
  <2> QED
      BY <2>1, <2>2, <2>3, DriveStep
<1>3. CASE DispatchMark
    BY <1>3, IdleStep DEF DispatchMark
<1>4. CASE DispatchBreak
    BY <1>4, IdleStep DEF DispatchBreak
<1>5. CASE DispatchPark
    BY <1>5, IdleStep DEF DispatchPark
<1>6. CASE DispatchWoken
    BY <1>6, IdleStep DEF DispatchWoken
<1> QED
    BY <1>1, <1>2, <1>3, <1>4, <1>5, <1>6 DEF Dispatcher

LEMMA DialKeeps ==
    ASSUME EngineInv, NEW t \in Tasks,
           \/ PreflightCancelled(t) \/ PreflightUsable(t) \/ PreflightUnusable(t)
           \/ DialFailed(t) \/ InviteSent(t) \/ RingTerminated(t)
    PROVE  Exclusive' /\ OwnedUntilOver' /\ SlotsCounted'
<1> USE DEF coreVars, countVars, placeVars, dispVars, histVars, Goto
<1>1. CASE PreflightCancelled(t)
  <2>1. Resolve(TRUE, None, None, UnansweredShape) = "cancelled"
      BY DEF Resolve
  <2>2. "cancelled" \in Dispositions /\ pc[t] \in Driving
      BY <1>1 DEF Dispositions, PreflightCancelled, Driving
  <2> QED
      BY <1>1, <2>1, <2>2, FinalizeStep DEF PreflightCancelled
<1>2. CASE PreflightUsable(t)
  <2>1. pc[t] \in Driving /\ "invite" \in Driving
      BY <1>2 DEF PreflightUsable, Driving
  <2> QED
      BY <1>2, <2>1, DriveStep DEF PreflightUsable
<1>3. CASE PreflightUnusable(t)
  <2>1. pc[t] \in Driving /\ "unusable" \in Driving
      BY <1>3 DEF PreflightUnusable, Driving
  <2> QED
      BY <1>3, <2>1, DriveStep DEF PreflightUnusable
<1>4. CASE DialFailed(t)
  <2>1. PICK d \in Dispositions : Finalize(t[1], d)
      BY <1>4, ResolveType DEF DialFailed
  <2>2. pc[t] \in Driving
      BY <1>4 DEF DialFailed, Driving
  <2> QED
      BY <1>4, <2>1, <2>2, FinalizeStep DEF DialFailed
<1>5. CASE InviteSent(t)
  <2>1. pc[t] \in Driving /\ "ringing" \in Driving
      BY <1>5 DEF InviteSent, Driving
  <2> QED
      BY <1>5, <2>1, DriveStep DEF InviteSent
<1>6. CASE RingTerminated(t)
  <2>1. PICK d \in Dispositions : Finalize(t[1], d)
      BY <1>6, ResolveType DEF RingTerminated
  <2>2. pc[t] \in Driving
      BY <1>6 DEF RingTerminated, Driving
  <2> QED
      BY <1>6, <2>1, <2>2, FinalizeStep DEF RingTerminated
<1> QED
    BY <1>1, <1>2, <1>3, <1>4, <1>5, <1>6

LEMMA TalkKeeps ==
    ASSUME EngineInv, NEW t \in Tasks,
           \/ RequeueMark(t) \/ Answered(t)
           \/ LiveCancelled(t) \/ LiveOver(t) \/ LiveFinalize(t)
    PROVE  Exclusive' /\ OwnedUntilOver' /\ SlotsCounted'
<1> USE DEF coreVars, countVars, placeVars, dispVars, histVars, Goto
<1>1. CASE RequeueMark(t)
  <2>1. pc[t] \in Driving /\ "requeue" \in Driving
      BY <1>1 DEF RequeueMark, Driving
  <2> QED
      BY <1>1, <2>1, DriveStep DEF RequeueMark
<1>2. CASE Answered(t)
  <2>1. pc[t] \in Driving /\ "live" \in Driving
      BY <1>2 DEF Answered, Driving
  <2> QED
      BY <1>2, <2>1, DriveStep DEF Answered
<1>3. CASE LiveCancelled(t)
  <2>1. pc[t] \in Driving /\ "cancelled" \in Driving
      BY <1>3 DEF LiveCancelled, Driving
  <2> QED
      BY <1>3, <2>1, DriveStep DEF LiveCancelled
<1>4. CASE LiveOver(t)
  <2>1. pc[t] \in Driving /\ "over" \in Driving
      BY <1>4 DEF LiveOver, Driving
  <2> QED
      BY <1>4, <2>1, DriveStep DEF LiveOver
<1>5. CASE LiveFinalize(t)
  <2>1. PICK d \in Dispositions : Finalize(t[1], d)
      BY <1>5, ResolveType DEF LiveFinalize
  <2>2. pc[t] \in Driving
      BY <1>5 DEF LiveFinalize, Driving
  <2> QED
      BY <1>5, <2>1, <2>2, FinalizeStep DEF LiveFinalize
<1> QED
    BY <1>1, <1>2, <1>3, <1>4, <1>5

-----------------------------------------------------------------------------
LEMMA InitEngineInv == Init => EngineInv
<1> SUFFICES ASSUME Init PROVE EngineInv
    OBVIOUS
<1>1. \A t \in Tasks : pc[t] = "none"
    BY DEF Init
<1>2. \A c \in Calls, a \in Attempts : <<c, a>> \in Tasks
    BY DEF Tasks
<1>3. "none" \notin Driving /\ "none" \notin Holding
    BY DEF Driving, Holding
<1>4. Exclusive
    BY <1>1, <1>2, <1>3
       DEF Init, Exclusive, FreshEntries, FreshRetries, NotYetQueued, OneEntry,
           QueuedNotDriven, CancellingAlone
<1>5. OwnedUntilOver
    BY <1>1, <1>3 DEF Init, OwnedUntilOver, Owned
<1>6. SlotsCounted
  <2>1. SlotHolders = {}
      BY <1>1, <1>3 DEF SlotHolders
  <2> QED
      BY <2>1, FS_EmptySet, EngineAssumption DEF Init, SlotsCounted
<1> QED
    BY <1>4, <1>5, <1>6, InitTypeInv DEF EngineInv

LEMMA NextKeepsType ==
    ASSUME EngineInv, Next PROVE TypeInv'
<1>1. TypeInv /\ SlotsCounted
    BY DEF EngineInv
<1>2. CASE Tick
    BY <1>1, <1>2, TickKeepsType
<1>3. ASSUME NEW c \in Calls, Producer(c) \/ EndCall(c) PROVE TypeInv'
    BY <1>1, <1>3, ProducerKeepsType
<1>4. CASE Dispatcher
    BY <1>1, <1>4, DispatcherKeepsType
<1>5. ASSUME NEW t \in Tasks, RunCall(t) \/ Panic(t) PROVE TypeInv'
  <2>1. pc[t] = "slot" => running # 0
      BY <1>1, HolderCounted DEF SlotHolders, Holding
  <2> QED
      BY <1>1, <1>5, <2>1, DialKeepsType, RequeueKeepsType, LiveKeepsType,
         UnwindKeepsType DEF RunCall
<1> QED
    BY <1>2, <1>3, <1>4, <1>5 DEF Next

LEMMA NextKeepsEngineInv == EngineInv /\ [Next]_vars => EngineInv'
<1> SUFFICES ASSUME EngineInv, [Next]_vars PROVE EngineInv'
    OBVIOUS
<1>1. CASE Next
  <2>1. TypeInv'
      BY <1>1, NextKeepsType
  <2>2. CASE Tick
      BY <2>1, <2>2, IdleStep
         DEF Tick, EngineInv, coreVars, countVars, placeVars, dispVars, taskVars, histVars
  <2>3. ASSUME NEW c \in Calls, Producer(c) \/ EndCall(c) PROVE EngineInv'
      BY <2>1, <2>3, ProducerKeeps, EndCallKeeps DEF EngineInv
  <2>4. CASE Dispatcher
      BY <2>1, <2>4, DispatcherKeeps DEF EngineInv
  <2>5. ASSUME NEW t \in Tasks, RunCall(t) \/ Panic(t) PROVE EngineInv'
      BY <2>1, <2>5, DialKeeps, TalkKeeps, RequeuePushKeeps, UnwindKeeps, PanicKeeps
         DEF EngineInv, RunCall
  <2> QED
      BY <1>1, <2>2, <2>3, <2>4, <2>5 DEF Next
<1>2. CASE UNCHANGED vars
  <2>1. TypeInv'
      BY <1>2 DEF EngineInv, TypeInv, TypeOK, RetryBound,
            vars, coreVars, countVars, placeVars, dispVars, taskVars, histVars
  <2> QED
      BY <1>2, <2>1, IdleStep
         DEF EngineInv, vars, coreVars, countVars, placeVars, dispVars, taskVars, histVars
<1> QED
    BY <1>1, <1>2

(* The inductive invariant: who owns a call, and which slots are held.     *)
THEOREM EngineInvariant == Spec => []EngineInv
<1> QED
    BY InitEngineInv, NextKeepsEngineInv, PTL DEF Spec

(* Every variable of the engine keeps its range, the slot counter (an      *)
(* unsigned integer in the code) included: it is never decremented at 0.   *)
THEOREM TypesHold == Spec => []TypeOK
<1>1. EngineInv => TypeOK
    BY DEF EngineInv, TypeInv
<1> QED
    BY <1>1, EngineInvariant, PTL

(* The slot counter counts the live RunningGuards, within the channel cap. *)
THEOREM SlotsNeverLeak == Spec => []SlotAccounting
<1>1. EngineInv => SlotAccounting
    BY DEF EngineInv, SlotsCounted, SlotAccounting
<1> QED
    BY <1>1, EngineInvariant, PTL

(* What the invariant says of a call is that its set of owners is empty or *)
(* a singleton.                                                            *)
LEMMA OwnersUnique == EngineInv => OneOwner
<1> SUFFICES ASSUME EngineInv, NEW c \in Calls
             PROVE  IF placing[c] = "new" \/ Over(c) \/ c \in crashed
                    THEN Owners(c) = {}
                    ELSE \E o \in Owners(c) : Owners(c) = {o}
    BY DEF OneOwner
<1>1. TypeOK /\ Exclusive /\ OwnedUntilOver
    BY DEF EngineInv, TypeInv
<1>2. CASE placing[c] = "new" \/ Over(c) \/ c \in crashed
  <2>1. ~Owned(c)
      BY <1>1, <1>2 DEF OwnedUntilOver
  <2>2. Owners(c) = {}
      BY <2>1 DEF Owned, Owners
  <2> QED
      BY <1>2, <2>2
<1>3. CASE ~(placing[c] = "new" \/ Over(c) \/ c \in crashed)
  <2>1. Owned(c)
      BY <1>1, <1>3 DEF OwnedUntilOver
  <2>2. CASE placing[c] = "inserted"
    <3>1. /\ \A e \in queue : e.id # c
          /\ c \notin cancelling
          /\ \A a \in Attempts : pc[<<c, a>>] = "none"
        BY <1>1, <2>2 DEF Exclusive, NotYetQueued
    <3>2. \A t \in Tasks : pc[t] \in Driving => t[1] # c
        BY <3>1 DEF Tasks, Driving
    <3>3. Owners(c) = {<<"producer", c>>}
        BY <2>2, <3>1, <3>2 DEF Owners
    <3> QED
        BY <1>3, <3>3
  <2>3. CASE \E e \in queue : e.id = c
    <3>1. PICK e \in queue : e.id = c
        BY <2>3
    <3>2. placing[c] # "inserted" /\ c \notin cancelling
        BY <1>1, <3>1 DEF Exclusive, NotYetQueued, CancellingAlone
    <3>3. \A t \in Tasks : pc[t] \in Driving => t[1] # c
        BY <1>1, <3>1 DEF Exclusive, QueuedNotDriven
    <3>4. {f \in queue : f.id = c} = {e}
        BY <1>1, <3>1 DEF Exclusive, OneEntry
    <3>5. Owners(c) = {<<"entry", e>>}
        BY <3>2, <3>3, <3>4 DEF Owners
    <3> QED
        BY <1>3, <3>5
  <2>4. CASE \E t \in Tasks : t[1] = c /\ pc[t] \in Driving
    <3>1. PICK t \in Tasks : t[1] = c /\ pc[t] \in Driving
        BY <2>4
    <3>2. /\ placing[c] # "inserted"
          /\ \A e \in queue : e.id # c
          /\ c \notin cancelling
          /\ \A u \in Tasks : u[1] = c /\ pc[u] \in Driving => u = t
        BY <1>1, <3>1, DriverAlone
    <3>3. {u \in Tasks : u[1] = c /\ pc[u] \in Driving} = {t}
        BY <3>1, <3>2
    <3>4. Owners(c) = {<<"task", t>>}
        BY <3>2, <3>3 DEF Owners
    <3> QED
        BY <1>3, <3>4
  <2>5. CASE c \in cancelling
    <3>1. placing[c] # "inserted"
        BY <1>1, <2>5 DEF Exclusive, NotYetQueued
    <3>2. (\A e \in queue : e.id # c) /\ \A t \in Tasks : pc[t] \in Driving => t[1] # c
        BY <1>1, <2>5 DEF Exclusive, CancellingAlone
    <3>3. Owners(c) = {<<"end_call", c>>}
        BY <2>5, <3>1, <3>2 DEF Owners
    <3> QED
        BY <1>3, <3>3
  <2> QED
      BY <2>1, <2>2, <2>3, <2>4, <2>5 DEF Owned
<1> QED
    BY <1>2, <1>3

(* A placed call that is not over is in exactly one hand, and a call that  *)
(* is over in none: it is never lost, dialled twice at once or finalized a *)
(* second time, whatever the order of producers, dispatcher, tasks and     *)
(* end_call.                                                               *)
THEOREM OneOwnerAlways == Spec => []OneOwner
<1> QED
    BY OwnersUnique, EngineInvariant, PTL
-----------------------------------------------------------------------------
(* The Notify: the dispatcher never parks through work that is due.        *)

(* A permit is stored in the dispatcher's Notify, or a task that changed   *)
(* what the dispatcher looks at is at the point of notifying it.           *)
Rung ==
    \/ wake
    \/ \E t \in Tasks : pc[t] \in {"requeued", "released"}
    \/ \E c \in Calls : placing[c] = "pushed"

(* Eligibility instants are positive: 0 is free to mean "no timer".        *)
DueLater ==
    /\ \A e \in queue : e.at # 0
    /\ \A c \in Calls : placing[c] = "inserted" => due[c] # 0
    /\ \A t \in Tasks : pc[t] = "requeue" => due[t[1]] # 0

(* The breaker holds at every instant before the end of the hold the scan  *)
(* read.                                                                   *)
HoldStands == \A n \in Nat : now <= n /\ n < hold => HoldUntil(breaker, n) # 0

(* Nothing can be dispatched before the timer runs out.                    *)
NothingSooner ==
    \A n \in Nat : now <= n /\ (timer = 0 \/ n < timer) =>
        HoldUntil(breaker, n) # 0 \/ \A e \in queue : e.at > n

(* Whatever made the dispatcher's reading stale has rung or is about to.   *)
ParkJustified ==
    /\ dpc = "park" => Rung \/ ~FreeSlot \/ hold = 0 \/ HoldStands
    /\ dpc = "parked" => Rung \/ ~FreeSlot \/ NothingSooner

WakeInv == DueLater /\ ParkJustified

-----------------------------------------------------------------------------
(* Every set of natural numbers has a least element.  Of the initial       *)
(* segments of T, which are finite, a smallest one has only one element.   *)
LEMMA LeastNumber ==
    ASSUME NEW T \in SUBSET Nat, T # {}
    PROVE  \E m \in T : \A n \in T : m <= n
<1> DEFINE upTo(k) == {n \in T : n <= k}
           segments == {upTo(k) : k \in T}
           R == StrictSubsetOrdering(Nat)
<1>1. \A k \in T : upTo(k) \in FiniteSubsetsOf(Nat)
    BY FS_BoundedSetOfNaturals DEF FiniteSubsetsOf
<1>2. IsWellFoundedOn(R, FiniteSubsetsOf(Nat))
    BY FS_StrictSubsetOrderingWellFounded
<1>3. segments # {} /\ segments \subseteq FiniteSubsetsOf(Nat)
    BY <1>1
<1>4. \A A, B \in SUBSET Nat : A \subseteq B /\ A # B => <<A, B>> \in R
    BY DEF StrictSubsetOrdering
<1> HIDE DEF R
<1>5. PICK A \in segments : \A B \in segments : <<B, A>> \notin R
  <2> HIDE DEF segments
  <2> QED
    BY <1>2, <1>3, WFMin
<1>6. PICK m \in T : A = upTo(m)
    OBVIOUS
<1>7. ASSUME NEW n \in T, n < m PROVE FALSE
  <2>1. n \in Nat /\ m \in Nat /\ \A k \in Nat : k <= n => k <= m
      BY <1>7
  <2>2. \A k \in T : k \in upTo(n) => k \in upTo(m)
      BY <2>1
  <2>3. m \in upTo(m) /\ m \notin upTo(n)
      BY <1>7, <2>1
  <2>4. upTo(n) \in segments /\ upTo(n) \in SUBSET Nat /\ upTo(m) \in SUBSET Nat
      OBVIOUS
  <2> QED
      BY <1>4, <1>5, <1>6, <2>2, <2>3, <2>4
<1> QED
    BY <1>7

(* The queue is a map with a first key whenever it is not empty.           *)
LEMMA QueueHasFirst ==
    ASSUME TypeOK, OneEntry, queue # {}
    PROVE  First(queue) # {} /\ \A e \in First(queue), f \in queue : e.at <= f.at
<1>1. \A e \in queue : e.at \in Nat /\ e.id \in Calls /\ KeyRank[e.id] \in Nat
    BY KeyAssumption DEF TypeOK, Entry
<1> DEFINE instants == {e.at : e \in queue}
<1>2. PICK i \in instants : \A j \in instants : i <= j
  <2>1. instants \in SUBSET Nat /\ instants # {}
      BY <1>1
  <2> HIDE DEF instants
  <2> QED
      BY <2>1, LeastNumber
<1> DEFINE ranks == {KeyRank[e.id] : e \in {f \in queue : f.at = i}}
<1>3. PICK r \in ranks : \A s \in ranks : r <= s
  <2>1. ranks \in SUBSET Nat /\ ranks # {}
      BY <1>1
  <2> HIDE DEF ranks
  <2> QED
      BY <2>1, LeastNumber
<1>4. PICK e \in queue : e.at = i /\ KeyRank[e.id] = r
    OBVIOUS
<1>5. ASSUME NEW f \in queue \ {e} PROVE Before(e, f)
  <2>1. i <= f.at
      BY <1>2
  <2>2. CASE f.at = i
    <3>1. r <= KeyRank[f.id]
        BY <1>3, <2>2
    <3>2. KeyRank[f.id] # r
        BY <1>1, <1>4, KeyAssumption DEF OneEntry
    <3> QED
        BY <1>1, <1>4, <2>2, <3>1, <3>2 DEF Before
  <2>3. CASE f.at # i
      BY <1>1, <1>4, <2>1, <2>3 DEF Before
  <2> QED
      BY <2>2, <2>3
<1>6. e \in First(queue)
    BY <1>5 DEF First
<1>7. \A g \in First(queue), f \in queue : g.at <= f.at
    BY <1>1 DEF First, Before
<1> QED
    BY <1>6, <1>7

(* A step that leaves the dispatcher alone keeps its park justified when   *)
(* it rings, or changes nothing for the worse.                             *)
LEMMA ParkStaysJustified ==
    ASSUME TypeOK, TypeOK', ParkJustified, UNCHANGED <<dpc, hold, timer>>,
           Rung => Rung',
           \/ Rung'
           \/ /\ now <= now' /\ running <= running'
              /\ queue' \subseteq queue /\ breaker' = breaker
    PROVE  ParkJustified'
<1>1. CASE Rung'
    BY <1>1 DEF ParkJustified
<1>2. CASE ~Rung'
  <2>1. /\ now \in Nat /\ now' \in Nat /\ now <= now'
        /\ running \in Nat /\ running' \in Nat /\ running <= running'
        /\ queue' \subseteq queue /\ breaker' = breaker
      BY <1>2 DEF TypeOK
  <2>2. ~FreeSlot => ~FreeSlot'
      BY <2>1, EngineAssumption DEF FreeSlot
  <2>3. HoldStands => HoldStands'
    <3> SUFFICES ASSUME HoldStands, NEW n \in Nat, now' <= n, n < hold
                 PROVE  HoldUntil(breaker', n) # 0
        BY DEF HoldStands
    <3>1. now <= n
        BY <2>1
    <3> QED
        BY <2>1, <3>1 DEF HoldStands
  <2>4. NothingSooner => NothingSooner'
    <3> SUFFICES ASSUME NothingSooner, NEW n \in Nat, now' <= n, timer = 0 \/ n < timer
                 PROVE  HoldUntil(breaker', n) # 0 \/ \A e \in queue' : e.at > n
        BY DEF NothingSooner
    <3>1. now <= n
        BY <2>1
    <3> QED
        BY <2>1, <3>1 DEF NothingSooner
  <2> QED
      BY <1>2, <2>2, <2>3, <2>4 DEF ParkJustified
<1> QED
    BY <1>1, <1>2

(* A task that is not about to notify leaves what has rung.                *)
LEMMA TaskKeepsRung ==
    ASSUME TypeOK, NEW t \in Tasks, NEW point, pc[t] \notin {"requeued", "released"},
           pc' = [pc EXCEPT ![t] = point], placing' = placing, wake => wake'
    PROVE  Rung => Rung'
BY DEF TypeOK, Rung

LEMMA TaskKeepsDue ==
    ASSUME TypeOK, DueLater, NEW t \in Tasks, NEW point, point # "requeue",
           pc' = [pc EXCEPT ![t] = point], UNCHANGED <<placing, due>>, queue' \subseteq queue
    PROVE  DueLater'
BY DEF TypeOK, DueLater

-----------------------------------------------------------------------------
(* The dispatcher: the scan reads the breaker, the park the queue.         *)
LEMMA ScanReadsHold ==
    ASSUME TypeOK, NEW until, until = HoldUntil(breaker, now)
    PROVE  \A n \in Nat : now <= n /\ n < until => HoldUntil(breaker, n) # 0
<1>1. /\ breaker.openUntil \in Nat /\ breaker.probeDeadline \in Nat
      /\ breaker.probing \in BOOLEAN /\ now \in Nat
    BY DEF TypeOK, BreakerState
<1> SUFFICES ASSUME NEW n \in Nat, now <= n, n < until PROVE HoldUntil(breaker, n) # 0
    OBVIOUS
<1>2. CASE now < breaker.openUntil
    BY <1>1, <1>2 DEF HoldUntil
<1>3. CASE ~(now < breaker.openUntil)
    BY <1>1, <1>3 DEF HoldUntil
<1> QED
    BY <1>2, <1>3

LEMMA ParkSetsTimer ==
    ASSUME TypeOK, OneEntry, DueLater, ParkJustified, DispatchPark
    PROVE  ParkJustified'
<1>1. /\ UNCHANGED <<now, queue, breaker, running, wake, pc, placing, hold>>
      /\ dpc = "park" /\ dpc' = "parked"
    BY DEF DispatchPark, coreVars, countVars, placeVars, taskVars
<1>2. (Rung' <=> Rung) /\ (FreeSlot' <=> FreeSlot)
    BY <1>1 DEF Rung, FreeSlot
<1>3. SUFFICES ASSUME ~Rung, FreeSlot, hold = 0 \/ HoldStands PROVE NothingSooner'
    BY <1>1, <1>2 DEF ParkJustified
<1> DEFINE instants == NextEligibleAt(queue) \cup ({hold} \ {0})
<1>4. IF instants = {} THEN timer' = 0 ELSE timer' \in Soonest(instants)
    BY <1>3 DEF DispatchPark
<1>5. \A e \in queue : e.at \in Nat /\ e.at # 0
    BY DEF TypeOK, Entry, DueLater
<1>6. instants \subseteq Nat \ {0}
    BY <1>5 DEF NextEligibleAt, First, TypeOK
<1> SUFFICES ASSUME NEW n \in Nat, now <= n, timer' = 0 \/ n < timer'
             PROVE  HoldUntil(breaker, n) # 0 \/ \A e \in queue : e.at > n
    BY <1>1 DEF NothingSooner
<1>7. ASSUME NEW i \in instants PROVE n < i
  <2> HIDE DEF instants
  <2>1. timer' \in instants /\ timer' <= i
      BY <1>4, <1>7 DEF Soonest
  <2>2. timer' \in Nat \ {0} /\ i \in Nat
      BY <1>6, <1>7, <2>1
  <2> QED
      BY <2>1, <2>2
<1>8. CASE hold # 0
  <2>1. n < hold /\ HoldStands
      BY <1>3, <1>7, <1>8
  <2> QED
      BY <2>1 DEF HoldStands
<1>9. CASE queue = {}
    BY <1>9
<1>10. CASE queue # {}
  <2>1. PICK e \in First(queue) : \A f \in queue : e.at <= f.at
      BY <1>10, QueueHasFirst
  <2>2. e \in queue /\ n < e.at
      BY <1>7, <2>1 DEF NextEligibleAt, First
  <2> QED
      BY <1>5, <2>1, <2>2
<1> QED
    BY <1>8, <1>9, <1>10

LEMMA DispatcherKeepsWake ==
    ASSUME EngineInv, TypeOK', WakeInv, Dispatcher
    PROVE  WakeInv'
<1> USE DEF coreVars, countVars, placeVars, taskVars, histVars
<1>1. TypeOK /\ OneEntry /\ DueLater /\ ParkJustified
    BY DEF EngineInv, TypeInv, Exclusive, WakeInv
<1>2. CASE DispatchClaim
  <2>1. dpc' \in {"mark", "spawn"} /\ UNCHANGED <<placing, due>>
      BY <1>2 DEF DispatchClaim
  <2>2. PICK t \in Tasks : pc' = [pc EXCEPT ![t] = "claimed"]
      BY <1>1, <1>2, EligibleIsTask DEF DispatchClaim
  <2>3. queue' \subseteq queue
      BY <1>2 DEF DispatchClaim
  <2>4. DueLater'
      BY <1>1, <2>1, <2>2, <2>3, TaskKeepsDue
  <2> QED
      BY <2>1, <2>4 DEF WakeInv, ParkJustified
<1>3. CASE DispatchMark
    BY <1>1, <1>3 DEF DispatchMark, WakeInv, DueLater, ParkJustified
<1>4. CASE DispatchSpawn
  <2>1. dpc' = "scan" /\ UNCHANGED <<queue, placing, due>>
      BY <1>4 DEF DispatchSpawn
  <2>2. PICK t \in Tasks, point \in {"preflight", "invite"} :
            pc' = [pc EXCEPT ![t] = point]
      BY <1>4 DEF DispatchSpawn
  <2>3. DueLater'
      BY <1>1, <2>1, <2>2, TaskKeepsDue
  <2> QED
      BY <2>1, <2>3 DEF WakeInv, ParkJustified
<1>5. CASE DispatchBreak
  <2>1. /\ UNCHANGED <<now, queue, breaker, running, pc, placing, due>>
        /\ dpc' = "park"
      BY <1>5 DEF DispatchBreak
  <2>2. DueLater'
      BY <1>1, <2>1 DEF DueLater
  <2>3. hold' = 0 \/ hold' = HoldUntil(breaker, now)
      BY <1>5 DEF DispatchBreak
  <2>4. hold' = 0 \/ HoldStands'
      BY <1>1, <2>1, <2>3, ScanReadsHold DEF HoldStands
  <2> QED
      BY <2>1, <2>2, <2>4 DEF WakeInv, ParkJustified
<1>6. CASE DispatchPark
  <2>1. UNCHANGED <<queue, pc, placing, due>>
      BY <1>6 DEF DispatchPark
  <2> QED
      BY <1>1, <1>6, <2>1, ParkSetsTimer DEF WakeInv, DueLater
<1>7. CASE DispatchWoken
  <2>1. dpc' = "scan" /\ UNCHANGED <<queue, pc, placing, due>>
      BY <1>7 DEF DispatchWoken
  <2> QED
      BY <1>1, <2>1 DEF WakeInv, DueLater, ParkJustified
<1> QED
    BY <1>2, <1>3, <1>4, <1>5, <1>6, <1>7 DEF Dispatcher

(* Producers and end_call: only the push adds work, and it rings.          *)
LEMMA CallerKeepsWake ==
    ASSUME EngineInv, TypeOK', WakeInv, NEW c \in Calls, Producer(c) \/ EndCall(c)
    PROVE  WakeInv'
<1> USE DEF coreVars, countVars, placeVars, dispVars, taskVars, histVars
<1>1. TypeOK /\ Exclusive /\ DueLater /\ ParkJustified
    BY DEF EngineInv, TypeInv, WakeInv
<1>2. now \in Nat \ {0} /\ running \in Nat
    BY <1>1 DEF TypeOK
<1>3. UNCHANGED <<now, dpc, hold, timer, pc, running, breaker>>
    BY DEF Producer, PlaceInsert, PlacePush, PlaceNotify,
           EndCall, EndPending, EndPendingFinalize, EndDispatched
<1>4. CASE PlaceInsert(c)
  <2>1. PICK delay \in Delays : due' = [due EXCEPT ![c] = now + delay]
      BY <1>4 DEF PlaceInsert
  <2>2. now + delay # 0
      BY <1>2, EngineAssumption
  <2>3. /\ UNCHANGED <<queue, wake>> /\ placing[c] = "new"
        /\ placing' = [placing EXCEPT ![c] = "inserted"]
      BY <1>4 DEF PlaceInsert
  <2>4. DueLater'
    <3>1. \A d \in Calls : due[d] # 0 => due'[d] # 0
        BY <1>1, <2>1, <2>2 DEF TypeOK
    <3>2. due'[c] # 0 /\ \A d \in Calls \ {c} : placing'[d] = placing[d]
        BY <1>1, <2>1, <2>2, <2>3 DEF TypeOK
    <3> QED
        BY <1>1, <1>3, <2>3, <3>1, <3>2 DEF DueLater, Tasks
  <2>5. Rung => Rung'
      BY <1>1, <1>3, <2>3 DEF Rung, TypeOK
  <2> QED
      BY <1>1, <1>2, <1>3, <2>3, <2>4, <2>5, ParkStaysJustified DEF WakeInv
<1>5. CASE PlacePush(c)
  <2>1. /\ placing[c] = "inserted" /\ placing' = [placing EXCEPT ![c] = "pushed"]
        /\ due' = [due EXCEPT ![c] = 0]
      BY <1>5 DEF PlacePush
  <2>2. \A e \in queue' : e \in queue \/ e.at = due[c]
      BY <1>5 DEF PlacePush, Push
  <2>3. \A t \in Tasks : pc[t] = "requeue" => t[1] # c
      BY <1>1, <2>1 DEF Exclusive, NotYetQueued, Tasks
  <2>4. DueLater'
    <3>1. \A d \in Calls \ {c} : due'[d] = due[d] /\ placing'[d] = placing[d]
        BY <1>1, <2>1 DEF TypeOK
    <3>2. placing'[c] = "pushed" /\ due[c] # 0
        BY <1>1, <2>1 DEF TypeOK, DueLater
    <3> QED
        BY <1>1, <1>3, <2>2, <2>3, <3>1, <3>2 DEF DueLater, Tasks
  <2>5. Rung'
      BY <1>1, <2>1 DEF Rung, TypeOK
  <2> QED
      BY <1>1, <1>3, <2>4, <2>5, ParkStaysJustified DEF WakeInv
<1>6. CASE PlaceNotify(c)
  <2>1. Rung' /\ UNCHANGED <<queue, due>>
      BY <1>6 DEF PlaceNotify, Rung
  <2>2. \A d \in Calls : placing'[d] = "inserted" => placing[d] = "inserted"
      BY <1>1, <1>6 DEF PlaceNotify, TypeOK
  <2>3. DueLater'
      BY <1>1, <1>3, <2>1, <2>2 DEF DueLater
  <2> QED
      BY <1>1, <1>3, <2>1, <2>3, ParkStaysJustified DEF WakeInv
<1>7. CASE EndCall(c)
  <2>1. queue' \subseteq queue /\ UNCHANGED <<placing, due, wake>>
      BY <1>7 DEF EndCall, EndPending, EndPendingFinalize, EndDispatched, Without
  <2>2. DueLater' /\ (Rung => Rung')
      BY <1>1, <1>3, <2>1 DEF DueLater, Rung
  <2> QED
      BY <1>1, <1>2, <1>3, <2>1, <2>2, ParkStaysJustified DEF WakeInv
<1> QED
    BY <1>4, <1>5, <1>6, <1>7 DEF Producer

(* Steps of a task that touch neither queue, slots nor permit.             *)
LEMMA QuietTaskStep ==
    ASSUME EngineInv, TypeOK', WakeInv, NEW t \in Tasks, NEW point,
           pc[t] \notin {"requeued", "released"}, point # "requeue",
           pc' = [pc EXCEPT ![t] = point],
           UNCHANGED <<now, placing, due, queue, running, dpc, hold, timer>>,
           UNCHANGED <<breaker, wake>> \/ wake'
    PROVE  WakeInv'
<1>1. TypeOK /\ DueLater /\ ParkJustified
    BY DEF EngineInv, TypeInv, WakeInv
<1>2. DueLater'
    BY <1>1, TaskKeepsDue
<1>3. Rung => Rung'
  <2>1. wake => wake'
      OBVIOUS
  <2> QED
      BY <1>1, <2>1, TaskKeepsRung
<1>4. Rung' \/ breaker' = breaker
    BY DEF Rung
<1>5. now <= now' /\ running <= running' /\ queue' \subseteq queue
    BY <1>1 DEF TypeOK
<1> QED
    BY <1>1, <1>2, <1>3, <1>4, <1>5, ParkStaysJustified DEF WakeInv

(* Steps of a task that leave the permit or the point of notifying set.    *)
LEMMA RingingTaskStep ==
    ASSUME EngineInv, TypeOK', WakeInv, UNCHANGED <<dpc, hold, timer>>, Rung', DueLater'
    PROVE  WakeInv'
BY ParkStaysJustified DEF EngineInv, TypeInv, WakeInv

LEMMA TaskKeepsWake ==
    ASSUME EngineInv, TypeOK', WakeInv, NEW t \in Tasks, RunCall(t) \/ Panic(t)
    PROVE  WakeInv'
<1> USE DEF coreVars, countVars, placeVars, dispVars, taskVars, histVars, Goto
<1>1. TypeOK /\ Exclusive /\ DueLater /\ ParkJustified
    BY DEF EngineInv, TypeInv, WakeInv
<1>2. CASE PreflightCancelled(t)
    BY <1>2, QuietTaskStep DEF PreflightCancelled
<1>3. CASE PreflightUsable(t) \/ PreflightUnusable(t)
  <2>1. UNCHANGED <<breaker, wake>> \/ wake'
      BY <1>3 DEF PreflightUsable, PreflightUnusable, Report
  <2> QED
      BY <1>3, <2>1, QuietTaskStep DEF PreflightUsable, PreflightUnusable
<1>4. CASE DialFailed(t) \/ InviteSent(t) \/ RingTerminated(t)
    BY <1>4, QuietTaskStep DEF DialFailed, InviteSent, RingTerminated
<1>5. CASE Answered(t) \/ LiveCancelled(t) \/ LiveOver(t)
    BY <1>5, QuietTaskStep DEF Answered, LiveCancelled, LiveOver
<1>6. CASE LiveFinalize(t) \/ LivePersist(t) \/ Panic(t) \/ DropCancelGuard(t)
    BY <1>6, QuietTaskStep
       DEF LiveFinalize, LivePersist, Panic, DropCancelGuard, Driving
<1>7. CASE RequeueMark(t)
  <2>1. /\ due' = [due EXCEPT ![t[1]] = now + RetryDelay]
        /\ pc' = [pc EXCEPT ![t] = "requeue"] /\ pc[t] = "ringing"
        /\ UNCHANGED <<now, queue, placing, running, breaker, wake, dpc, hold, timer>>
      BY <1>7 DEF RequeueMark
  <2>2. now + RetryDelay # 0 /\ t[1] \in Calls
      BY <1>1, EngineAssumption DEF TypeOK, Tasks
  <2>3. DueLater'
    <3>1. due'[t[1]] # 0 /\ \A c \in Calls : due[c] # 0 => due'[c] # 0
        BY <1>1, <2>1, <2>2 DEF TypeOK
    <3>2. \A u \in Tasks : u[1] \in Calls /\ (u # t => pc'[u] = pc[u])
        BY <1>1, <2>1 DEF TypeOK, Tasks
    <3> QED
        BY <1>1, <2>1, <3>1, <3>2 DEF DueLater
  <2>4. Rung => Rung'
      BY <1>1, <2>1, TaskKeepsRung
  <2>5. now <= now' /\ running <= running' /\ queue' \subseteq queue
      BY <1>1, <2>1 DEF TypeOK
  <2> QED
      BY <1>1, <2>1, <2>3, <2>4, <2>5, ParkStaysJustified DEF WakeInv
<1>8. CASE RequeuePush(t)
  <2>1. /\ due' = [due EXCEPT ![t[1]] = 0] /\ placing' = placing
        /\ pc' = [pc EXCEPT ![t] = "requeued"] /\ pc[t] = "requeue"
        /\ UNCHANGED <<dpc, hold, timer>>
      BY <1>8 DEF RequeuePush
  <2>2. \A e \in queue' : e \in queue \/ e.at = due[t[1]]
      BY <1>8 DEF RequeuePush, Push
  <2>3. /\ t[1] \in Calls /\ placing[t[1]] # "inserted"
        /\ \A u \in Tasks : u[1] = t[1] /\ pc[u] = "requeue" => u = t
      BY <1>1, <2>1, DriverAlone DEF Driving
  <2>4. DueLater'
    <3>1. \A c \in Calls \ {t[1]} : due'[c] = due[c]
        BY <1>1, <2>1 DEF TypeOK
    <3>2. \A u \in Tasks : pc'[u] = "requeue" => pc[u] = "requeue" /\ u # t
        BY <1>1, <2>1 DEF TypeOK
    <3>3. due[t[1]] # 0 /\ \A u \in Tasks : u[1] \in Calls
        BY <1>1, <2>1 DEF DueLater, Tasks
    <3> QED
        BY <1>1, <2>1, <2>2, <2>3, <3>1, <3>2, <3>3 DEF DueLater
  <2>5. Rung'
      BY <1>1, <2>1 DEF Rung, TypeOK
  <2> QED
      BY <2>1, <2>4, <2>5, RingingTaskStep
<1>9. CASE RequeueNotify(t) \/ NotifyReleased(t)
  <2>1. DueLater' /\ Rung'
      BY <1>1, <1>9, TaskKeepsDue DEF RequeueNotify, NotifyReleased, Rung
  <2> QED
      BY <1>9, <2>1, RingingTaskStep DEF RequeueNotify, NotifyReleased
<1>10. CASE DropRunningGuard(t)
  <2>1. DueLater'
      BY <1>1, <1>10, TaskKeepsDue DEF DropRunningGuard
  <2>2. Rung'
      BY <1>1, <1>10 DEF DropRunningGuard, Rung, TypeOK
  <2> QED
      BY <1>10, <2>1, <2>2, RingingTaskStep DEF DropRunningGuard
<1> QED
    BY <1>2, <1>3, <1>4, <1>5, <1>6, <1>7, <1>8, <1>9, <1>10 DEF RunCall

-----------------------------------------------------------------------------
LEMMA InitWakeInv == Init => WakeInv
BY DEF Init, WakeInv, DueLater, ParkJustified

LEMMA NextKeepsWakeInv ==
    EngineInv /\ WakeInv /\ [Next]_vars => WakeInv'
<1> SUFFICES ASSUME EngineInv, WakeInv, [Next]_vars PROVE WakeInv'
    OBVIOUS
<1> USE DEF coreVars, countVars, placeVars, dispVars, taskVars, histVars
<1>1. TypeOK /\ TypeOK' /\ ParkJustified
    BY NextKeepsEngineInv DEF EngineInv, TypeInv, WakeInv
<1>2. CASE Tick
  <2>1. UNCHANGED <<queue, breaker, running, dpc, hold, timer>> /\ now' = now + 1
      BY <1>2 DEF Tick
  <2>2. DueLater' /\ (Rung => Rung')
      BY <1>2 DEF Tick, WakeInv, DueLater, Rung
  <2>3. now <= now' /\ running <= running'
      BY <1>1, <2>1 DEF TypeOK
  <2> QED
      BY <1>1, <2>1, <2>2, <2>3, ParkStaysJustified DEF WakeInv
<1>3. CASE \E c \in Calls : Producer(c) \/ EndCall(c)
    BY <1>1, <1>3, CallerKeepsWake
<1>4. CASE Dispatcher
    BY <1>1, <1>4, DispatcherKeepsWake
<1>5. CASE \E t \in Tasks : RunCall(t) \/ Panic(t)
    BY <1>1, <1>5, TaskKeepsWake
<1>6. CASE UNCHANGED vars
    BY <1>6 DEF vars, WakeInv, DueLater, ParkJustified, Rung, FreeSlot, HoldStands, NothingSooner
<1> QED
    BY <1>2, <1>3, <1>4, <1>5, <1>6 DEF Next

(* A justified park sleeps through nothing that could be dispatched now.   *)
LEMMA JustifiedParkLosesNothing ==
    ASSUME TypeOK, WakeInv
    PROVE  NoLostWakeup
<1> SUFFICES ASSUME dpc = "parked", ~Rung, FreeSlot, HoldUntil(breaker, now) = 0,
                    HasEligible(queue, now)
             PROVE  timer # 0 /\ timer <= now
    BY DEF NoLostWakeup, Rung, FreeSlot
<1>1. PICK e \in queue : e.at <= now /\ e.at \in Nat
    BY DEF HasEligible, PopEligible, First, TypeOK, Entry
<1>2. NothingSooner
    BY DEF WakeInv, ParkJustified
<1>3. now \in Nat /\ timer \in Nat
    BY DEF TypeOK
<1>4. ~(timer = 0 \/ now < timer)
    BY <1>1, <1>2, <1>3 DEF NothingSooner
<1> QED
    BY <1>3, <1>4

(* The dispatcher never sleeps through a call it could dispatch, whatever  *)
(* the number of calls, the cap, the breaker and the delays: its timer has *)
(* run out, a permit is stored, or a notify is about to follow.            *)
THEOREM WakeupsNeverLost == Spec => []NoLostWakeup
<1>1. Init => EngineInv /\ WakeInv
    BY InitEngineInv, InitWakeInv
<1>2. EngineInv /\ WakeInv /\ [Next]_vars => EngineInv' /\ WakeInv'
    BY NextKeepsEngineInv, NextKeepsWakeInv
<1>3. EngineInv /\ WakeInv => NoLostWakeup
    BY JustifiedParkLosesNothing DEF EngineInv, TypeInv
<1> QED
    BY <1>1, <1>2, <1>3, PTL DEF Spec

-----------------------------------------------------------------------------
(* The cancel map.  CancelGuard::drop removes whatever sender the CALL has *)
(* by then; that is the attempt's own as long as no other attempt of the   *)
(* call is in flight.  One channel, or one attempt per call, excludes it;  *)
(* the run with two of both shows what happens otherwise.                  *)
NoOverlap == Cap = 1 \/ MaxAttempts = 1

(* The control points at which an attempt's CancelGuard is alive. *)
Guarded == Holding \ {"slot"}

OneHolder == \A t, u \in SlotHolders : t[1] = u[1] => t = u

(* A registered sender belongs to an attempt whose guard is alive, and     *)
(* such an attempt has its sender registered until an end_call used it.    *)
SenderOfGuarded ==
    \A c \in Calls : cancels[c] # 0 => <<c, cancels[c]>> \in Tasks
                                    /\ pc[<<c, cancels[c]>>] \in Guarded

GuardedHasSender ==
    \A t \in Tasks : pc[t] \in Guarded =>
        \/ cancels[t[1]] = t[2] /\ rx[t] = "open"
        \/ cancels[t[1]] = 0 /\ rx[t] = "signalled" /\ t[1] \in acked

(* A cancel that is under way, or recorded, was asked for. *)
CancelAsked ==
    /\ cancelling \subseteq acked
    /\ \A t \in Tasks : pc[t] = "cancelled" => t[1] \in acked

CancelInv == SenderOfGuarded /\ GuardedHasSender /\ CancelAsked /\ NoSpuriousCancel

LEMMA HoldersDoNotOverlap == NoOverlap /\ EngineInv => OneHolder
<1> SUFFICES ASSUME NoOverlap, TypeOK, SlotsCounted,
                    NEW t \in SlotHolders, NEW u \in SlotHolders, t[1] = u[1], t # u
             PROVE  FALSE
    BY DEF OneHolder, EngineInv, TypeInv
<1>1. CASE Cap = 1
  <2>1. IsFiniteSet({t}) /\ Cardinality({t}) = 1
      BY FS_Singleton
  <2>2. Cardinality({t} \cup {u}) = 2
      BY <2>1, FS_AddElement
  <2>3. {t} \cup {u} \in SUBSET SlotHolders
      OBVIOUS
  <2>4. Cardinality({t} \cup {u}) <= Cardinality(SlotHolders)
      BY <2>3, FS_Subset DEF SlotsCounted
  <2> QED
      BY <1>1, <2>2, <2>4 DEF SlotsCounted, TypeOK
<1>2. CASE MaxAttempts = 1
    BY <1>2 DEF SlotHolders, Tasks, Attempts
<1> QED
    BY <1>1, <1>2 DEF NoOverlap

LEMMA ResolveCancelled ==
    ASSUME NEW isCancelled, NEW amd, NEW sip, NEW shape,
           Resolve(isCancelled, amd, sip, shape) = "cancelled"
    PROVE  isCancelled
BY DEF Resolve, OfSip, OfShape

(* No store operation but a finalize as "cancelled" records a cancel.      *)
NoNewCancel == \A x \in Calls :
    store'[x].disposition = "cancelled" => store[x].disposition = "cancelled" \/ x \in acked

LEMMA SetStateCancelsNone ==
    ASSUME TypeOK, NEW c \in Calls, NEW st, store' = SetState(store, c, st)
    PROVE  NoNewCancel
BY DEF TypeOK, SetState, Record, NoNewCancel

LEMMA FinalizeCancels ==
    ASSUME TypeOK, NEW c \in Calls, NEW d \in Dispositions, Finalize(c, d),
           d = "cancelled" => c \in acked
    PROVE  NoNewCancel
<1> DEFINE ended == RecordEnd(store, c, d)
<1>1. \A x \in Calls : ended[x].disposition \in {store[x].disposition, d}
                       /\ (x # c => ended[x].disposition = store[x].disposition)
    BY DEF TypeOK, RecordEnd, Record
<1>2. \A x \in Calls : store'[x] = IF x \in Evicted(ended) THEN NoRecord ELSE ended[x]
    BY DEF Finalize, Evict
<1> HIDE DEF ended
<1>3. NoRecord.disposition # "cancelled"
    BY DEF NoRecord, None
<1> QED
    BY <1>1, <1>2, <1>3 DEF NoNewCancel

(* Steps that leave the cancel map and the tasks alone.                    *)
LEMMA IdleKeepsCancel ==
    ASSUME CancelInv, UNCHANGED <<cancels, rx, pc>>, acked \subseteq acked',
           cancelling' \subseteq cancelling \cup acked', NoNewCancel
    PROVE  CancelInv'
BY DEF CancelInv, SenderOfGuarded, GuardedHasSender, CancelAsked, NoSpuriousCancel, NoNewCancel

(* A task that keeps its guard.                                            *)
LEMMA GuardedStep ==
    ASSUME EngineInv, CancelInv, NEW t \in Tasks, NEW point \in Guarded, pc[t] \in Guarded,
           pc' = [pc EXCEPT ![t] = point], point = "cancelled" => t[1] \in acked,
           UNCHANGED <<cancels, rx, acked, cancelling>>, NoNewCancel
    PROVE  CancelInv'
<1>1. \A u \in Tasks : pc'[u] = IF u = t THEN point ELSE pc[u]
    BY DEF EngineInv, TypeInv, TypeOK
<1>2. SenderOfGuarded'
    BY <1>1 DEF CancelInv, SenderOfGuarded
<1>3. GuardedHasSender'
    BY <1>1 DEF CancelInv, GuardedHasSender
<1>4. CancelAsked'
    BY <1>1 DEF CancelInv, CancelAsked
<1>5. NoSpuriousCancel'
    BY DEF CancelInv, NoSpuriousCancel, NoNewCancel
<1> QED
    BY <1>2, <1>3, <1>4, <1>5 DEF CancelInv

(* A task that is past its guard.                                          *)
LEMMA UnguardedStep ==
    ASSUME EngineInv, CancelInv, NEW t \in Tasks, NEW point \in {"released", "done"},
           pc[t] \in {"slot", "released"}, pc' = [pc EXCEPT ![t] = point],
           UNCHANGED <<cancels, rx, acked, cancelling, store>>
    PROVE  CancelInv'
<1>1. \A u \in Tasks : pc'[u] = IF u = t THEN point ELSE pc[u]
    BY DEF EngineInv, TypeInv, TypeOK
<1>2. point \notin Guarded /\ pc[t] \notin Guarded /\ point # "cancelled"
    BY DEF Guarded, Holding, Driving
<1> QED
    BY <1>1, <1>2
       DEF CancelInv, SenderOfGuarded, GuardedHasSender, CancelAsked, NoSpuriousCancel

(* The guard drops: without overlap the sender it removes is its own.      *)
LEMMA DropGuardKeepsCancel ==
    ASSUME EngineInv, OneHolder, CancelInv, NEW t \in Tasks, DropCancelGuard(t)
    PROVE  CancelInv'
<1>1. TypeOK
    BY DEF EngineInv, TypeInv
<1>2. t[1] \in Calls /\ t = <<t[1], t[2]>>
    BY DEF Tasks
<1>3. pc[t] = "guard" /\ UNCHANGED <<acked, cancelling, store>>
    BY DEF DropCancelGuard, histVars
<1>4. \A u \in Tasks : pc'[u] = IF u = t THEN "slot" ELSE pc[u]
    BY <1>1 DEF DropCancelGuard, Goto, TypeOK
<1>5. \A c \in Calls : cancels'[c] = IF c = t[1] THEN 0 ELSE cancels[c]
    BY <1>1 DEF DropCancelGuard, TypeOK
<1>6. \A u \in Tasks : pc[u] \in Guarded /\ u[1] = t[1] => u = t
    BY <1>3 DEF OneHolder, SlotHolders, Guarded, Holding
<1>7. "slot" \notin Guarded /\ "slot" # "cancelled"
    BY DEF Guarded
<1>8. \A u \in Tasks \ {t} : rx'[u] = rx[u]
  <2>1. CASE cancels[t[1]] = 0
      BY <1>1, <2>1 DEF DropCancelGuard, Dropped, TypeOK
  <2>2. CASE cancels[t[1]] # 0
    <3>1. <<t[1], cancels[t[1]]>> = t
        BY <1>2, <1>6, <2>2 DEF CancelInv, SenderOfGuarded
    <3> QED
        BY <1>1, <2>2, <3>1 DEF DropCancelGuard, Dropped, TypeOK
  <2> QED
      BY <2>1, <2>2
<1>9. SenderOfGuarded'
    BY <1>2, <1>4, <1>5 DEF CancelInv, SenderOfGuarded
<1>10. GuardedHasSender'
  <2>1. ASSUME NEW u \in Tasks, pc'[u] \in Guarded
        PROVE  u # t /\ u[1] # t[1] /\ u[1] \in Calls /\ pc[u] \in Guarded
      BY <1>4, <1>6, <1>7, <2>1 DEF Tasks
  <2> QED
      BY <1>3, <1>5, <1>8, <2>1 DEF CancelInv, GuardedHasSender
<1>11. CancelAsked' /\ NoSpuriousCancel'
    BY <1>3, <1>4, <1>7 DEF CancelInv, CancelAsked, NoSpuriousCancel
<1> QED
    BY <1>9, <1>10, <1>11 DEF CancelInv

(* The claim registers the sender of the only attempt in flight.           *)
LEMMA ClaimKeepsCancel ==
    ASSUME EngineInv, OneHolder', CancelInv, DispatchClaim
    PROVE  CancelInv'
<1>1. TypeOK /\ Exclusive
    BY DEF EngineInv, TypeInv
<1>2. PICK e \in PopEligible(queue, now) :
          /\ pc' = [pc EXCEPT ![<<e.id, e.attempt>>] = "claimed"]
          /\ rx' = [Dropped(e.id) EXCEPT ![<<e.id, e.attempt>>] = "open"]
          /\ cancels' = [cancels EXCEPT ![e.id] = e.attempt]
    BY DEF DispatchClaim
<1> DEFINE t == <<e.id, e.attempt>>
<1>3. e \in queue /\ e.id \in Calls /\ e.attempt \in Attempts /\ t \in Tasks
    BY <1>1, EligibleIsTask
<1>4. UNCHANGED <<acked, cancelling, store>>
    BY DEF DispatchClaim
<1>5. pc[t] = "none"
    BY <1>1, <1>3, EngineAssumption DEF Exclusive, FreshEntries, Attempts
<1>6. \A u \in Tasks : pc'[u] = IF u = t THEN "claimed" ELSE pc[u]
    BY <1>1, <1>2, <1>3 DEF TypeOK
<1>7. \A c \in Calls : cancels'[c] = IF c = e.id THEN e.attempt ELSE cancels[c]
    BY <1>1, <1>2, <1>3 DEF TypeOK
<1>8. ASSUME NEW u \in Tasks, pc[u] \in Guarded PROVE u # t /\ u[1] # e.id
  <2>1. u # t
      BY <1>5, <1>8 DEF Guarded, Holding, Driving
  <2>2. t \in SlotHolders' /\ u \in SlotHolders'
      BY <1>3, <1>6, <1>8, <2>1 DEF SlotHolders, Guarded, Holding, Driving
  <2> QED
      BY <2>1, <2>2 DEF OneHolder
<1>9. cancels[e.id] = 0
    BY <1>3, <1>8 DEF CancelInv, SenderOfGuarded
<1>10. \A u \in Tasks : rx'[u] = IF u = t THEN "open" ELSE rx[u]
    BY <1>1, <1>2, <1>3, <1>9 DEF Dropped, TypeOK
<1>11. "claimed" \in Guarded /\ e.attempt # 0
    BY <1>3, EngineAssumption DEF Guarded, Holding, Driving, Attempts
<1>12. SenderOfGuarded'
    BY <1>3, <1>5, <1>6, <1>7, <1>8, <1>11 DEF CancelInv, SenderOfGuarded
<1>13. GuardedHasSender'
  <2>1. ASSUME NEW u \in Tasks \ {t}, pc'[u] \in Guarded
        PROVE  u[1] # e.id /\ u[1] \in Calls /\ pc[u] \in Guarded
      BY <1>6, <1>8, <2>1 DEF Tasks
  <2> QED
      BY <1>3, <1>4, <1>7, <1>10, <2>1 DEF CancelInv, GuardedHasSender
<1>14. CancelAsked' /\ NoSpuriousCancel'
    BY <1>4, <1>6 DEF CancelInv, CancelAsked, NoSpuriousCancel
<1> QED
    BY <1>12, <1>13, <1>14 DEF CancelInv

LEMMA CallerKeepsCancel ==
    ASSUME EngineInv, CancelInv, NEW c \in Calls, Producer(c) \/ EndCall(c)
    PROVE  CancelInv'
<1> USE DEF countVars, placeVars, dispVars, taskVars, histVars
<1>1. TypeOK
    BY DEF EngineInv, TypeInv
<1>2. CASE PlaceInsert(c)
  <2>1. NoNewCancel
      BY <1>1, <1>2 DEF PlaceInsert, TypeOK, NoNewCancel, None
  <2> QED
      BY <1>2, <2>1, IdleKeepsCancel DEF PlaceInsert, CancelInv, CancelAsked
<1>3. CASE PlacePush(c) \/ PlaceNotify(c)
    BY <1>3, IdleKeepsCancel DEF PlacePush, PlaceNotify, coreVars, NoNewCancel
<1>4. CASE EndPending(c)
    BY <1>4, IdleKeepsCancel DEF EndPending, NoNewCancel
<1>5. CASE EndPendingFinalize(c)
  <2>1. PICK d \in Dispositions : Finalize(c, d)
      BY <1>5, ResolveType DEF EndPendingFinalize
  <2>2. c \in acked
      BY <1>5 DEF EndPendingFinalize, CancelInv, CancelAsked
  <2>3. NoNewCancel
      BY <1>1, <2>1, <2>2, FinalizeCancels
  <2> QED
      BY <1>5, <2>3, IdleKeepsCancel DEF EndPendingFinalize
<1>6. CASE EndDispatched(c)
  <2> DEFINE t == <<c, cancels[c]>>
  <2>1. /\ cancels[c] # 0 /\ acked' = acked \cup {c} /\ UNCHANGED <<pc, cancelling, store>>
        /\ cancels' = [cancels EXCEPT ![c] = 0] /\ rx' = [rx EXCEPT ![t] = "signalled"]
      BY <1>6 DEF EndDispatched
  <2>2. t \in Tasks
      BY <2>1 DEF CancelInv, SenderOfGuarded
  <2>3. /\ \A x \in Calls : cancels'[x] = IF x = c THEN 0 ELSE cancels[x]
        /\ \A u \in Tasks : rx'[u] = IF u = t THEN "signalled" ELSE rx[u]
      BY <1>1, <2>1 DEF TypeOK
  <2>4. SenderOfGuarded'
      BY <2>1, <2>3 DEF CancelInv, SenderOfGuarded
  <2>5. GuardedHasSender'
      BY <2>1, <2>3 DEF CancelInv, GuardedHasSender, Tasks
  <2>6. CancelAsked' /\ NoSpuriousCancel'
      BY <2>1 DEF CancelInv, CancelAsked, NoSpuriousCancel
  <2> QED
      BY <2>4, <2>5, <2>6 DEF CancelInv
<1> QED
    BY <1>2, <1>3, <1>4, <1>5, <1>6 DEF Producer, EndCall

LEMMA DispatcherKeepsCancel ==
    ASSUME EngineInv, OneHolder', CancelInv, Dispatcher
    PROVE  CancelInv'
<1> USE DEF coreVars, countVars, placeVars, taskVars, histVars
<1>1. CASE DispatchClaim
    BY <1>1, ClaimKeepsCancel
<1>2. CASE DispatchSpawn
  <2>1. PICK t \in Tasks : /\ pc[t] = "claimed"
                          /\ store' = SetState(store, t[1], "ringing")
                          /\ pc' = [pc EXCEPT ![t] = IF NetCheck THEN "preflight" ELSE "invite"]
      BY <1>2 DEF DispatchSpawn
  <2> DEFINE point == IF NetCheck THEN "preflight" ELSE "invite"
  <2>2. point \in Guarded /\ pc[t] \in Guarded /\ point # "cancelled"
      BY <2>1 DEF Guarded, Holding, Driving
  <2>3. pc' = [pc EXCEPT ![t] = point] /\ UNCHANGED <<cancels, rx, acked, cancelling>>
      BY <1>2, <2>1 DEF DispatchSpawn
  <2>4. NoNewCancel
      BY <2>1, SetStateCancelsNone DEF EngineInv, TypeInv, Tasks
  <2> HIDE DEF point
  <2> QED
      BY <2>2, <2>3, <2>4, GuardedStep
<1>3. CASE DispatchMark \/ DispatchBreak \/ DispatchPark \/ DispatchWoken
    BY <1>3, IdleKeepsCancel
       DEF DispatchMark, DispatchBreak, DispatchPark, DispatchWoken, NoNewCancel
<1> QED
    BY <1>1, <1>2, <1>3 DEF Dispatcher

LEMMA TaskKeepsCancel ==
    ASSUME EngineInv, OneHolder, CancelInv, NEW t \in Tasks, RunCall(t) \/ Panic(t)
    PROVE  CancelInv'
<1> USE DEF coreVars, countVars, placeVars, dispVars, taskVars, histVars, Goto
<1>1. TypeOK /\ t[1] \in Calls
    BY DEF EngineInv, TypeInv, Tasks
<1>2. CASE PreflightCancelled(t)
  <2>1. pc[t] \in Guarded /\ "guard" \in Guarded /\ pc' = [pc EXCEPT ![t] = "guard"]
        /\ UNCHANGED <<cancels, rx, acked, cancelling>>
      BY <1>2 DEF PreflightCancelled, Guarded, Holding, Driving
  <2>2. t[1] \in acked
      BY <1>2, <2>1 DEF PreflightCancelled, CancelInv, GuardedHasSender
  <2>3. PICK d \in Dispositions : Finalize(t[1], d)
      BY <1>2, ResolveType DEF PreflightCancelled
  <2>4. NoNewCancel
      BY <1>1, <2>2, <2>3, FinalizeCancels
  <2> QED
      BY <2>1, <2>4, GuardedStep
<1>3. CASE DialFailed(t) \/ RingTerminated(t)
  <2>1. PICK d \in Dispositions : Finalize(t[1], d) /\ d # "cancelled"
      BY <1>3, ResolveType, ResolveCancelled DEF DialFailed, RingTerminated
  <2>2. NoNewCancel
      BY <1>1, <2>1, FinalizeCancels
  <2>3. pc[t] \in Guarded /\ "guard" \in Guarded /\ pc' = [pc EXCEPT ![t] = "guard"]
        /\ UNCHANGED <<cancels, rx, acked, cancelling>>
      BY <1>3 DEF DialFailed, RingTerminated, Guarded, Holding, Driving
  <2> QED
      BY <2>2, <2>3, GuardedStep
<1>4. CASE LiveFinalize(t)
  <2>1. PICK d \in Dispositions : Finalize(t[1], d) /\ (d = "cancelled" => pc[t] = "cancelled")
      BY <1>4, ResolveType, ResolveCancelled DEF LiveFinalize
  <2>2. d = "cancelled" => t[1] \in acked
      BY <2>1 DEF CancelInv, CancelAsked
  <2>3. NoNewCancel
      BY <1>1, <2>1, <2>2, FinalizeCancels
  <2>4. pc[t] \in Guarded /\ "persist" \in Guarded /\ pc' = [pc EXCEPT ![t] = "persist"]
        /\ UNCHANGED <<cancels, rx, acked, cancelling>>
      BY <1>4 DEF LiveFinalize, Guarded, Holding, Driving
  <2> QED
      BY <2>3, <2>4, GuardedStep
<1>5. CASE RequeueMark(t) \/ Answered(t)
  <2>1. NoNewCancel
      BY <1>1, <1>5, SetStateCancelsNone DEF RequeueMark, Answered
  <2>2. PICK point \in {"requeue", "live"} : pc' = [pc EXCEPT ![t] = point]
      BY <1>5 DEF RequeueMark, Answered
  <2>3. pc[t] \in Guarded /\ point \in Guarded /\ UNCHANGED <<cancels, rx, acked, cancelling>>
      BY <1>5 DEF RequeueMark, Answered, Guarded, Holding, Driving
  <2> QED
      BY <2>1, <2>2, <2>3, GuardedStep
<1>6. CASE LiveCancelled(t)
  <2>1. pc[t] \in Guarded /\ "cancelled" \in Guarded /\ pc' = [pc EXCEPT ![t] = "cancelled"]
        /\ UNCHANGED <<cancels, rx, acked, cancelling, store>>
      BY <1>6 DEF LiveCancelled, Guarded, Holding, Driving
  <2>2. t[1] \in acked
      BY <1>6, <2>1 DEF LiveCancelled, CancelInv, GuardedHasSender
  <2> QED
      BY <2>1, <2>2, GuardedStep DEF NoNewCancel
<1>7. CASE \/ PreflightUsable(t) \/ PreflightUnusable(t) \/ InviteSent(t)
           \/ RequeuePush(t) \/ RequeueNotify(t)
           \/ LiveOver(t) \/ LivePersist(t) \/ Panic(t)
  <2>1. PICK point \in {"invite", "unusable", "ringing", "requeued", "guard", "over"} :
            pc' = [pc EXCEPT ![t] = point]
      BY <1>7 DEF PreflightUsable, PreflightUnusable, InviteSent, RequeuePush, RequeueNotify,
                  LiveOver, LivePersist, Panic
  <2>2. pc[t] \in Guarded /\ point \in Guarded
        /\ UNCHANGED <<cancels, rx, acked, cancelling, store>>
      BY <1>7 DEF PreflightUsable, PreflightUnusable, InviteSent, RequeuePush, RequeueNotify,
                  LiveOver, LivePersist, Panic, Guarded, Holding, Driving
  <2> QED
      BY <2>1, <2>2, GuardedStep DEF NoNewCancel
<1>8. CASE DropCancelGuard(t)
    BY <1>8, DropGuardKeepsCancel
<1>9. CASE DropRunningGuard(t) \/ NotifyReleased(t)
    BY <1>9, UnguardedStep DEF DropRunningGuard, NotifyReleased
<1> QED
    BY <1>2, <1>3, <1>4, <1>5, <1>6, <1>7, <1>8, <1>9 DEF RunCall

LEMMA InitCancelInv == Init => CancelInv
<1> SUFFICES ASSUME Init PROVE CancelInv
    OBVIOUS
<1>1. \A t \in Tasks : pc[t] \notin Guarded /\ pc[t] # "cancelled"
    BY DEF Init, Guarded, Holding, Driving
<1> QED
    BY <1>1 DEF Init, CancelInv, SenderOfGuarded, GuardedHasSender, CancelAsked,
                NoSpuriousCancel, NoRecord, None

LEMMA NextKeepsCancelInv ==
    NoOverlap /\ EngineInv /\ CancelInv /\ [Next]_vars => CancelInv'
<1> SUFFICES ASSUME NoOverlap, EngineInv, CancelInv, [Next]_vars PROVE CancelInv'
    OBVIOUS
<1>1. OneHolder
    BY HoldersDoNotOverlap
<1>2. OneHolder'
  <2>1. NoOverlap' /\ EngineInv' => OneHolder'
      BY HoldersDoNotOverlap, PTL
  <2> QED
      BY <2>1, NextKeepsEngineInv DEF NoOverlap
<1>3. CASE Tick \/ UNCHANGED vars
    BY <1>3, IdleKeepsCancel
       DEF Tick, vars, coreVars, countVars, placeVars, dispVars, taskVars, histVars, NoNewCancel
<1> QED
    BY <1>1, <1>2, <1>3, CallerKeepsCancel, DispatcherKeepsCancel, TaskKeepsCancel DEF Next

(* A registered or used sender is what CancelReachable asks of an attempt  *)
(* that still polls its receiver.                                          *)
LEMMA GuardedIsReachable == CancelInv => CancelReachable
BY DEF CancelInv, GuardedHasSender, CancelReachable, Guarded, Holding, Driving

(* Without overlap of the attempts of one call, end_call reaches every     *)
(* attempt that can still act on it ...                                    *)
THEOREM CancelsReach == ASSUME NoOverlap PROVE Spec => []CancelReachable
<1>1. EngineInv /\ CancelInv /\ [Next]_vars => EngineInv' /\ CancelInv'
    BY NoOverlap, NextKeepsEngineInv, NextKeepsCancelInv
<1> QED
    BY <1>1, InitEngineInv, InitCancelInv, GuardedIsReachable, PTL DEF Spec

(* ... and a call is recorded as cancelled only if an end_call answered    *)
(* TRUE for it.                                                            *)
THEOREM CancelsAreAskedFor == ASSUME NoOverlap PROVE Spec => []NoSpuriousCancel
<1>1. EngineInv /\ CancelInv /\ [Next]_vars => EngineInv' /\ CancelInv'
    BY NoOverlap, NextKeepsEngineInv, NextKeepsCancelInv
<1>2. CancelInv => NoSpuriousCancel
    BY DEF CancelInv
<1> QED
    BY <1>1, <1>2, InitEngineInv, InitCancelInv, PTL DEF Spec
=============================================================================
