-------------------------- MODULE CallEngineRefinement --------------------------
(***************************************************************************)
(* What the engine implements, for every value of the constants: the       *)
(* queue, the dispatcher, the retries and the guards of CallEngine give a  *)
(* call the life that CallService promises it, and the dispatcher, the     *)
(* breaker and the preflights are those of ProbeGate.                      *)
(***************************************************************************)
EXTENDS CallEngineProofs

(* The attempts of c that were ever given a channel are the first n.       *)
DialledUpTo(c, n) == \A a \in Attempts : pc[<<c, a>>] # "none" <=> a <= n

DialledInOrder ==
    /\ \A e \in queue : DialledUpTo(e.id, e.attempt - 1)
    /\ \A t \in Tasks : pc[t] \in Driving => DialledUpTo(t[1], t[2])

(* The record of a call is in the state its owner believes it to be in.    *)
FreshRecord == \A c \in Calls : placing[c] = "new" => store[c].state = "absent"

QueuedRecord ==
    /\ \A c \in Calls : placing[c] = "inserted" => store[c].state = "queued"
    /\ \A c \in cancelling : store[c].state = "queued"
    /\ \A e \in queue : store[e.id].state = "queued"

StateAt(point) ==
    IF point \in {"claimed", "requeue"} THEN "queued"
    ELSE IF point \in {"live", "cancelled", "over"} THEN "in_progress" ELSE "ringing"

DrivenRecord ==
    \A t \in Tasks : pc[t] \in Driving => store[t[1]].state = StateAt(pc[t])

RecordInv == DialledInOrder /\ FreshRecord /\ QueuedRecord /\ DrivenRecord

-----------------------------------------------------------------------------
(* How the store's operations move the states of the records.              *)
StateKept(x) ==
    \/ store'[x].state = store[x].state
    \/ store[x].state = "ended" /\ store'[x].state = "absent"

LEMMA SetStateStates ==
    ASSUME TypeOK, NEW c \in Calls, NEW st \in CallStates,
           store[c].state # "absent", store' = SetState(store, c, st)
    PROVE  store'[c].state = st /\ \A x \in Calls \ {c} : store'[x] = store[x]
BY DEF TypeOK, SetState, Record

LEMMA FinalizeStates ==
    ASSUME TypeOK, NEW c \in Calls, NEW d \in Dispositions, Finalize(c, d)
    PROVE  /\ store'[c].state \in {"ended", "absent"}
           /\ \A x \in Calls \ {c} : StateKept(x)
<1> DEFINE ended == RecordEnd(store, c, d)
<1>1. /\ ended[c].state \in {"ended", "absent"}
      /\ \A x \in Calls \ {c} : ended[x] = store[x]
    BY DEF TypeOK, RecordEnd, Record
<1>2. \A x \in Calls : store'[x] = IF x \in Evicted(ended) THEN NoRecord ELSE ended[x]
    BY DEF Finalize, Evict
<1>3. \A x \in Evicted(ended) : ended[x].state = "ended"
    BY DEF Evicted, EndedCalls
<1> HIDE DEF ended
<1> QED
    BY <1>1, <1>2, <1>3 DEF NoRecord, StateKept

(* What a step of a task leaves behind.                                    *)
LEMMA TaskKeepsRecord ==
    ASSUME EngineInv, RecordInv, NEW t \in Tasks, NEW point \in TaskPoints \ {"none"},
           pc[t] # "none", pc' = [pc EXCEPT ![t] = point],
           point \in Driving => pc[t] \in Driving /\ store'[t[1]].state = StateAt(point),
           UNCHANGED <<placing, queue, cancelling>>,
           \/ store' = store
           \/ pc[t] \in Driving /\ \A x \in Calls \ {t[1]} : StateKept(x)
    PROVE  RecordInv'
<1>1. TypeOK /\ Exclusive
    BY DEF EngineInv, TypeInv
<1>2. /\ \A u \in Tasks : pc'[u] = "none" <=> pc[u] = "none"
      /\ \A u \in Tasks \ {t} : pc'[u] = pc[u]
      /\ pc'[t] = point
    BY <1>1 DEF TypeOK
<1>3. \A c \in Calls, a \in Attempts : <<c, a>> \in Tasks
    BY DEF Tasks
<1>4. /\ \A u \in Tasks : u[1] \in Calls
      /\ \A e \in queue : e.id \in Calls
      /\ cancelling \subseteq Calls
    BY <1>1 DEF Tasks, TypeOK, Entry
<1>5. DialledInOrder'
    BY <1>2, <1>3, <1>4 DEF RecordInv, DialledInOrder, DialledUpTo
<1>6. FreshRecord' /\ QueuedRecord'
  <2>1. CASE store' = store
      BY <2>1 DEF RecordInv, FreshRecord, QueuedRecord
  <2>2. CASE pc[t] \in Driving /\ \A x \in Calls \ {t[1]} : StateKept(x)
    <3>1. /\ placing[t[1]] \notin {"new", "inserted"} /\ t[1] \notin cancelling
          /\ \A e \in queue : e.id # t[1]
        BY <1>1, <2>2, DriverAlone
    <3> QED
        BY <1>4, <2>2, <3>1 DEF RecordInv, FreshRecord, QueuedRecord, StateKept
  <2> QED
      BY <2>1, <2>2
<1>7. DrivenRecord'
  <2>1. ASSUME NEW u \in Tasks \ {t}, pc[u] \in Driving
        PROVE  store'[u[1]].state = StateAt(pc[u])
    <3>1. store[u[1]].state = StateAt(pc[u]) /\ StateAt(pc[u]) # "ended"
        BY <2>1 DEF RecordInv, DrivenRecord, StateAt
    <3>2. CASE store' = store
        BY <3>1, <3>2
    <3>3. CASE pc[t] \in Driving /\ \A x \in Calls \ {t[1]} : StateKept(x)
      <4>1. u[1] # t[1]
          BY <1>1, <2>1, <3>3, DriverAlone
      <4> QED
          BY <1>4, <3>1, <3>3, <4>1 DEF StateKept
    <3> QED
        BY <3>2, <3>3
  <2> QED
      BY <1>2, <2>1 DEF DrivenRecord
<1> QED
    BY <1>5, <1>6, <1>7 DEF RecordInv

LEMMA IdleKeepsRecord ==
    ASSUME RecordInv, UNCHANGED <<store, queue, pc, cancelling, placing>>
    PROVE  RecordInv'
BY DEF RecordInv, DialledInOrder, DialledUpTo, FreshRecord, QueuedRecord, DrivenRecord

(* A move within one state of the record.                                  *)
LEMMA MoveKeepsRecord ==
    ASSUME EngineInv, RecordInv, NEW t \in Tasks, NEW point \in TaskPoints \ {"none"},
           pc[t] # "none", pc' = [pc EXCEPT ![t] = point],
           point \in Driving => pc[t] \in Driving /\ StateAt(point) = StateAt(pc[t]),
           UNCHANGED <<store, placing, queue, cancelling>>
    PROVE  RecordInv'
<1>1. point \in Driving => store'[t[1]].state = StateAt(point)
    BY DEF RecordInv, DrivenRecord
<1> QED
    BY <1>1, TaskKeepsRecord

(* set_state by the task that drives the call.                             *)
LEMMA DriverSetsState ==
    ASSUME EngineInv, RecordInv, NEW t \in Tasks, NEW point \in Driving,
           pc[t] \in Driving, pc' = [pc EXCEPT ![t] = point],
           store' = SetState(store, t[1], StateAt(point)),
           UNCHANGED <<placing, queue, cancelling>>
    PROVE  RecordInv'
<1>1. TypeOK /\ t[1] \in Calls
    BY DEF EngineInv, TypeInv, Tasks
<1>2. StateAt(point) \in CallStates /\ store[t[1]].state # "absent"
    BY DEF StateAt, CallStates, RecordInv, DrivenRecord
<1>3. /\ store'[t[1]].state = StateAt(point)
      /\ \A x \in Calls \ {t[1]} : store'[x] = store[x]
    BY <1>1, <1>2, SetStateStates
<1>4. point \in TaskPoints \ {"none"} /\ pc[t] # "none"
    BY DEF TaskPoints, Driving
<1> QED
    BY <1>3, <1>4, TaskKeepsRecord DEF StateKept

(* finalize by the task that drives the call.                              *)
LEMMA DriverFinalizes ==
    ASSUME EngineInv, RecordInv, NEW t \in Tasks, NEW d \in Dispositions,
           NEW point \in {"guard", "persist"}, pc[t] \in Driving,
           Finalize(t[1], d), pc' = [pc EXCEPT ![t] = point],
           UNCHANGED <<placing, queue, cancelling>>
    PROVE  RecordInv'
<1>1. TypeOK /\ t[1] \in Calls
    BY DEF EngineInv, TypeInv, Tasks
<1>2. \A x \in Calls \ {t[1]} : StateKept(x)
    BY <1>1, FinalizeStates
<1>3. point \in TaskPoints \ {"none"} /\ point \notin Driving /\ pc[t] # "none"
    BY DEF TaskPoints, Driving
<1> QED
    BY <1>2, <1>3, TaskKeepsRecord

-----------------------------------------------------------------------------
LEMMA CallerKeepsRecord ==
    ASSUME EngineInv, RecordInv, NEW c \in Calls, Producer(c) \/ EndCall(c)
    PROVE  RecordInv'
<1> USE DEF countVars, placeVars, dispVars, taskVars, histVars
<1>1. TypeOK /\ Exclusive /\ DialledInOrder /\ FreshRecord /\ QueuedRecord /\ DrivenRecord
    BY DEF EngineInv, TypeInv, RecordInv
<1>2. pc' = pc
    BY DEF Producer, PlaceInsert, PlacePush, PlaceNotify,
           EndCall, EndPending, EndPendingFinalize, EndDispatched
<1>3. ASSUME placing[c] \in {"new", "inserted"}
      PROVE  /\ c \notin cancelling /\ \A e \in queue : e.id # c
             /\ \A t \in Tasks : pc[t] \in Driving => t[1] # c
             /\ \A a \in Attempts : pc[<<c, a>>] = "none"
    BY <1>1, <1>3 DEF Exclusive, NotYetQueued, Tasks, Driving
<1>4. CASE PlaceInsert(c)
  <2>1. /\ placing[c] = "new" /\ UNCHANGED <<queue, cancelling>>
        /\ placing' = [placing EXCEPT ![c] = "inserted"]
      BY <1>4 DEF PlaceInsert
  <2>2. store'[c].state = "queued" /\ \A x \in Calls \ {c} : store'[x] = store[x]
      BY <1>1, <1>4 DEF PlaceInsert, TypeOK
  <2>3. \A x \in Calls \ {c} : placing'[x] = placing[x]
      BY <1>1, <2>1 DEF TypeOK
  <2>4. placing'[c] = "inserted"
      BY <1>1, <2>1 DEF TypeOK
  <2>5. DialledInOrder' /\ FreshRecord'
      BY <1>1, <1>2, <2>1, <2>2, <2>3, <2>4 DEF DialledInOrder, DialledUpTo, FreshRecord
  <2>6. QueuedRecord'
      BY <1>1, <1>3, <2>1, <2>2, <2>3, <2>4 DEF QueuedRecord, TypeOK, Entry
  <2>7. DrivenRecord'
      BY <1>1, <1>2, <1>3, <2>1, <2>2 DEF DrivenRecord, Tasks
  <2> QED
      BY <2>5, <2>6, <2>7 DEF RecordInv
<1>5. CASE PlacePush(c)
  <2>1. /\ placing[c] = "inserted" /\ UNCHANGED <<store, cancelling>>
        /\ placing' = [placing EXCEPT ![c] = "pushed"]
      BY <1>5 DEF PlacePush
  <2>2. \A e \in queue' : e \in queue \/ (e.id = c /\ e.attempt = 1)
      BY <1>5 DEF PlacePush, Push
  <2>3. DialledUpTo(c, 0)
      BY <1>3, <2>1, EngineAssumption DEF DialledUpTo, Attempts
  <2>4. DialledInOrder'
      BY <1>1, <1>2, <2>2, <2>3 DEF DialledInOrder, DialledUpTo
  <2>5. \A x \in Calls : placing'[x] \in {"new", "inserted"} => placing'[x] = placing[x]
      BY <1>1, <2>1 DEF TypeOK
  <2>6. FreshRecord' /\ QueuedRecord' /\ DrivenRecord'
      BY <1>1, <1>2, <2>1, <2>2, <2>5 DEF FreshRecord, QueuedRecord, DrivenRecord
  <2> QED
      BY <2>4, <2>6 DEF RecordInv
<1>6. CASE PlaceNotify(c)
  <2>1. UNCHANGED <<store, queue, cancelling>>
      BY <1>6 DEF PlaceNotify
  <2>2. \A x \in Calls : placing'[x] \in {"new", "inserted"} => placing'[x] = placing[x]
      BY <1>1, <1>6 DEF PlaceNotify, TypeOK
  <2> QED
      BY <1>1, <1>2, <2>1, <2>2
         DEF RecordInv, DialledInOrder, DialledUpTo, FreshRecord, QueuedRecord, DrivenRecord
<1>7. CASE EndPending(c)
  <2>1. UNCHANGED <<store, placing>> /\ queue' \subseteq queue
        /\ cancelling' = cancelling \cup {c}
      BY <1>7 DEF EndPending, Without
  <2>2. store[c].state = "queued"
      BY <1>1, <1>7 DEF EndPending, IsPending, QueuedRecord
  <2> QED
      BY <1>1, <1>2, <2>1, <2>2
         DEF RecordInv, DialledInOrder, DialledUpTo, FreshRecord, QueuedRecord, DrivenRecord
<1>8. CASE EndPendingFinalize(c)
  <2>1. c \in cancelling /\ cancelling' = cancelling \ {c} /\ UNCHANGED <<queue, placing>>
      BY <1>8 DEF EndPendingFinalize
  <2>2. PICK d \in Dispositions : Finalize(c, d)
      BY <1>8, ResolveType DEF EndPendingFinalize
  <2>3. \A x \in Calls \ {c} : StateKept(x)
      BY <1>1, <2>2, FinalizeStates
  <2>4. /\ placing[c] \notin {"new", "inserted"} /\ \A e \in queue : e.id # c
        /\ \A t \in Tasks : pc[t] \in Driving => t[1] # c
      BY <1>1, <2>1 DEF Exclusive, NotYetQueued, CancellingAlone
  <2>5. DialledInOrder'
      BY <1>1, <1>2, <2>1 DEF DialledInOrder, DialledUpTo
  <2>6. FreshRecord'
      BY <1>1, <2>1, <2>3, <2>4 DEF FreshRecord, StateKept
  <2>7. QueuedRecord'
      BY <1>1, <2>1, <2>3, <2>4 DEF QueuedRecord, StateKept, TypeOK, Entry
  <2>8. DrivenRecord'
      BY <1>1, <1>2, <2>3, <2>4 DEF DrivenRecord, StateKept, StateAt, Tasks
  <2> QED
      BY <2>5, <2>6, <2>7, <2>8 DEF RecordInv
<1>9. CASE EndDispatched(c)
    BY <1>9, IdleKeepsRecord DEF EndDispatched
<1> QED
    BY <1>4, <1>5, <1>6, <1>7, <1>8, <1>9 DEF Producer, EndCall

(* The dispatcher takes the one entry of a call whose next attempt it is.  *)
LEMMA ClaimKeepsRecord ==
    ASSUME EngineInv, RecordInv, DispatchClaim
    PROVE  RecordInv'
<1>1. TypeOK /\ Exclusive /\ DialledInOrder /\ FreshRecord /\ QueuedRecord /\ DrivenRecord
    BY DEF EngineInv, TypeInv, RecordInv
<1>2. PICK e \in PopEligible(queue, now) :
          queue' = queue \ {e} /\ pc' = [pc EXCEPT ![<<e.id, e.attempt>>] = "claimed"]
    BY DEF DispatchClaim
<1> DEFINE t == <<e.id, e.attempt>>
<1>3. /\ e \in queue /\ e.id \in Calls /\ e.attempt \in Attempts
      /\ t \in Tasks /\ t[1] = e.id /\ t[2] = e.attempt
    BY <1>1, EligibleIsTask
<1>4. UNCHANGED <<placing, cancelling, store>>
    BY DEF DispatchClaim, placeVars
<1>5. pc' = [pc EXCEPT ![t] = "claimed"]
    BY <1>2
<1>6. \A f \in queue' : f \in queue /\ f.id # e.id
    BY <1>1, <1>2, <1>3 DEF Exclusive, OneEntry
<1>7. \A c \in Calls, a \in Attempts :
          pc'[<<c, a>>] = IF c = e.id /\ a = e.attempt THEN "claimed" ELSE pc[<<c, a>>]
    BY <1>1, <1>5 DEF TypeOK, Tasks
<1> HIDE DEF t
<1>8. \A u \in Tasks : pc'[u] = IF u = t THEN "claimed" ELSE pc[u]
    BY <1>1, <1>5 DEF TypeOK
<1>9. DialledUpTo(e.id, e.attempt)'
    BY <1>1, <1>3, <1>7, EngineAssumption DEF DialledInOrder, DialledUpTo, Attempts
<1>10. \A c \in Calls \ {e.id}, n \in Nat : DialledUpTo(c, n) => DialledUpTo(c, n)'
    BY <1>7 DEF DialledUpTo
<1>11. DialledInOrder'
  <2>1. ASSUME NEW f \in queue' PROVE DialledUpTo(f.id, f.attempt - 1)'
    <3>1. f.id \in Calls /\ f.attempt - 1 \in Nat
        BY <1>1, <1>6, EngineAssumption DEF TypeOK, Entry, Attempts
    <3> QED
        BY <1>1, <1>6, <1>10, <3>1 DEF DialledInOrder
  <2>2. ASSUME NEW u \in Tasks, pc'[u] \in Driving PROVE DialledUpTo(u[1], u[2])'
    <3>1. CASE u = t
        BY <1>3, <1>9, <3>1
    <3>2. CASE u # t
      <4>1. pc[u] \in Driving /\ u[1] \in Calls \ {e.id} /\ u[2] \in Nat
          BY <1>1, <1>3, <1>8, <2>2, <3>2, EngineAssumption
             DEF Exclusive, QueuedNotDriven, Tasks, Attempts
      <4> QED
          BY <1>1, <1>10, <4>1 DEF DialledInOrder
    <3> QED
        BY <3>1, <3>2
  <2> QED
      BY <2>1, <2>2 DEF DialledInOrder
<1>12. FreshRecord' /\ QueuedRecord'
    BY <1>1, <1>4, <1>6 DEF FreshRecord, QueuedRecord
<1>13. DrivenRecord'
    BY <1>1, <1>3, <1>4, <1>8 DEF DrivenRecord, QueuedRecord, StateAt
<1> QED
    BY <1>11, <1>12, <1>13 DEF RecordInv

LEMMA DispatcherKeepsRecord ==
    ASSUME EngineInv, RecordInv, Dispatcher
    PROVE  RecordInv'
<1> USE DEF coreVars, countVars, placeVars, taskVars, histVars
<1>1. CASE DispatchClaim
    BY <1>1, ClaimKeepsRecord
<1>2. CASE DispatchSpawn
  <2>1. PICK t \in Tasks :
            /\ pc[t] = "claimed"
            /\ store' = SetState(store, t[1], "ringing")
            /\ pc' = [pc EXCEPT ![t] = IF NetCheck THEN "preflight" ELSE "invite"]
      BY <1>2 DEF DispatchSpawn
  <2> DEFINE point == IF NetCheck THEN "preflight" ELSE "invite"
  <2>2. point \in Driving /\ StateAt(point) = "ringing" /\ pc[t] \in Driving
      BY <2>1 DEF Driving, StateAt
  <2>3. pc' = [pc EXCEPT ![t] = point] /\ UNCHANGED <<placing, queue, cancelling>>
      BY <1>2, <2>1 DEF DispatchSpawn
  <2> HIDE DEF point
  <2> QED
      BY <2>1, <2>2, <2>3, DriverSetsState
<1>3. CASE DispatchMark \/ DispatchBreak \/ DispatchPark \/ DispatchWoken
    BY <1>3, IdleKeepsRecord DEF DispatchMark, DispatchBreak, DispatchPark, DispatchWoken
<1> QED
    BY <1>1, <1>2, <1>3 DEF Dispatcher

LEMMA RequeuePushKeepsRecord ==
    ASSUME EngineInv, RecordInv, NEW t \in Tasks, RequeuePush(t)
    PROVE  RecordInv'
<1>1. TypeOK /\ Exclusive /\ DialledInOrder /\ FreshRecord /\ QueuedRecord /\ DrivenRecord
    BY DEF EngineInv, TypeInv, RecordInv
<1>2. pc[t] = "requeue" /\ pc' = [pc EXCEPT ![t] = "requeued"]
    BY DEF RequeuePush, Goto
<1>3. UNCHANGED <<placing, cancelling, store>>
    BY DEF RequeuePush, histVars
<1>4. \A e \in queue' : e \in queue \/ (e.id = t[1] /\ e.attempt = t[2] + 1)
    BY DEF RequeuePush, Push
<1>5. t[1] \in Calls /\ t[2] \in Nat
    BY EngineAssumption DEF Tasks, Attempts
<1>6. store[t[1]].state = "queued" /\ DialledUpTo(t[1], t[2])
    BY <1>1, <1>2 DEF DrivenRecord, DialledInOrder, Driving, StateAt
<1>7. \A u \in Tasks : (pc'[u] = "none" <=> pc[u] = "none")
                        /\ (pc'[u] \in Driving => pc'[u] = pc[u])
    BY <1>1, <1>2 DEF TypeOK, Driving
<1>8. \A c \in Calls : \A n : DialledUpTo(c, n)' <=> DialledUpTo(c, n)
    BY <1>7 DEF DialledUpTo, Tasks
<1>9. DialledInOrder'
  <2>1. t[2] + 1 - 1 = t[2]
      BY <1>5
  <2> QED
      BY <1>1, <1>4, <1>5, <1>6, <1>7, <1>8, <2>1 DEF DialledInOrder, TypeOK, Entry, Tasks
<1>10. FreshRecord' /\ QueuedRecord' /\ DrivenRecord'
    BY <1>1, <1>3, <1>4, <1>6, <1>7 DEF FreshRecord, QueuedRecord, DrivenRecord
<1> QED
    BY <1>9, <1>10 DEF RecordInv

LEMMA TaskStepKeepsRecord ==
    ASSUME EngineInv, RecordInv, NEW t \in Tasks, RunCall(t) \/ Panic(t)
    PROVE  RecordInv'
<1> USE DEF coreVars, countVars, placeVars, dispVars, taskVars, histVars, Goto
<1>1. CASE PreflightCancelled(t) \/ DialFailed(t) \/ RingTerminated(t)
  <2>1. PICK d \in Dispositions : Finalize(t[1], d)
      BY <1>1, ResolveType DEF PreflightCancelled, DialFailed, RingTerminated
  <2>2. pc[t] \in Driving /\ pc' = [pc EXCEPT ![t] = "guard"]
        /\ UNCHANGED <<placing, queue, cancelling>>
      BY <1>1 DEF PreflightCancelled, DialFailed, RingTerminated, Driving
  <2> QED
      BY <2>1, <2>2, DriverFinalizes
<1>2. CASE LiveFinalize(t)
  <2>1. PICK d \in Dispositions : Finalize(t[1], d)
      BY <1>2, ResolveType DEF LiveFinalize
  <2>2. pc[t] \in Driving /\ pc' = [pc EXCEPT ![t] = "persist"]
        /\ UNCHANGED <<placing, queue, cancelling>>
      BY <1>2 DEF LiveFinalize, Driving
  <2> QED
      BY <2>1, <2>2, DriverFinalizes
<1>3. CASE PreflightUsable(t) \/ PreflightUnusable(t) \/ InviteSent(t)
  <2>1. PICK point \in {"invite", "unusable", "ringing"} : pc' = [pc EXCEPT ![t] = point]
      BY <1>3 DEF PreflightUsable, PreflightUnusable, InviteSent
  <2>2. /\ point \in TaskPoints \ {"none"} /\ pc[t] \in Driving /\ pc[t] # "none"
        /\ StateAt(point) = StateAt(pc[t])
      BY <1>3 DEF PreflightUsable, PreflightUnusable, InviteSent, TaskPoints, Driving, StateAt
  <2>3. UNCHANGED <<store, placing, queue, cancelling>>
      BY <1>3 DEF PreflightUsable, PreflightUnusable, InviteSent
  <2> QED
      BY <2>1, <2>2, <2>3, MoveKeepsRecord
<1>4. CASE LiveCancelled(t) \/ LiveOver(t)
  <2>1. PICK point \in {"cancelled", "over"} : pc' = [pc EXCEPT ![t] = point]
      BY <1>4 DEF LiveCancelled, LiveOver
  <2>2. /\ point \in TaskPoints \ {"none"} /\ pc[t] \in Driving /\ pc[t] # "none"
        /\ StateAt(point) = StateAt(pc[t])
      BY <1>4 DEF LiveCancelled, LiveOver, TaskPoints, Driving, StateAt
  <2>3. UNCHANGED <<store, placing, queue, cancelling>>
      BY <1>4 DEF LiveCancelled, LiveOver
  <2> QED
      BY <2>1, <2>2, <2>3, MoveKeepsRecord
<1>5. CASE RequeueMark(t)
  <2>1. pc[t] \in Driving /\ "requeue" \in Driving /\ StateAt("requeue") = "queued"
      BY <1>5 DEF RequeueMark, Driving, StateAt
  <2> QED
      BY <1>5, <2>1, DriverSetsState DEF RequeueMark
<1>6. CASE Answered(t)
  <2>1. pc[t] \in Driving /\ "live" \in Driving /\ StateAt("live") = "in_progress"
      BY <1>6 DEF Answered, Driving, StateAt
  <2> QED
      BY <1>6, <2>1, DriverSetsState DEF Answered
<1>7. CASE RequeuePush(t)
    BY <1>7, RequeuePushKeepsRecord
<1>8. CASE \/ RequeueNotify(t) \/ LivePersist(t) \/ Panic(t)
           \/ DropCancelGuard(t) \/ DropRunningGuard(t) \/ NotifyReleased(t)
  <2>1. PICK point \in {"guard", "slot", "released", "done"} : pc' = [pc EXCEPT ![t] = point]
      BY <1>8 DEF RequeueNotify, LivePersist, Panic, DropCancelGuard, DropRunningGuard,
                  NotifyReleased
  <2>2. point \in TaskPoints \ {"none"} /\ point \notin Driving /\ pc[t] # "none"
      BY <1>8 DEF RequeueNotify, LivePersist, Panic, DropCancelGuard, DropRunningGuard,
                  NotifyReleased, TaskPoints, Driving
  <2>3. UNCHANGED <<store, placing, queue, cancelling>>
      BY <1>8 DEF RequeueNotify, LivePersist, Panic, DropCancelGuard, DropRunningGuard,
                  NotifyReleased
  <2> QED
      BY <2>1, <2>2, <2>3, MoveKeepsRecord
<1> QED
    BY <1>1, <1>2, <1>3, <1>4, <1>5, <1>6, <1>7, <1>8 DEF RunCall

LEMMA InitRecordInv == Init => RecordInv
<1> SUFFICES ASSUME Init PROVE RecordInv
    OBVIOUS
<1>1. \A t \in Tasks : pc[t] \notin Driving
    BY DEF Init, Driving
<1> QED
    BY <1>1 DEF Init, RecordInv, DialledInOrder, FreshRecord, QueuedRecord, DrivenRecord, NoRecord

LEMMA NextKeepsRecordInv ==
    EngineInv /\ RecordInv /\ [Next]_vars => RecordInv'
<1> SUFFICES ASSUME EngineInv, RecordInv, [Next]_vars PROVE RecordInv'
    OBVIOUS
<1>1. CASE Tick \/ UNCHANGED vars
    BY <1>1, IdleKeepsRecord
       DEF Tick, vars, coreVars, countVars, placeVars, dispVars, taskVars, histVars
<1> QED
    BY <1>1, CallerKeepsRecord, DispatcherKeepsRecord, TaskStepKeepsRecord DEF Next

-----------------------------------------------------------------------------
(* The refinement mapping: what DriverOf and Tries say of the tasks.       *)
ServiceInv == EngineInv /\ RecordInv

DriverMapped ==
    \A c \in Calls :
        /\ DriverOf(c) \in Attempts \cup {0}
        /\ \A a \in Attempts : DriverOf(c) = a <=> pc[<<c, a>>] \in Driving

TriesMapped ==
    \A c \in Calls, n \in 0..MaxAttempts : DialledUpTo(c, n) => Tries(c) = n

LEMMA DriverIsMapped == ServiceInv => DriverMapped
<1> SUFFICES ASSUME ServiceInv, NEW c \in Calls
             PROVE  /\ DriverOf(c) \in Attempts \cup {0}
                    /\ \A a \in Attempts : DriverOf(c) = a <=> pc[<<c, a>>] \in Driving
    BY DEF DriverMapped
<1>1. TypeOK /\ Exclusive
    BY DEF ServiceInv, EngineInv, TypeInv
<1>2. 0 \notin Attempts
    BY EngineAssumption DEF Attempts
<1>3. CASE \E a \in Attempts : pc[<<c, a>>] \in Driving
  <2>1. DriverOf(c) \in Attempts /\ pc[<<c, DriverOf(c)>>] \in Driving
      BY <1>3 DEF DriverOf
  <2>2. ASSUME NEW a \in Attempts, pc[<<c, a>>] \in Driving PROVE a = DriverOf(c)
    <3>1. <<c, a>> \in Tasks /\ <<c, DriverOf(c)>> \in Tasks
        BY <2>1 DEF Tasks
    <3>2. <<c, DriverOf(c)>> = <<c, a>>
        BY <1>1, <2>1, <2>2, <3>1, DriverAlone
    <3> QED
        BY <3>2
  <2> QED
      BY <2>1, <2>2
<1>4. CASE ~ \E a \in Attempts : pc[<<c, a>>] \in Driving
    BY <1>2, <1>4 DEF DriverOf
<1> QED
    BY <1>3, <1>4

LEMMA TriesAreMapped == TriesMapped
<1> SUFFICES ASSUME NEW c \in Calls, NEW n \in 0..MaxAttempts, DialledUpTo(c, n)
             PROVE  Tries(c) = n
    BY DEF TriesMapped
<1>1. n \in Nat /\ n <= MaxAttempts /\ MaxAttempts \in Nat
    BY EngineAssumption
<1>2. {a \in Attempts : pc[<<c, a>>] # "none"} = 1..n
    BY <1>1 DEF DialledUpTo, Attempts
<1>3. Cardinality(1..n) = n
    BY <1>1, FS_Interval
<1> QED
    BY <1>2, <1>3 DEF Tries

LEMMA MappedNext ==
    ASSUME ServiceInv, ServiceInv'
    PROVE  DriverMapped /\ TriesMapped /\ DriverMapped' /\ TriesMapped'
<1>1. ServiceInv' => DriverMapped'
    BY DriverIsMapped, PTL
<1>2. TriesMapped'
    BY TriesAreMapped, PTL
<1> QED
    BY <1>1, <1>2, DriverIsMapped, TriesAreMapped

(* Frame lemmas: what the mapping does not see.                            *)
LEMMA TriesUnmoved ==
    ASSUME NEW c \in Calls,
           \A a \in Attempts : pc'[<<c, a>>] = "none" <=> pc[<<c, a>>] = "none"
    PROVE  Tries(c)' = Tries(c)
<1>1. {a \in Attempts : pc'[<<c, a>>] # "none"} = {a \in Attempts : pc[<<c, a>>] # "none"}
    OBVIOUS
<1> QED
    BY <1>1 DEF Tries

LEMMA DriverUnmoved ==
    ASSUME DriverMapped, DriverMapped', NEW c \in Calls,
           \A a \in Attempts : pc'[<<c, a>>] \in Driving <=> pc[<<c, a>>] \in Driving
    PROVE  DriverOf(c)' = DriverOf(c)
<1>1. 0 \notin Attempts
    BY EngineAssumption DEF Attempts
<1> QED
    BY <1>1 DEF DriverMapped

LEMMA PhaseUnmoved ==
    ASSUME NEW c \in Calls, store'[c].state = store[c].state,
           placing'[c] = "new" <=> placing[c] = "new"
    PROVE  PhaseOf(c)' = PhaseOf(c)
BY DEF PhaseOf

(* A step that moves tasks only within the classes the mapping tells apart *)
(* and leaves the phases alone is a stutter of the service.                *)
LEMMA ServiceStutters ==
    ASSUME ServiceInv, ServiceInv',
           \A t \in Tasks : /\ pc'[t] = "none" <=> pc[t] = "none"
                            /\ pc'[t] \in Driving <=> pc[t] \in Driving
                            /\ pc'[t] \in Holding <=> pc[t] \in Holding,
           \A c \in Calls : PhaseOf(c)' = PhaseOf(c)
    PROVE  UNCHANGED Service!svars
<1>1. \A c \in Calls, a \in Attempts : <<c, a>> \in Tasks
    BY DEF Tasks
<1>2. \A c \in Calls : Tries(c)' = Tries(c) /\ DriverOf(c)' = DriverOf(c)
    BY <1>1, MappedNext, TriesUnmoved, DriverUnmoved
<1>3. SlotHolders' = SlotHolders
    BY DEF SlotHolders
<1> QED
    BY <1>2, <1>3 DEF Service!svars

LEMMA IdleStutters ==
    ASSUME ServiceInv, ServiceInv', UNCHANGED <<pc, store>>,
           \A c \in Calls : placing'[c] = "new" <=> placing[c] = "new"
    PROVE  UNCHANGED Service!svars
BY PhaseUnmoved, ServiceStutters

LEMMA TaskStutters ==
    ASSUME ServiceInv, ServiceInv', NEW t \in Tasks, NEW point \in TaskPoints,
           pc' = [pc EXCEPT ![t] = point], UNCHANGED <<store, placing>>,
           point = "none" <=> pc[t] = "none",
           point \in Driving <=> pc[t] \in Driving,
           point \in Holding <=> pc[t] \in Holding
    PROVE  UNCHANGED Service!svars
<1>1. \A u \in Tasks : pc'[u] = IF u = t THEN point ELSE pc[u]
    BY DEF ServiceInv, EngineInv, TypeInv, TypeOK
<1> QED
    BY <1>1, PhaseUnmoved, ServiceStutters

-----------------------------------------------------------------------------
(* The steps of the service, one lemma each. *)
LEMMA PlaceImplemented ==
    ASSUME ServiceInv, ServiceInv', NEW c \in Calls, PlaceInsert(c)
    PROVE  Service!Place(c)
<1>1. TypeOK /\ FreshRecord
    BY DEF ServiceInv, EngineInv, TypeInv, RecordInv
<1>2. placing[c] = "new" /\ pc' = pc
    BY DEF PlaceInsert, taskVars
<1>3. \A x \in Calls : placing'[x] = IF x = c THEN "inserted" ELSE placing[x]
    BY <1>1 DEF PlaceInsert, TypeOK
<1>4. store'[c].state = "queued" /\ \A x \in Calls \ {c} : store'[x] = store[x]
    BY <1>1 DEF PlaceInsert, TypeOK
<1>5. PhaseOf(c) = "unknown" /\ PhaseOf(c)' = "queued"
    BY <1>1, <1>2, <1>4 DEF PhaseOf, FreshRecord
<1>6. \A x \in Calls \ {c} : PhaseOf(x)' = PhaseOf(x)
    BY <1>3, <1>4, PhaseUnmoved
<1>7. \A x \in Calls : Tries(x)' = Tries(x) /\ DriverOf(x)' = DriverOf(x)
    BY <1>2, MappedNext, TriesUnmoved, DriverUnmoved
<1>8. SlotHolders' = SlotHolders
    BY <1>2 DEF SlotHolders
<1> QED
    BY <1>5, <1>6, <1>7, <1>8 DEF Service!Place

LEMMA SameCardinality ==
    ASSUME NEW S PROVE Service!Cardinality(S) = Cardinality(S)
BY DEF Service!Cardinality, Cardinality

(* A claim gives the call's next attempt a channel.                        *)
LEMMA DialImplemented ==
    ASSUME ServiceInv, ServiceInv', DispatchClaim
    PROVE  \E c \in Calls : Service!Dial(c)
<1>1. TypeOK /\ Exclusive /\ SlotsCounted /\ DialledInOrder /\ QueuedRecord
    BY DEF ServiceInv, EngineInv, TypeInv, RecordInv
<1>2. PICK e \in PopEligible(queue, now) :
          pc' = [pc EXCEPT ![<<e.id, e.attempt>>] = "claimed"]
    BY DEF DispatchClaim
<1> DEFINE t == <<e.id, e.attempt>>
           c == e.id
<1>3. e \in queue /\ c \in Calls /\ e.attempt \in Attempts /\ t \in Tasks
    BY <1>1, EligibleIsTask
<1>4. UNCHANGED <<placing, store>> /\ running < Cap
    BY DEF DispatchClaim, placeVars, FreeSlot
<1>5. /\ \A u \in Tasks : pc'[u] = IF u = t THEN "claimed" ELSE pc[u]
      /\ pc[t] = "none"
    BY <1>1, <1>2, <1>3, EngineAssumption DEF TypeOK, Exclusive, FreshEntries, Attempts
<1>6. DriverMapped /\ TriesMapped /\ DriverMapped' /\ TriesMapped'
    BY MappedNext
<1>7. PhaseOf(c) = "queued" /\ \A x \in Calls : PhaseOf(x)' = PhaseOf(x)
    BY <1>1, <1>3, <1>4, PhaseUnmoved DEF QueuedRecord, PhaseOf
<1>8. Tries(c) = e.attempt - 1
    BY <1>1, <1>3, <1>6, EngineAssumption DEF DialledInOrder, TriesMapped, Attempts
<1>9. DialledUpTo(c, e.attempt)'
    <2>1. pc'[t] \in Driving /\ t[1] = c /\ t[2] = e.attempt
        BY <1>3, <1>5 DEF Driving
    <2> QED
        BY <1>3, <2>1 DEF ServiceInv, RecordInv, DialledInOrder
<1>10. Tries(c)' = e.attempt
    BY <1>3, <1>6, <1>9, EngineAssumption DEF TriesMapped, Attempts
<1>11. DriverOf(c) = 0 /\ DriverOf(c)' = e.attempt
  <2>1. \A a \in Attempts : pc[<<c, a>>] \notin Driving
      BY <1>1, <1>3 DEF Exclusive, QueuedNotDriven, Tasks
  <2>2. pc'[<<c, e.attempt>>] \in Driving
      BY <1>3, <1>5 DEF Driving
  <2> QED
      BY <1>3, <1>6, <2>1, <2>2 DEF DriverMapped
<1>12. ASSUME NEW x \in Calls \ {c}
       PROVE  Tries(x)' = Tries(x) /\ DriverOf(x)' = DriverOf(x)
  <2>1. \A a \in Attempts : pc'[<<x, a>>] = pc[<<x, a>>]
      BY <1>5 DEF Tasks
  <2> QED
      BY <1>6, <2>1, TriesUnmoved, DriverUnmoved
<1>13. Tries(c) < MaxAttempts /\ Tries(c) + 1 = e.attempt
    BY <1>3, <1>8, EngineAssumption DEF Attempts
<1>14. SlotHolders' = SlotHolders \cup {<<c, Tries(c) + 1>>}
    BY <1>3, <1>5, <1>13 DEF SlotHolders, Holding, Driving
<1>15. Service!Cardinality(SlotHolders) < Cap
    BY <1>1, <1>4, SameCardinality DEF SlotsCounted
<1> HIDE DEF c, t
<1>16. /\ [x \in Calls |-> Tries(x)]' = [[x \in Calls |-> Tries(x)] EXCEPT ![c] = @ + 1]
       /\ [x \in Calls |-> DriverOf(x)]' = [[x \in Calls |-> DriverOf(x)] EXCEPT ![c] = Tries(c) + 1]
       /\ [x \in Calls |-> PhaseOf(x)]' = [x \in Calls |-> PhaseOf(x)]
    BY <1>3, <1>7, <1>10, <1>11, <1>12, <1>13
<1>17. Service!Dial(c)
    BY <1>3, <1>7, <1>11, <1>13, <1>14, <1>15, <1>16 DEF Service!Dial
<1> QED
    BY <1>3, <1>17

(* set_state by a driver: one phase changes, nothing else.                 *)
OnlyPhaseMoves(c, from, to) ==
    /\ DriverOf(c) # 0
    /\ PhaseOf(c) = from
    /\ [x \in Calls |-> PhaseOf(x)]' = [[x \in Calls |-> PhaseOf(x)] EXCEPT ![c] = to]
    /\ [x \in Calls |-> Tries(x)]' = [x \in Calls |-> Tries(x)]
    /\ [x \in Calls |-> DriverOf(x)]' = [x \in Calls |-> DriverOf(x)]
    /\ SlotHolders' = SlotHolders

LEMMA DriverMovesPhase ==
    ASSUME ServiceInv, ServiceInv', NEW t \in Tasks, NEW point \in Driving,
           pc[t] \in Driving, pc' = [pc EXCEPT ![t] = point],
           store' = SetState(store, t[1], StateAt(point)), placing' = placing
    PROVE  /\ t[1] \in Calls /\ Tries(t[1]) = t[2]
           /\ OnlyPhaseMoves(t[1], StateAt(pc[t]), StateAt(point))
<1>1. TypeOK /\ DialledInOrder /\ DrivenRecord
    BY DEF ServiceInv, EngineInv, TypeInv, RecordInv
<1>2. DriverMapped /\ TriesMapped /\ DriverMapped' /\ TriesMapped'
    BY MappedNext
<1>3. t[1] \in Calls /\ t[2] \in Attempts /\ t = <<t[1], t[2]>>
    BY DEF Tasks
<1>4. DriverOf(t[1]) # 0
    BY <1>2, <1>3, EngineAssumption DEF DriverMapped, Attempts
<1>5. Tries(t[1]) = t[2]
    BY <1>1, <1>2, <1>3, EngineAssumption DEF DialledInOrder, TriesMapped, Attempts
<1>6. \A u \in Tasks : pc'[u] = IF u = t THEN point ELSE pc[u]
    BY <1>1 DEF TypeOK
<1>7. store[t[1]].state = StateAt(pc[t]) /\ StateAt(pc[t]) # "absent"
      /\ StateAt(point) \in CallStates /\ StateAt(point) # "absent"
    BY <1>1 DEF DrivenRecord, StateAt, CallStates
<1>8. /\ store'[t[1]].state = StateAt(point)
      /\ \A x \in Calls \ {t[1]} : store'[x] = store[x]
    BY <1>1, <1>3, <1>7, SetStateStates
<1>9. PhaseOf(t[1]) = StateAt(pc[t]) /\ PhaseOf(t[1])' = StateAt(point)
    BY <1>7, <1>8 DEF PhaseOf
<1>10. \A x \in Calls \ {t[1]} : PhaseOf(x)' = PhaseOf(x)
    BY <1>8, PhaseUnmoved
<1>11. ASSUME NEW x \in Calls PROVE Tries(x)' = Tries(x) /\ DriverOf(x)' = DriverOf(x)
  <2>1. \A a \in Attempts : /\ pc'[<<x, a>>] = "none" <=> pc[<<x, a>>] = "none"
                            /\ pc'[<<x, a>>] \in Driving <=> pc[<<x, a>>] \in Driving
      BY <1>6 DEF Tasks, Driving
  <2> QED
      BY <1>2, <2>1, TriesUnmoved, DriverUnmoved
<1>12. SlotHolders' = SlotHolders
    BY <1>6 DEF SlotHolders, Holding
<1> QED
    BY <1>3, <1>4, <1>5, <1>9, <1>10, <1>11, <1>12 DEF OnlyPhaseMoves

LEMMA RingImplemented ==
    ASSUME ServiceInv, ServiceInv', DispatchSpawn
    PROVE  \E c \in Calls : Service!Ring(c)
<1>1. PICK t \in Tasks :
          /\ pc[t] = "claimed"
          /\ store' = SetState(store, t[1], "ringing")
          /\ pc' = [pc EXCEPT ![t] = IF NetCheck THEN "preflight" ELSE "invite"]
    BY DEF DispatchSpawn
<1> DEFINE point == IF NetCheck THEN "preflight" ELSE "invite"
<1>2. /\ point \in Driving /\ StateAt(point) = "ringing"
      /\ pc[t] \in Driving /\ StateAt(pc[t]) = "queued"
    BY <1>1 DEF Driving, StateAt
<1>3. placing' = placing /\ pc' = [pc EXCEPT ![t] = point]
    BY <1>1 DEF DispatchSpawn, placeVars
<1> HIDE DEF point
<1>4. t[1] \in Calls /\ OnlyPhaseMoves(t[1], "queued", "ringing")
    BY <1>1, <1>2, <1>3, DriverMovesPhase
<1> QED
    BY <1>4 DEF OnlyPhaseMoves, Service!Ring

LEMMA AnswerImplemented ==
    ASSUME ServiceInv, ServiceInv', NEW t \in Tasks, Answered(t)
    PROVE  Service!Answer(t[1])
<1>1. /\ pc[t] \in Driving /\ StateAt(pc[t]) = "ringing"
      /\ "live" \in Driving /\ StateAt("live") = "in_progress"
    BY DEF Answered, Driving, StateAt
<1>2. /\ store' = SetState(store, t[1], StateAt("live"))
      /\ placing' = placing /\ pc' = [pc EXCEPT ![t] = "live"]
    BY <1>1 DEF Answered, placeVars, Goto
<1>3. t[1] \in Calls /\ OnlyPhaseMoves(t[1], "ringing", "in_progress")
    BY <1>1, <1>2, DriverMovesPhase
<1> QED
    BY <1>3 DEF OnlyPhaseMoves, Service!Answer

LEMMA SendBackImplemented ==
    ASSUME ServiceInv, ServiceInv', NEW t \in Tasks, RequeueMark(t)
    PROVE  Service!SendBack(t[1])
<1>1. /\ pc[t] \in Driving /\ StateAt(pc[t]) = "ringing"
      /\ "requeue" \in Driving /\ StateAt("requeue") = "queued"
    BY DEF RequeueMark, Driving, StateAt
<1>2. /\ store' = SetState(store, t[1], StateAt("requeue"))
      /\ placing' = placing /\ pc' = [pc EXCEPT ![t] = "requeue"]
      /\ t[2] < MaxAttempts
    BY <1>1 DEF RequeueMark, Goto, ShouldRetryBusy
<1>3. t[1] \in Calls /\ OnlyPhaseMoves(t[1], "ringing", "queued") /\ Tries(t[1]) < MaxAttempts
    BY <1>1, <1>2, DriverMovesPhase
<1> QED
    BY <1>3 DEF OnlyPhaseMoves, Service!SendBack

(* A driver that stops driving: no driver, the same tries and channels.    *)
LEMMA DriverStops ==
    ASSUME ServiceInv, ServiceInv', NEW t \in Tasks,
           NEW point \in {"requeued", "guard", "persist"},
           pc[t] \in Driving, pc' = [pc EXCEPT ![t] = point]
    PROVE  /\ t[1] \in Calls /\ DriverOf(t[1]) # 0
           /\ [x \in Calls |-> Tries(x)]' = [x \in Calls |-> Tries(x)]
           /\ [x \in Calls |-> DriverOf(x)]' = [[x \in Calls |-> DriverOf(x)] EXCEPT ![t[1]] = 0]
           /\ SlotHolders' = SlotHolders
<1>1. TypeOK /\ Exclusive
    BY DEF ServiceInv, EngineInv, TypeInv
<1>2. DriverMapped /\ DriverMapped'
    BY MappedNext
<1>3. /\ t[1] \in Calls /\ t[2] \in Attempts /\ t = <<t[1], t[2]>>
      /\ \A u \in Tasks : u[1] = t[1] /\ pc[u] \in Driving => u = t
    BY <1>1, DriverAlone
<1>4. DriverOf(t[1]) # 0
    BY <1>2, <1>3, EngineAssumption DEF DriverMapped, Attempts
<1>5. \A u \in Tasks : pc'[u] = IF u = t THEN point ELSE pc[u]
    BY <1>1 DEF TypeOK
<1>6. DriverOf(t[1])' = 0
  <2>1. \A a \in Attempts : pc'[<<t[1], a>>] \notin Driving
      BY <1>3, <1>5 DEF Tasks, Driving
  <2> QED
      BY <1>2, <1>3, <2>1 DEF DriverMapped
<1>7. ASSUME NEW x \in Calls \ {t[1]} PROVE DriverOf(x)' = DriverOf(x)
  <2>1. \A a \in Attempts : pc'[<<x, a>>] = pc[<<x, a>>]
      BY <1>5 DEF Tasks
  <2> QED
      BY <1>2, <2>1, DriverUnmoved
<1>8. ASSUME NEW x \in Calls PROVE Tries(x)' = Tries(x)
  <2>1. \A a \in Attempts : pc'[<<x, a>>] = "none" <=> pc[<<x, a>>] = "none"
      BY <1>5 DEF Tasks, Driving
  <2> QED
      BY <2>1, TriesUnmoved
<1>9. SlotHolders' = SlotHolders
    BY <1>5 DEF SlotHolders, Holding
<1> QED
    BY <1>3, <1>4, <1>6, <1>7, <1>8, <1>9

LEMMA HandOverImplemented ==
    ASSUME ServiceInv, ServiceInv', NEW t \in Tasks, RequeuePush(t)
    PROVE  Service!HandOver(t[1])
<1>1. pc[t] \in Driving /\ StateAt(pc[t]) = "queued" /\ pc' = [pc EXCEPT ![t] = "requeued"]
    BY DEF RequeuePush, Driving, StateAt, Goto
<1>2. UNCHANGED <<store, placing>> /\ t[1] \in Calls
    BY DEF RequeuePush, Tasks
<1>3. PhaseOf(t[1]) = "queued"
    BY <1>1 DEF ServiceInv, RecordInv, DrivenRecord, PhaseOf
<1>4. \A x \in Calls : PhaseOf(x)' = PhaseOf(x)
    BY <1>2, PhaseUnmoved
<1> QED
    BY <1>1, <1>2, <1>3, <1>4, DriverStops DEF Service!HandOver

LEMMA AbandonImplemented ==
    ASSUME ServiceInv, ServiceInv', NEW t \in Tasks, Panic(t)
    PROVE  Service!Abandon(t[1])
<1>1. pc[t] \in Driving /\ pc' = [pc EXCEPT ![t] = "guard"]
    BY DEF Panic, Goto
<1>2. UNCHANGED <<store, placing>>
    BY DEF Panic, coreVars, placeVars
<1>3. \A x \in Calls : PhaseOf(x)' = PhaseOf(x)
    BY <1>2, PhaseUnmoved
<1> QED
    BY <1>1, <1>3, DriverStops DEF Service!Abandon

(* finalize: the call ends, and eviction forgets ended calls only.         *)
LEMMA FinalizeImplementsEnd ==
    ASSUME ServiceInv, ServiceInv', NEW c \in Calls, NEW d \in Dispositions,
           Finalize(c, d), placing' = placing,
           store[c].state \in {"queued", "ringing", "in_progress"},
           [x \in Calls |-> Tries(x)]' = [x \in Calls |-> Tries(x)],
           [x \in Calls |-> DriverOf(x)]' = [[x \in Calls |-> DriverOf(x)] EXCEPT ![c] = 0],
           SlotHolders' = SlotHolders
    PROVE  Service!End(c)
<1> DEFINE phase == [x \in Calls |-> PhaseOf(x)]
           gone == {x \in Calls : store[x].state # "absent" /\ store'[x].state = "absent"}
<1>1. TypeOK /\ FreshRecord
    BY DEF ServiceInv, EngineInv, TypeInv, RecordInv
<1>2. /\ store'[c].state \in {"ended", "absent"}
      /\ \A x \in Calls \ {c} : StateKept(x)
    BY <1>1, FinalizeStates
<1>3. \A x \in Calls : store[x].state # "absent" => placing[x] # "new"
    BY <1>1 DEF FreshRecord
<1>4. phase[c] \in {"queued", "ringing", "in_progress"}
    BY DEF PhaseOf
<1>5. gone \in SUBSET ({c} \cup {x \in Calls : phase[x] = "ended"})
    BY <1>2 DEF StateKept, PhaseOf
<1>6. phase' = [x \in Calls |-> IF x \in gone THEN "forgotten"
                                ELSE IF x = c THEN "ended" ELSE phase[x]]
    BY <1>2, <1>3 DEF StateKept, PhaseOf
<1> QED
    BY <1>4, <1>5, <1>6 DEF Service!End

LEMMA DriverEndImplemented ==
    ASSUME ServiceInv, ServiceInv', NEW t \in Tasks, NEW d \in Dispositions,
           NEW point \in {"guard", "persist"}, pc[t] \in Driving,
           Finalize(t[1], d), pc' = [pc EXCEPT ![t] = point], placing' = placing
    PROVE  t[1] \in Calls /\ Service!End(t[1])
<1>1. store[t[1]].state \in {"queued", "ringing", "in_progress"}
    BY DEF ServiceInv, RecordInv, DrivenRecord, StateAt
<1> QED
    BY <1>1, DriverStops, FinalizeImplementsEnd

LEMMA EndCallImplemented ==
    ASSUME ServiceInv, ServiceInv', NEW c \in Calls, EndPendingFinalize(c)
    PROVE  Service!End(c)
<1>1. PICK d \in Dispositions : Finalize(c, d)
    BY ResolveType DEF EndPendingFinalize
<1>2. c \in cancelling /\ UNCHANGED <<pc, placing>>
    BY DEF EndPendingFinalize, taskVars, placeVars
<1>3. store[c].state = "queued"
    BY <1>2 DEF ServiceInv, RecordInv, QueuedRecord
<1>4. DriverMapped /\ DriverMapped'
    BY MappedNext
<1>5. \A x \in Calls : Tries(x)' = Tries(x) /\ DriverOf(x)' = DriverOf(x)
    BY <1>2, <1>4, TriesUnmoved, DriverUnmoved
<1>6. DriverOf(c) = 0
  <2>1. \A a \in Attempts : pc[<<c, a>>] \notin Driving
      BY <1>2 DEF ServiceInv, EngineInv, Exclusive, CancellingAlone, Tasks
  <2> QED
      BY <1>4, <2>1 DEF DriverMapped
<1>7. SlotHolders' = SlotHolders
    BY <1>2 DEF SlotHolders
<1> QED
    BY <1>1, <1>2, <1>3, <1>5, <1>6, <1>7, FinalizeImplementsEnd

LEMMA ReleaseImplemented ==
    ASSUME ServiceInv, ServiceInv', NEW t \in Tasks, DropRunningGuard(t)
    PROVE  Service!Release(t[1], t[2])
<1>1. TypeOK /\ DriverMapped /\ DriverMapped'
    BY MappedNext DEF ServiceInv, EngineInv, TypeInv
<1>2. t[1] \in Calls /\ t[2] \in Attempts /\ t = <<t[1], t[2]>>
    BY DEF Tasks
<1>3. pc[t] = "slot" /\ UNCHANGED <<store, placing>>
    BY DEF DropRunningGuard, placeVars
<1>4. \A u \in Tasks : pc'[u] = IF u = t THEN "released" ELSE pc[u]
    BY <1>1 DEF DropRunningGuard, Goto, TypeOK
<1>5. \A x \in Calls : PhaseOf(x)' = PhaseOf(x)
    BY <1>3, PhaseUnmoved
<1>6. ASSUME NEW x \in Calls PROVE Tries(x)' = Tries(x) /\ DriverOf(x)' = DriverOf(x)
  <2>1. \A a \in Attempts : /\ pc'[<<x, a>>] = "none" <=> pc[<<x, a>>] = "none"
                            /\ pc'[<<x, a>>] \in Driving <=> pc[<<x, a>>] \in Driving
      BY <1>3, <1>4 DEF Tasks, Driving
  <2> QED
      BY <1>1, <2>1, TriesUnmoved, DriverUnmoved
<1>7. t \in SlotHolders /\ SlotHolders' = SlotHolders \ {t}
    BY <1>3, <1>4 DEF SlotHolders, Holding, Driving
<1>8. DriverOf(t[1]) # t[2]
    BY <1>1, <1>2, <1>3 DEF DriverMapped, Driving
<1> QED
    BY <1>2, <1>5, <1>6, <1>7, <1>8 DEF Service!Release

-----------------------------------------------------------------------------
ServiceStep == Service!ServiceNext \/ UNCHANGED Service!svars

LEMMA CallerImplements ==
    ASSUME ServiceInv, ServiceInv', NEW c \in Calls, Producer(c) \/ EndCall(c)
    PROVE  ServiceStep
<1> USE DEF coreVars, countVars, placeVars, dispVars, taskVars, histVars
<1>1. CASE PlaceInsert(c)
    BY <1>1, PlaceImplemented DEF ServiceStep, Service!ServiceNext
<1>2. CASE PlacePush(c) \/ PlaceNotify(c)
  <2>1. \A x \in Calls : placing'[x] = "new" <=> placing[x] = "new"
      BY <1>2 DEF PlacePush, PlaceNotify, ServiceInv, EngineInv, TypeInv, TypeOK
  <2>2. UNCHANGED <<pc, store>>
      BY <1>2 DEF PlacePush, PlaceNotify
  <2> QED
      BY <2>1, <2>2, IdleStutters DEF ServiceStep
<1>3. CASE EndPending(c) \/ EndDispatched(c)
    BY <1>3, IdleStutters DEF EndPending, EndDispatched, ServiceStep
<1>4. CASE EndPendingFinalize(c)
    BY <1>4, EndCallImplemented DEF ServiceStep, Service!ServiceNext
<1> QED
    BY <1>1, <1>2, <1>3, <1>4 DEF Producer, EndCall

LEMMA DispatcherImplements ==
    ASSUME ServiceInv, ServiceInv', Dispatcher
    PROVE  ServiceStep
<1> USE DEF coreVars, countVars, placeVars, taskVars, histVars
<1>1. CASE DispatchClaim
    BY <1>1, DialImplemented DEF ServiceStep, Service!ServiceNext
<1>2. CASE DispatchSpawn
    BY <1>2, RingImplemented DEF ServiceStep, Service!ServiceNext
<1>3. CASE DispatchMark \/ DispatchBreak \/ DispatchPark \/ DispatchWoken
    BY <1>3, IdleStutters
       DEF DispatchMark, DispatchBreak, DispatchPark, DispatchWoken, ServiceStep
<1> QED
    BY <1>1, <1>2, <1>3 DEF Dispatcher

LEMMA TaskImplements ==
    ASSUME ServiceInv, ServiceInv', NEW t \in Tasks, RunCall(t) \/ Panic(t)
    PROVE  ServiceStep
<1> USE DEF coreVars, countVars, placeVars, dispVars, taskVars, histVars, Goto
<1>1. t[1] \in Calls /\ t[2] \in 1..MaxAttempts
    BY DEF Tasks, Attempts
<1>2. CASE PreflightCancelled(t) \/ DialFailed(t) \/ RingTerminated(t)
  <2>1. PICK d \in Dispositions : Finalize(t[1], d)
      BY <1>2, ResolveType DEF PreflightCancelled, DialFailed, RingTerminated
  <2>2. pc[t] \in Driving /\ pc' = [pc EXCEPT ![t] = "guard"] /\ placing' = placing
      BY <1>2 DEF PreflightCancelled, DialFailed, RingTerminated, Driving
  <2>3. Service!End(t[1])
      BY <2>1, <2>2, DriverEndImplemented
  <2> QED
      BY <1>1, <2>3 DEF ServiceStep, Service!ServiceNext
<1>3. CASE LiveFinalize(t)
  <2>1. PICK d \in Dispositions : Finalize(t[1], d)
      BY <1>3, ResolveType DEF LiveFinalize
  <2>2. pc[t] \in Driving /\ pc' = [pc EXCEPT ![t] = "persist"] /\ placing' = placing
      BY <1>3 DEF LiveFinalize, Driving
  <2>3. Service!End(t[1])
      BY <2>1, <2>2, DriverEndImplemented
  <2> QED
      BY <1>1, <2>3 DEF ServiceStep, Service!ServiceNext
<1>4. CASE \/ PreflightUsable(t) \/ PreflightUnusable(t) \/ InviteSent(t)
           \/ LiveCancelled(t) \/ LiveOver(t)
  <2>1. PICK point \in {"invite", "unusable", "ringing", "cancelled", "over"} :
            pc' = [pc EXCEPT ![t] = point]
      BY <1>4 DEF PreflightUsable, PreflightUnusable, InviteSent, LiveCancelled, LiveOver
  <2>2. pc[t] \in Driving /\ UNCHANGED <<store, placing>>
      BY <1>4 DEF PreflightUsable, PreflightUnusable, InviteSent, LiveCancelled, LiveOver,
                  Driving
  <2>3. /\ point \in TaskPoints /\ (point = "none" <=> pc[t] = "none")
        /\ (point \in Driving <=> pc[t] \in Driving)
        /\ (point \in Holding <=> pc[t] \in Holding)
      BY <2>2 DEF TaskPoints, Driving, Holding
  <2> QED
      BY <2>1, <2>2, <2>3, TaskStutters DEF ServiceStep
<1>5. CASE \/ RequeueNotify(t) \/ LivePersist(t) \/ DropCancelGuard(t)
           \/ NotifyReleased(t)
  <2>1. PICK point \in {"guard", "slot", "done"} :
            /\ pc' = [pc EXCEPT ![t] = point]
            /\ point = "done" <=> pc[t] = "released"
      BY <1>5 DEF RequeueNotify, LivePersist, DropCancelGuard, NotifyReleased
  <2>2. pc[t] \in {"requeued", "persist", "guard", "released"} /\ UNCHANGED <<store, placing>>
      BY <1>5 DEF RequeueNotify, LivePersist, DropCancelGuard, NotifyReleased
  <2>3. /\ point \in TaskPoints /\ (point = "none" <=> pc[t] = "none")
        /\ (point \in Driving <=> pc[t] \in Driving)
        /\ (point \in Holding <=> pc[t] \in Holding)
      BY <2>1, <2>2 DEF TaskPoints, Driving, Holding
  <2> QED
      BY <2>1, <2>2, <2>3, TaskStutters DEF ServiceStep
<1>6. CASE RequeueMark(t)
    BY <1>1, <1>6, SendBackImplemented DEF ServiceStep, Service!ServiceNext
<1>7. CASE Answered(t)
    BY <1>1, <1>7, AnswerImplemented DEF ServiceStep, Service!ServiceNext
<1>8. CASE RequeuePush(t)
    BY <1>1, <1>8, HandOverImplemented DEF ServiceStep, Service!ServiceNext
<1>9. CASE Panic(t)
    BY <1>1, <1>9, AbandonImplemented DEF ServiceStep, Service!ServiceNext
<1>10. CASE DropRunningGuard(t)
    BY <1>1, <1>10, ReleaseImplemented DEF ServiceStep, Service!ServiceNext
<1> QED
    BY <1>2, <1>3, <1>4, <1>5, <1>6, <1>7, <1>8, <1>9, <1>10 DEF RunCall

LEMMA NextImplements ==
    ServiceInv /\ ServiceInv' /\ [Next]_vars => [Service!ServiceNext]_(Service!svars)
<1> SUFFICES ASSUME ServiceInv, ServiceInv', [Next]_vars PROVE ServiceStep
    BY DEF ServiceStep
<1>1. CASE Tick \/ UNCHANGED vars
    BY <1>1, IdleStutters
       DEF Tick, vars, coreVars, countVars, placeVars, dispVars, taskVars, histVars, ServiceStep
<1> QED
    BY <1>1, CallerImplements, DispatcherImplements, TaskImplements DEF Next

LEMMA InitImplements == Init => Service!ServiceInit
<1> SUFFICES ASSUME Init PROVE Service!ServiceInit
    OBVIOUS
<1>1. /\ \A t \in Tasks : pc[t] = "none"
      /\ \A c \in Calls, a \in Attempts : <<c, a>> \in Tasks
    BY DEF Init, Tasks
<1>2. \A c \in Calls : PhaseOf(c) = "unknown"
    BY DEF Init, PhaseOf, NoRecord
<1>3. \A c \in Calls : DriverOf(c) = 0
    BY <1>1 DEF DriverOf, Driving
<1>4. ASSUME NEW c \in Calls PROVE Tries(c) = 0
  <2>1. {a \in Attempts : pc[<<c, a>>] # "none"} = {}
      BY <1>1
  <2> QED
      BY <2>1, FS_EmptySet DEF Tries
<1>5. SlotHolders = {}
    BY <1>1 DEF SlotHolders, Holding, Driving
<1> QED
    BY <1>2, <1>3, <1>4, <1>5 DEF Service!ServiceInit

(* The engine implements the service: at most Cap attempts hold a channel, *)
(* a call is dialled at most MaxAttempts times and never twice at once, it *)
(* is answered at most once, goes back to the queue only unanswered, and   *)
(* once it has ended it is over for good.                                  *)
THEOREM EngineImplementsService == Spec => ImplementsService
<1>1. Init => ServiceInv
    BY InitEngineInv, InitRecordInv DEF ServiceInv
<1>2. ServiceInv /\ [Next]_vars => ServiceInv'
    BY NextKeepsEngineInv, NextKeepsRecordInv DEF ServiceInv
<1> QED
    BY <1>1, <1>2, InitImplements, NextImplements, PTL
       DEF Spec, ImplementsService, Service!ServiceSpec

-----------------------------------------------------------------------------
(* The bounded history.  A call that is over stays over: CallService has   *)
(* no step that leaves "ended" or "forgotten", and the engine implements   *)
(* it.  So the calls that are over only grow, and a record is evicted only *)
(* when there are more of them than the history keeps.                     *)
OverCalls == {c \in Calls : Over(c)}
PlacedCalls == {c \in Calls : placing[c] # "new"}

HistoryOverflows == MaxHistory # 0 /\ Cardinality(OverCalls) > MaxHistory

HistoryInv ==
    /\ IsFiniteSet(PlacedCalls)
    /\ \A t \in Tasks :
          pc[t] = "persist" /\ store[t[1]].state = "absent" => HistoryOverflows

OverMapped == \A c \in Calls : Over(c) <=> PhaseOf(c) \in {"ended", "forgotten"}

LEMMA OverIsMapped == ServiceInv => OverMapped
<1> SUFFICES ASSUME ServiceInv PROVE OverMapped
    OBVIOUS
<1>1. \A c \in Calls : /\ placing[c] = "new" => store[c].state = "absent"
                       /\ store[c].state \in CallStates
    BY DEF ServiceInv, RecordInv, FreshRecord, EngineInv, TypeInv, TypeOK, Record
<1> QED
    BY <1>1 DEF OverMapped, Over, PhaseOf, CallStates

LEMMA OverIsFinal ==
    ASSUME ServiceInv, ServiceInv', [Next]_vars
    PROVE  OverCalls \subseteq OverCalls'
<1> DEFINE phase == [c \in Calls |-> PhaseOf(c)]
<1>1. ServiceStep
    BY NextImplements DEF ServiceStep
<1>2. \A c \in Calls : phase[c] \in {"ended", "forgotten"} =>
                         phase'[c] \in {"ended", "forgotten"}
    BY <1>1 DEF ServiceStep, Service!ServiceNext, Service!svars, Service!Place,
                Service!Dial, Service!Ring, Service!Answer, Service!SendBack,
                Service!HandOver, Service!End, Service!Abandon, Service!Release
<1>3. \A c \in Calls : PhaseOf(c) \in {"ended", "forgotten"} =>
                         PhaseOf(c)' \in {"ended", "forgotten"}
    BY <1>2
<1>4. OverMapped /\ OverMapped'
  <2>1. ServiceInv' => OverMapped'
      BY OverIsMapped, PTL
  <2> QED
      BY <2>1, OverIsMapped
<1> QED
    BY <1>3, <1>4 DEF OverMapped, OverCalls

(* How a step can change the store.                                        *)
StoreStep ==
    \/ UNCHANGED <<store, placing>>
    \/ store' = store /\ \E c \in Calls : \E p \in {"pushed", "placed"} :
          placing[c] # "new" /\ placing' = [placing EXCEPT ![c] = p]
    \/ \E c \in Calls : PlaceInsert(c)
    \/ \E c \in Calls, st \in CallStates \ {"absent"} :
          store' = SetState(store, c, st) /\ placing' = placing
    \/ \E c \in Calls, d \in Dispositions :
          Finalize(c, d) /\ placing[c] # "new" /\ placing' = placing

LEMMA NextStoreStep ==
    ASSUME ServiceInv, [Next]_vars
    PROVE  StoreStep
<1> USE DEF coreVars, countVars, placeVars, dispVars, taskVars, histVars
<1>1. TypeOK /\ Exclusive
    BY DEF ServiceInv, EngineInv, TypeInv
<1>2. CASE Tick \/ UNCHANGED vars
    BY <1>2 DEF Tick, vars, StoreStep
<1>3. ASSUME NEW c \in Calls, Producer(c) \/ EndCall(c) PROVE StoreStep
  <2>1. CASE EndPendingFinalize(c)
    <3>1. Resolve(TRUE, None, None, PendingShape) \in Dispositions
        BY ResolveType DEF PendingShape, CallShape
    <3>2. placing[c] # "new"
        BY <1>1, <2>1 DEF EndPendingFinalize, Exclusive, NotYetQueued
    <3> QED
        BY <2>1, <3>1, <3>2 DEF EndPendingFinalize, StoreStep
  <2>2. CASE Producer(c) \/ EndPending(c) \/ EndDispatched(c)
      BY <2>2 DEF Producer, PlacePush, PlaceNotify, EndPending, EndDispatched, StoreStep
  <2> QED
      BY <1>3, <2>1, <2>2 DEF EndCall
<1>4. CASE Dispatcher
    BY <1>4 DEF Dispatcher, DispatchClaim, DispatchMark, DispatchSpawn, DispatchBreak,
                DispatchPark, DispatchWoken, StoreStep, Tasks, CallStates
<1>5. ASSUME NEW t \in Tasks, RunCall(t) \/ Panic(t) PROVE StoreStep
  <2>1. t[1] \in Calls
      BY DEF Tasks
  <2>2. ASSUME NEW d \in Dispositions, Finalize(t[1], d), pc[t] \in Driving,
               placing' = placing
        PROVE  StoreStep
    <3>1. placing[t[1]] # "new"
        BY <1>1, <2>2, DriverAlone
    <3> QED
        BY <2>1, <2>2, <3>1 DEF StoreStep
  <2>3. CASE PreflightCancelled(t) \/ DialFailed(t) \/ RingTerminated(t) \/ LiveFinalize(t)
      BY <2>2, <2>3, ResolveType
         DEF PreflightCancelled, DialFailed, RingTerminated, LiveFinalize, Driving
  <2>4. CASE RequeueMark(t) \/ Answered(t)
      BY <2>1, <2>4 DEF RequeueMark, Answered, StoreStep, CallStates
  <2>5. CASE \/ PreflightUsable(t) \/ PreflightUnusable(t) \/ InviteSent(t)
             \/ RequeuePush(t) \/ RequeueNotify(t) \/ LiveCancelled(t) \/ LiveOver(t)
             \/ LivePersist(t) \/ DropCancelGuard(t) \/ DropRunningGuard(t)
             \/ NotifyReleased(t) \/ Panic(t)
      BY <2>5 DEF PreflightUsable, PreflightUnusable, InviteSent, RequeuePush,
                  RequeueNotify, LiveCancelled, LiveOver, LivePersist, DropCancelGuard,
                  DropRunningGuard, NotifyReleased, Panic, StoreStep
  <2> QED
      BY <1>5, <2>3, <2>4, <2>5 DEF RunCall
<1> QED
    BY <1>2, <1>3, <1>4, <1>5 DEF Next

(* Only a placement adds to the placed calls, and it adds one.             *)
LEMMA PlacedStayFinite ==
    ASSUME ServiceInv, IsFiniteSet(PlacedCalls), StoreStep
    PROVE  IsFiniteSet(PlacedCalls')
<1>1. TypeOK
    BY DEF ServiceInv, EngineInv, TypeInv
<1>2. CASE \E c \in Calls : PlaceInsert(c)
  <2>1. PICK c \in Calls : PlaceInsert(c)
      BY <1>2
  <2>2. PlacedCalls' = PlacedCalls \cup {c}
      BY <1>1, <2>1 DEF PlaceInsert, PlacedCalls, TypeOK
  <2> QED
      BY <2>2, FS_AddElement
<1>3. CASE ~ \E c \in Calls : PlaceInsert(c)
  <2>1. PlacedCalls' = PlacedCalls
      BY <1>1, <1>3 DEF StoreStep, PlacedCalls, TypeOK
  <2> QED
      BY <2>1
<1> QED
    BY <1>2, <1>3

(* An evicted record has MaxHistory newer ones that have ended.            *)
LEMMA EvictionOverflows ==
    ASSUME ServiceInv, IsFiniteSet(PlacedCalls), NEW c \in Calls, NEW d \in Dispositions,
           Finalize(c, d), placing[c] # "new", placing' = placing,
           NEW x \in Calls, store[x].state # "absent", store'[x].state = "absent"
    PROVE  HistoryOverflows'
<1> DEFINE ended == RecordEnd(store, c, d)
           newer == {y \in EndedCalls(ended) : y > x}
<1>1. /\ TypeOK
      /\ \A y \in Calls : placing[y] = "new" => store[y].state = "absent"
    BY DEF ServiceInv, RecordInv, FreshRecord, EngineInv, TypeInv
<1>2. \A y \in Calls : ended[y].state = "ended" =>
          placing[y] # "new" /\ (store[y].state = "ended" \/ y = c)
    BY <1>1 DEF RecordEnd, TypeOK
<1>3. \A y \in Calls : store'[y] = IF y \in Evicted(ended) THEN NoRecord ELSE ended[y]
    BY DEF Finalize, Evict
<1>4. ended[x].state # "absent"
    BY <1>1 DEF RecordEnd, TypeOK, Record
<1>5. x \in Evicted(ended)
    BY <1>3, <1>4
<1>6. MaxHistory # 0 /\ x \in EndedCalls(ended) /\ Cardinality(newer) >= MaxHistory
    BY <1>5 DEF Evicted
<1>7. newer \cup {x} \subseteq OverCalls'
  <2>1. \A y \in EndedCalls(ended) : y \in Calls /\ ended[y].state = "ended"
      BY DEF EndedCalls
  <2>2. \A y \in EndedCalls(ended) :
            placing'[y] # "new" /\ store'[y].state \in {"ended", "absent"}
      BY <1>2, <1>3, <2>1 DEF NoRecord
  <2> QED
      BY <1>6, <2>1, <2>2 DEF OverCalls, Over
<1> HIDE DEF ended
<1>8. IsFiniteSet(OverCalls')
  <2>1. OverCalls' \subseteq PlacedCalls
      BY DEF OverCalls, PlacedCalls, Over
  <2> QED
      BY <2>1, FS_Subset
<1>9. x \in Nat /\ x \notin newer
    BY KeyAssumption
<1>10. Cardinality(newer \cup {x}) = Cardinality(newer) + 1
  <2>1. IsFiniteSet(newer)
      BY <1>7, <1>8, FS_Subset
  <2> QED
      BY <1>9, <2>1, FS_AddElement
<1> QED
  <2>1. Cardinality(newer \cup {x}) <= Cardinality(OverCalls')
      BY <1>7, <1>8, FS_Subset
  <2>2. Cardinality(OverCalls') \in Nat /\ Cardinality(newer) \in Nat /\ MaxHistory \in Nat
      BY <1>7, <1>8, FS_Subset, FS_CardinalityType, EngineAssumption
  <2> QED
      BY <1>6, <1>10, <2>1, <2>2 DEF HistoryOverflows

(* A record leaves the store only for an overflowing history.              *)
LEMMA LostToOverflow ==
    ASSUME ServiceInv, IsFiniteSet(PlacedCalls), StoreStep,
           NEW x \in Calls, store[x].state # "absent", store'[x].state = "absent"
    PROVE  HistoryOverflows'
<1>1. TypeOK
    BY DEF ServiceInv, EngineInv, TypeInv
<1>2. CASE \E c \in Calls : PlaceInsert(c)
    BY <1>1, <1>2 DEF PlaceInsert, TypeOK
<1>3. CASE \E c \in Calls, st \in CallStates \ {"absent"} : store' = SetState(store, c, st)
    BY <1>1, <1>3 DEF SetState, TypeOK, Record
<1>4. CASE \E c \in Calls, d \in Dispositions :
              Finalize(c, d) /\ placing[c] # "new" /\ placing' = placing
    BY <1>4, EvictionOverflows
<1> QED
    BY <1>2, <1>3, <1>4 DEF StoreStep

LEMMA OverflowIsFinal ==
    ASSUME HistoryOverflows, OverCalls \subseteq OverCalls', IsFiniteSet(PlacedCalls')
    PROVE  HistoryOverflows'
<1>1. OverCalls' \subseteq PlacedCalls'
    BY DEF OverCalls, PlacedCalls, Over
<1>2. IsFiniteSet(OverCalls') /\ IsFiniteSet(OverCalls)
      /\ Cardinality(OverCalls) <= Cardinality(OverCalls')
    BY <1>1, FS_Subset
<1>3. /\ Cardinality(OverCalls') \in Nat /\ Cardinality(OverCalls) \in Nat
      /\ MaxHistory \in Nat
    BY <1>2, FS_CardinalityType, EngineAssumption
<1> QED
    BY <1>2, <1>3 DEF HistoryOverflows

(* Only an answered call gets to its transcript, and it has its record.    *)
LEMMA PersistFollowsLive ==
    ASSUME ServiceInv, [Next]_vars, NEW t \in Tasks, pc[t] # "persist", pc'[t] = "persist"
    PROVE  store[t[1]].state = "in_progress"
<1> USE DEF coreVars, countVars, placeVars, dispVars, taskVars, histVars
<1>1. TypeOK /\ DrivenRecord
    BY DEF ServiceInv, EngineInv, TypeInv, RecordInv
<1>2. CASE \E u \in Tasks : LiveFinalize(u)
  <2>1. PICK u \in Tasks : LiveFinalize(u)
      BY <1>2
  <2>2. u = t /\ pc[t] \in {"cancelled", "over"}
      BY <1>1, <2>1 DEF LiveFinalize, Goto, TypeOK
  <2> QED
      BY <1>1, <2>2 DEF DrivenRecord, StateAt, Driving
<1>3. CASE ~ \E u \in Tasks : LiveFinalize(u)
  <2>1. ASSUME NEW u \in Tasks, RunCall(u) \/ Panic(u) PROVE FALSE
    <3>1. \E point \in TaskPoints \ {"persist"} : pc' = [pc EXCEPT ![u] = point]
        BY <1>3, <2>1
           DEF RunCall, Panic, PreflightCancelled, PreflightUsable, PreflightUnusable,
               DialFailed, InviteSent, RingTerminated, RequeueMark, RequeuePush,
               RequeueNotify, Answered, LiveCancelled, LiveOver, LivePersist,
               DropCancelGuard, DropRunningGuard, NotifyReleased, Goto, TaskPoints
    <3> QED
        BY <1>1, <3>1 DEF TypeOK
  <2>2. CASE Dispatcher
      BY <1>1, <2>2 DEF Dispatcher, DispatchClaim, DispatchMark, DispatchSpawn,
                        DispatchBreak, DispatchPark, DispatchWoken, TypeOK
  <2>3. CASE \E c \in Calls : Producer(c) \/ EndCall(c)
      BY <2>3 DEF Producer, PlaceInsert, PlacePush, PlaceNotify,
                  EndCall, EndPending, EndPendingFinalize, EndDispatched
  <2>4. CASE Tick \/ UNCHANGED vars
      BY <2>4 DEF Tick, vars
  <2> QED
      BY <2>1, <2>2, <2>3, <2>4 DEF Next
<1> QED
    BY <1>2, <1>3

LEMMA NextKeepsHistoryInv ==
    ServiceInv /\ ServiceInv' /\ HistoryInv /\ [Next]_vars => HistoryInv'
<1> SUFFICES ASSUME ServiceInv, ServiceInv', HistoryInv, [Next]_vars PROVE HistoryInv'
    OBVIOUS
<1>1. StoreStep /\ IsFiniteSet(PlacedCalls')
    BY NextStoreStep, PlacedStayFinite DEF HistoryInv
<1>2. ASSUME NEW t \in Tasks, pc'[t] = "persist", store'[t[1]].state = "absent"
      PROVE  HistoryOverflows'
  <2>1. t[1] \in Calls
      BY DEF Tasks
  <2>2. CASE store[t[1]].state # "absent"
      BY <1>1, <1>2, <2>1, <2>2, LostToOverflow DEF HistoryInv
  <2>3. CASE store[t[1]].state = "absent"
    <3>1. pc[t] = "persist"
        BY <1>2, <2>3, PersistFollowsLive DEF ServiceInv
    <3>2. HistoryOverflows
        BY <2>3, <3>1 DEF HistoryInv
    <3> QED
        BY <1>1, <3>2, OverIsFinal, OverflowIsFinal
  <2> QED
      BY <2>2, <2>3
<1> QED
    BY <1>1, <1>2 DEF HistoryInv

(* Once the record is finalized, run_call writes the transcript unless it  *)
(* finds the record evicted, and the invariant says when that can be.      *)
LEMMA PersistKeepsTranscript ==
    ASSUME ServiceInv, HistoryInv, [Next]_vars,
           NEW t \in Tasks, pc[t] = "persist", pc'[t] # "persist", t[1] \notin persisted'
    PROVE  HistoryOverflows
<1> USE DEF coreVars, countVars, placeVars, dispVars, taskVars, histVars
<1>1. TypeOK /\ t \in DOMAIN pc
    BY DEF ServiceInv, EngineInv, TypeInv, TypeOK
<1>2. CASE \E u \in Tasks : LivePersist(u)
  <2>1. LivePersist(t)
      BY <1>1, <1>2 DEF LivePersist, Goto, TypeOK
  <2>2. store[t[1]].state = "absent"
      BY <2>1 DEF LivePersist
  <2> QED
      BY <2>2 DEF HistoryInv
<1>3. CASE ~ \E u \in Tasks : LivePersist(u)
  <2>1. ASSUME NEW u \in Tasks, RunCall(u) \/ Panic(u) PROVE FALSE
    <3>1. pc[u] # "persist" /\ \E point \in TaskPoints : pc' = [pc EXCEPT ![u] = point]
        BY <1>3, <2>1
           DEF RunCall, Panic, PreflightCancelled, PreflightUsable, PreflightUnusable,
               DialFailed, InviteSent, RingTerminated, RequeueMark, RequeuePush,
               RequeueNotify, Answered, LiveCancelled, LiveOver, LiveFinalize,
               DropCancelGuard, DropRunningGuard, NotifyReleased, Goto, TaskPoints, Driving
    <3> QED
        BY <1>1, <3>1 DEF TypeOK
  <2>2. CASE Dispatcher
    <3>1. pc' = pc \/ DispatchClaim \/ DispatchSpawn
        BY <2>2 DEF Dispatcher, DispatchMark, DispatchBreak, DispatchPark, DispatchWoken
    <3>2. CASE DispatchClaim
      <4>1. PICK e \in PopEligible(queue, now) : pc' = [pc EXCEPT ![<<e.id, e.attempt>>] = "claimed"]
          BY <3>2 DEF DispatchClaim
      <4>2. pc[<<e.id, e.attempt>>] = "none"
        <5>1. e \in queue /\ e.attempt \in Attempts /\ e.attempt \in Nat
            BY <1>1, <4>1, EligibleIsTask DEF Attempts
        <5> QED
            BY <5>1 DEF ServiceInv, EngineInv, Exclusive, FreshEntries
      <4> QED
          BY <1>1, <4>1, <4>2 DEF TypeOK
    <3>3. CASE DispatchSpawn
        BY <1>1, <3>3 DEF DispatchSpawn, TypeOK
    <3> QED
        BY <1>1, <3>1, <3>2, <3>3
  <2>3. CASE \E c \in Calls : Producer(c) \/ EndCall(c)
      BY <2>3 DEF Producer, PlaceInsert, PlacePush, PlaceNotify,
                  EndCall, EndPending, EndPendingFinalize, EndDispatched
  <2>4. CASE Tick \/ UNCHANGED vars
      BY <2>4 DEF Tick, vars
  <2> QED
      BY <2>1, <2>2, <2>3, <2>4 DEF Next
<1> QED
    BY <1>2, <1>3

LEMMA InitHistoryInv == Init => HistoryInv
<1> SUFFICES ASSUME Init PROVE HistoryInv
    OBVIOUS
<1>1. PlacedCalls = {} /\ \A t \in Tasks : pc[t] = "none"
    BY DEF Init, PlacedCalls
<1> QED
    BY <1>1, FS_EmptySet DEF HistoryInv

(* The transcript of an answered call is lost only to a bounded history    *)
(* that more calls have ended in than it keeps, and never to an unbounded  *)
(* one, whatever the other calls do between finalize and the write.        *)
THEOREM TranscriptsAreKept == Spec => TranscriptKept
<1>1. Init => ServiceInv
    BY InitEngineInv, InitRecordInv DEF ServiceInv
<1>2. ServiceInv /\ [Next]_vars => ServiceInv'
    BY NextKeepsEngineInv, NextKeepsRecordInv DEF ServiceInv
<1> DEFINE Kept == \A t \in Tasks :
              pc[t] = "persist" /\ pc'[t] # "persist" /\ t[1] \notin persisted' =>
                  MaxHistory # 0 /\ Cardinality({c \in Calls : Over(c)}) > MaxHistory
<1>3. ServiceInv /\ HistoryInv /\ [Next]_vars => [Kept]_vars
    BY PersistKeepsTranscript DEF HistoryOverflows, OverCalls
<1> QED
    BY <1>1, <1>2, <1>3, InitHistoryInv, NextKeepsHistoryInv, PTL DEF Spec, TranscriptKept

-----------------------------------------------------------------------------
(* The engine implements ProbeGate too, where preflights keep to their     *)
(* window.  What links the two: the dispatcher has one attempt in hand     *)
(* between its claim and its spawn, it owes a mark exactly while probeAt   *)
(* says so, and an attempt outside its preflight leaves no trace of it.    *)
Preflighted == {"claimed", "preflight"}

GateLink ==
    /\ \A t, u \in Tasks : pc[t] = "claimed" /\ pc[u] = "claimed" => t = u
    /\ \A t \in Tasks : pc[t] = "claimed" => dpc \in {"mark", "spawn"}
    /\ dpc = "mark" <=> probeAt # 0
    /\ \A t \in Tasks : pc[t] \notin Preflighted => since[t] = 0 /\ t \notin probes

GateStep == [Gate!Next]_(Gate!vars)

Work == [t \in Tasks |-> WorkOf(t)]

LEMMA GateStutters ==
    ASSUME UNCHANGED <<now, breaker, Work, since, probes, probeAt>>
    PROVE  GateStep
BY DEF GateStep, Gate!vars, Work

(* Steps of producers, of end_call and of the dispatcher around its park.  *)
LEMMA QuietOfGate ==
    ASSUME GateLink, UNCHANGED <<now, breaker, pc, since, probes, probeAt>>,
           dpc' = dpc \/ {dpc, dpc'} \subseteq {"scan", "park", "parked"}
    PROVE  GateLink' /\ GateStep
<1>1. dpc' = "mark" <=> dpc = "mark"
    OBVIOUS
<1>2. Work' = Work
    BY <1>1 DEF Work, WorkOf
<1>3. \A t \in Tasks : pc[t] = "claimed" => dpc' = dpc
    BY DEF GateLink
<1>4. GateLink'
    BY <1>1, <1>3 DEF GateLink
<1> QED
    BY <1>2, <1>4, GateStutters

(* Steps of an attempt that is past its preflight.                         *)
LEMMA PastPreflight ==
    ASSUME TypeOK, GateLink, NEW t \in Tasks, NEW point, point \notin Preflighted,
           pc[t] \notin Preflighted, pc' = [pc EXCEPT ![t] = point],
           UNCHANGED <<now, breaker, probeAt, dpc>>,
           UNCHANGED <<probes, since>> \/ LeavePreflight(t)
    PROVE  GateLink' /\ GateStep
<1>1. /\ \A u \in Tasks : u # t => pc'[u] = pc[u]
      /\ pc'[t] = point /\ point # "claimed" /\ pc[t] # "claimed"
    BY DEF TypeOK, Preflighted
<1>2. since' = since /\ probes' = probes
  <2>1. since[t] = 0 /\ t \notin probes /\ since \in [Tasks -> Nat]
      BY DEF GateLink, TypeOK
  <2> QED
      BY <2>1 DEF LeavePreflight
<1>3. Work' = Work
    BY <1>1 DEF Work, WorkOf, Preflighted
<1>4. GateLink'
    BY <1>1, <1>2 DEF GateLink
<1> QED
    BY <1>2, <1>3, <1>4, GateStutters

(* The end of a preflight, with a report or without one.                   *)
LEMMA PreflightEnds ==
    ASSUME TypeOK, GateLink, NEW t \in Tasks, NEW point, point \notin Preflighted,
           pc[t] \in Preflighted, ~(pc[t] = "claimed" /\ dpc = "mark"),
           pc' = [pc EXCEPT ![t] = point], LeavePreflight(t),
           UNCHANGED <<now, probeAt>>,
           \/ dpc' = dpc /\ pc[t] = "preflight"
           \/ dpc = "spawn" /\ dpc' = "scan" /\ pc[t] = "claimed"
    PROVE  /\ GateLink'
           /\ breaker' = breaker => GateStep
           /\ \A ok \in BOOLEAN : Report(ok) => GateStep
<1>1. /\ \A u \in Tasks : u # t => pc'[u] = pc[u]
      /\ pc'[t] = point /\ point # "claimed"
    BY DEF TypeOK, Preflighted
<1>2. /\ since' = [since EXCEPT ![t] = 0] /\ probes' = probes \ {t}
      /\ since'[t] = 0 /\ \A u \in Tasks : u # t => since'[u] = since[u]
    BY DEF LeavePreflight, TypeOK
<1>3. dpc' = "mark" <=> dpc = "mark"
    OBVIOUS
<1>4. GateLink'
  <2>1. \A u \in Tasks : pc'[u] = "claimed" => u # t /\ pc[u] = "claimed"
      BY <1>1
  <2>2. \A u \in Tasks : pc'[u] = "claimed" => dpc' \in {"mark", "spawn"}
      BY <2>1 DEF GateLink
  <2>3. \A u \in Tasks : pc'[u] \notin Preflighted => since'[u] = 0 /\ u \notin probes'
      BY <1>1, <1>2 DEF GateLink
  <2> QED
      BY <1>3, <2>1, <2>2, <2>3 DEF GateLink
<1>5. Work[t] = "preflight" /\ Work' = [Work EXCEPT ![t] = "free"]
    BY <1>1, <1>3 DEF Work, WorkOf, Preflighted
<1>6. Gate!Spawned(t) /\ Gate!Free(t)
    BY <1>2, <1>5 DEF Gate!Spawned, Gate!Free, Work
<1>7. ASSUME breaker' = breaker PROVE GateStep
    BY <1>6, <1>7 DEF Gate!Cancelled, Gate!Next, GateStep
<1>8. ASSUME NEW ok \in BOOLEAN, Report(ok) PROVE GateStep
  <2>1. Gate!Reported(t, ok)
      BY <1>6, <1>8 DEF Gate!Reported, Report, Gate!OnResult, OnResult
  <2> QED
      BY <2>1 DEF Gate!Next, GateStep
<1> QED
    BY <1>4, <1>7, <1>8

LEMMA ClaimOfGate ==
    ASSUME EngineInv, GateLink, DispatchClaim
    PROVE  GateLink' /\ GateStep
<1>1. TypeOK
    BY DEF EngineInv, TypeInv
<1>2. PICK e \in PopEligible(queue, now) :
          LET t == <<e.id, e.attempt>>
              probe == IsProbe(breaker, now)
          IN  /\ pc' = [pc EXCEPT ![t] = "claimed"]
              /\ probeAt' = IF probe THEN now ELSE 0
              /\ probes' = IF probe THEN probes \cup {t} ELSE probes
              /\ since' = [since EXCEPT ![t] = now]
              /\ dpc' = IF probe THEN "mark" ELSE "spawn"
    BY DEF DispatchClaim
<1>3. PICK t : t = <<e.id, e.attempt>>
    OBVIOUS
<1>4. t \in Tasks /\ pc[t] = "none"
  <2>1. e \in queue /\ e.id \in Calls /\ e.attempt \in Attempts
      BY <1>1 DEF PopEligible, First, TypeOK, Entry
  <2>2. e.attempt >= e.attempt
      BY <2>1 DEF Attempts
  <2> QED
      BY <1>3, <2>1, <2>2 DEF EngineInv, Exclusive, FreshEntries, Tasks
<1>5. /\ dpc = "scan" /\ HoldUntil(breaker, now) = 0 /\ probeAt = 0
      /\ now' = now /\ breaker' = breaker /\ now \in Nat \ {0}
      /\ \A u \in Tasks : pc[u] # "claimed"
    BY <1>1 DEF DispatchClaim, GateLink, TypeOK
<1>6. /\ pc' = [pc EXCEPT ![t] = "claimed"]
      /\ probeAt' = IF IsProbe(breaker, now) THEN now ELSE 0
      /\ probes' = IF IsProbe(breaker, now) THEN probes \cup {t} ELSE probes
      /\ since' = [since EXCEPT ![t] = now]
      /\ dpc' = IF IsProbe(breaker, now) THEN "mark" ELSE "spawn"
    BY <1>2, <1>3
<1>7. /\ \A u \in Tasks : u # t => pc'[u] = pc[u] /\ since'[u] = since[u]
      /\ pc'[t] = "claimed"
    BY <1>1, <1>4, <1>6 DEF TypeOK
<1>8. GateLink'
  <2>1. \A u \in Tasks : pc'[u] = "claimed" => u = t
      BY <1>5, <1>7
  <2>2. dpc' \in {"mark", "spawn"} /\ (dpc' = "mark" <=> probeAt' # 0)
      BY <1>5, <1>6
  <2>3. \A u \in Tasks : pc'[u] \notin Preflighted => since'[u] = 0 /\ u \notin probes'
      BY <1>6, <1>7 DEF GateLink, Preflighted
  <2> QED
      BY <2>1, <2>2, <2>3 DEF GateLink
<1>9. Work[t] = "free"
      /\ Work' = [Work EXCEPT ![t] = IF IsProbe(breaker, now) THEN "claimed" ELSE "preflight"]
    BY <1>4, <1>5, <1>6, <1>7 DEF Work, WorkOf
<1>10. Gate!Claim(t)
    BY <1>5, <1>6, <1>9
       DEF Gate!Claim, Work, Gate!IsProbe, Gate!HoldUntil, IsProbe, HoldUntil
<1> QED
    BY <1>4, <1>8, <1>10 DEF Gate!Next, GateStep

LEMMA MarkOfGate ==
    ASSUME TypeOK, GateLink, DispatchMark
    PROVE  GateLink' /\ GateStep
<1>1. /\ dpc = "mark" /\ dpc' = "spawn" /\ probeAt # 0 /\ probeAt' = 0
      /\ UNCHANGED <<now, pc, since, probes>>
      /\ breaker' = MarkProbe(breaker, probeAt)
    BY DEF DispatchMark, GateLink, taskVars, histVars
<1>2. GateLink'
    BY <1>1 DEF GateLink
<1>3. Work' = [t \in Tasks |-> IF Work[t] = "claimed" THEN "preflight" ELSE Work[t]]
    BY <1>1 DEF Work, WorkOf
<1>4. Gate!Mark
    BY <1>1, <1>3 DEF Gate!Mark, Gate!MarkProbe, MarkProbe, Work
<1> QED
    BY <1>2, <1>4 DEF Gate!Next, GateStep

LEMMA SpawnOfGate ==
    ASSUME TypeOK, GateLink, DispatchSpawn
    PROVE  GateLink' /\ GateStep
<1>1. dpc = "spawn" /\ dpc' = "scan" /\ UNCHANGED <<now, breaker, probeAt>>
    BY DEF DispatchSpawn
<1>2. PICK t \in Tasks :
          /\ pc[t] = "claimed"
          /\ pc' = [pc EXCEPT ![t] = IF NetCheck THEN "preflight" ELSE "invite"]
          /\ IF NetCheck THEN UNCHANGED <<probes, since>> ELSE LeavePreflight(t)
    BY DEF DispatchSpawn
<1>3. CASE NetCheck
  <2>1. /\ \A u \in Tasks : u # t => pc'[u] = pc[u] /\ pc[u] # "claimed"
        /\ pc'[t] = "preflight" /\ UNCHANGED <<probes, since>>
      BY <1>2, <1>3 DEF TypeOK, GateLink
  <2>2. Work' = Work
      BY <1>1, <1>2, <2>1 DEF Work, WorkOf
  <2>3. GateLink'
      BY <1>1, <1>2, <2>1 DEF GateLink, Preflighted
  <2> QED
      BY <1>1, <2>1, <2>2, <2>3, GateStutters
<1>4. CASE ~NetCheck
  <2>1. pc' = [pc EXCEPT ![t] = "invite"] /\ LeavePreflight(t)
      BY <1>2, <1>4
  <2>2. "invite" \notin Preflighted /\ pc[t] \in Preflighted
      BY <1>2 DEF Preflighted
  <2>3. GateLink' /\ (breaker' = breaker => GateStep)
      BY <1>1, <1>2, <2>1, <2>2, PreflightEnds
  <2> QED
      BY <1>1, <2>3
<1> QED
    BY <1>3, <1>4

LEMMA TickOfGate ==
    ASSUME Timely, TypeOK, GateLink, Tick
    PROVE  GateLink' /\ (now' <= GateHorizon => GateStep)
<1>1. /\ dpc \notin {"mark", "spawn"} /\ now' = now + 1 /\ now \in Nat
      /\ \A t \in Tasks : pc[t] = "preflight" => now + 1 < since[t] + ProbeWindow
      /\ UNCHANGED <<breaker, pc, dpc, since, probes, probeAt>>
    BY DEF Tick, coreVars, dispVars, taskVars, histVars, TypeOK
<1>2. GateLink'
    BY <1>1 DEF GateLink
<1>3. probeAt = 0 /\ Work' = Work
    BY <1>1 DEF GateLink, TypeOK, Work, WorkOf
<1>4. \A t \in Tasks : Work[t] # "free" => now + 1 < since[t] + ProbeWindow
    BY <1>1 DEF GateLink, Work, WorkOf
<1>5. ASSUME now' <= GateHorizon PROVE Gate!Tick
  <2>1. now < GateHorizon
      BY <1>1, <1>5, EngineAssumption
  <2> QED
      BY <1>1, <1>3, <1>4, <2>1 DEF Gate!Tick, Work
<1> QED
    BY <1>2, <1>5 DEF Gate!Next, GateStep

LEMMA TaskOfGate ==
    ASSUME EngineInv, GateLink, NEW t \in Tasks, RunCall(t) \/ Panic(t)
    PROVE  GateLink' /\ GateStep
<1>1. TypeOK
    BY DEF EngineInv, TypeInv
<1>2. CASE PreflightCancelled(t) \/ PreflightUsable(t) \/ PreflightUnusable(t)
           \/ (Panic(t) /\ pc[t] = "preflight")
  <2>1. PICK point \in {"guard", "invite", "unusable"} : pc' = [pc EXCEPT ![t] = point]
      BY <1>2 DEF PreflightCancelled, PreflightUsable, PreflightUnusable, Panic, Goto
  <2>2. /\ pc[t] = "preflight" /\ LeavePreflight(t) /\ UNCHANGED <<now, probeAt, dpc>>
        /\ breaker' = breaker \/ \E ok \in BOOLEAN : Report(ok)
      BY <1>2 DEF PreflightCancelled, PreflightUsable, PreflightUnusable, Panic, dispVars,
                  coreVars
  <2>3. point \notin Preflighted /\ pc[t] \in Preflighted
      BY <2>2 DEF Preflighted
  <2>4. /\ ~(pc[t] = "claimed" /\ dpc = "mark")
        /\ \/ dpc' = dpc /\ pc[t] = "preflight"
           \/ dpc = "spawn" /\ dpc' = "scan" /\ pc[t] = "claimed"
        /\ LeavePreflight(t) /\ UNCHANGED <<now, probeAt>>
      BY <2>2
  <2>5. /\ GateLink'
        /\ breaker' = breaker => GateStep
        /\ \A ok \in BOOLEAN : Report(ok) => GateStep
      BY <1>1, <2>1, <2>3, <2>4, PreflightEnds, Zenon
  <2> QED
      BY <2>2, <2>5
<1>3. CASE pc[t] \notin Preflighted
  <2>1. PICK point \in TaskPoints \ Preflighted : pc' = [pc EXCEPT ![t] = point]
    <3>1. {"guard", "invite", "unusable", "ringing", "requeue", "requeued", "live", "cancelled",
           "over", "persist", "slot", "released", "done"} \subseteq TaskPoints \ Preflighted
        BY DEF TaskPoints, Preflighted
    <3> QED
        BY <1>3, <3>1
           DEF RunCall, PreflightCancelled, PreflightUsable, PreflightUnusable, DialFailed,
               InviteSent, RingTerminated, RequeueMark, RequeuePush, RequeueNotify, Answered,
               LiveCancelled, LiveOver, LiveFinalize, LivePersist, DropCancelGuard,
               DropRunningGuard, NotifyReleased, Panic, Goto, Preflighted
  <2>2. /\ UNCHANGED <<now, breaker, probeAt, dpc>>
        /\ UNCHANGED <<probes, since>> \/ LeavePreflight(t)
      BY <1>3
         DEF RunCall, PreflightCancelled, PreflightUsable, PreflightUnusable, DialFailed,
             InviteSent, RingTerminated, RequeueMark, RequeuePush, RequeueNotify, Answered,
             LiveCancelled, LiveOver, LiveFinalize, LivePersist, DropCancelGuard,
             DropRunningGuard, NotifyReleased, Panic, Preflighted, dispVars, coreVars, histVars
  <2> QED
      BY <1>1, <1>3, <2>1, <2>2, PastPreflight
<1>4. CASE pc[t] \in Preflighted
      /\ ~(PreflightCancelled(t) \/ PreflightUsable(t) \/ PreflightUnusable(t)
           \/ (Panic(t) /\ pc[t] = "preflight"))
    BY <1>4
       DEF RunCall, DialFailed, InviteSent, RingTerminated, RequeueMark, RequeuePush,
           RequeueNotify, Answered, LiveCancelled, LiveOver, LiveFinalize, LivePersist,
           DropCancelGuard, DropRunningGuard, NotifyReleased, Panic, Preflighted
<1> QED
    BY <1>2, <1>3, <1>4

LEMMA NextOfGate ==
    ASSUME Timely, EngineInv, GateLink, [Next]_vars
    PROVE  GateLink' /\ (now' <= GateHorizon => GateStep)
<1>1. TypeOK
    BY DEF EngineInv, TypeInv
<1>2. CASE UNCHANGED vars
    BY <1>2, QuietOfGate DEF vars, coreVars, taskVars, dispVars, histVars
<1>3. CASE \E c \in Calls : Producer(c) \/ EndCall(c)
  <2>1. UNCHANGED <<now, breaker, pc, since, probes, probeAt, dpc>>
      BY <1>3 DEF Producer, PlaceInsert, PlacePush, PlaceNotify, EndCall, EndPending,
                  EndPendingFinalize, EndDispatched, taskVars, dispVars, histVars
  <2> QED
      BY <2>1, QuietOfGate
<1>4. CASE DispatchBreak \/ DispatchPark \/ DispatchWoken
  <2>1. /\ UNCHANGED <<now, breaker, pc, since, probes, probeAt>>
        /\ {dpc, dpc'} \subseteq {"scan", "park", "parked"}
      BY <1>4 DEF DispatchBreak, DispatchPark, DispatchWoken, coreVars, taskVars, histVars
  <2> QED
      BY <2>1, QuietOfGate
<1>5. CASE Tick
    BY <1>1, <1>5, TickOfGate
<1>6. CASE DispatchClaim
    BY <1>6, ClaimOfGate
<1>7. CASE DispatchMark
    BY <1>1, <1>7, MarkOfGate
<1>8. CASE DispatchSpawn
    BY <1>1, <1>8, SpawnOfGate
<1>9. CASE \E t \in Tasks : RunCall(t) \/ Panic(t)
    BY <1>9, TaskOfGate
<1> QED
    BY <1>2, <1>3, <1>4, <1>5, <1>6, <1>7, <1>8, <1>9 DEF Next, Dispatcher

LEMMA InitOfGate == Init => GateLink /\ Gate!Init
BY DEF Init, GateLink, Gate!Init, Gate!Closed, Closed, WorkOf, Preflighted

(* Dispatcher, breaker and preflights implement ProbeGate, panics and      *)
(* cancels included and whatever the cooldown, where preflights keep to    *)
(* their window.  GateHorizon is any number: it bounds the gate's clock,   *)
(* and so the behaviours that the gate has, not those of the engine.       *)
THEOREM EngineImplementsGate ==
    ASSUME Timely
    PROVE  Spec /\ [](now <= GateHorizon) => ImplementsGate
<1>1. Init => EngineInv /\ GateLink /\ Gate!Init
    BY InitEngineInv, InitOfGate
<1>2. EngineInv /\ GateLink /\ [Next]_vars => EngineInv' /\ GateLink'
    BY NextKeepsEngineInv, NextOfGate
<1>3. EngineInv /\ GateLink /\ [Next]_vars /\ (now <= GateHorizon)' =>
          [Gate!Next]_(Gate!vars)
    BY NextOfGate DEF GateStep
<1> QED
    BY <1>1, <1>2, <1>3, PTL DEF Spec, ImplementsGate, Gate!Spec
=============================================================================
