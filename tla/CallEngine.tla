----------------------------- MODULE CallEngine -----------------------------
(***************************************************************************)
(* The call engine of kutsu (src/src/engine.rs): producers that enqueue    *)
(* calls, the one dispatcher task, one run_call task per dialled attempt,  *)
(* and end_call, over the shared queue, call store, cancel map, slot       *)
(* counter, circuit breaker and Notify.  A step is what runs under one     *)
(* lock or one atomic; the steps of different tasks interleave freely.     *)
(*                                                                         *)
(* The media session of an answered call is one phase ("live") here: what  *)
(* it does to the shared state is that it ends, and with which result.     *)
(***************************************************************************)
EXTENDS Naturals, FiniteSets, Functions, PendingQueue, Breaker, Disposition

CONSTANTS
    Cap,            \* max_concurrent_channels
    MaxAttempts,    \* busy_max_attempts
    RetryDelay,     \* busy_retry_interval_ms
    NetCheck,       \* net_check.enabled
    MaxHistory,     \* max_call_history; 0 is unlimited
    Delays,         \* how far ahead a call may be scheduled
    SipOutcomes,    \* outcomes with which an unanswered dial can end
    LiveResults,    \* <<amd, shape>> pairs with which a session can end
    MayPanic,       \* whether a run_call task may unwind
    Timely,         \* whether preflights keep to their window (see Tick)
    IdleHorizon,    \* bound: the clock passes it only towards a deadline
    GateHorizon     \* bound of the clock of the ProbeGate implemented

ASSUME EngineAssumption ==
    /\ Cap \in Nat
    /\ MaxAttempts \in Nat \ {0}
    /\ RetryDelay \in Nat
    /\ NetCheck \in BOOLEAN
    /\ MaxHistory \in Nat
    /\ Delays \subseteq Nat
    /\ SipOutcomes \subseteq Outcomes
    /\ LiveResults \subseteq (AmdVerdicts \X CallShape)
    /\ MayPanic \in BOOLEAN
    /\ Timely \in BOOLEAN
    /\ IdleHorizon \in Nat
    /\ GateHorizon \in Nat

VARIABLES
    now,        \* the wall clock
    store,      \* CallStore: the record of each call
    queue,      \* the pending queue
    cancels,    \* cancel map: the attempt whose sender is registered, or 0
    running,    \* slot counter
    wake,       \* whether the dispatcher's Notify holds a permit
    breaker,    \* the circuit breaker's State
    placed,     \* Counters.placed
    finals,     \* Counters: finalizations by disposition
    persisted,  \* calls whose record was written to the transcript directory
    placing,    \* progress of place_call_at for each call
    due,        \* eligible_at_ms held by the task that is enqueuing a call
    dpc,        \* control point of the dispatcher
    hold,       \* the dispatcher's breaker_hold, or 0
    timer,      \* the dispatcher's sleep_until, or 0
    probeAt,    \* reading of now for mark_probe_dispatched, or 0
    pc,         \* control point of the run_call task of each attempt
    rx,         \* cancel_rx of each attempt
    cancelling, \* calls end_call took out of the queue and has yet to finalize
    acked,      \* history: calls for which an end_call returned true
    crashed,    \* history: calls whose task unwound before finalizing
    probes,     \* history: attempts in preflight that were sent as the probe
    since       \* history: when an attempt in preflight was claimed, or 0

coreVars  == <<store, queue, cancels, running, wake, breaker>>
countVars == <<placed, finals, persisted>>
placeVars == <<placing, due>>
dispVars  == <<dpc, hold, timer, probeAt>>
taskVars  == <<pc, rx>>
histVars  == <<acked, crashed, probes, since>>

vars == <<now, coreVars, countVars, placeVars, dispVars, taskVars, cancelling, histVars>>

Attempts == 1..MaxAttempts
Tasks == Calls \X Attempts

CallStates == {"absent", "queued", "ringing", "in_progress", "ended"}

(* CallRecord, reduced to the fields the engine's control reads or writes. *)
Record == [state : CallStates, disposition : Dispositions \cup {None}, attempt : Nat]
NoRecord == [state |-> "absent", disposition |-> None, attempt |-> 0]

TaskPoints ==
    {"none", "claimed", "preflight", "unusable", "invite", "ringing", "requeue",
     "requeued", "live", "cancelled", "over", "persist", "guard", "slot",
     "released", "done"}

(* The control points at which run_call can still write the call's record. *)
Driving == {"claimed", "preflight", "unusable", "invite", "ringing", "requeue",
            "live", "cancelled", "over"}

(* The control points at which the attempt's RunningGuard is alive. *)
Holding == Driving \cup {"requeued", "persist", "guard", "slot"}

-----------------------------------------------------------------------------
(* CallStore operations (src/src/state.rs). *)

SetState(s, c, st) ==
    IF s[c].state = "absent" THEN s
    ELSE [s EXCEPT ![c] =
             [state |-> st, disposition |-> @.disposition, attempt |-> @.attempt]]

EndedCalls(s) == {c \in Calls : s[c].state = "ended"}

EvictedAtCap(s) ==                  \* mutant: the cap itself is not kept
    IF MaxHistory = 0 THEN {}
    ELSE {c \in EndedCalls(s) :
             Cardinality({d \in EndedCalls(s) : d >= c}) >= MaxHistory}

(* evict_ended_over_cap: the ended records with MaxHistory newer ended ones. *)
Evicted(s) ==
    IF MaxHistory = 0 THEN {}
    ELSE {c \in EndedCalls(s) :
             Cardinality({d \in EndedCalls(s) : d > c}) >= MaxHistory}

Evict(s) == [c \in Calls |-> IF c \in Evicted(s) THEN NoRecord ELSE s[c]]

RecordEnd(s, c, d) ==
    IF s[c].state = "absent" THEN s
    ELSE [s EXCEPT ![c] = [state |-> "ended", disposition |-> d, attempt |-> @.attempt]]

(* finalize_call with the disposition it resolves: CallStore::finalize with *)
(* eviction, and the counter of that disposition.                          *)
Finalize(c, d) ==
    /\ store' = Evict(RecordEnd(store, c, d))
    /\ finals' = [finals EXCEPT ![d] = @ + 1]

-----------------------------------------------------------------------------
Init ==
    /\ now = 1
    /\ store = [c \in Calls |-> NoRecord]
    /\ queue = {}
    /\ cancels = [c \in Calls |-> 0]
    /\ running = 0
    /\ wake = FALSE
    /\ breaker = Closed
    /\ placed = 0
    /\ finals = [d \in Dispositions |-> 0]
    /\ persisted = {}
    /\ placing = [c \in Calls |-> "new"]
    /\ due = [c \in Calls |-> 0]
    /\ dpc = "scan"
    /\ hold = 0
    /\ timer = 0
    /\ probeAt = 0
    /\ pc = [t \in Tasks |-> "none"]
    /\ rx = [t \in Tasks |-> "open"]
    /\ cancelling = {}
    /\ acked = {}
    /\ crashed = {}
    /\ probes = {}
    /\ since = [t \in Tasks |-> 0]

-----------------------------------------------------------------------------
(* Time passes while a deadline lies ahead, and freely up to IdleHorizon.  *)
(* Under Timely every preflight ends within preflight_max_window_ms of its *)
(* claim, and the dispatcher is not suspended between claim and spawn.     *)
Deadlines ==
    {e.at : e \in queue} \cup {due[c] : c \in Calls} \cup
    {breaker.openUntil, breaker.probeDeadline, timer}

Tick ==
    /\ now < IdleHorizon \/ \E d \in Deadlines : d > now
    /\ Timely => /\ dpc \notin {"mark", "spawn"}
                 /\ \A t \in Tasks :
                       pc[t] = "preflight" => now + 1 < since[t] + ProbeWindow
    /\ now' = now + 1
    /\ UNCHANGED <<coreVars, countVars, placeVars, dispVars, taskVars, cancelling, histVars>>

-----------------------------------------------------------------------------
(* Enqueuer::place_call_at for a new call: take the next sequence number,  *)
(* insert the record, then push under the queue lock, then notify.         *)
PlaceInsert(c) ==
    /\ placing[c] = "new"
    /\ \A d \in Calls : d < c => placing[d] # "new"
    /\ \E delay \in Delays : due' = [due EXCEPT ![c] = now + delay]
    /\ placing' = [placing EXCEPT ![c] = "inserted"]
    /\ store' = [store EXCEPT ![c] =
                    [state |-> "queued", disposition |-> None, attempt |-> 1]]
    /\ placed' = placed + 1
    /\ UNCHANGED <<now, queue, cancels, running, wake, breaker, finals, persisted,
                   dispVars, taskVars, cancelling, histVars>>

PlacePush(c) ==
    /\ placing[c] = "inserted"
    /\ queue' = Push(queue, [id |-> c, at |-> due[c], attempt |-> 1])
    /\ due' = [due EXCEPT ![c] = 0]
    /\ placing' = [placing EXCEPT ![c] = "pushed"]
    /\ UNCHANGED <<now, store, cancels, running, wake, breaker, countVars,
                   dispVars, taskVars, cancelling, histVars>>

(* Mutant: nobody tells the dispatcher. *)
PlaceNotifySilently(c) ==
    /\ placing[c] = "pushed"
    /\ placing' = [placing EXCEPT ![c] = "placed"]
    /\ UNCHANGED <<now, coreVars, countVars, due, dispVars, taskVars, cancelling, histVars>>

PlaceNotify(c) ==
    /\ placing[c] = "pushed"
    /\ placing' = [placing EXCEPT ![c] = "placed"]
    /\ wake' = TRUE
    /\ UNCHANGED <<now, store, queue, cancels, running, breaker, countVars, due,
                   dispVars, taskVars, cancelling, histVars>>

-----------------------------------------------------------------------------
(* end_call.  A pending call leaves the queue under its lock and is        *)
(* finalized afterwards; otherwise the registered sender is taken, under   *)
(* the same lock, and signalled.  A call with neither is not affected.     *)
EndPending(c) ==
    /\ IsPending(queue, c)
    /\ queue' = Without(queue, c)
    /\ cancelling' = cancelling \cup {c}
    /\ acked' = acked \cup {c}
    /\ UNCHANGED <<now, store, cancels, running, wake, breaker, countVars, placeVars,
                   dispVars, taskVars, crashed, probes, since>>

EndPendingFinalize(c) ==
    /\ c \in cancelling
    /\ cancelling' = cancelling \ {c}
    /\ Finalize(c, Resolve(TRUE, None, None, PendingShape))
    /\ UNCHANGED <<now, queue, cancels, running, wake, breaker, placed, persisted,
                   placeVars, dispVars, taskVars, histVars>>

(* Mutant: the sender is taken out of the map and never used. *)
EndDispatchedUnsent(c) ==
    /\ ~IsPending(queue, c)
    /\ cancels[c] # 0
    /\ cancels' = [cancels EXCEPT ![c] = 0]
    /\ acked' = acked \cup {c}
    /\ UNCHANGED <<now, store, queue, running, wake, breaker, countVars, placeVars,
                   dispVars, taskVars, cancelling, crashed, probes, since>>

EndDispatched(c) ==
    /\ ~IsPending(queue, c)
    /\ cancels[c] # 0
    /\ cancels' = [cancels EXCEPT ![c] = 0]
    /\ rx' = [rx EXCEPT ![<<c, cancels[c]>>] = "signalled"]
    /\ acked' = acked \cup {c}
    /\ UNCHANGED <<now, store, queue, running, wake, breaker, countVars, placeVars,
                   dispVars, pc, cancelling, crashed, probes, since>>

-----------------------------------------------------------------------------
(* The concurrency gate. *)
FreeSlotInclusive == running <= Cap     \* mutant: off by one
FreeSlot == running < Cap

(* The preflight phase is over for t: its history variables are reset. *)
LeavePreflight(t) ==
    /\ probes' = probes \ {t}
    /\ since' = [since EXCEPT ![t] = 0]

(* The dispatcher.  The scan runs under the queue lock; an old sender that *)
(* the insert replaces is dropped, which closes its receiver.              *)
Dropped(c) ==
    IF cancels[c] # 0
    THEN [rx EXCEPT ![<<c, cancels[c]>>] = IF @ = "open" THEN "closed" ELSE @]
    ELSE rx

DispatchClaim ==
    /\ dpc = "scan"
    /\ FreeSlot
    /\ HoldUntil(breaker, now) = 0
    /\ \E e \in PopEligible(queue, now) :
          LET t == <<e.id, e.attempt>>
              probe == IsProbe(breaker, now)
          IN  /\ queue' = queue \ {e}
              /\ rx' = [Dropped(e.id) EXCEPT ![t] = "open"]
              /\ cancels' = [cancels EXCEPT ![e.id] = e.attempt]
              /\ pc' = [pc EXCEPT ![t] = "claimed"]
              /\ probeAt' = IF probe THEN now ELSE 0
              /\ probes' = IF probe THEN probes \cup {t} ELSE probes
              /\ since' = [since EXCEPT ![t] = now]
              /\ dpc' = IF probe THEN "mark" ELSE "spawn"
    /\ running' = running + 1
    /\ UNCHANGED <<now, store, wake, breaker, countVars, placeVars, hold, timer,
                   cancelling, acked, crashed>>

(* mark_probe_dispatched, after the queue lock is released. *)
DispatchMarkSkipped ==                  \* mutant: the probe is never marked
    /\ dpc = "mark"
    /\ probeAt' = 0
    /\ dpc' = "spawn"
    /\ UNCHANGED <<now, coreVars, countVars, placeVars, hold, timer, taskVars,
                   cancelling, histVars>>

DispatchMark ==
    /\ dpc = "mark"
    /\ breaker' = MarkProbe(breaker, probeAt)
    /\ probeAt' = 0
    /\ dpc' = "spawn"
    /\ UNCHANGED <<now, store, queue, cancels, running, wake, countVars, placeVars,
                   hold, timer, taskVars, cancelling, histVars>>

(* set_state(Ringing), then spawn: preflight, or the INVITE without it. *)
DispatchSpawn ==
    /\ dpc = "spawn"
    /\ dpc' = "scan"
    /\ \E t \in Tasks :
          /\ pc[t] = "claimed"
          /\ store' = SetState(store, t[1], "ringing")
          /\ pc' = [pc EXCEPT ![t] = IF NetCheck THEN "preflight" ELSE "invite"]
          /\ IF NetCheck THEN UNCHANGED <<probes, since>> ELSE LeavePreflight(t)
    /\ UNCHANGED <<now, queue, cancels, running, wake, breaker, countVars, placeVars,
                   hold, timer, probeAt, rx, cancelling, acked, crashed>>

(* The scan ends: the cap is hit, the breaker holds, or nothing is due. *)
DispatchBreak ==
    /\ dpc = "scan"
    /\ \/ ~FreeSlot /\ hold' = 0
       \/ FreeSlot /\ HoldUntil(breaker, now) # 0 /\ hold' = HoldUntil(breaker, now)
       \/ /\ FreeSlot /\ HoldUntil(breaker, now) = 0 /\ ~HasEligible(queue, now)
          /\ hold' = 0
    /\ dpc' = "park"
    /\ UNCHANGED <<now, coreVars, countVars, placeVars, timer, probeAt, taskVars,
                   cancelling, histVars>>

(* Choose the timer: the sooner of the next eligibility and the hold. *)
Soonest(instants) == {i \in instants : \A j \in instants : i <= j}

DispatchPark ==
    /\ dpc = "park"
    /\ LET instants ==
              (IF FreeSlot THEN NextEligibleAt(queue) ELSE {}) \cup ({hold} \ {0})
       IN  IF instants = {} THEN timer' = 0 ELSE timer' \in Soonest(instants)
    /\ dpc' = "parked"
    /\ UNCHANGED <<now, coreVars, countVars, placeVars, hold, probeAt, taskVars,
                   cancelling, histVars>>

(* The select of the park: a permit is consumed, or the sleep elapses. *)
DispatchWoken ==
    /\ dpc = "parked"
    /\ \/ wake /\ wake' = FALSE
       \/ timer # 0 /\ timer <= now /\ UNCHANGED wake
    /\ dpc' = "scan"
    /\ timer' = 0
    /\ hold' = 0
    /\ UNCHANGED <<now, store, queue, cancels, running, breaker, countVars, placeVars,
                   probeAt, taskVars, cancelling, histVars>>

-----------------------------------------------------------------------------
(* run_call, one task per attempt t = <<call, attempt>>. *)
Goto(t, point) == pc' = [pc EXCEPT ![t] = point]

(* on_result: update the State, then notify; nothing when disabled. *)
Report(ok) ==
    IF Threshold = 0 THEN UNCHANGED <<breaker, wake>>
    ELSE breaker' = OnResult(breaker, ok, now) /\ wake' = TRUE

(* A cancel signal, or a sender that was dropped, ends the preflight. *)
PreflightCancelled(t) ==
    /\ pc[t] = "preflight"
    /\ rx[t] # "open"
    /\ Finalize(t[1], Resolve(TRUE, None, None, UnansweredShape))
    /\ Goto(t, "guard")
    /\ LeavePreflight(t)
    /\ UNCHANGED <<now, queue, cancels, running, wake, breaker, placed, persisted,
                   placeVars, dispVars, rx, cancelling, acked, crashed>>

PreflightUsable(t) ==
    /\ pc[t] = "preflight"
    /\ Report(TRUE)
    /\ Goto(t, "invite")
    /\ LeavePreflight(t)
    /\ UNCHANGED <<now, store, queue, cancels, running, countVars, placeVars,
                   dispVars, rx, cancelling, acked, crashed>>

PreflightUnusable(t) ==
    /\ pc[t] = "preflight"
    /\ Report(FALSE)
    /\ Goto(t, "unusable")
    /\ LeavePreflight(t)
    /\ UNCHANGED <<now, store, queue, cancels, running, countVars, placeVars,
                   dispVars, rx, cancelling, acked, crashed>>

(* The finalize sites that record a failure without a SIP outcome: an      *)
(* unusable network, a place_call error, an event channel closed in ring.  *)
DialFailed(t) ==
    /\ pc[t] \in {"unusable", "invite", "ringing"}
    /\ Finalize(t[1], Resolve(FALSE, None, None, UnansweredShape))
    /\ Goto(t, "guard")
    /\ UNCHANGED <<now, queue, cancels, running, wake, breaker, placed, persisted,
                   placeVars, dispVars, rx, cancelling, histVars>>

InviteSent(t) ==
    /\ pc[t] = "invite"
    /\ Goto(t, "ringing")
    /\ UNCHANGED <<now, coreVars, countVars, placeVars, dispVars, rx, cancelling, histVars>>

(* should_retry_busy *)
ShouldRetryBusyOneMore(attempt) == attempt <= MaxAttempts   \* mutant
ShouldRetryBusy(attempt) == attempt < MaxAttempts

RingTerminated(t) ==
    /\ pc[t] = "ringing"
    /\ \E outcome \in SipOutcomes :
          /\ ~(outcome = "busy" /\ ShouldRetryBusy(t[2]))
          /\ Finalize(t[1], Resolve(FALSE, None, outcome, UnansweredShape))
    /\ Goto(t, "guard")
    /\ UNCHANGED <<now, queue, cancels, running, wake, breaker, placed, persisted,
                   placeVars, dispVars, rx, cancelling, histVars>>

(* Enqueuer::requeue after a busy: the record first, then push and notify. *)
RequeueMark(t) ==
    /\ pc[t] = "ringing"
    /\ "busy" \in SipOutcomes
    /\ ShouldRetryBusy(t[2])
    /\ store' = SetState(store, t[1], "queued")
    /\ placed' = placed + 1
    /\ due' = [due EXCEPT ![t[1]] = now + RetryDelay]
    /\ Goto(t, "requeue")
    /\ UNCHANGED <<now, queue, cancels, running, wake, breaker, finals, persisted,
                   placing, dispVars, rx, cancelling, histVars>>

RequeuePush(t) ==
    /\ pc[t] = "requeue"
    /\ queue' = Push(queue, [id |-> t[1], at |-> due[t[1]], attempt |-> t[2] + 1])
    /\ due' = [due EXCEPT ![t[1]] = 0]
    /\ Goto(t, "requeued")
    /\ UNCHANGED <<now, store, cancels, running, wake, breaker, countVars, placing,
                   dispVars, rx, cancelling, histVars>>

RequeueNotify(t) ==
    /\ pc[t] = "requeued"
    /\ wake' = TRUE
    /\ Goto(t, "guard")
    /\ UNCHANGED <<now, store, queue, cancels, running, breaker, countVars, placeVars,
                   dispVars, rx, cancelling, histVars>>

Answered(t) ==
    /\ pc[t] = "ringing"
    /\ store' = SetState(store, t[1], "in_progress")
    /\ Goto(t, "live")
    /\ UNCHANGED <<now, queue, cancels, running, wake, breaker, countVars, placeVars,
                   dispVars, rx, cancelling, histVars>>

(* The orchestration loop breaks: on cancel_rx, or on any other arm.  From *)
(* then on cancel_rx is no longer polled.                                  *)
LiveCancelled(t) ==
    /\ pc[t] = "live"
    /\ rx[t] # "open"
    /\ Goto(t, "cancelled")
    /\ UNCHANGED <<now, coreVars, countVars, placeVars, dispVars, rx, cancelling, histVars>>

LiveOver(t) ==
    /\ pc[t] = "live"
    /\ Goto(t, "over")
    /\ UNCHANGED <<now, coreVars, countVars, placeVars, dispVars, rx, cancelling, histVars>>

(* Teardown and finalize with what the session reported. *)
LiveFinalize(t) ==
    /\ pc[t] \in {"cancelled", "over"}
    /\ \E r \in LiveResults :
          Finalize(t[1], Resolve(pc[t] = "cancelled", r[1], None, r[2]))
    /\ Goto(t, "persist")
    /\ UNCHANGED <<now, queue, cancels, running, wake, breaker, placed, persisted,
                   placeVars, dispVars, rx, cancelling, histVars>>

(* Step 10: write the record if the store still has it. *)
LivePersist(t) ==
    /\ pc[t] = "persist"
    /\ persisted' = IF store[t[1]].state # "absent"
                    THEN persisted \cup {t[1]} ELSE persisted
    /\ Goto(t, "guard")
    /\ UNCHANGED <<now, coreVars, placed, finals, placeVars, dispVars, rx, cancelling,
                   histVars>>

(* Mutant: without the guards an unwinding task just disappears. *)
PanicLeaksSlot(t) ==
    /\ MayPanic
    /\ pc[t] \in Driving \ {"claimed", "requeue"}
    /\ Goto(t, "done")
    /\ LeavePreflight(t)
    /\ crashed' = crashed \cup {t[1]}
    /\ UNCHANGED <<now, coreVars, countVars, placeVars, dispVars, rx, cancelling, acked>>

(* A panic unwinds run_call: only the two guards still run. *)
Panic(t) ==
    /\ MayPanic
    /\ pc[t] \in Driving \ {"claimed", "requeue"}
    /\ Goto(t, "guard")
    /\ LeavePreflight(t)
    /\ crashed' = crashed \cup {t[1]}
    /\ UNCHANGED <<now, coreVars, countVars, placeVars, dispVars, rx, cancelling, acked>>

(* CancelGuard::drop removes the entry of the CALL, whichever attempt's    *)
(* sender it holds by then.                                                *)
DropCancelGuard(t) ==
    /\ pc[t] = "guard"
    /\ rx' = [Dropped(t[1]) EXCEPT ![t] = "open"]
    /\ cancels' = [cancels EXCEPT ![t[1]] = 0]
    /\ Goto(t, "slot")
    /\ UNCHANGED <<now, store, queue, running, wake, breaker, countVars, placeVars,
                   dispVars, cancelling, histVars>>

(* RunningGuard::drop: release the slot, then notify. *)
DropRunningGuard(t) ==
    /\ pc[t] = "slot"
    /\ running' = running - 1
    /\ Goto(t, "released")
    /\ UNCHANGED <<now, store, queue, cancels, wake, breaker, countVars, placeVars,
                   dispVars, rx, cancelling, histVars>>

NotifyReleased(t) ==
    /\ pc[t] = "released"
    /\ wake' = TRUE
    /\ Goto(t, "done")
    /\ UNCHANGED <<now, store, queue, cancels, running, breaker, countVars, placeVars,
                   dispVars, rx, cancelling, histVars>>

-----------------------------------------------------------------------------
Producer(c) == PlaceInsert(c) \/ PlacePush(c) \/ PlaceNotify(c)

EndCall(c) == EndPending(c) \/ EndPendingFinalize(c) \/ EndDispatched(c)

Dispatcher ==
    \/ DispatchClaim \/ DispatchMark \/ DispatchSpawn
    \/ DispatchBreak \/ DispatchPark \/ DispatchWoken

RunCall(t) ==
    \/ PreflightCancelled(t) \/ PreflightUsable(t) \/ PreflightUnusable(t)
    \/ DialFailed(t) \/ InviteSent(t) \/ RingTerminated(t)
    \/ RequeueMark(t) \/ RequeuePush(t) \/ RequeueNotify(t)
    \/ Answered(t) \/ LiveCancelled(t) \/ LiveOver(t)
    \/ LiveFinalize(t) \/ LivePersist(t)
    \/ DropCancelGuard(t) \/ DropRunningGuard(t) \/ NotifyReleased(t)

Next ==
    \/ Tick
    \/ \E c \in Calls : Producer(c) \/ EndCall(c)
    \/ Dispatcher
    \/ \E t \in Tasks : RunCall(t) \/ Panic(t)

Spec == Init /\ [][Next]_vars

(* Every tokio task the engine owns keeps being scheduled, the clock runs, *)
(* a preflight ends, and a session does (max_call_secs sees to it).  Nobody *)
(* is obliged to place a call, to call end_call or to panic.               *)
Fairness ==
    /\ WF_vars(Tick)
    /\ WF_vars(Dispatcher)
    /\ \A c \in Calls : WF_vars(PlacePush(c) \/ PlaceNotify(c) \/ EndPendingFinalize(c))
    /\ \A t \in Tasks : WF_vars(pc[t] # "ringing" /\ RunCall(t))

(* Assumed of the far end: a ring is answered or refused in the end.  The  *)
(* code does not see to it: ring_wait has no deadline, nor polls cancel_rx. *)
RingsEnd == \A t \in Tasks : WF_vars(pc[t] = "ringing" /\ RunCall(t))

FairSpec == Spec /\ Fairness /\ RingsEnd

-----------------------------------------------------------------------------
(* Type invariant: the ranges of the engine's state. *)
TypeOK ==
    /\ now \in Nat \ {0}
    /\ store \in [Calls -> Record]
    /\ queue \subseteq {e \in Entry : e.attempt \in Attempts}
    /\ cancels \in [Calls -> 0..MaxAttempts]
    /\ running \in Nat
    /\ wake \in BOOLEAN
    /\ breaker \in BreakerState
    /\ placed \in Nat
    /\ finals \in [Dispositions -> Nat]
    /\ persisted \subseteq Calls
    /\ placing \in [Calls -> {"new", "inserted", "pushed", "placed"}]
    /\ due \in [Calls -> Nat]
    /\ dpc \in {"scan", "mark", "spawn", "park", "parked"}
    /\ hold \in Nat
    /\ timer \in Nat
    /\ probeAt \in Nat
    /\ pc \in [Tasks -> TaskPoints]
    /\ rx \in [Tasks -> {"open", "signalled", "closed"}]
    /\ cancelling \subseteq Calls
    /\ acked \subseteq Calls
    /\ crashed \subseteq Calls
    /\ probes \subseteq Tasks
    /\ since \in [Tasks -> Nat]

SlotHolders == {t \in Tasks : pc[t] \in Holding}

(* The slot counter is exactly the number of attempts whose RunningGuard   *)
(* is alive, through retries, cancels and panics, and never exceeds the    *)
(* channel cap: no capacity leaks and none is invented.                    *)
SlotAccounting ==
    /\ running = Cardinality(SlotHolders)
    /\ running <= Cap

(* Everything that may still move a call on: the producer about to push    *)
(* it, a queue entry, the task driving it, an end_call about to finalize.  *)
Owners(c) ==
    (IF placing[c] = "inserted" THEN {<<"producer", c>>} ELSE {}) \cup
    {<<"entry", e>> : e \in {f \in queue : f.id = c}} \cup
    {<<"task", t>> : t \in {u \in Tasks : u[1] = c /\ pc[u] \in Driving}} \cup
    (IF c \in cancelling THEN {<<"end_call", c>>} ELSE {})

(* The call has its terminal record, or had it and lost it to eviction. *)
Over(c) == placing[c] # "new" /\ store[c].state \in {"ended", "absent"}

(* A call that was placed and is not over is in exactly one hand, and a    *)
(* call that is over in none: dispatcher, retries and end_call never lose  *)
(* a call, dial it twice at once, or finalize it a second time.            *)
OneOwner ==
    \A c \in Calls :
        IF placing[c] = "new" \/ Over(c) \/ c \in crashed
        THEN Owners(c) = {}
        ELSE \E o \in Owners(c) : Owners(c) = {o}

(* The dispatcher never sleeps through work: whenever it is parked without *)
(* a permit although a call could be dispatched, its timer has run out or  *)
(* the task that made the call dispatchable is about to notify.            *)
NoLostWakeup ==
    (/\ dpc = "parked" /\ ~wake
     /\ running < Cap /\ HoldUntil(breaker, now) = 0 /\ HasEligible(queue, now))
    => \/ timer # 0 /\ timer <= now
       \/ \E t \in Tasks : pc[t] \in {"requeued", "released"}
       \/ \E c \in Calls : placing[c] = "pushed"

(* While an attempt can still act on a cancel, end_call finds its sender   *)
(* in the cancel map, unless an end_call already used it.                  *)
CancelReachable ==
    \A t \in Tasks :
        pc[t] \in {"claimed", "preflight", "invite", "ringing", "live"} =>
            \/ cancels[t[1]] = t[2]
            \/ rx[t] = "signalled"

(* A call is recorded as cancelled only if somebody ended it. *)
NoSpuriousCancel ==
    \A c \in Calls : store[c].disposition = "cancelled" => c \in acked

(* Once end_call has answered TRUE the call is not dialled again. *)
CancelledStaysDown ==
    [][\A t \in Tasks : t[1] \in acked => ~(pc[t] # "claimed" /\ pc'[t] = "claimed")]_vars

(* The transcript of an answered call is written after its record is       *)
(* finalized, from whatever the bounded history still holds: it is lost    *)
(* only when more calls have ended by then than the history keeps, and     *)
(* never when the history has no bound.                                    *)
TranscriptKept ==
    [][\A t \in Tasks :
         pc[t] = "persist" /\ pc'[t] # "persist" /\ t[1] \notin persisted' =>
             MaxHistory # 0 /\ Cardinality({c \in Calls : Over(c)}) > MaxHistory]_vars

(* The engine implements CallService. *)
Tries(c) == Cardinality({a \in Attempts : pc[<<c, a>>] # "none"})
DriverOf(c) ==
    IF \E a \in Attempts : pc[<<c, a>>] \in Driving
    THEN CHOOSE a \in Attempts : pc[<<c, a>>] \in Driving ELSE 0
PhaseOf(c) ==
    IF store[c].state # "absent" THEN store[c].state
    ELSE IF placing[c] = "new" THEN "unknown" ELSE "forgotten"

Service == INSTANCE CallService WITH
    phase <- [c \in Calls |-> PhaseOf(c)],
    tries <- [c \in Calls |-> Tries(c)],
    driver <- [c \in Calls |-> DriverOf(c)],
    channels <- SlotHolders

ImplementsService == Service!ServiceSpec

(* Dispatcher, breaker and preflights together implement ProbeGate, with a *)
(* slot for every attempt; what is proved there of probes holds here.      *)
WorkOf(t) ==
    IF pc[t] = "claimed" /\ dpc = "mark" THEN "claimed"
    ELSE IF pc[t] \in {"claimed", "preflight"} THEN "preflight" ELSE "free"

Gate == INSTANCE ProbeGate WITH
    Slots <- Tasks,
    MaxTime <- GateHorizon,
    work <- [t \in Tasks |-> WorkOf(t)]

ImplementsGate == Gate!Spec

(* Every call that was placed reaches its terminal record, if rings end. *)
EveryCallEnds == \A c \in Calls : placing[c] = "placed" ~> Over(c)
=============================================================================
