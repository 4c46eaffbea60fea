------------------------------ MODULE ProbeGate -----------------------------
(***************************************************************************)
(* The circuit breaker and its two users on their own: the dispatcher,     *)
(* which asks for a decision and later marks the probe, and the preflight  *)
(* phases of the dispatched calls, which report in any order.  The backlog *)
(* of calls is inexhaustible, so a slot is reused as soon as it is free;   *)
(* everything else of the engine is left to CallEngine.                    *)
(***************************************************************************)
EXTENDS Naturals, FiniteSets, Breaker

CONSTANTS
    Slots,      \* the channels, max_concurrent_channels of them
    MaxTime     \* bound on the clock

VARIABLES
    now,        \* the wall clock
    breaker,    \* the breaker's State
    work,       \* what each slot is doing: "free", "claimed" or "preflight"
    since,      \* when its preflight began
    probes,     \* history: the slots whose call was sent as the probe
    probeAt     \* the dispatcher's pending mark_probe_dispatched, or 0

vars == <<now, breaker, work, since, probes, probeAt>>

Init ==
    /\ now = 1
    /\ breaker = Closed
    /\ work = [s \in Slots |-> "free"]
    /\ since = [s \in Slots |-> 0]
    /\ probes = {}
    /\ probeAt = 0

(* Assumed: every preflight reports within preflight_max_window_ms of its  *)
(* dispatch, before the probe deadline (net_check.rs grants a connect 5 s  *)
(* of it without a timeout); no time passes between claim and mark.        *)
Tick ==
    /\ now < MaxTime
    /\ probeAt = 0
    /\ \A s \in Slots : work[s] # "free" => now + 1 < since[s] + ProbeWindow
    /\ now' = now + 1
    /\ UNCHANGED <<breaker, work, since, probes, probeAt>>

(* The scan of the dispatcher, up to the release of the queue lock.  A call *)
(* that is not the probe needs no mark and may be taken for spawned.       *)
Claim(s) ==
    /\ probeAt = 0
    /\ work[s] = "free"
    /\ HoldUntil(breaker, now) = 0
    /\ work' = [work EXCEPT ![s] = IF IsProbe(breaker, now) THEN "claimed" ELSE "preflight"]
    /\ since' = [since EXCEPT ![s] = now]
    /\ IF IsProbe(breaker, now)
       THEN probes' = probes \cup {s} /\ probeAt' = now
       ELSE UNCHANGED <<probes, probeAt>>
    /\ UNCHANGED <<now, breaker>>

(* mark_probe_dispatched, after which the call is spawned. *)
Mark ==
    /\ probeAt # 0
    /\ breaker' = MarkProbe(breaker, probeAt)
    /\ probeAt' = 0
    /\ work' = [s \in Slots |-> IF work[s] = "claimed" THEN "preflight" ELSE work[s]]
    /\ UNCHANGED <<now, since, probes>>

Free(s) ==
    /\ work' = [work EXCEPT ![s] = "free"]
    /\ since' = [since EXCEPT ![s] = 0]
    /\ probes' = probes \ {s}

(* The preflight phase of a spawned call ends with a report, or is         *)
(* cancelled without one.  The slot is free once the call is over.         *)
Spawned(s) == work[s] = "preflight"

Reported(s, ok) ==
    /\ Spawned(s)
    /\ breaker' = IF Threshold = 0 THEN breaker ELSE OnResult(breaker, ok, now)
    /\ Free(s)
    /\ UNCHANGED <<now, probeAt>>

Cancelled(s) ==
    /\ Spawned(s)
    /\ Free(s)
    /\ UNCHANGED <<now, breaker, probeAt>>

Next ==
    \/ Tick \/ Mark
    \/ \E s \in Slots : Claim(s) \/ Cancelled(s) \/ \E ok \in BOOLEAN : Reported(s, ok)

Spec == Init /\ [][Next]_vars

(* The clock runs, the dispatcher gets on, and a preflight ends somehow.   *)
Fairness ==
    /\ WF_vars(Tick)
    /\ WF_vars(Mark)
    /\ \A s \in Slots : WF_vars(Cancelled(s) \/ \E ok \in BOOLEAN : Reported(s, ok))

FairSpec == Spec /\ Fairness

(* breaker.rs:2: "a single half-open probe": two are never in their        *)
(* preflight together.  Not so when the cooldown is shorter than the       *)
(* preflight window, as it is by default: the late report of a preflight   *)
(* begun before the trip clears the flag of the probe that is out and      *)
(* trips the breaker anew, for less time than that probe may take.         *)
SingleProbe == Cardinality(probes) <= 1

(* What half-open does promise, for every cooldown and window: probes that *)
(* are in their preflight together were sent a full cooldown apart.  So no *)
(* more of them overlap than cooldowns fit into a window, whoever reports, *)
(* and in whatever order.                                                  *)
ProbesAreSpaced ==
    \A s, u \in probes :
        s # u => since[s] + Cooldown <= since[u] \/ since[u] + Cooldown <= since[s]

(* A hold comes to an end, also when the probe it waits for was cancelled  *)
(* or lost and never reports: the dispatcher may go on at the latest one   *)
(* preflight window and one cooldown later, whatever late reports renew    *)
(* it.  The bound of the clock is the deadline: a hold of the last instant *)
(* that is looked at has exactly that much time left.                      *)
HoldEnds ==
    (HoldUntil(breaker, now) # 0 /\ now + ProbeWindow + Cooldown <= MaxTime)
    ~> (HoldUntil(breaker, now) = 0)
=============================================================================
