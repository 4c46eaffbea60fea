------------------------------- MODULE Breaker ------------------------------
(***************************************************************************)
(* The circuit breaker on the shared Gemini leg (src/src/breaker.rs) as    *)
(* operators on its mutex-protected State.  Times are clock readings, all  *)
(* positive; openUntil = 0 is the code's encoding of "closed".             *)
(***************************************************************************)
EXTENDS Naturals

CONSTANTS
    Threshold,      \* breaker_threshold; 0 disables the breaker
    Cooldown,       \* cooldown_ms
    ProbeWindow     \* preflight_max_window_ms of the configuration

ASSUME BreakerAssumption ==
    /\ Threshold \in Nat
    /\ Cooldown \in Nat
    /\ ProbeWindow \in Nat

BreakerState ==
    [fails : Nat, openUntil : Nat, probing : BOOLEAN, probeDeadline : Nat]

Closed == [fails |-> 0, openUntil |-> 0, probing |-> FALSE, probeDeadline |-> 0]

(* decision: the instant until which dispatching is held, 0 for "go on". *)
HoldUntilProbeReports(b, now) ==        \* mutant: the probe has no deadline
    IF Threshold = 0 \/ b.openUntil = 0 THEN 0
    ELSE IF now < b.openUntil THEN b.openUntil
    ELSE IF b.probing THEN b.probeDeadline
    ELSE 0

HoldUntilCooldownOnly(b, now) ==        \* mutant: a probe in flight is ignored
    IF Threshold = 0 \/ b.openUntil = 0 \/ now >= b.openUntil THEN 0
    ELSE b.openUntil

HoldUntil(b, now) ==
    IF Threshold = 0 \/ b.openUntil = 0 THEN 0
    ELSE IF now < b.openUntil THEN b.openUntil
    ELSE IF b.probing /\ now < b.probeDeadline THEN b.probeDeadline
    ELSE 0

(* decision: whether the entry that may go on is the half-open probe. *)
IsProbe(b, now) == Threshold # 0 /\ b.openUntil # 0 /\ HoldUntil(b, now) = 0

(* mark_probe_dispatched(now, ProbeWindow). *)
MarkProbe(b, now) ==
    [fails |-> b.fails, openUntil |-> b.openUntil,
     probing |-> TRUE, probeDeadline |-> now + ProbeWindow]

(* The new State of on_result(ok, now) when the breaker is enabled. *)
OnResult(b, ok, now) ==
    [fails |-> IF ok THEN 0 ELSE b.fails + 1,
     openUntil |-> IF ok THEN 0
                   ELSE IF b.fails + 1 >= Threshold THEN now + Cooldown
                   ELSE b.openUntil,
     probing |-> FALSE, probeDeadline |-> b.probeDeadline]
=============================================================================
