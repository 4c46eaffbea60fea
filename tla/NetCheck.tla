------------------------------ MODULE NetCheck ------------------------------
(***************************************************************************)
(* The network preflight of a call: one probe (src/src/net_check.rs) and   *)
(* the loop of run_call that repeats it with a growing pause until a probe *)
(* is usable or the attempts are spent (src/src/engine.rs).  Only pongs    *)
(* with a ping's own payload answer it, so a probe comes to the round      *)
(* trips of the pings that were answered, in ascending order, and the      *)
(* number of those that were not within their budget.                      *)
(***************************************************************************)
EXTENDS Integers, Sequences, FiniteSetsExt, Functions

CONSTANTS
    Samples, WarmupPings, MaxRtt, MaxJitter, MaxLossPct, MaxSetup,
    RetryMax, BackoffBase,      \* NetCheckConfig, times in ms
    Rtts,                       \* round trips a ping may take
    ConnectTimes, AckTimes      \* ms to connect, and to setupComplete or a close

ASSUME NetCheckAssumption ==
    /\ {Samples, WarmupPings, MaxRtt, MaxJitter, MaxLossPct, MaxSetup} \subseteq Nat
    /\ RetryMax \in Nat /\ BackoffBase \in Nat
    /\ ConnectTimes \subseteq Nat

PingBudget == 4 * MaxRtt
AckBudget == Max({PingBudget, 2000})
Attempts == Max({RetryMax, 1})
Pings == Max({Samples, 1})

(* What takes longer than its budget has timed out. *)
ASSUME BudgetAssumption == Rtts \subseteq 0..PingBudget /\ AckTimes \subseteq 0..AckBudget

(* An answered probe: [rtts |-> the answers, ascending, lost |-> the others]. *)
NoProbe == [rtts |-> <<>>, lost |-> 0]

VARIABLES
    attempt,        \* attempt_i
    step,           \* "probe", "pause" or "over"
    probe,          \* the last probe that ended, or NoProbe
    acked,          \* whether its setup was acknowledged
    setup,          \* its connect and setup time
    usable,         \* the verdict that is reported to the breaker
    elapsed         \* ms since the loop began

checkVars == <<attempt, step, probe, acked, setup, usable, elapsed>>

CheckInit ==
    /\ attempt = 1 /\ step = "probe" /\ probe = NoProbe
    /\ acked = FALSE /\ setup = 0 /\ usable = FALSE /\ elapsed = 0

CheckTypeOK ==
    /\ attempt \in 1..Attempts /\ step \in {"probe", "pause", "over"}
    /\ probe \in [rtts : Seq(Rtts), lost : 0..Pings] /\ setup \in Nat
    /\ acked \in BOOLEAN /\ usable \in BOOLEAN /\ elapsed \in Nat

-----------------------------------------------------------------------------
RetryBackoff(n) == BackoffBase * 2^Min({n - 1, 16})

Backoffs == [n \in 1..(Attempts - 1) |-> RetryBackoff(n)]

MaxWindowNoAck ==                       \* mutant: the setup budget is forgotten
    SumFunction(Backoffs) + Attempts * (PingBudget * (Samples + WarmupPings) + 5000)

(* preflight_max_window_ms *)
MaxWindow ==
    SumFunction(Backoffs) + Attempts * (PingBudget * (Samples + WarmupPings) + AckBudget + 5000)

UntrimmedSample(rtts) == Len(rtts)      \* mutant: the slowest ping counts

(* The slowest of more than two answers is dropped. *)
SampleSize(rtts) == IF Len(rtts) > 2 THEN Len(rtts) - 1 ELSE Len(rtts)

(* The sample's entry at a quantile: round((size - 1) * q). *)
At(rtts, percent) == rtts[((SampleSize(rtts) - 1) * percent + 50) \div 100 + 1]

(* summarize and the verdict on a probe that was set up: percentiles of    *)
(* the sample, the loss over all the pings; without a pong all is bad.     *)
SetupInTime(ms) == MaxSetup > 0 => ms <= MaxSetup

IsUsable(rtts, lost, setupMs) ==
    /\ rtts # <<>>
    /\ At(rtts, 95) <= MaxRtt
    /\ At(rtts, 95) - At(rtts, 50) <= MaxJitter
    /\ lost * 100 <= MaxLossPct * Pings
    /\ SetupInTime(setupMs)

(* A probe ends: the loop is left, or pauses before the next attempt. *)
Judged(ok) ==
    /\ usable' = ok
    /\ step' = IF ok \/ attempt = Attempts THEN "over" ELSE "pause"
    /\ UNCHANGED attempt

(* The endpoint cannot be reached, or the stream breaks after some pings. *)
ProbeFails ==
    /\ step = "probe"
    /\ \E connect \in ConnectTimes, unanswered \in 0..(WarmupPings + Pings) :
          elapsed' = elapsed + connect + unanswered * PingBudget
    /\ probe' = NoProbe /\ acked' = FALSE /\ setup' = 0
    /\ Judged(FALSE)

(* Every warm-up ping, every measured one, and the setup handshake: it is  *)
(* acknowledged, or refused, or its budget runs out.                       *)
ProbeEnds ==
    /\ step = "probe"
    /\ \E connect \in ConnectTimes, warm \in [1..WarmupPings -> Rtts \cup {PingBudget}],
          lost \in 0..Pings, ack \in AckTimes \cup {AckBudget}, answer \in BOOLEAN :
          \E rtts \in [1..(Pings - lost) -> Rtts] :
             /\ \A i, j \in DOMAIN rtts : i <= j => rtts[i] <= rtts[j]
             /\ ack = AckBudget => ~answer
             /\ probe' = [rtts |-> rtts, lost |-> lost]
             /\ acked' = answer /\ setup' = connect + ack
             /\ elapsed' = elapsed + connect + SumFunction(warm) + SumFunction(rtts)
                             + lost * PingBudget + ack
             /\ Judged(answer /\ IsUsable(rtts, lost, connect + ack))

(* The pause before the next attempt. *)
Pauses ==
    /\ step = "pause"
    /\ elapsed' = elapsed + RetryBackoff(attempt)
    /\ attempt' = attempt + 1
    /\ step' = "probe" /\ probe' = NoProbe /\ acked' = FALSE /\ setup' = 0
    /\ UNCHANGED usable

(* end_call, heard at either await: no verdict is reported. *)
CheckCancelled ==
    /\ step # "over"
    /\ step' = "over"
    /\ UNCHANGED <<attempt, probe, acked, setup, usable, elapsed>>

CheckNext == ProbeFails \/ ProbeEnds \/ Pauses \/ CheckCancelled

CheckSpec == CheckInit /\ [][CheckNext]_checkVars

-----------------------------------------------------------------------------
(* The window the breaker grants a probe call before it gives its flag     *)
(* away covers the slowest preflight there is, as long as a connection is  *)
(* refused or made within 5 s.                                             *)
WithinWindow == elapsed <= MaxWindow

Slow(rtts) == {i \in DOMAIN rtts : rtts[i] > MaxRtt}

(* One late ping is forgiven, a second is not: a usable network answered   *)
(* all but one of its pings in time and was set up in time; and a probe    *)
(* with nothing worse than one late ping and no jitter beside it passes.   *)
LoneSpikeIsForgiven ==
    step = "over" /\ probe # NoProbe =>
        /\ usable =>
              /\ Cardinality(Slow(probe.rtts)) <= 1
              /\ probe.lost * 100 <= MaxLossPct * Pings
              /\ acked /\ SetupInTime(setup)
        /\ /\ Pings > 2 /\ acked /\ SetupInTime(setup) /\ probe.lost = 0
           /\ \A i \in 1..(Pings - 1) :
                 probe.rtts[i] <= MaxRtt /\ probe.rtts[i] <= probe.rtts[1] + MaxJitter
           => usable
=============================================================================
