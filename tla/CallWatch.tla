------------------------------ MODULE CallWatch -----------------------------
(***************************************************************************)
(* The watches over a live call: what run_call (src/src/engine.rs) does at *)
(* each quality tick, once a second.  It aborts the call when the downlink *)
(* stuttered too often, when the uplink lost too much over a rolling       *)
(* window, or when the callee's RTCP receiver reports were bad for several *)
(* ticks on end, and it nudges, then ends, a call in which nobody speaks.  *)
(*                                                                         *)
(* The callee sends Rate packets a second, in order; a second is how many  *)
(* of them are lost.  The receiver infers a loss from the next packet that *)
(* arrives, so a second that loses all of them shows only later.  The SIP  *)
(* task samples the callee's latest report once a second too.              *)
(***************************************************************************)
EXTENDS Integers, SequencesExt

CONSTANTS
    AbortUnderruns,     \* abort_underruns, 0 for never
    UplinkPct,          \* uplink_loss_abort_pct
    UplinkWindow,       \* UPLINK_WINDOW_TICKS
    BreachTicks,        \* DOWNLINK_BREACH_TICKS
    NudgeSecs,          \* dead_air_nudge_ms, in seconds; 0 disables the wrap-up
    GraceSecs,          \* wrap_up_grace_ms, in seconds; 0 disables it too
    Rate,               \* packets a second
    Losses,             \* how many of them a second may lose
    MaxTicks            \* bound: ticks of the watched call

ASSUME WatchAssumption ==
    /\ {AbortUnderruns, UplinkPct, UplinkWindow, BreachTicks, NudgeSecs, GraceSecs,
        Rate, MaxTicks} \subseteq Nat
    /\ UplinkWindow > 0 /\ BreachTicks > 0
    /\ Losses \subseteq 0..Rate

Never == -1
NoReport == <<"none", Never>>

VARIABLES
    now,            \* seconds since the loop began
    dropouts,       \* underruns of the pacer, as published
    uplink,         \* <<received, lost>>, as published
    uplinkHist,     \* uplink_hist
    streak,         \* downlink_over_streak
    report,         \* the callee's latest report: its quality, and when it came
    published,      \* DownlinkQualityShared: the report last sampled
    previous,       \* ... and the one before
    beat,           \* of the second: "elapse", "listen" or "tick"
    lastActivity,   \* WrapUpState.last_activity_ms
    nudgedAt,       \* WrapUpState.nudged_at_ms, or Never
    muted,          \* mute_downlink
    harvest,        \* the engine's harvesting
    watchEnd,       \* the watch that ended the loop, or "none"
    unseen,         \* packets lost since the last one that arrived
    lostBy,         \* history: packets lost by each of the window's ticks
    blamed,         \* history: the bad reports that the streak has counted
    fairAt,         \* history: when a sample was last not bad
    soundAt,        \* history: when two samples in a row were last not bad
    spokeAt         \* history: when anybody was last heard

uplinkVars == <<uplink, uplinkHist, unseen, lostBy>>
sampleVars == <<published, previous, fairAt, soundAt>>
reportVars == <<report, sampleVars, blamed>>
silenceVars == <<lastActivity, nudgedAt, muted, harvest, spokeAt>>
watchVars == <<now, beat, dropouts, uplinkVars, streak, reportVars, silenceVars, watchEnd>>

(* The interval's first tick is immediate. *)
WatchInit ==
    /\ now = 0 /\ dropouts = 0
    /\ uplink = <<0, 0>> /\ uplinkHist = <<>> /\ unseen = 0 /\ lostBy = <<0>>
    /\ streak = 0 /\ beat = "tick"
    /\ report = NoReport /\ published = NoReport /\ previous = NoReport /\ blamed = {}
    /\ fairAt = 0 /\ soundAt = 0
    /\ lastActivity = 0 /\ nudgedAt = Never /\ muted = FALSE /\ harvest = FALSE
    /\ spokeAt = 0
    /\ watchEnd = "none"

Watched == watchEnd = "none" /\ now < MaxTicks

-----------------------------------------------------------------------------
(* What happens between two ticks.                                         *)

Trimmed(seq) == IF Len(seq) > UplinkWindow THEN Tail(seq) ELSE seq

(* What UplinkStats publishes after a second that lost so many packets.    *)
Heard(lost) ==
    IF lost = Rate THEN uplink
    ELSE <<uplink[1] + Rate - lost, uplink[2] + unseen + lost>>

SecondPasses(lost, stutters) ==
    /\ Watched /\ beat = "elapse"
    /\ now' = now + 1
    /\ beat' = "listen"
    /\ uplink' = Heard(lost)
    /\ unseen' = IF lost = Rate THEN unseen + Rate ELSE 0
    /\ lostBy' = Trimmed(Append(lostBy, Last(lostBy) + lost))
    /\ dropouts' = dropouts + stutters
    /\ UNCHANGED <<uplinkHist, streak, reportVars, silenceVars, watchEnd>>

ActivityKeepsNudge ==                   \* mutant: the nudge stays pending
    lastActivity' = now /\ UNCHANGED <<nudgedAt, muted>>

(* on_activity, at a transcript or the end of a turn; run_call un-mutes    *)
(* when it cleared a nudge.                                                *)
OnActivity ==
    /\ lastActivity' = now
    /\ nudgedAt' = Never
    /\ muted' = (muted /\ nudgedAt = Never)

Speaks ==
    /\ Watched /\ beat = "listen" /\ spokeAt # now
    /\ spokeAt' = now
    /\ OnActivity
    /\ UNCHANGED <<now, beat, dropouts, uplinkVars, streak, reportVars, harvest, watchEnd>>

(* The phone hung up in mid-conversation: the harvest has its own deadline.*)
HarvestBegins ==
    /\ Watched /\ beat = "listen" /\ ~harvest
    /\ harvest' = TRUE
    /\ UNCHANGED <<now, beat, dropouts, uplinkVars, streak, reportVars, lastActivity,
                   nudgedAt, muted, spokeAt, watchEnd>>

(* A receiver report of the callee, at most one a second. *)
Reports(quality) ==
    /\ Watched /\ beat \in {"listen", "tick"} /\ report[2] < now
    /\ report' = <<quality, now>>
    /\ UNCHANGED <<now, beat, dropouts, uplinkVars, streak, sampleVars, blamed, silenceVars,
                   watchEnd>>

(* rr_interval: stats().remote is the latest report, however old.  How     *)
(* often the callee sends one is the callee's affair.                      *)
SampleReport ==
    /\ Watched /\ beat = "listen"
    /\ beat' = "tick"
    /\ published' = report /\ previous' = published
    /\ fairAt' = IF report[1] = "bad" THEN fairAt ELSE now
    /\ soundAt' = IF "bad" \in {report[1], published[1]} THEN soundAt ELSE now
    /\ UNCHANGED <<now, dropouts, uplinkVars, streak, report, blamed, silenceVars, watchEnd>>

-----------------------------------------------------------------------------
(* The tick.                                                               *)

ShouldAbort(n) == AbortUnderruns > 0 /\ n >= AbortUnderruns

(* window_loss_pct exceeds the limit: on 200 packets at least. *)
LossExceeds(oldest, current) ==
    LET received == current[1] - oldest[1]
        lost == current[2] - oldest[2]
    IN  received + lost >= 200 /\ lost * 100 > UplinkPct * (received + lost)

UplinkBreachCumulative(window) ==       \* mutant: the whole call, not the window
    Len(window) >= UplinkWindow /\ LossExceeds(<<0, 0>>, Last(window))

UplinkBreach(window) ==
    Len(window) >= UplinkWindow /\ LossExceeds(Head(window), Last(window))

(* DownlinkQualityShared::snapshot: the tick and the sampling are timers of *)
(* two threads, so it may come just before the second's publish, or amid   *)
(* the first one, whose flag is relaxed like the values.                   *)
Snapshots ==
    {published, previous}
      \cup (IF previous = NoReport /\ published # NoReport THEN {<<"clean", published[2]>>}
            ELSE {})

StreakAnyReport(was, downlink) ==       \* mutant: a clean report does not reset
    CASE downlink[1] = "bad" -> was + 1 [] downlink[1] = "clean" -> was [] OTHER -> 0

(* downlink_breach: an absent report is no breach, and resets the streak.  *)
Streak(was, downlink) == IF downlink[1] = "bad" THEN was + 1 ELSE 0

(* WrapUpState::phase *)
Phase ==
    IF nudgedAt = Never
    THEN IF now - lastActivity >= NudgeSecs THEN "nudge" ELSE "idle"
    ELSE IF now - nudgedAt >= GraceSecs THEN "finalize" ELSE "idle"

WrapUpEnabled == NudgeSecs > 0 /\ GraceSecs > 0

WrapUpTick ==
    IF WrapUpEnabled /\ ~harvest
    THEN /\ watchEnd' = IF Phase = "finalize" THEN "silence" ELSE "none"
         /\ nudgedAt' = IF Phase = "nudge" THEN now ELSE nudgedAt
         /\ muted' = (muted \/ Phase = "nudge")
    ELSE watchEnd' = "none" /\ UNCHANGED <<nudgedAt, muted>>

(* The gates in their order; the first that breaches ends the loop.        *)
Gates(window, downlink) ==
    \/ /\ ShouldAbort(dropouts)
       /\ watchEnd' = "underruns"
       /\ UNCHANGED <<streak, uplinkHist, nudgedAt, muted>>
    \/ /\ ~ShouldAbort(dropouts)
       /\ uplinkHist' = window
       /\ \/ /\ UplinkBreach(window)
             /\ watchEnd' = "uplink"
             /\ UNCHANGED <<streak, nudgedAt, muted>>
          \/ /\ ~UplinkBreach(window)
             /\ streak' = Streak(streak, downlink)
             /\ IF streak' >= BreachTicks
                THEN watchEnd' = "downlink" /\ UNCHANGED <<nudgedAt, muted>>
                ELSE WrapUpTick

(* One tick, on what was published by then. *)
QualityTick ==
    /\ watchEnd = "none" /\ beat = "tick"
    /\ \E downlink \in Snapshots :
          /\ Gates(Trimmed(Append(uplinkHist, uplink)), downlink)
          /\ blamed' = IF downlink[1] = "bad" THEN blamed \cup {downlink} ELSE {}
    /\ beat' = "elapse"
    /\ UNCHANGED <<now, dropouts, uplink, unseen, lostBy, report, sampleVars, lastActivity,
                   harvest, spokeAt>>

WatchNext ==
    \/ \E lost \in Losses, stutters \in 0..1 : SecondPasses(lost, stutters)
    \/ Speaks \/ HarvestBegins
    \/ \E quality \in {"clean", "bad"} : Reports(quality)
    \/ SampleReport \/ QualityTick

WatchSpec == WatchInit /\ [][WatchNext]_watchVars

-----------------------------------------------------------------------------
WatchTypeOK ==
    /\ now \in 0..MaxTicks /\ beat \in {"elapse", "listen", "tick"}
    /\ uplink \in Nat \X Nat /\ Len(uplinkHist) <= UplinkWindow
    /\ streak \in 0..BreachTicks
    /\ {report, published, previous} \subseteq {"none", "clean", "bad"} \X (-1..now)
    /\ {fairAt, soundAt} \subseteq 0..now
    /\ Phase \in {"idle", "nudge", "finalize"}
    /\ nudgedAt \in {Never} \cup 0..now /\ lastActivity \in 0..now
    /\ watchEnd \in {"none", "underruns", "uplink", "downlink", "silence"}

(* Of the packets of the seconds between the window's first tick and its   *)
(* last, more are lost than the limit allows.                              *)
TrulyLossy ==
    (Last(lostBy) - Head(lostBy)) * 100 > UplinkPct * Rate * (Len(lostBy) - 1)

(* engine.rs:1281-1284: the uplink gate judges the last seconds, whatever  *)
(* came before: it aborts only a call whose line is lossy now, and a call  *)
(* whose line has been, on a window it can see, is aborted.  A line that   *)
(* has fallen silent is not seen, for nothing that arrives reveals it.     *)
(* It takes a limit below the share of one second in the window: with a    *)
(* higher one, the losses of a silence before the window count as its own. *)
UplinkGateIsCurrent ==
    /\ watchEnd = "uplink" => TrulyLossy
    /\ watchEnd = "none" /\ beat = "elapse" /\ Len(uplinkHist) = UplinkWindow /\ unseen = 0 =>
          ~TrulyLossy

(* engine.rs:1291-1310: the downlink gate ends a call on a streak and on   *)
(* nothing else, however often the callee reports.  When it ends one, no   *)
(* two samples in a row were good for BreachTicks seconds (a single one    *)
(* may slip between two ticks); and while it lets a call go on, a sample   *)
(* was not bad at most BreachTicks seconds ago.                            *)
DownlinkGateIsCurrent ==
    /\ watchEnd = "downlink" => now - soundAt >= BreachTicks
    /\ watchEnd = "none" /\ beat = "elapse" => now - fairAt <= BreachTicks

(* engine.rs:65-68: "require a short sustained streak rather than reacting *)
(* to a single noisy report".  The streak counts ticks, not reports: one   *)
(* bad report that stands for BreachTicks seconds, as it does until the    *)
(* next one comes in the usual 5 s, ends the call.                         *)
LoneReportIsForgiven ==
    watchEnd = "downlink" => \E first, second \in blamed : first # second

(* engine.rs:138-139: a resumed conversation does not get finalized.  Only *)
(* a line on which nobody spoke for the whole time is ended for silence,   *)
(* and the downlink is muted only while such a silence lasts.              *)
ResumedCallGoesOn ==
    /\ watchEnd = "silence" => now - spokeAt >= NudgeSecs + GraceSecs
    /\ muted => now - spokeAt >= NudgeSecs
=============================================================================
