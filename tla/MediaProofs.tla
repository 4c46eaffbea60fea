----------------------------- MODULE MediaProofs ----------------------------
(***************************************************************************)
(* Theorems about what is timed and counted around a call: the loss        *)
(* accounting of the uplink (RtpStats), the watches over a live call       *)
(* (CallWatch), the downlink pacer (Pacer), the network preflight          *)
(* (NetCheck) and the uplink's level (UplinkLevel).  They share no state;  *)
(* each property has an invariant of its own.                              *)
(***************************************************************************)
EXTENDS MCMedia, FiniteSetTheorems, FunctionTheorems, TLAPS

-----------------------------------------------------------------------------
(* RtpStats.  The receiver's extended maximum is the sender's newest       *)
(* number, for every size of the sequence space, every Reach below half of *)
(* it and any number of packets.  The invariant is inductive together with *)
(* the ranges of its terms; the step is the case split of                  *)
(* UplinkStats::observe on where the packet lies: at the newest, ahead of  *)
(* it, or behind it, with or without a wrap in between.                    *)

(* A number is determined by its multiple of M and its remainder. *)
LEMMA ModUnique ==
    ASSUME NEW m \in Nat \ {0}, NEW q \in Int, NEW r \in 0..(m - 1)
    PROVE  (q * m + r) % m = r
  OBVIOUS

(* The 16-bit number of a packet that lies d from the newest. *)
LEMMA WireOf ==
    ASSUME RtpTypeOK, MaxIsNewest, NEW d \in Int, -M < d, d < M
    PROVE  LET s == max16 + d
           IN  Wire(top + d) = IF s < 0 THEN s + M ELSE IF s >= M THEN s - M ELSE s
  <1>1. /\ M \in Nat \ {0} /\ cycles \in Int /\ max16 \in 0..(M - 1)
        /\ top = cycles * M + max16
    BY RtpAssumption DEF RtpTypeOK, MaxIsNewest, MaxExt
  <1>2. CASE max16 + d < 0
    <2>1. top + d = (cycles - 1) * M + (max16 + d + M)
      BY <1>1
    <2>2. cycles - 1 \in Int /\ max16 + d + M \in 0..(M - 1)
      BY <1>1, <1>2
    <2>3. ((cycles - 1) * M + (max16 + d + M)) % M = max16 + d + M
      BY <1>1, <2>2, ModUnique
    <2> QED BY <1>1, <1>2, <2>1, <2>3 DEF Wire
  <1>3. CASE max16 + d >= M
    <2>1. top + d = (cycles + 1) * M + (max16 + d - M)
      BY <1>1
    <2>2. cycles + 1 \in Int /\ max16 + d - M \in 0..(M - 1)
      BY <1>1, <1>3
    <2>3. ((cycles + 1) * M + (max16 + d - M)) % M = max16 + d - M
      BY <1>1, <2>2, ModUnique
    <2> QED BY <1>1, <1>3, <2>1, <2>3 DEF Wire
  <1>4. CASE max16 + d \in 0..(M - 1)
    <2>1. (cycles * M + (max16 + d)) % M = max16 + d
      BY <1>1, <1>4, ModUnique
    <2>2. top + d = cycles * M + (max16 + d)
      BY <1>1
    <2> QED BY <1>1, <1>4, <2>1, <2>2 DEF Wire
  <1> QED BY <1>1, <1>2, <1>3, <1>4

(* The wrapping difference to it: d itself, or d + M when it lies behind. *)
LEMMA ForwardOf ==
    ASSUME RtpTypeOK, MaxIsNewest, NEW d \in Int, -M < d, d < M
    PROVE  Forward(Wire(top + d)) = IF d < 0 THEN d + M ELSE d
  <1> DEFINE f == IF d < 0 THEN d + M ELSE d
             w == Wire(top + d) - max16
  <1>1. M \in Nat \ {0} /\ max16 \in 0..(M - 1) /\ f \in 0..(M - 1)
    BY RtpAssumption DEF RtpTypeOK
  <1>2. w \in {d, d + M, d - M}
    BY <1>1, WireOf
  <1>3. PICK q \in {-2, -1, 0, 1} : w = q * M + f
    <2>1. w = f \/ w = f + M \/ w = f - M \/ w = f - 2 * M
      BY <1>1, <1>2
    <2>2. 0 * M + f = f /\ 1 * M + f = f + M /\ (-1) * M + f = f - M
          /\ (-2) * M + f = f - 2 * M
      BY <1>1
    <2> QED BY <2>1, <2>2
  <1>4. (q * M + f) % M = f
    <2> q \in Int
      OBVIOUS
    <2> HIDE DEF f
    <2> QED BY <1>1, ModUnique
  <1> QED BY <1>3, <1>4 DEF Forward

(* One packet keeps the newest number and the ranges. *)
LEMMA ArrivesKeeps ==
    ASSUME RtpTypeOK, MaxIsNewest,
           NEW ext \in (top - Reach)..(top + Reach), Arrives(ext)
    PROVE  RtpTypeOK' /\ MaxIsNewest'
  <1> USE RtpAssumption
  <1> DEFINE d == ext - top
  <1>0. /\ d \in Int /\ ext = top + d /\ -M < d /\ d < M
        /\ 2 * d < M /\ -M < 2 * d
        /\ ext \in Nat /\ top \in Nat
        /\ M \div 2 \in Nat /\ 2 * (M \div 2) = M
    BY DEF RtpTypeOK, Arrives
  <1>1. Forward(Wire(ext)) = IF d < 0 THEN d + M ELSE d
    BY <1>0, ForwardOf
  <1>2. Wire(ext) = LET s == max16 + d
                    IN  IF s < 0 THEN s + M ELSE IF s >= M THEN s - M ELSE s
    BY <1>0, WireOf
  <1>3. top' = (IF ext > top THEN ext ELSE top) /\ arrived' = arrived \cup {ext}
        /\ Observe(Wire(ext))
    BY DEF Arrives
  <1>4. CASE d = 0
    <2>1. UNCHANGED <<cycles, max16, reordered, top>> /\ received' = received + 1
      BY <1>0, <1>1, <1>3, <1>4 DEF Observe
    <2> QED BY <1>0, <1>3, <2>1 DEF RtpTypeOK, MaxIsNewest, MaxExt
  <1>5. CASE d > 0
    <2>1. /\ Forward(Wire(ext)) # 0 /\ Forward(Wire(ext)) < M \div 2
          /\ top' = ext
      BY <1>0, <1>1, <1>3, <1>5
    <2>2. /\ cycles' = cycles + (IF Wire(ext) < max16 THEN 1 ELSE 0)
          /\ max16' = Wire(ext) /\ reordered' = reordered
          /\ received' = received + 1
      BY <1>3, <2>1 DEF Observe
    <2>3. CASE max16 + d < M
      <3>1. max16' = max16 + d /\ cycles' = cycles
        BY <1>0, <1>2, <1>5, <2>2, <2>3 DEF RtpTypeOK
      <3> QED BY <1>0, <1>3, <1>5, <2>1, <2>2, <2>3, <3>1 DEF RtpTypeOK, MaxIsNewest, MaxExt
    <2>4. CASE max16 + d >= M
      <3>1. max16' = max16 + d - M /\ cycles' = cycles + 1
        BY <1>0, <1>2, <1>5, <2>2, <2>4 DEF RtpTypeOK
      <3>2. (cycles + 1) * M = cycles * M + M
        BY DEF RtpTypeOK
      <3> QED BY <1>0, <1>3, <1>5, <2>1, <2>2, <2>4, <3>1, <3>2 DEF RtpTypeOK, MaxIsNewest, MaxExt
    <2> QED BY <1>0, <2>3, <2>4 DEF RtpTypeOK
  <1>6. CASE d < 0
    <2>1. Forward(Wire(ext)) # 0 /\ ~(Forward(Wire(ext)) < M \div 2) /\ top' = top
      BY <1>0, <1>1, <1>3, <1>6
    <2>2. /\ reordered' = reordered + 1 /\ UNCHANGED <<cycles, max16>>
          /\ received' = received + 1
      BY <1>3, <2>1 DEF Observe
    <2> QED BY <1>0, <1>3, <2>1, <2>2 DEF RtpTypeOK, MaxIsNewest, MaxExt
  <1> QED BY <1>0, <1>4, <1>5, <1>6

(* The newest number is tracked over every wrap: what loss is computed     *)
(* from is the sender's own numbering (src/src/sip/uplink.rs, observe).    *)
THEOREM NewestIsTracked == RtpSpec => [](RtpTypeOK /\ MaxIsNewest)
  <1> DEFINE Inv == RtpTypeOK /\ MaxIsNewest
  <1>1. RtpInit => Inv
    BY RtpAssumption DEF RtpInit, RtpTypeOK, MaxIsNewest, MaxExt
  <1>2. Inv /\ [RtpNext]_rtpVars => Inv'
    <2>1. CASE UNCHANGED rtpVars
      BY <2>1 DEF rtpVars, RtpTypeOK, MaxIsNewest, MaxExt
    <2>2. ASSUME Inv, NEW ext \in (top - Reach)..(top + Reach), Arrives(ext)
          PROVE  Inv'
      BY <2>2, ArrivesKeeps
    <2> QED BY <2>1, <2>2 DEF RtpNext
  <1> QED BY <1>1, <1>2, PTL DEF RtpSpec

(* Every packet counts, and nothing beyond the newest has arrived.         *)
LossInv ==
    /\ RtpTypeOK /\ MaxIsNewest /\ top >= Start
    /\ IsFiniteSet(arrived) /\ Cardinality(arrived) <= received
    /\ \A ext \in arrived : ext <= top

LEMMA ArrivesCounts ==
    ASSUME LossInv, NEW ext \in (top - Reach)..(top + Reach), Arrives(ext)
    PROVE  LossInv'
  <1>1. RtpTypeOK' /\ MaxIsNewest'
    BY ArrivesKeeps DEF LossInv
  <1>2. /\ received' = received + 1 /\ arrived' = arrived \cup {ext} /\ ext \in Nat
        /\ top' = IF ext > top THEN ext ELSE top
    BY RtpAssumption DEF Arrives, Observe, LossInv, RtpTypeOK
  <1>3. IsFiniteSet(arrived) /\ Cardinality(arrived) \in Nat
    BY FS_CardinalityType DEF LossInv
  <1>4. IsFiniteSet(arrived')
        /\ Cardinality(arrived') \in {Cardinality(arrived), Cardinality(arrived) + 1}
    BY <1>2, <1>3, FS_AddElement
  <1>5. Cardinality(arrived') <= received'
    BY <1>2, <1>3, <1>4 DEF LossInv, RtpTypeOK
  <1>6. top' >= Start /\ \A e \in arrived' : e <= top'
    BY <1>2, RtpAssumption DEF LossInv, RtpTypeOK
  <1> QED BY <1>1, <1>4, <1>5, <1>6 DEF LossInv

LEMMA LossCounts == LossInv => LossIsExact
  <1> SUFFICES ASSUME LossInv PROVE LossIsExact
    OBVIOUS
  <1> DEFINE span == Start..top
             missing == Cardinality(span \ arrived)
             counted == Cardinality(span \cap arrived)
  <1>1. /\ Start \in Int /\ top \in Int /\ top >= Start /\ received \in Nat
        /\ Span = top - Start + 1 /\ IsFiniteSet(arrived) /\ Cardinality(arrived) <= received
    BY RtpAssumption DEF LossInv, RtpTypeOK, MaxIsNewest, Span
  <1>2. IsFiniteSet(span) /\ Cardinality(span) = top - Start + 1
    BY <1>1, FS_Interval
  <1>3. counted \in Nat /\ counted <= Cardinality(arrived) /\ Cardinality(arrived) \in Nat
    BY <1>1, FS_Subset, FS_CardinalityType
  <1>4. missing = top - Start + 1 - counted
    <2>1. missing = Cardinality(span) - counted
      BY <1>2, FS_Difference
    <2> QED BY <1>1, <1>2, <1>3, <2>1
  <1>5. missing \in Nat
    BY <1>2, FS_Subset, FS_CardinalityType
  <1>6. Lost <= missing
    BY <1>1, <1>3, <1>4, <1>5 DEF Lost
  <1>7. ASSUME Plain PROVE Lost = missing
    <2>1. span \cap arrived = arrived
      <3>1. \A ext \in arrived : ext \in Int /\ ext >= Start /\ ext <= top
        BY <1>7 DEF Plain, LossInv, RtpTypeOK
      <3> QED BY <1>1, <3>1
    <2> QED BY <1>1, <1>3, <1>4, <1>5, <1>7, <2>1 DEF Plain, Lost
  <1> QED BY <1>6, <1>7 DEF LossIsExact

(* The loss reported is exactly the packets that have not arrived, or      *)
(* less when some came twice (src/src/sip/uplink.rs, snapshot), for every  *)
(* number of packets and of wraps.                                         *)
THEOREM LossesAreCounted == RtpSpec => []LossIsExact
  <1>1. RtpInit => LossInv
    <2> SUFFICES ASSUME RtpInit PROVE LossInv
      OBVIOUS
    <2>1. IsFiniteSet(arrived) /\ Cardinality(arrived) = 1
      BY FS_Singleton DEF RtpInit
    <2> QED BY <2>1, RtpAssumption DEF RtpInit, LossInv, RtpTypeOK, MaxIsNewest, MaxExt
  <1>2. LossInv /\ [RtpNext]_rtpVars => LossInv'
    <2>1. CASE UNCHANGED rtpVars
      BY <2>1 DEF rtpVars, LossInv, RtpTypeOK, MaxIsNewest, MaxExt
    <2>2. ASSUME LossInv, NEW ext \in (top - Reach)..(top + Reach), Arrives(ext)
          PROVE  LossInv'
      BY <2>2, ArrivesCounts
    <2> QED BY <2>1, <2>2 DEF RtpNext
  <1> QED BY <1>1, <1>2, LossCounts, PTL DEF RtpSpec

-----------------------------------------------------------------------------
(* CallWatch.  Only a call in which nobody spoke is ended for silence, and *)
(* only during a silence is the downlink muted: for every pair of limits,  *)
(* every loss pattern, every abort limit and any length of the call.       *)
(*                                                                         *)
(* ResumedCallGoesOn is not inductive: that a finalize comes NudgeSecs +   *)
(* GraceSecs after the last words needs that the nudge before it came      *)
(* NudgeSecs after them, and that activity has not been forgotten since.   *)

(* The engine's clock of silence is the true one. *)
ClockOfSilence ==
    /\ now \in Nat /\ spokeAt \in 0..now
    /\ lastActivity = spokeAt

(* A pending nudge was given after NudgeSecs of the silence that lasts. *)
NudgeInSilence ==
    nudgedAt # Never => nudgedAt \in 0..now /\ nudgedAt - spokeAt >= NudgeSecs

(* The downlink is muted by a nudge and un-muted with it. *)
MutedByNudge == muted \in BOOLEAN /\ (muted => nudgedAt # Never)

EndedInSilence == watchEnd = "silence" => now - spokeAt >= NudgeSecs + GraceSecs

SilenceInv == ClockOfSilence /\ NudgeInSilence /\ MutedByNudge /\ EndedInSilence

LEMMA Limits == NudgeSecs \in Nat /\ GraceSecs \in Nat /\ MaxTicks \in Nat
  BY WatchAssumption

LEMMA SilenceInit == WatchInit => SilenceInv
  <1> SUFFICES ASSUME WatchInit PROVE SilenceInv
    OBVIOUS
  <1>1. /\ now = 0 /\ spokeAt = 0 /\ lastActivity = 0 /\ nudgedAt = Never
        /\ muted = FALSE /\ watchEnd = "none"
    BY DEF WatchInit
  <1>2. ClockOfSilence
    BY <1>1 DEF ClockOfSilence
  <1>3. NudgeInSilence /\ MutedByNudge /\ EndedInSilence
    BY <1>1, Zenon DEF NudgeInSilence, MutedByNudge, EndedInSilence
  <1> QED BY <1>2, <1>3 DEF SilenceInv

(* A step that neither speaks nor touches the wrap-up. *)
LEMMA OtherStep ==
    ASSUME SilenceInv, UNCHANGED <<now, silenceVars, watchEnd>>
    PROVE  SilenceInv'
  BY DEF SilenceInv, ClockOfSilence, NudgeInSilence, MutedByNudge, EndedInSilence,
         silenceVars

LEMMA SecondPassesStep ==
    ASSUME SilenceInv, NEW lost, NEW stutters, SecondPasses(lost, stutters)
    PROVE  SilenceInv'
  <1>1. now' = now + 1 /\ watchEnd = "none" /\ watchEnd' = "none" /\ UNCHANGED silenceVars
    BY DEF SecondPasses, Watched
  <1> QED BY <1>1 DEF SilenceInv, ClockOfSilence, NudgeInSilence, MutedByNudge,
                      EndedInSilence, silenceVars

(* Words at any time take the nudge back and end the mute with it. *)
LEMMA SpeaksStep ==
    ASSUME SilenceInv, Speaks
    PROVE  SilenceInv'
  <1>1. /\ spokeAt' = now /\ lastActivity' = now /\ nudgedAt' = Never
        /\ muted' = (muted /\ nudgedAt = Never)
        /\ now' = now /\ watchEnd' = watchEnd /\ watchEnd = "none"
    BY DEF Speaks, OnActivity, Watched
  <1>2. muted' = FALSE
    BY <1>1 DEF SilenceInv, MutedByNudge
  <1> QED BY <1>1, <1>2 DEF SilenceInv, ClockOfSilence, NudgeInSilence, MutedByNudge,
                            EndedInSilence

LEMMA HarvestBeginsStep ==
    ASSUME SilenceInv, HarvestBegins
    PROVE  SilenceInv'
  BY DEF HarvestBegins, SilenceInv, ClockOfSilence, NudgeInSilence, MutedByNudge,
         EndedInSilence

(* The wrap-up's part of a tick: nudge after NudgeSecs, end GraceSecs later.*)
LEMMA WrapUpStep ==
    ASSUME SilenceInv, WrapUpTick, UNCHANGED <<now, lastActivity, spokeAt>>
    PROVE  SilenceInv'
  <1> USE Limits
  <1>1. CASE WrapUpEnabled /\ ~harvest /\ Phase = "nudge"
    <2>1. watchEnd' = "none" /\ nudgedAt' = now /\ muted' = TRUE
      BY <1>1 DEF WrapUpTick, SilenceInv, MutedByNudge
    <2>2. now - spokeAt >= NudgeSecs
      BY <1>1 DEF Phase, SilenceInv, ClockOfSilence
    <2> QED BY <2>1, <2>2 DEF SilenceInv, ClockOfSilence, NudgeInSilence, MutedByNudge,
                              EndedInSilence, Never
  <1>2. CASE WrapUpEnabled /\ ~harvest /\ Phase = "finalize"
    <2>1. watchEnd' = "silence" /\ nudgedAt' = nudgedAt /\ muted' = muted
      BY <1>2 DEF WrapUpTick, SilenceInv, MutedByNudge
    <2>2. nudgedAt # Never /\ now - nudgedAt >= GraceSecs
      BY <1>2 DEF Phase
    <2>3. now - spokeAt >= NudgeSecs + GraceSecs
      BY <2>2 DEF SilenceInv, ClockOfSilence, NudgeInSilence
    <2> QED BY <2>1, <2>3 DEF SilenceInv, ClockOfSilence, NudgeInSilence, MutedByNudge,
                              EndedInSilence
  <1>3. CASE ~(WrapUpEnabled /\ ~harvest /\ Phase \in {"nudge", "finalize"})
    <2>1. watchEnd' = "none" /\ nudgedAt' = nudgedAt /\ muted' = muted
      BY <1>3 DEF WrapUpTick, SilenceInv, MutedByNudge
    <2> QED BY <2>1 DEF SilenceInv, ClockOfSilence, NudgeInSilence, MutedByNudge,
                        EndedInSilence
  <1> QED BY <1>1, <1>2, <1>3

(* A gate that breaches before the wrap-up leaves it alone. *)
LEMMA TickStep ==
    ASSUME SilenceInv, QualityTick
    PROVE  SilenceInv'
  <1>1. watchEnd = "none" /\ UNCHANGED <<now, lastActivity, spokeAt>>
    BY DEF QualityTick
  <1>2. PICK downlink \in Snapshots : Gates(Trimmed(Append(uplinkHist, uplink)), downlink)
    BY DEF QualityTick
  <1>3. \/ watchEnd' \in {"underruns", "uplink", "downlink"} /\ UNCHANGED <<nudgedAt, muted>>
        \/ WrapUpTick
    BY <1>2 DEF Gates
  <1>4. CASE watchEnd' \in {"underruns", "uplink", "downlink"} /\ UNCHANGED <<nudgedAt, muted>>
    BY <1>1, <1>4 DEF SilenceInv, ClockOfSilence, NudgeInSilence, MutedByNudge,
                      EndedInSilence
  <1>5. CASE WrapUpTick
    BY <1>1, <1>5, WrapUpStep
  <1> QED BY <1>3, <1>4, <1>5

LEMMA SilenceNext == SilenceInv /\ [WatchNext]_watchVars => SilenceInv'
  <1> SUFFICES ASSUME SilenceInv, [WatchNext]_watchVars PROVE SilenceInv'
    OBVIOUS
  <1>1. CASE \E lost \in Losses, stutters \in 0..1 : SecondPasses(lost, stutters)
    BY <1>1, SecondPassesStep
  <1>2. CASE Speaks
    BY <1>2, SpeaksStep
  <1>3. CASE HarvestBegins
    BY <1>3, HarvestBeginsStep
  <1>4. CASE \E quality \in {"clean", "bad"} : Reports(quality)
    BY <1>4, OtherStep DEF Reports
  <1>5. CASE SampleReport
    BY <1>5, OtherStep DEF SampleReport
  <1>6. CASE QualityTick
    BY <1>6, TickStep
  <1>7. CASE UNCHANGED watchVars
    BY <1>7, OtherStep DEF watchVars
  <1> QED BY <1>1, <1>2, <1>3, <1>4, <1>5, <1>6, <1>7 DEF WatchNext

(* engine.rs:138-139: on_activity keeps a resumed conversation from being  *)
(* finalized, and the downlink is muted during a silence only.             *)
THEOREM ResumedCallsGoOn == WatchSpec => []ResumedCallGoesOn
  <1>1. SilenceInv => ResumedCallGoesOn
    BY Limits DEF SilenceInv, ClockOfSilence, NudgeInSilence, MutedByNudge, EndedInSilence,
                  ResumedCallGoesOn
  <1> QED BY <1>1, SilenceInit, SilenceNext, PTL DEF WatchSpec

-----------------------------------------------------------------------------
(* CallWatch, the downlink gate.  A tick sees the second's sample or the   *)
(* one before, as the timers of two threads have it.  A tick that counts   *)
(* has a bad one among the two, and a tick does not count only if they are *)
(* not both bad.  So the streak is no longer than the time since two       *)
(* samples in a row were good, and at most one tick shorter than the time  *)
(* since the last good one.                                                *)

(* The seconds of the last sample and of the last tick. *)
LastSample == IF beat = "listen" THEN now - 1 ELSE now
LastTick == IF beat = "elapse" THEN now ELSE now - 1

SamplesDated ==
    /\ now \in Nat /\ beat \in {"elapse", "listen", "tick"}
    /\ fairAt \in 0..LastSample /\ soundAt \in 0..LastSample
    /\ published[1] # "bad" => fairAt = LastSample
    /\ previous[1] # "bad" => fairAt >= LastSample - 1
    /\ "bad" \in {published[1], previous[1]} => soundAt < LastSample

StreakDated ==
    /\ streak \in Nat
    /\ watchEnd = "none" =>
          /\ streak < BreachTicks
          /\ streak <= LastTick - soundAt \/ (beat = "tick" /\ soundAt = now)
          /\ streak >= LastTick - fairAt - 1
    /\ watchEnd = "downlink" => now - soundAt >= BreachTicks

StreakInv == SamplesDated /\ StreakDated

LEMMA InitStreakInv == WatchInit => StreakInv
  <1> SUFFICES ASSUME WatchInit PROVE StreakInv
    OBVIOUS
  <1>1. /\ now = 0 /\ beat = "tick" /\ streak = 0 /\ watchEnd = "none"
        /\ published[1] = "none" /\ previous[1] = "none" /\ fairAt = 0 /\ soundAt = 0
        /\ BreachTicks \in Nat /\ BreachTicks > 0
    BY WatchAssumption DEF WatchInit, NoReport
  <1> QED BY <1>1 DEF StreakInv, SamplesDated, StreakDated, LastSample, LastTick

(* What the gates do to the streak. *)
LEMMA GatesOnStreak ==
    ASSUME NEW window, NEW downlink, Gates(window, downlink)
    PROVE  \/ watchEnd' \in {"underruns", "uplink"} /\ streak' = streak
           \/ /\ streak' = Streak(streak, downlink)
              /\ IF streak' >= BreachTicks THEN watchEnd' = "downlink"
                 ELSE watchEnd' \in {"none", "silence"}
  BY DEF Gates, WrapUpTick

LEMMA TickDatesStreak ==
    ASSUME StreakInv, QualityTick
    PROVE  StreakInv'
  <1>1. /\ watchEnd = "none" /\ beat = "tick" /\ beat' = "elapse" /\ now' = now
        /\ UNCHANGED <<published, previous, fairAt, soundAt>>
    BY DEF QualityTick, sampleVars
  <1>2. /\ now \in Nat /\ streak \in Nat /\ fairAt \in 0..now /\ soundAt \in 0..now
        /\ BreachTicks \in Nat /\ BreachTicks > 0
    BY <1>1, WatchAssumption DEF StreakInv, SamplesDated, StreakDated, LastSample
  <1>3. SamplesDated'
    BY <1>1 DEF StreakInv, SamplesDated, LastSample
  <1>4. /\ streak <= now - 1 - soundAt \/ soundAt = now
        /\ streak >= now - 1 - fairAt - 1
    BY <1>1, <1>2 DEF StreakInv, StreakDated, LastTick
  <1>5. PICK downlink \in Snapshots : Gates(Trimmed(Append(uplinkHist, uplink)), downlink)
    BY DEF QualityTick
  <1>6. \/ watchEnd' \in {"underruns", "uplink"} /\ streak' = streak
        \/ /\ streak' = Streak(streak, downlink)
           /\ IF streak' >= BreachTicks THEN watchEnd' = "downlink"
              ELSE watchEnd' \in {"none", "silence"}
    BY <1>5, GatesOnStreak
  <1>7. CASE downlink[1] = "bad"
    <2>1. "bad" \in {published[1], previous[1]}
      BY <1>7 DEF Snapshots
    <2>2. soundAt < now
      BY <1>1, <2>1 DEF StreakInv, SamplesDated, LastSample
    <2>3. streak + 1 <= now - soundAt
      BY <1>2, <1>4, <2>2
    <2>4. streak' = streak \/ streak' = streak + 1
      BY <1>6, <1>7 DEF Streak
    <2>5. streak' # streak + 1 => watchEnd' \in {"underruns", "uplink"}
      BY <1>6, <1>7 DEF Streak
    <2>6. StreakDated'
      BY <1>1, <1>2, <1>4, <1>6, <2>3, <2>4, <2>5 DEF StreakDated, LastTick
    <2> QED BY <1>3, <2>6 DEF StreakInv
  <1>8. CASE downlink[1] # "bad"
    <2>1. published[1] # "bad" \/ previous[1] # "bad"
      BY <1>8 DEF Snapshots, NoReport
    <2>2. fairAt >= now - 1
      BY <1>1, <1>2, <2>1 DEF StreakInv, SamplesDated, LastSample
    <2>3. \/ watchEnd' \in {"underruns", "uplink"} /\ streak' = streak
          \/ streak' = 0 /\ watchEnd' \in {"none", "silence"}
      BY <1>2, <1>6, <1>8 DEF Streak
    <2>4. StreakDated'
      BY <1>1, <1>2, <2>2, <2>3 DEF StreakDated, LastTick
    <2> QED BY <1>3, <2>4 DEF StreakInv
  <1> QED BY <1>7, <1>8

LEMMA StreakStep == StreakInv /\ [WatchNext]_watchVars => StreakInv'
  <1> SUFFICES ASSUME StreakInv, [WatchNext]_watchVars PROVE StreakInv'
    OBVIOUS
  <1>1. now \in Nat /\ SamplesDated /\ StreakDated
    BY DEF StreakInv, SamplesDated
  <1>2. CASE \E lost \in Losses, stutters \in 0..1 : SecondPasses(lost, stutters)
    <2>1. /\ now' = now + 1 /\ beat = "elapse" /\ beat' = "listen" /\ watchEnd = "none"
          /\ UNCHANGED <<streak, published, previous, fairAt, soundAt, watchEnd>>
      BY <1>2 DEF SecondPasses, Watched, reportVars, sampleVars
    <2>2. LastSample' = LastSample /\ LastTick' = LastTick
      BY <1>1, <2>1 DEF LastSample, LastTick
    <2> QED BY <1>1, <2>1, <2>2 DEF StreakInv, SamplesDated, StreakDated
  <1>3. CASE \/ Speaks \/ HarvestBegins \/ UNCHANGED watchVars
             \/ \E quality \in {"clean", "bad"} : Reports(quality)
    <2>1. UNCHANGED <<now, beat, streak, published, previous, fairAt, soundAt, watchEnd>>
      BY <1>3 DEF Speaks, HarvestBegins, Reports, watchVars, reportVars, sampleVars
    <2> QED BY <1>1, <2>1 DEF StreakInv, SamplesDated, StreakDated, LastSample, LastTick
  <1>4. CASE SampleReport
    <2>1. /\ beat = "listen" /\ beat' = "tick" /\ published' = report /\ previous' = published
          /\ fairAt' = (IF report[1] = "bad" THEN fairAt ELSE now)
          /\ soundAt' = (IF "bad" \in {report[1], published[1]} THEN soundAt ELSE now)
          /\ watchEnd = "none" /\ UNCHANGED <<now, streak, watchEnd>>
      BY <1>4 DEF SampleReport, Watched
    <2>2. LastSample = now - 1 /\ LastSample' = now /\ LastTick = now - 1 /\ LastTick' = now - 1
      BY <2>1 DEF LastSample, LastTick
    <2>3. fairAt \in 0..(now - 1) /\ soundAt \in 0..(now - 1)
      BY <1>1, <2>2 DEF SamplesDated
    <2>4. SamplesDated'
      BY <1>1, <2>1, <2>2, <2>3 DEF SamplesDated
    <2>5. /\ streak \in Nat /\ streak < BreachTicks
          /\ streak <= now - 1 - soundAt /\ streak >= now - 1 - fairAt - 1
      BY <1>1, <2>1, <2>2 DEF StreakDated
    <2>6. StreakDated'
      BY <1>1, <2>1, <2>2, <2>3, <2>5 DEF StreakDated
    <2> QED BY <2>4, <2>6 DEF StreakInv
  <1>5. CASE QualityTick
    BY <1>5, TickDatesStreak
  <1> QED BY <1>2, <1>3, <1>4, <1>5 DEF WatchNext

(* engine.rs:1291-1310: the downlink gate ends a call on a streak and on   *)
(* nothing else, for every limit and length of the call, and whenever the  *)
(* callee's reports come: one that ends a call on a single report ends it  *)
(* only after that report has stood for as long as the streak.             *)
THEOREM DownlinkGateJudgesNow == WatchSpec => []DownlinkGateIsCurrent
  <1>1. StreakInv => DownlinkGateIsCurrent
    <2> SUFFICES ASSUME StreakInv PROVE DownlinkGateIsCurrent
      OBVIOUS
    <2>1. BreachTicks \in Nat /\ now \in Nat /\ streak \in Nat /\ fairAt \in Int
      BY WatchAssumption DEF StreakInv, SamplesDated, StreakDated, LastSample
    <2>2. watchEnd = "none" /\ beat = "elapse" => now - fairAt <= BreachTicks
      BY <2>1 DEF StreakInv, StreakDated, LastTick
    <2> QED BY <2>2 DEF StreakInv, StreakDated, DownlinkGateIsCurrent
  <1> QED BY <1>1, InitStreakInv, StreakStep, PTL DEF WatchSpec

-----------------------------------------------------------------------------
(* The uplink gate.  The window holds what was published at its ticks, and *)
(* lostBy what was lost by then.  They differ by the packets lost since    *)
(* the last one that arrived, which are whole seconds: the window's first  *)
(* entry may be behind, and then the gate counts losses that came before   *)
(* the window.  That is sound where the loss of one second is a breach on  *)
(* its own: a line that was silent at the window's first tick was ended    *)
(* for it a tick before, or is silent still.                               *)
SecondIsBreach ==
    /\ UplinkWindow >= 3
    /\ UplinkPct * (UplinkWindow - 1) < 100
    /\ Rate * (UplinkWindow - 1) >= 200

Counts == Nat \X Nat

Behind(w, b, i) == w[i][2] < b[i]

(* w and b are the last ticks up to the n-th, as published and in truth.   *)
LineUp(w, b, n) ==
    /\ w \in Seq(Counts) /\ b \in Seq(Nat) /\ Len(w) = Len(b)
    /\ Len(b) \in 1..UplinkWindow /\ Len(b) <= n + 1 /\ (Len(b) = n + 1 \/ Len(b) = UplinkWindow)
    /\ Len(b) = n + 1 => b[1] = 0
    /\ \A i \in 1..Len(b) : w[i][2] <= b[i] /\ w[i][1] + b[i] = Rate * (n - Len(b) + i)
    /\ \A i, j \in 1..Len(b) : i <= j => b[i] <= b[j]
    /\ \A i \in 2..Len(b) : Behind(w, b, i) => b[i] = b[i - 1] + Rate

(* The window that the next tick judges, or the last one has judged.       *)
Window == IF beat = "elapse" THEN uplinkHist ELSE Trimmed(Append(uplinkHist, uplink))

(* A line that was silent at the window's head has not been heard before   *)
(* its last second.                                                        *)
HeadStillSilent ==
    beat # "elapse" /\ Len(lostBy) = UplinkWindow /\ Behind(Window, lostBy, 1) =>
        Behind(Window, lostBy, UplinkWindow - 1)

LineInv ==
    /\ now \in Nat
    /\ watchEnd # "underruns" =>
          /\ LineUp(Window, lostBy, now)
          /\ Last(Window) = uplink /\ unseen = Last(lostBy) - uplink[2]
          /\ HeadStillSilent
    /\ UplinkGateIsCurrent

(* How many entries a full window drops for the next one. *)
Cut(k) == IF k = UplinkWindow THEN 1 ELSE 0

LEMMA TrimmedAppend ==
    ASSUME NEW S, NEW s, NEW x, s \in Seq(S), x \in S, Len(s) <= UplinkWindow
    PROVE  /\ Trimmed(Append(s, x)) \in Seq(S)
           /\ Len(Trimmed(Append(s, x))) = Len(s) + 1 - Cut(Len(s))
           /\ \A i \in 1..(Len(s) - Cut(Len(s))) :
                 Trimmed(Append(s, x))[i] = s[i + Cut(Len(s))]
           /\ Trimmed(Append(s, x))[Len(s) + 1 - Cut(Len(s))] = x
  <1>a. PICK cut : cut = Cut(Len(s))
    OBVIOUS
  <1> DEFINE a == Append(s, x)
  <1>1. a \in Seq(S) /\ Len(a) = Len(s) + 1 /\ Len(s) \in Nat
        /\ (\A i \in 1..Len(s) : a[i] = s[i]) /\ a[Len(s) + 1] = x
    OBVIOUS
  <1> HIDE DEF a
  <1>2. CASE Len(s) = UplinkWindow
    <2>1. Trimmed(a) = Tail(a) /\ cut = 1
      BY <1>a, <1>1, <1>2, WatchAssumption DEF Trimmed, Cut
    <2>2. /\ Tail(a) \in Seq(S) /\ Len(Tail(a)) = Len(s)
          /\ \A i \in 1..Len(s) : Tail(a)[i] = a[i + 1]
      BY <1>1
    <2>3. UplinkWindow \in 1..Len(s)
      BY <1>1, <1>2, WatchAssumption
    <2> QED BY <1>a, <1>1, <1>2, <2>1, <2>2, <2>3 DEF a
  <1>3. CASE Len(s) # UplinkWindow
    <2>1. Trimmed(a) = a /\ cut = 0
      BY <1>a, <1>1, <1>3, WatchAssumption DEF Trimmed, Cut
    <2> QED BY <1>a, <1>1, <2>1 DEF a
  <1> QED BY <1>2, <1>3

(* A second passes: both windows move on. *)
LEMMA SecondHeard ==
    ASSUME uplink \in Counts, NEW by \in Nat, uplink[2] <= by, unseen = by - uplink[2],
           NEW lost \in 0..Rate
    PROVE  LET x == Heard(lost)
           IN  /\ x \in Counts /\ x[2] <= by + lost
               /\ x[1] + by + lost = uplink[1] + by + Rate
               /\ by + lost - x[2] = IF lost = Rate THEN unseen + Rate ELSE 0
               /\ x[2] < by + lost => lost = Rate
  <1>1. uplink[1] \in Nat /\ uplink[2] \in Nat /\ Rate \in Nat
    BY WatchAssumption DEF Counts
  <1>2. CASE lost = Rate
    BY <1>1, <1>2 DEF Heard
  <1>3. CASE lost # Rate
    <2> DEFINE r == uplink[1] + Rate - lost
               l == uplink[2] + unseen + lost
    <2>1. r \in Nat /\ l \in Nat /\ l = by + lost /\ r + by + lost = uplink[1] + by + Rate
      BY <1>1
    <2>2. Heard(lost) = <<r, l>>
      BY <1>3 DEF Heard
    <2> HIDE DEF r, l
    <2>3. <<r, l>> \in Counts /\ <<r, l>>[1] = r /\ <<r, l>>[2] = l
      BY <2>1 DEF Counts
    <2> QED BY <1>3, <2>1, <2>2, <2>3
  <1> QED BY <1>2, <1>3

LEMMA LineMoves ==
    ASSUME NEW w, NEW b, NEW n \in Nat, LineUp(w, b, n), NEW lost \in 0..Rate,
           Last(w) = uplink, unseen = Last(b) - uplink[2],
           NEW x, x = Heard(lost), NEW y, y = Last(b) + lost,
           NEW v, v = Trimmed(Append(w, x)), NEW c, c = Trimmed(Append(b, y))
    PROVE  /\ LineUp(v, c, n + 1) /\ Last(v) = x /\ Last(c) = y
           /\ y - x[2] = IF lost = Rate THEN unseen + Rate ELSE 0
  <1>1. PICK k, cut : k = Len(b) /\ cut = Cut(k)
    OBVIOUS
  <1>2. UplinkWindow \in Nat \ {0} /\ Rate \in Nat
    BY WatchAssumption
  <1>a. \A i \in 1..Len(b) : w[i][2] <= b[i] /\ w[i][1] + b[i] = Rate * (n - Len(b) + i)
    BY Zenon DEF LineUp
  <1>b. \A i, j \in 1..Len(b) : i <= j => b[i] <= b[j]
    BY Zenon DEF LineUp
  <1>c. \A i \in 2..Len(b) : Behind(w, b, i) => b[i] = b[i - 1] + Rate
    BY Zenon DEF LineUp
  <1>3. /\ w \in Seq(Counts) /\ b \in Seq(Nat) /\ Len(w) = k /\ k \in 1..UplinkWindow
        /\ k \in Nat /\ k > 0 /\ k <= n + 1 /\ (k = n + 1 \/ k = UplinkWindow)
    BY <1>1, <1>2 DEF LineUp
  <1>4. cut \in {0, 1} /\ (cut = 1 <=> k = UplinkWindow)
    BY <1>1 DEF Cut
  <1>5. w[k] = uplink /\ Last(b) = b[k]
    BY <1>1, <1>3 DEF Last
  <1>6. b[k] \in Nat /\ uplink \in Counts
    <2>1. k \in 1..Len(w) /\ k \in 1..Len(b)
      BY <1>1, <1>3
    <2>2. w[k] \in Counts /\ b[k] \in Nat
      BY <1>3, <2>1
    <2> QED BY <1>5, <2>2
  <1>7. uplink[2] <= b[k] /\ uplink[1] + b[k] = Rate * n
    <2>1. k \in 1..Len(b) /\ n - Len(b) + k = n
      BY <1>1, <1>3
    <2>2. w[k][2] <= b[k] /\ w[k][1] + b[k] = Rate * (n - Len(b) + k)
      BY <1>a, <2>1
    <2> QED BY <1>5, <2>1, <2>2
  <1>8. /\ x \in Counts /\ x[1] \in Nat /\ x[2] \in Nat /\ y \in Nat
        /\ y = b[k] + lost /\ x[2] <= y
        /\ x[1] + y = Rate * n + Rate
        /\ y - x[2] = IF lost = Rate THEN unseen + Rate ELSE 0
        /\ x[2] < y => y = b[k] + Rate
    <2>1. unseen = b[k] - uplink[2] /\ y = b[k] + lost /\ lost \in Nat
      BY <1>2, <1>5
    <2>2. /\ x \in Counts /\ x[2] <= b[k] + lost
          /\ x[1] + b[k] + lost = uplink[1] + b[k] + Rate
          /\ b[k] + lost - x[2] = IF lost = Rate THEN unseen + Rate ELSE 0
          /\ x[2] < b[k] + lost => lost = Rate
      BY <1>6, <1>7, <2>1, SecondHeard
    <2>3. x[1] \in Nat /\ x[2] \in Nat /\ uplink[1] \in Nat
      BY <1>6, <2>2 DEF Counts
    <2> QED BY <1>2, <1>6, <1>7, <2>1, <2>2, <2>3
  <1>9. Rate * (n + 1) = Rate * n + Rate
    BY <1>2
  <1>10. /\ v \in Seq(Counts) /\ Len(v) = k + 1 - cut
         /\ \A i \in 1..(k - cut) : v[i] = w[i + cut]
         /\ v[k + 1 - cut] = x
    <2>1. /\ w \in Seq(Counts) /\ x \in Counts
          /\ Len(w) <= UplinkWindow /\ cut = Cut(Len(w))
      BY <1>1, <1>2, <1>3, <1>8
    <2>2. /\ v \in Seq(Counts) /\ Len(v) = Len(w) + 1 - cut
          /\ \A i \in 1..(Len(w) - cut) : v[i] = w[i + cut]
          /\ v[Len(w) + 1 - cut] = x
      BY <2>1, TrimmedAppend
    <2> QED BY <1>3, <2>2
  <1>11. /\ c \in Seq(Nat) /\ Len(c) = k + 1 - cut
         /\ \A i \in 1..(k - cut) : c[i] = b[i + cut]
         /\ c[k + 1 - cut] = y
    <2>1. /\ b \in Seq(Nat) /\ y \in Nat
          /\ Len(b) <= UplinkWindow /\ cut = Cut(Len(b))
      BY <1>1, <1>2, <1>3, <1>8
    <2>2. /\ c \in Seq(Nat) /\ Len(c) = Len(b) + 1 - cut
          /\ \A i \in 1..(Len(b) - cut) : c[i] = b[i + cut]
          /\ c[Len(b) + 1 - cut] = y
      BY <2>1, TrimmedAppend
    <2> QED BY <1>1, <2>2
  <1>12. PICK m : m = k + 1 - cut
    OBVIOUS
  <1>13. /\ m \in 1..UplinkWindow /\ m <= n + 1 + 1 /\ (m = n + 1 + 1 \/ m = UplinkWindow)
         /\ \A i \in 1..m : i = m \/ (i \in 1..(k - cut) /\ i + cut \in 1..k)
    BY <1>2, <1>3, <1>4, <1>12
  <1>14. m = n + 1 + 1 => c[1] = 0
    <2> SUFFICES ASSUME m = n + 1 + 1 PROVE c[1] = 0
      OBVIOUS
    <2>1. cut = 0 /\ k = n + 1 /\ 1 \in 1..(k - cut) /\ 1 + cut = 1
      BY <1>2, <1>3, <1>4, <1>12
    <2>2. c[1] = b[1]
      BY <1>11, <2>1
    <2> QED BY <1>1, <2>1, <2>2 DEF LineUp
  <1>15. \A i \in 1..m : v[i][2] <= c[i] /\ v[i][1] + c[i] = Rate * (n + 1 - m + i)
    <2> SUFFICES ASSUME NEW i \in 1..m
                 PROVE  v[i][2] <= c[i] /\ v[i][1] + c[i] = Rate * (n + 1 - m + i)
      OBVIOUS
    <2>1. CASE i = m
      <3>1. n + 1 - m + i = n + 1 /\ v[i] = x /\ c[i] = y
        BY <1>10, <1>11, <1>12, <1>13, <2>1
      <3> QED BY <1>8, <1>9, <3>1
    <2>2. CASE i \in 1..(k - cut) /\ i + cut \in 1..k
      <3>1. n + 1 - m + i = n - k + (i + cut)
        BY <1>3, <1>4, <1>12, <2>2
      <3>2. v[i] = w[i + cut] /\ c[i] = b[i + cut]
        BY <1>10, <1>11, <2>2
      <3>3. w[i + cut][2] <= b[i + cut]
            /\ w[i + cut][1] + b[i + cut] = Rate * (n - k + (i + cut))
        BY <1>1, <1>a, <2>2
      <3> QED BY <3>1, <3>2, <3>3
    <2> QED BY <1>13, <2>1, <2>2
  <1>16. \A i, j \in 1..m : i <= j => c[i] <= c[j]
    <2>1. \A i \in 1..k : b[i] \in Nat /\ b[i] <= b[k]
      <3>1. \A i \in 1..k : i \in 1..Len(b) /\ k \in 1..Len(b) /\ i <= k
        BY <1>1, <1>3
      <3> QED BY <1>3, <1>b, <3>1
    <2> SUFFICES ASSUME NEW i \in 1..m, NEW j \in 1..m, i <= j PROVE c[i] <= c[j]
      OBVIOUS
    <2>2. CASE j = m
      <3>1. c[j] = y /\ b[k] <= y
        BY <1>6, <1>8, <1>11, <1>12, <2>2
      <3>2. CASE i = m
        BY <1>8, <2>2, <3>1, <3>2
      <3>3. CASE i \in 1..(k - cut) /\ i + cut \in 1..k
        <4>1. c[i] = b[i + cut] /\ b[i + cut] \in Nat /\ b[i + cut] <= b[k]
          BY <1>11, <2>1, <3>3
        <4>2. b[k] \in Nat /\ y \in Nat
          BY <1>6, <1>8
        <4> QED BY <3>1, <4>1, <4>2
      <3> QED BY <1>13, <3>2, <3>3
    <2>3. CASE j # m
      <3>1. i \in 1..(k - cut) /\ i + cut \in 1..k /\ j \in 1..(k - cut) /\ j + cut \in 1..k
            /\ i + cut <= j + cut
        BY <1>4, <1>13, <2>3
      <3>2. b[i + cut] <= b[j + cut]
        <4>1. i + cut \in 1..Len(b) /\ j + cut \in 1..Len(b)
          BY <1>1, <3>1
        <4>2. PICK p \in 1..Len(b), q \in 1..Len(b) : p = i + cut /\ q = j + cut
          BY <4>1
        <4> QED BY <1>b, <3>1, <4>2
      <3> QED BY <1>11, <3>1, <3>2
    <2> QED BY <2>2, <2>3
  <1>17. \A i \in 2..m : Behind(v, c, i) => c[i] = c[i - 1] + Rate
    <2> SUFFICES ASSUME NEW i \in 2..m, Behind(v, c, i) PROVE c[i] = c[i - 1] + Rate
      OBVIOUS
    <2>1. i - 1 \in 1..(k - cut) /\ i - 1 + cut \in 1..k /\ c[i - 1] = b[i - 1 + cut]
      <3>1. i - 1 \in 1..(k - cut) /\ i - 1 + cut \in 1..k
        BY <1>3, <1>4, <1>12, <1>13
      <3> QED BY <1>11, <3>1
    <2>2. CASE i = m
      <3>1. v[i] = x /\ c[i] = y /\ i - 1 + cut = k
        BY <1>3, <1>4, <1>10, <1>11, <1>12, <2>2
      <3> QED BY <1>8, <2>1, <3>1 DEF Behind
    <2>3. CASE i \in 1..(k - cut) /\ i + cut \in 1..k
      <3>1. i + cut \in 2..k /\ (i + cut) - 1 = i - 1 + cut
        BY <1>3, <1>4, <2>3
      <3>4. v[i] = w[i + cut] /\ c[i] = b[i + cut]
        BY <1>10, <1>11, <2>3
      <3>2. Behind(w, b, i + cut)
        BY <3>4 DEF Behind
      <3>3. b[i + cut] = b[(i + cut) - 1] + Rate
        <4>1. i + cut \in 2..Len(b)
          BY <1>1, <3>1
        <4>2. PICK p : p = i + cut
          OBVIOUS
        <4>3. p \in 2..Len(b) /\ Behind(w, b, p)
          BY <3>2, <4>1, <4>2
        <4>4. b[p] = b[p - 1] + Rate
          BY <1>c, <4>3
        <4> QED BY <4>2, <4>4
      <3> QED BY <2>1, <3>1, <3>3, <3>4
    <2> QED BY <1>13, <2>2, <2>3
  <1>18. Last(v) = x /\ Last(c) = y
    BY <1>10, <1>11 DEF Last
  <1>19. Len(c) = m /\ Len(v) = m
    BY <1>10, <1>11, <1>12
  <1>20. LineUp(v, c, n + 1)
    <2>1. Len(c) \in 1..UplinkWindow /\ Len(c) <= n + 1 + 1
          /\ (Len(c) = n + 1 + 1 \/ Len(c) = UplinkWindow)
      BY <1>13, <1>19
    <2>2. /\ Len(c) = n + 1 + 1 => c[1] = 0
          /\ Len(v) = Len(c)
      BY <1>14, <1>19
    <2>3. \A i \in 1..Len(c) : v[i][2] <= c[i] /\ v[i][1] + c[i] = Rate * (n + 1 - Len(c) + i)
      BY <1>15, <1>19
    <2>4. \A i, j \in 1..Len(c) : i <= j => c[i] <= c[j]
      BY <1>16, <1>19
    <2>5. \A i \in 2..Len(c) : Behind(v, c, i) => c[i] = c[i - 1] + Rate
      BY <1>17, <1>19
    <2> QED BY <1>10, <1>11, <2>1, <2>2, <2>3, <2>4, <2>5 DEF LineUp
  <1> QED BY <1>8, <1>18, <1>20

(* What the gate counts, l of r + l packets, against what was lost, t of   *)
(* k, where u of them are of before the window and v not known yet.        *)
LEMMA GateArithmetic ==
    ASSUME NEW p \in 0..100, NEW k \in Nat, NEW l \in Int, NEW t \in Int, NEW total \in Int,
           NEW u \in Nat, NEW v \in Nat, t = l + v - u, total = k + u - v
    PROVE  /\ u = 0 /\ l * 100 > p * total => t * 100 > p * k
           /\ v = 0 /\ l * 100 <= p * total => t * 100 <= p * k
  <1>1. p * u <= 100 * u /\ p * v <= 100 * v
    OBVIOUS
  <1>2. p * total = p * k + p * u - p * v
    OBVIOUS
  <1>3. p * u \in Int /\ p * v \in Int /\ p * k \in Int /\ p * total \in Int
    OBVIOUS
  <1>4. u = 0 => p * u = 0
    OBVIOUS
  <1>5. v = 0 => p * v = 0
    OBVIOUS
  <1> QED BY <1>1, <1>2, <1>3, <1>4, <1>5

(* The loss of one whole second is a breach. *)
LEMMA SilentSecond ==
    ASSUME SecondIsBreach, NEW t \in Int, t >= Rate
    PROVE  t * 100 > UplinkPct * (Rate * (UplinkWindow - 1))
  <1>1. UplinkPct \in Nat /\ Rate \in Nat /\ UplinkWindow \in Nat
    BY WatchAssumption
  <1>2. PICK d \in Nat : d = UplinkWindow - 1 /\ UplinkPct * d < 100 /\ Rate * d >= 200
    BY <1>1 DEF SecondIsBreach
  <1>3. PICK e \in Nat : e = UplinkPct * d
    BY <1>1
  <1>4. UplinkPct * (Rate * d) = Rate * e
    BY <1>1, <1>3
  <1>5. Rate > 0
    BY <1>1, <1>2
  <1>6. Rate * e < Rate * 100
    BY <1>1, <1>2, <1>3, <1>5
  <1> QED BY <1>1, <1>2, <1>4, <1>6

LossyLine(b) == (Last(b) - Head(b)) * 100 > UplinkPct * Rate * (Len(b) - 1)

(* The limit is below the share of a whole second, so it is below 100.     *)
LEMMA WindowLimit ==
    ASSUME SecondIsBreach
    PROVE  UplinkPct \in 0..100 /\ Rate * (UplinkWindow - 1) \in Nat
  <1>1. UplinkPct \in Nat /\ Rate \in Nat /\ UplinkWindow \in Nat
    BY WatchAssumption
  <1>2. PICK d \in Nat : d = UplinkWindow - 1 /\ UplinkPct * d < 100 /\ d >= 1
    BY <1>1 DEF SecondIsBreach
  <1>3. UplinkPct <= UplinkPct * d
    BY <1>1, <1>2
  <1> QED BY <1>1, <1>2, <1>3

LEMMA GateJudges ==
    ASSUME SecondIsBreach, NEW w, NEW b, NEW n \in Nat, LineUp(w, b, n),
           Len(b) = UplinkWindow, Behind(w, b, 1) => Behind(w, b, UplinkWindow - 1)
    PROVE  /\ UplinkBreach(w) => LossyLine(b)
           /\ ~UplinkBreach(w) /\ Last(w)[2] = Last(b) => ~LossyLine(b)
  <1>1. PICK z : z = UplinkWindow
    OBVIOUS
  <1>2. z \in Nat /\ z >= 3 /\ UplinkPct \in 0..100 /\ Rate \in Nat
    BY <1>1, WindowLimit, WatchAssumption DEF SecondIsBreach
  <1>3. w \in Seq(Counts) /\ b \in Seq(Nat) /\ Len(w) = z /\ Len(b) = z
    BY <1>1 DEF LineUp
  <1>4. \A i \in 1..z : w[i][2] <= b[i] /\ w[i][1] + b[i] = Rate * (n - z + i)
    BY <1>1, Zenon DEF LineUp
  <1>5. \A i, j \in 1..z : i <= j => b[i] <= b[j]
    BY <1>1, Zenon DEF LineUp
  <1>6. \A i \in 2..z : Behind(w, b, i) => b[i] = b[i - 1] + Rate
    BY <1>1, Zenon DEF LineUp
  <1>7. PICK r1, l1, b1, rz, lz, bz :
            /\ w[1][1] = r1 /\ w[1][2] = l1 /\ b[1] = b1
            /\ w[z][1] = rz /\ w[z][2] = lz /\ b[z] = bz
    OBVIOUS
  <1>8. /\ r1 \in Nat /\ l1 \in Nat /\ b1 \in Nat /\ rz \in Nat /\ lz \in Nat /\ bz \in Nat
    <2>1. 1 \in 1..Len(w) /\ z \in 1..Len(w) /\ 1 \in 1..Len(b) /\ z \in 1..Len(b)
      BY <1>2, <1>3
    <2>2. w[1] \in Counts /\ w[z] \in Counts /\ b[1] \in Nat /\ b[z] \in Nat
      BY <1>3, <2>1
    <2> QED BY <1>7, <2>2 DEF Counts
  <1>9. /\ l1 <= b1 /\ r1 + b1 = Rate * (n - z + 1)
        /\ lz <= bz /\ rz + bz = Rate * n
    <2>1. 1 \in 1..z /\ z \in 1..z /\ n - z + z = n
      BY <1>2
    <2> QED BY <1>4, <1>7, <2>1
  <1>10. Rate * n - Rate * (n - z + 1) = Rate * (z - 1)
    BY <1>2
  <1>11. PICK k : k = Rate * (z - 1)
    OBVIOUS
  <1>12. k \in Nat /\ k >= 200
    BY <1>1, <1>11, WindowLimit DEF SecondIsBreach
  <1>13. (rz - r1) + (bz - b1) = k
    BY <1>2, <1>8, <1>9, <1>10, <1>11
  <1>14. UplinkBreach(w) <=> /\ (rz - r1) + (lz - l1) >= 200
                             /\ (lz - l1) * 100 > UplinkPct * ((rz - r1) + (lz - l1))
    <2>1. Head(w) = w[1] /\ Last(w) = w[z]
      BY <1>2, <1>3 DEF Last
    <2>2. Len(w) >= UplinkWindow
      BY <1>1, <1>2, <1>3
    <2> QED BY <1>7, <2>1, <2>2 DEF UplinkBreach, LossExceeds
  <1>15. LossyLine(b) <=> (bz - b1) * 100 > UplinkPct * k
    <2>1. Head(b) = b1 /\ Last(b) = bz
      BY <1>2, <1>3, <1>7 DEF Last
    <2>2. UplinkPct * Rate * (z - 1) = UplinkPct * k
      BY <1>2, <1>11
    <2> QED BY <1>3, <2>1, <2>2 DEF LossyLine
  <1>16. PICK u, v, l, t, total :
             /\ u = b1 - l1 /\ v = bz - lz /\ l = lz - l1 /\ t = bz - b1
             /\ total = (rz - r1) + (lz - l1)
    OBVIOUS
  <1>17. /\ u \in Nat /\ v \in Nat /\ l \in Int /\ t \in Int /\ total \in Int
         /\ t = l + v - u /\ total = k + u - v
    BY <1>8, <1>9, <1>12, <1>13, <1>16
  <1>18. /\ u = 0 /\ l * 100 > UplinkPct * total => t * 100 > UplinkPct * k
         /\ v = 0 /\ l * 100 <= UplinkPct * total => t * 100 <= UplinkPct * k
    BY <1>2, <1>12, <1>17, GateArithmetic
  <1>19. UplinkPct * total \in Int /\ UplinkPct * k \in Int
    BY <1>2, <1>12, <1>17
  <1>20. ASSUME UplinkBreach(w) PROVE LossyLine(b)
    <2>1. CASE u = 0
      BY <1>14, <1>15, <1>16, <1>18, <1>20, <2>1
    <2>2. CASE u # 0
      <3>1. Behind(w, b, 1)
        <4>1. l1 <= b1 /\ u = b1 - l1
          BY <1>9, <1>16
        <4>2. l1 < b1
          BY <1>8, <2>2, <4>1
        <4> QED BY <1>7, <4>2 DEF Behind
      <3>2. PICK y : y = z - 1
        OBVIOUS
      <3>3. y \in 2..z /\ y - 1 \in 1..z /\ Behind(w, b, y)
        BY <1>1, <1>2, <3>1, <3>2
      <3>4. b[y] = b[y - 1] + Rate
        BY <1>6, <3>3
      <3>5. b1 <= b[y - 1] /\ b[y] <= bz
        BY <1>2, <1>5, <1>7, <3>3
      <3>6. b[y] \in Nat /\ b[y - 1] \in Nat
        BY <1>3, <3>3
      <3>7. t >= Rate
        BY <1>2, <1>8, <1>16, <3>4, <3>5, <3>6
      <3> QED BY <1>1, <1>11, <1>15, <1>16, <1>17, <3>7, SilentSecond
    <2> QED BY <2>1, <2>2
  <1>21. ASSUME ~UplinkBreach(w), Last(w)[2] = Last(b) PROVE ~LossyLine(b)
    <2>a. Last(w) = w[z] /\ Last(b) = b[z]
      BY <1>3 DEF Last
    <2>b. lz = bz
      BY <1>7, <1>21, <2>a
    <2>1. v = 0
      BY <1>8, <1>16, <2>b
    <2>2. total >= 200
      BY <1>12, <1>17, <2>1
    <2>3. l * 100 <= UplinkPct * total
      BY <1>14, <1>16, <1>17, <1>19, <1>21, <2>2
    <2> QED BY <1>15, <1>16, <1>17, <1>18, <1>19, <2>1, <2>3
  <1> QED BY <1>20, <1>21

-----------------------------------------------------------------------------
LEMMA InitLineInv == SecondIsBreach /\ WatchInit => LineInv
  <1> SUFFICES ASSUME SecondIsBreach, WatchInit PROVE LineInv
    OBVIOUS
  <1>1. UplinkWindow \in Nat /\ UplinkWindow >= 3 /\ Rate \in Nat
    BY WatchAssumption DEF SecondIsBreach
  <1>2. /\ now = 0 /\ beat = "tick" /\ watchEnd = "none" /\ uplinkHist = <<>>
        /\ uplink = <<0, 0>> /\ lostBy = <<0>> /\ unseen = 0
    BY DEF WatchInit
  <1>3. Window = <<<<0, 0>>>>
    BY <1>1, <1>2 DEF Window, Trimmed
  <1>4. <<0, 0>> \in Counts /\ Len(lostBy) = 1 /\ Len(Window) = 1
        /\ lostBy[1] = 0 /\ Window[1] = <<0, 0>>
    BY <1>2, <1>3 DEF Counts
  <1>5. Window \in Seq(Counts) /\ lostBy \in Seq(Nat)
    BY <1>2, <1>3, <1>4
  <1>6. Rate * 0 = 0
    BY <1>1
  <1>7. LineUp(Window, lostBy, 0)
    <2>1. \A i \in 1..Len(lostBy) : i = 1 /\ 0 - Len(lostBy) + i = 0
      BY <1>4
    <2>2. \A i \in 1..Len(lostBy) : /\ Window[i][2] <= lostBy[i]
                                    /\ Window[i][1] + lostBy[i] = Rate * (0 - Len(lostBy) + i)
      BY <1>4, <1>6, <2>1
    <2>3. \A i \in 2..Len(lostBy) : FALSE
      BY <1>4
    <2> QED BY <1>1, <1>4, <1>5, <2>1, <2>2, <2>3 DEF LineUp
  <1>8. HeadStillSilent /\ UplinkGateIsCurrent
    BY <1>1, <1>2, <1>4 DEF HeadStillSilent, UplinkGateIsCurrent
  <1>9. Last(Window) = uplink /\ Last(lostBy) = 0 /\ uplink[2] = 0
    BY <1>2, <1>4 DEF Last
  <1> QED BY <1>2, <1>7, <1>8, <1>9 DEF LineInv

LEMMA LossyNow == TrulyLossy <=> LossyLine(lostBy)
BY DEF TrulyLossy, LossyLine

(* A line silent at the second entry of a full window that was not found   *)
(* lossy is silent at its last one.                                        *)
LEMMA StillSilent ==
    ASSUME SecondIsBreach, NEW w, NEW b, NEW n \in Nat, LineUp(w, b, n),
           Len(b) = UplinkWindow, ~LossyLine(b) \/ Behind(w, b, UplinkWindow),
           Behind(w, b, 2)
    PROVE  Behind(w, b, UplinkWindow)
  <1> SUFFICES ASSUME ~LossyLine(b) PROVE FALSE
    OBVIOUS
  <1>1. PICK z : z = UplinkWindow
    OBVIOUS
  <1>2. z \in Nat /\ z >= 3 /\ Rate \in Nat /\ UplinkPct \in Nat
    BY <1>1, WatchAssumption DEF SecondIsBreach
  <1>3. b \in Seq(Nat) /\ Len(b) = z
    BY <1>1 DEF LineUp
  <1>4. \A i, j \in 1..z : i <= j => b[i] <= b[j]
    BY <1>1, Zenon DEF LineUp
  <1>5. \A i \in 2..z : Behind(w, b, i) => b[i] = b[i - 1] + Rate
    BY <1>1, Zenon DEF LineUp
  <1>6. b[1] \in Nat /\ b[2] \in Nat /\ b[z] \in Nat /\ b[2] <= b[z]
    BY <1>2, <1>3, <1>4
  <1>7. b[2] = b[1] + Rate
    <2>1. 2 \in 2..z /\ 2 - 1 = 1
      BY <1>2
    <2> QED BY <1>5, <2>1
  <1>8. b[z] - b[1] \in Int /\ b[z] - b[1] >= Rate
    BY <1>2, <1>6, <1>7
  <1>9. (b[z] - b[1]) * 100 > UplinkPct * (Rate * (z - 1))
    BY <1>1, <1>8, SilentSecond
  <1>10. Last(b) - Head(b) = b[z] - b[1] /\ UplinkPct * Rate * (Len(b) - 1) = UplinkPct * (Rate * (z - 1))
    BY <1>2, <1>3 DEF Last
  <1> QED BY <1>9, <1>10 DEF LossyLine

LEMMA SecondKeepsLine ==
    ASSUME SecondIsBreach, LineInv, NEW lost \in Losses, NEW stutters \in 0..1,
           SecondPasses(lost, stutters)
    PROVE  LineInv'
  <1>1. /\ watchEnd = "none" /\ watchEnd' = "none" /\ beat = "elapse" /\ beat' = "listen"
        /\ now' = now + 1 /\ uplink' = Heard(lost) /\ uplinkHist' = uplinkHist
        /\ unseen' = IF lost = Rate THEN unseen + Rate ELSE 0
        /\ lostBy' = Trimmed(Append(lostBy, Last(lostBy) + lost))
    BY DEF SecondPasses, Watched
  <1>2. Window = uplinkHist /\ Window' = Trimmed(Append(uplinkHist, uplink'))
    BY <1>1 DEF Window
  <1>3. /\ now \in Nat /\ LineUp(uplinkHist, lostBy, now) /\ Last(uplinkHist) = uplink
        /\ unseen = Last(lostBy) - uplink[2] /\ UplinkGateIsCurrent
    BY <1>1, <1>2 DEF LineInv
  <1>4. lost \in 0..Rate
    BY WatchAssumption
  <1>5. PICK w, b, n, x, y, v, c :
            /\ w = uplinkHist /\ b = lostBy /\ n = now /\ x = Heard(lost)
            /\ y = Last(lostBy) + lost /\ v = Window' /\ c = lostBy'
    OBVIOUS
  <1>6. /\ n \in Nat /\ LineUp(w, b, n) /\ Last(w) = uplink /\ unseen = Last(b) - uplink[2]
        /\ y = Last(b) + lost /\ v = Trimmed(Append(w, x)) /\ c = Trimmed(Append(b, y))
    BY <1>1, <1>2, <1>3, <1>5
  <1>7. /\ LineUp(v, c, n + 1) /\ Last(v) = x /\ Last(c) = y
        /\ y - x[2] = IF lost = Rate THEN unseen + Rate ELSE 0
    BY <1>4, <1>5, <1>6, LineMoves
  <1>8. /\ now' \in Nat /\ LineUp(Window, lostBy, now)' /\ Last(Window)' = uplink'
        /\ unseen' = Last(lostBy)' - uplink'[2]
    BY <1>1, <1>5, <1>6, <1>7
  <1>9. ASSUME Len(c) = UplinkWindow, Behind(v, c, 1) PROVE Behind(v, c, UplinkWindow - 1)
    <2>1. PICK z : z = UplinkWindow
      OBVIOUS
    <2>2. /\ z \in Nat /\ z >= 3 /\ w \in Seq(Counts) /\ b \in Seq(Nat) /\ Len(w) = Len(b)
          /\ Len(b) \in 1..z /\ (Len(b) = n + 1 \/ Len(b) = z)
      BY <1>6, <2>1, WatchAssumption DEF SecondIsBreach, LineUp
    <2>3. x \in Counts /\ y \in Nat /\ v \in Seq(Counts) /\ c \in Seq(Nat) /\ Len(v) = Len(c)
      <3>1. v \in Seq(Counts) /\ c \in Seq(Nat) /\ Len(v) = Len(c)
        BY <1>7 DEF LineUp
      <3>2. Len(c) \in 1..Len(c) /\ v[Len(c)] = x /\ c[Len(c)] = y
        BY <1>7, <1>9, <2>1, <2>2, <3>1 DEF Last
      <3> QED BY <3>1, <3>2
    <2>4. CASE Len(b) # z
      <3>1. Cut(Len(b)) = 0 /\ Len(b) <= UplinkWindow
        BY <2>1, <2>2, <2>4 DEF Cut
      <3>2. Len(c) = Len(b) + 1
        BY <1>6, <2>2, <2>3, <3>1, TrimmedAppend
      <3>3. Len(c) = n + 1 + 1
        BY <1>6, <2>2, <2>4, <3>2
      <3>4. c[1] = 0
        BY <1>7, <3>3 DEF LineUp
      <3>5. v[1] \in Counts
        BY <1>9, <2>1, <2>2, <2>3
      <3> QED BY <1>9, <3>4, <3>5 DEF Behind, Counts
    <2>5. CASE Len(b) = z
      <3>1. Cut(Len(b)) = 1 /\ Cut(Len(w)) = 1 /\ Len(b) <= UplinkWindow /\ Len(w) <= UplinkWindow
        BY <2>1, <2>2, <2>5 DEF Cut
      <3>2. \A i \in 1..(z - 1) : v[i] = w[i + 1]
        <4>1. w \in Seq(Counts) /\ x \in Counts /\ Len(w) <= UplinkWindow
          BY <2>2, <2>3, <3>1
        <4>2. \A i \in 1..(Len(w) - Cut(Len(w))) : v[i] = w[i + Cut(Len(w))]
          BY <1>6, <4>1, TrimmedAppend
        <4> QED BY <2>2, <2>5, <3>1, <4>2
      <3>3. \A i \in 1..(z - 1) : c[i] = b[i + 1]
        <4>1. b \in Seq(Nat) /\ y \in Nat /\ Len(b) <= UplinkWindow
          BY <2>2, <2>3, <3>1
        <4>2. \A i \in 1..(Len(b) - Cut(Len(b))) : c[i] = b[i + Cut(Len(b))]
          BY <1>6, <4>1, TrimmedAppend
        <4> QED BY <2>2, <2>5, <3>1, <4>2
      <3>4. PICK y1 : y1 = z - 1
        OBVIOUS
      <3>5. v[1] = w[2] /\ c[1] = b[2] /\ v[y1] = w[z] /\ c[y1] = b[z]
        <4>1. 1 \in 1..(z - 1) /\ y1 \in 1..(z - 1) /\ 1 + 1 = 2 /\ y1 + 1 = z
          BY <2>2, <3>4
        <4> QED BY <3>2, <3>3, <4>1
      <3>6. Behind(w, b, 2)
        BY <1>9, <3>5 DEF Behind
      <3>7. ~LossyLine(b) \/ Behind(w, b, z)
        <4>1. CASE unseen = 0
          BY <1>1, <1>3, <1>5, <2>1, <2>2, <2>5, <4>1, LossyNow DEF UplinkGateIsCurrent
        <4>2. CASE unseen # 0
          <5>1. w[z] = uplink /\ Last(b) = b[z] /\ w[z] \in Counts /\ b[z] \in Nat
            BY <1>6, <2>2, <2>5 DEF Last
          <5>2. uplink[2] <= b[z]
            <6>1. \A i \in 1..Len(b) : w[i][2] <= b[i]
              BY <1>6 DEF LineUp
            <6> QED BY <2>2, <2>5, <5>1, <6>1
          <5>3. uplink[2] \in Nat
            BY <5>1 DEF Counts
          <5> QED BY <1>6, <4>2, <5>1, <5>2, <5>3 DEF Behind
        <4> QED BY <4>1, <4>2
      <3>8. Behind(w, b, z)
        BY <1>6, <2>1, <2>5, <3>6, <3>7, StillSilent
      <3> QED BY <2>1, <3>4, <3>5, <3>8 DEF Behind
    <2> QED BY <2>4, <2>5
  <1>10. HeadStillSilent'
    BY <1>5, <1>9 DEF HeadStillSilent, Behind
  <1>11. UplinkGateIsCurrent'
    BY <1>1 DEF UplinkGateIsCurrent
  <1> QED BY <1>8, <1>10, <1>11 DEF LineInv

(* A tick judges the window that the second has made. *)
LEMMA TickKeepsLine ==
    ASSUME SecondIsBreach, LineInv, QualityTick
    PROVE  LineInv'
  <1>1. /\ watchEnd = "none" /\ beat = "tick" /\ beat' = "elapse" /\ now' = now
        /\ uplink' = uplink /\ unseen' = unseen /\ lostBy' = lostBy
    BY DEF QualityTick
  <1>2. Window = Trimmed(Append(uplinkHist, uplink)) /\ Window' = uplinkHist'
    BY <1>1 DEF Window
  <1>3. PICK downlink : Gates(Window, downlink)
    BY <1>2, Zenon DEF QualityTick
  <1>4. /\ now \in Nat /\ LineUp(Window, lostBy, now) /\ Last(Window) = uplink
        /\ unseen = Last(lostBy) - uplink[2] /\ HeadStillSilent
    BY <1>1 DEF LineInv
  <1>5. HeadStillSilent'
    BY <1>1 DEF HeadStillSilent
  <1>6. CASE watchEnd' = "underruns" /\ uplinkHist' = uplinkHist
    <2>1. UplinkGateIsCurrent'
      BY <1>6 DEF UplinkGateIsCurrent
    <2> QED BY <1>1, <1>4, <1>6, <2>1 DEF LineInv
  <1>7. CASE /\ uplinkHist' = Window
             /\ \/ UplinkBreach(Window) /\ watchEnd' = "uplink"
                \/ ~UplinkBreach(Window) /\ watchEnd' # "uplink"
    <2>1. Window' = Window
      BY <1>2, <1>7
    <2>2. LineUp(Window, lostBy, now)' /\ Last(Window)' = uplink'
          /\ unseen' = Last(lostBy)' - uplink'[2] /\ now' \in Nat
      BY <1>1, <1>4, <2>1
    <2>3. Len(Window) = Len(lostBy)
      BY <1>4 DEF LineUp
    <2>4. Len(lostBy) = UplinkWindow =>
              /\ UplinkBreach(Window) => LossyLine(lostBy)
              /\ ~UplinkBreach(Window) /\ Last(Window)[2] = Last(lostBy) => ~LossyLine(lostBy)
      <3> SUFFICES ASSUME Len(lostBy) = UplinkWindow
                   PROVE  /\ UplinkBreach(Window) => LossyLine(lostBy)
                          /\ ~UplinkBreach(Window) /\ Last(Window)[2] = Last(lostBy) =>
                                ~LossyLine(lostBy)
        OBVIOUS
      <3>1. Behind(Window, lostBy, 1) => Behind(Window, lostBy, UplinkWindow - 1)
        BY <1>1, <1>4 DEF HeadStillSilent
      <3>2. PICK w, b, n : w = Window /\ b = lostBy /\ n = now
        OBVIOUS
      <3>3. n \in Nat /\ LineUp(w, b, n) /\ Len(b) = UplinkWindow
            /\ (Behind(w, b, 1) => Behind(w, b, UplinkWindow - 1))
        BY <1>4, <3>1, <3>2
      <3>4. /\ UplinkBreach(w) => LossyLine(b)
            /\ ~UplinkBreach(w) /\ Last(w)[2] = Last(b) => ~LossyLine(b)
        BY <3>3, GateJudges
      <3> QED BY <3>2, <3>4
    <2>5. UplinkBreach(Window) => Len(lostBy) = UplinkWindow
      <3>1. UplinkBreach(Window) => Len(Window) >= UplinkWindow
        BY DEF UplinkBreach
      <3>2. Len(lostBy) \in 1..UplinkWindow
        BY <1>4 DEF LineUp
      <3> QED BY <2>3, <3>1, <3>2, WatchAssumption
    <2>6. TrulyLossy' <=> LossyLine(lostBy)
      BY <1>1 DEF TrulyLossy, LossyLine
    <2>7. watchEnd' = "uplink" => TrulyLossy'
      BY <1>7, <2>4, <2>5, <2>6
    <2>8. ASSUME watchEnd' = "none", Len(uplinkHist') = UplinkWindow, unseen' = 0
          PROVE  ~TrulyLossy'
      <3>1. ~UplinkBreach(Window) /\ Len(lostBy) = UplinkWindow
        BY <1>7, <2>3, <2>8
      <3>2. Last(Window)[2] = Last(lostBy)
        <4>1. Last(lostBy) \in Nat /\ uplink[2] \in Nat
          <5>1. Len(lostBy) \in 1..Len(lostBy) /\ Len(Window) \in 1..Len(Window)
            BY <1>4, <2>3 DEF LineUp
          <5>2. Window \in Seq(Counts) /\ lostBy \in Seq(Nat)
            BY <1>4 DEF LineUp
          <5>3. Window[Len(Window)] \in Counts /\ lostBy[Len(lostBy)] \in Nat
            BY <5>1, <5>2
          <5>4. uplink = Window[Len(Window)] /\ Last(lostBy) = lostBy[Len(lostBy)]
            BY <1>4 DEF Last
          <5> QED BY <5>3, <5>4 DEF Counts
        <4>2. Last(lostBy) - uplink[2] = 0
          BY <1>1, <1>4, <2>8
        <4> QED BY <1>4, <4>1, <4>2
      <3> QED BY <2>4, <2>6, <3>1, <3>2
    <2>9. UplinkGateIsCurrent'
      BY <2>7, <2>8 DEF UplinkGateIsCurrent
    <2> QED BY <1>5, <2>2, <2>9 DEF LineInv
  <1>8. \/ watchEnd' = "underruns" /\ uplinkHist' = uplinkHist
        \/ /\ uplinkHist' = Window
           /\ \/ UplinkBreach(Window) /\ watchEnd' = "uplink"
              \/ ~UplinkBreach(Window) /\ watchEnd' # "uplink"
    <2>1. WrapUpTick => watchEnd' # "uplink"
      BY DEF WrapUpTick
    <2> QED BY <1>3, <2>1, Zenon DEF Gates
  <1> QED BY <1>6, <1>7, <1>8

LEMMA LineStep == SecondIsBreach /\ LineInv /\ [WatchNext]_watchVars => LineInv'
  <1> SUFFICES ASSUME SecondIsBreach, LineInv, [WatchNext]_watchVars PROVE LineInv'
    OBVIOUS
  <1>1. CASE \E lost \in Losses, stutters \in 0..1 : SecondPasses(lost, stutters)
    BY <1>1, SecondKeepsLine
  <1>2. CASE UNCHANGED <<now, beat, uplinkVars, watchEnd>>
    <2>1. Window' = Window
      BY <1>2 DEF Window, uplinkVars
    <2>2. HeadStillSilent' <=> HeadStillSilent
      BY <1>2, <2>1 DEF HeadStillSilent, uplinkVars
    <2>3. UplinkGateIsCurrent' <=> UplinkGateIsCurrent
      BY <1>2 DEF UplinkGateIsCurrent, TrulyLossy, uplinkVars
    <2> QED BY <1>2, <2>1, <2>2, <2>3 DEF LineInv, uplinkVars
  <1>3. CASE SampleReport
    <2>1. /\ watchEnd = "none" /\ beat = "listen" /\ beat' = "tick"
          /\ UNCHANGED <<now, uplink, uplinkHist, unseen, lostBy, watchEnd>>
      BY <1>3 DEF SampleReport, Watched, uplinkVars
    <2>2. Window' = Window
      BY <2>1 DEF Window
    <2>3. HeadStillSilent' <=> HeadStillSilent
      BY <2>1, <2>2 DEF HeadStillSilent
    <2>4. UplinkGateIsCurrent'
      BY <2>1 DEF UplinkGateIsCurrent
    <2> QED BY <2>1, <2>2, <2>3, <2>4 DEF LineInv
  <1>4. CASE QualityTick
    BY <1>4, TickKeepsLine
  <1>5. Speaks \/ HarvestBegins \/ (\E quality \in {"clean", "bad"} : Reports(quality))
            \/ UNCHANGED watchVars => UNCHANGED <<now, beat, uplinkVars, watchEnd>>
    BY DEF Speaks, HarvestBegins, Reports, OnActivity, watchVars, uplinkVars
  <1> QED BY <1>1, <1>2, <1>3, <1>4, <1>5 DEF WatchNext

(* The uplink gate aborts only a call whose line is lossy now, and a line  *)
(* that the window shows to be lossy is aborted (engine.rs, the uplink     *)
(* arm of the quality tick), where one silent second in the window is a    *)
(* breach on its own, as it is with the defaults.                          *)
THEOREM UplinkGateJudgesNow ==
    ASSUME SecondIsBreach
    PROVE  WatchSpec => []UplinkGateIsCurrent
  <1>1. WatchInit => LineInv
    BY InitLineInv
  <1>2. LineInv /\ [WatchNext]_watchVars => LineInv'
    BY LineStep
  <1>3. LineInv => UplinkGateIsCurrent
    BY DEF LineInv
  <1> QED BY <1>1, <1>2, <1>3, PTL DEF WatchSpec

-----------------------------------------------------------------------------
(* Pacer.  Each frame is whole because a frame of 480 samples is a         *)
(* multiple of the decimation: whatever the phase it begins in, one sample *)
(* out of three makes 160, and the phase is the same after it.             *)
Kept(p) == {i \in 0..479 : (p + i) % 3 = 0}

LEMMA FrameYields ==
    ASSUME NEW p \in 0..2
    PROVE  Cardinality(Kept(p)) = 160 /\ (p + 480) % 3 = p
  <1> DEFINE first == IF p = 0 THEN 0 ELSE 3 - p
             pick == [k \in 0..159 |-> 3 * k + first]
  <1>1. first \in 0..2 /\ (p + 480) % 3 = p
    BY p = 0 \/ p = 1 \/ p = 2
  <1>2. \A k \in 0..159 : pick[k] \in Kept(p)
    BY p = 0 \/ p = 1 \/ p = 2 DEF Kept
  <1>3. \A k, l \in 0..159 : pick[k] = pick[l] => k = l
    BY <1>1
  <1>4. \A i \in Kept(p) : \E k \in 0..159 : pick[k] = i
    <2> SUFFICES ASSUME NEW i \in Kept(p) PROVE \E k \in 0..159 : pick[k] = i
      OBVIOUS
    <2>1. (i - first) \div 3 \in 0..159 /\ i = 3 * ((i - first) \div 3) + first
      BY p = 0 \/ p = 1 \/ p = 2 DEF Kept
    <2> QED BY <2>1
  <1>5. pick \in Bijection(0..159, Kept(p))
    BY <1>2, <1>3, <1>4, Fun_IsBij
  <1>6. IsFiniteSet(0..159) /\ Cardinality(0..159) = 160
    <2>1. \A b \in Nat : IsFiniteSet(0..b) /\ Cardinality(0..b) = b + 1
      BY FS_Interval
    <2>2. 159 \in Nat /\ 159 + 1 = 160
      OBVIOUS
    <2>3. IsFiniteSet(0..159) /\ Cardinality(0..159) = 159 + 1
      BY <2>1, <2>2, Zenon
    <2> QED BY <2>2, <2>3
  <1>7. Cardinality(Kept(p)) = 160
    BY <1>5, <1>6, FS_Bijection DEF ExistsBijection
  <1> QED BY <1>1, <1>7

LEMMA FrameProcessed ==
    ASSUME filterPhase \in 0..2, Process(InPerFrame)
    PROVE  filterPhase' = filterPhase /\ emitted' = OutPerFrame
  <1>1. emitted' = Cardinality(Kept(filterPhase)) /\ filterPhase' = (filterPhase + 480) % 3
    BY DEF Process, InPerFrame, Kept
  <1> QED BY <1>1, FrameYields DEF OutPerFrame

LEMMA MinOfTwo ==
    ASSUME NEW a \in Nat, NEW b \in Nat
    PROVE  Min({a, b}) = IF a <= b THEN a ELSE b
BY DEF Min

(* Playout that goes on in a turn began in it: the turn's first audio      *)
(* stops what still plays of the one before, and re-arms the prefill.      *)
PlaysItsTurn == playing /\ expecting => ran

PacerInv == PacerTypeOK /\ buf <= sent /\ PlaysItsTurn

LEMMA PacerStep ==
    ASSUME PacerInv, [PacerNext]_pacerVars
    PROVE  PacerInv'
  <1> USE PacerAssumption DEF PacerInv, PlaysItsTurn
  <1>1. CASE UNCHANGED pacerVars
    BY <1>1 DEF pacerVars, PacerTypeOK
  <1>2. CASE \E n \in Chunks : OutputAudio(n)
    <2>1. PICK n \in Chunks : OutputAudio(n)
      BY <1>2
    <2>2. /\ n \in Nat /\ sent + n <= MaxAudio /\ buf' = buf + n /\ sent' = sent + n
          /\ expecting' = TRUE /\ ran' = (ran /\ expecting)
          /\ UNCHANGED <<filterPhase, emitted, underruns>>
      BY <2>1 DEF OutputAudio, ExpectTurn
    <2>3. /\ playing' = FALSE \/ (expecting /\ playing' = playing)
          /\ fillTarget' \in {fillTarget, Prebuffer}
      BY <2>1 DEF OutputAudio, ExpectTurn
    <2>4. /\ buf' \in 0..MaxAudio /\ sent' \in 0..MaxAudio /\ filterPhase' \in 0..2
          /\ underruns' \in Nat /\ buf' <= sent'
      BY <2>2 DEF PacerTypeOK
    <2>5. /\ playing' \in BOOLEAN /\ expecting' \in BOOLEAN /\ ran' \in BOOLEAN
          /\ fillTarget' \in {Prebuffer, Resume} /\ emitted' = OutPerFrame
      BY <2>2, <2>3, Zenon DEF PacerTypeOK
    <2>6. PlaysItsTurn'
      BY <2>2, <2>3 DEF PacerTypeOK
    <2> QED BY <2>4, <2>5, <2>6, Zenon DEF PacerTypeOK
  <1>3. CASE Interrupted
    <2>1. \/ buf' = 0 /\ playing' = FALSE /\ filterPhase' = 0
          \/ buf' = Min({FadeMs * SamplesPerMs, buf}) /\ playing' = TRUE /\ filterPhase' = filterPhase
      BY <1>3 DEF Interrupted, Fade, Clear
    <2>2. Min({FadeMs * SamplesPerMs, buf}) \in Nat
          /\ Min({FadeMs * SamplesPerMs, buf}) <= buf
      BY MinOfTwo DEF FadeMs, SamplesPerMs, PacerTypeOK
    <2>3. /\ expecting' = FALSE /\ fillTarget' = Prebuffer
          /\ UNCHANGED <<emitted, underruns, sent, ran>>
      BY <1>3 DEF Interrupted, Fade, Clear
    <2>4. buf' \in Nat /\ buf' <= buf
      BY <2>1, <2>2 DEF PacerTypeOK
    <2>5. /\ buf' \in 0..MaxAudio /\ sent' \in 0..MaxAudio
          /\ underruns' \in Nat /\ buf' <= sent'
      BY <2>3, <2>4 DEF PacerTypeOK
    <2>6. filterPhase' \in 0..2
      BY <2>1 DEF PacerTypeOK
    <2>7. /\ playing' \in BOOLEAN /\ expecting' \in BOOLEAN /\ ran' \in BOOLEAN
          /\ fillTarget' \in {Prebuffer, Resume} /\ emitted' = OutPerFrame
          /\ PlaysItsTurn'
      BY <2>1, <2>3, Zenon DEF PacerTypeOK
    <2> QED BY <2>5, <2>6, <2>7, Zenon DEF PacerTypeOK
  <1>4. CASE TurnOver
    BY <1>4 DEF TurnOver, PacerTypeOK
  <1>5. CASE HoldFrame
    <2>1. filterPhase' = filterPhase /\ emitted' = OutPerFrame
      BY <1>5, FrameProcessed DEF HoldFrame, PacerTypeOK
    <2> QED BY <1>5, <2>1 DEF HoldFrame, PacerTypeOK
  <1>6. CASE PlayFrame
    <2>1. filterPhase' = filterPhase /\ emitted' = OutPerFrame
      BY <1>6, FrameProcessed DEF PlayFrame, PacerTypeOK
    <2> QED BY <1>6, <2>1 DEF PlayFrame, InPerFrame, PacerTypeOK
  <1>7. CASE Underrun
    <2>1. filterPhase' = filterPhase /\ emitted' = OutPerFrame
      BY <1>7, FrameProcessed DEF Underrun, PacerTypeOK
    <2>2. /\ playing' = FALSE /\ ran' = FALSE /\ fillTarget' = Resume
          /\ underruns' = underruns + (IF expecting THEN 1 ELSE 0)
          /\ UNCHANGED <<buf, expecting, sent>>
      BY <1>7 DEF Underrun
    <2>3. /\ buf' \in 0..MaxAudio /\ sent' \in 0..MaxAudio /\ filterPhase' \in 0..2
          /\ underruns' \in Nat /\ buf' <= sent'
      BY <2>1, <2>2 DEF PacerTypeOK
    <2>4. /\ playing' \in BOOLEAN /\ expecting' \in BOOLEAN /\ ran' \in BOOLEAN
          /\ fillTarget' \in {Prebuffer, Resume} /\ emitted' = OutPerFrame
          /\ PlaysItsTurn'
      BY <2>1, <2>2, Zenon DEF PacerTypeOK
    <2> QED BY <2>3, <2>4, Zenon DEF PacerTypeOK
  <1> QED BY <1>1, <1>2, <1>3, <1>4, <1>5, <1>6, <1>7 DEF PacerNext, PacerEvent, PacerTick

LEMMA PacerInvariant == PacerSpec => []PacerInv
  <1>1. PacerInit => PacerInv
    <2> SUFFICES ASSUME PacerInit PROVE PacerInv
      OBVIOUS
    <2>1. buf \in 0..MaxAudio /\ sent \in 0..MaxAudio /\ filterPhase \in 0..2 /\ underruns \in Nat
      BY PacerAssumption DEF PacerInit
    <2>2. playing \in BOOLEAN /\ expecting \in BOOLEAN /\ ran \in BOOLEAN
          /\ fillTarget \in {Prebuffer, Resume} /\ emitted = OutPerFrame
      BY DEF PacerInit
    <2>3. PacerTypeOK
      BY <2>1, <2>2, Zenon DEF PacerTypeOK
    <2> QED BY <2>1, <2>3, PacerAssumption DEF PacerInit, PacerInv, PlaysItsTurn
  <1> QED BY <1>1, PacerStep, PTL DEF PacerSpec

(* pace.rs:152-167: every counted underrun is a dropout the callee heard,  *)
(* for all prefills, refills and sizes of the model's chunks: what is left *)
(* of a turn that was interrupted, or is over, counts none.                *)
THEOREM UnderrunsAreHeard == PacerSpec => UnderrunsAreDropouts
  <1>1. PacerInv /\ [PacerNext]_pacerVars => [underruns' > underruns => ran]_pacerVars
    <2> SUFFICES ASSUME PacerInv, PacerNext, underruns' > underruns PROVE ran
      OBVIOUS
    <2>1. underruns \in Nat
      BY DEF PacerInv, PacerTypeOK
    <2>2. Underrun
      BY <2>1 DEF PacerNext, PacerEvent, PacerTick, OutputAudio, Interrupted, TurnOver,
                  HoldFrame, PlayFrame
    <2> QED BY <2>1, <2>2 DEF Underrun, PacerInv, PlaysItsTurn
  <1> QED BY <1>1, PacerInvariant, PTL DEF PacerSpec, UnderrunsAreDropouts

(* resample.rs:53-86: a frame of either kind leaves the decimator with 160 *)
(* samples, whatever was cleared, faded or held before it.                 *)
THEOREM FramesAreWhole == PacerSpec => []PacerTypeOK
  <1>1. PacerInv => PacerTypeOK
    BY DEF PacerInv
  <1> QED BY <1>1, PacerInvariant, PTL

-----------------------------------------------------------------------------
(* Induction on the naturals, as a fact about sets: the library states it  *)
(* over a predicate.  If k were missing from S, predecessor would map the  *)
(* numbers up to k that are missing into themselves without k, injectively.*)

(* No function from a finite set to itself without one point is injective. *)
LEMMA Collision ==
    ASSUME NEW T, IsFiniteSet(T), NEW k \in T, NEW f \in [T -> T \ {k}]
    PROVE  \E x, y \in T : x # y /\ f[x] = f[y]
  <1> DEFINE U == T \ {k}
  <1>1. IsFiniteSet(U) /\ Cardinality(U) = Cardinality(T) - 1
    BY FS_RemoveElement
  <1>2. Cardinality(T) \in Nat
    BY FS_CardinalityType
  <1>3. Cardinality(U) < Cardinality(T) /\ f \in [T -> U]
    BY <1>1, <1>2
  <1> HIDE DEF U
  <1> QED BY <1>1, <1>3, FS_PigeonHole

(* A finite set of integers with k is not closed under predecessor off k. *)
LEMMA SomePredecessorIsMissing ==
    ASSUME NEW T, IsFiniteSet(T), NEW k \in T
    PROVE  \E x \in T : x \notin Int \/ x - 1 \notin T \ {k}
  <1>1. SUFFICES ASSUME T \subseteq Int, \A x \in T : x - 1 \in T \ {k} PROVE FALSE
    OBVIOUS
  <1>2. PICK f \in [T -> T \ {k}] : f = [x \in T |-> x - 1]
    BY <1>1
  <1>3. PICK x \in T, y \in T : x # y /\ f[x] = f[y]
    BY Collision
  <1> QED BY <1>1, <1>2, <1>3

LEMMA Induction ==
    ASSUME NEW S, 0 \in S, \A n \in Nat : n \in S => n + 1 \in S
    PROVE  Nat \subseteq S
  <1> SUFFICES ASSUME NEW k \in Nat, k \notin S PROVE FALSE
    OBVIOUS
  <1> DEFINE T == (0..k) \ S
  <1>1. \A x \in T : x - 1 \in T \ {k}
    <2> TAKE x \in T
    <2>1. x \in Nat /\ x <= k /\ x \notin S
      OBVIOUS
    <2>2. x # 0
      BY <2>1
    <2>3. x - 1 \in Nat /\ x - 1 \notin S
      BY <2>1, <2>2
    <2> QED BY <2>1, <2>3
  <1>2. IsFiniteSet(0..k)
    BY FS_Interval
  <1>3. T \in SUBSET (0..k) /\ T \subseteq Nat /\ k \in T
    OBVIOUS
  <1>4. IsFiniteSet(T)
    BY <1>2, <1>3, FS_Subset
  <1>5. PICK x \in T : x \notin Int \/ x - 1 \notin T \ {k}
    <2> HIDE DEF T
    <2> QED BY <1>3, <1>4, SomePredecessorIsMissing, Zenon
  <1> QED BY <1>1, <1>5

(* What holds of the empty set, and of a set when it holds of it without   *)
(* any one of its elements, holds of every finite set.                     *)
LEMMA SetInduction ==
    ASSUME NEW S, IsFiniteSet(S), NEW P, {} \in P,
           \A T \in SUBSET S : T # {} /\ (\A x \in T : T \ {x} \in P) => T \in P
    PROVE  S \in P
  <1> DEFINE Reached == {n \in Nat : \A T \in SUBSET S : Cardinality(T) = n => T \in P}
  <1>1. ASSUME NEW T \in SUBSET S PROVE IsFiniteSet(T) /\ Cardinality(T) \in Nat
    BY FS_Subset, FS_CardinalityType
  <1>2. 0 \in Reached
    BY <1>1, FS_EmptySet
  <1>3. ASSUME NEW n \in Nat, n \in Reached PROVE n + 1 \in Reached
    <2> SUFFICES ASSUME NEW T \in SUBSET S, Cardinality(T) = n + 1 PROVE T \in P
      OBVIOUS
    <2>1. T # {}
      <3>1. Cardinality({}) = 0
        BY FS_EmptySet
      <3>2. n + 1 # 0
        OBVIOUS
      <3> QED BY <3>1, <3>2, Zenon
    <2>2. ASSUME NEW x \in T PROVE T \ {x} \in P
      <3>1. Cardinality(T \ {x}) = Cardinality(T) - 1
        BY <1>1, FS_RemoveElement
      <3>2. Cardinality(T \ {x}) = n /\ T \ {x} \in SUBSET S
        BY <3>1
      <3> QED BY <1>3, <3>2
    <2> QED BY <2>1, <2>2
  <1>4. Cardinality(S) \in Reached
    <2> HIDE DEF Reached
    <2>1. Nat \subseteq Reached
      BY <1>2, <1>3, Induction
    <2> QED BY <2>1, FS_CardinalityType
  <1> QED BY <1>4

-----------------------------------------------------------------------------
(* Sums over finite sets.  SumFunctionOnSet takes some element out of the  *)
(* set after the other; its table of the sums of all subsets exists, two   *)
(* tables agree where both are defined, and so any element may be the one. *)

Picked(T) == CHOOSE x \in T : TRUE

IsTable(iter, f, S) ==
    iter = [T \in SUBSET S |-> IF T = {} THEN 0 ELSE f[Picked(T)] + iter[T \ {Picked(T)}]]

(* The fold is the entry of the set in a table of its subsets. *)
LEMMA SumIsEntry ==
    ASSUME NEW f, NEW S
    PROVE  SumFunctionOnSet(f, S) = (CHOOSE iter : IsTable(iter, f, S))[S]
  BY DEF SumFunctionOnSet, FoldFunctionOnSet, MapThenFoldSet, IsTable, Picked

(* A nonempty finite set has one element less without its first. *)
LEMMA WithoutFirst ==
    ASSUME NEW T, T # {}, IsFiniteSet(T)
    PROVE  /\ Picked(T) \in T
           /\ IsFiniteSet(T \ {Picked(T)})
           /\ Cardinality(T) \in Nat \ {0}
           /\ Cardinality(T \ {Picked(T)}) = Cardinality(T) - 1
  <1>1. Picked(T) \in T
    BY DEF Picked
  <1>2. Cardinality(T) \in Nat /\ Cardinality(T) # 0
    BY FS_CardinalityType, FS_EmptySet
  <1> QED BY <1>1, <1>2, FS_RemoveElement

Entry(g, f, T) == IF T = {} THEN 0 ELSE f[Picked(T)] + g[T \ {Picked(T)}]

(* g is right on the subsets of S of at most n elements. *)
RightUpTo(g, f, S, n) ==
    \A T \in SUBSET S : Cardinality(T) <= n => g[T] = Entry(g, f, T)

(* A table of a set without its first element extends to the set. *)
LEMMA TableGrows ==
    ASSUME NEW f, NEW S, IsFiniteSet(S), NEW n \in Nat, NEW g, RightUpTo(g, f, S, n)
    PROVE  RightUpTo([T \in SUBSET S |-> Entry(g, f, T)], f, S, n + 1)
  <1> DEFINE h == [T \in SUBSET S |-> Entry(g, f, T)]
  <1>1. ASSUME NEW T \in SUBSET S, Cardinality(T) <= n + 1
        PROVE  h[T] = Entry(h, f, T)
    <2>1. CASE T = {}
      BY <2>1 DEF Entry
    <2>2. CASE T # {}
      <3> DEFINE U == T \ {Picked(T)}
      <3>1. IsFiniteSet(T)
        BY FS_Subset
      <3>2. Cardinality(T) \in Nat /\ Cardinality(U) = Cardinality(T) - 1
        BY <2>2, <3>1, WithoutFirst
      <3>3. Cardinality(U) <= n /\ U \in SUBSET S
        BY <1>1, <3>2
      <3>4. h[U] = g[U]
        BY <3>3 DEF RightUpTo
      <3> QED BY <2>2, <3>4 DEF Entry
    <2> QED BY <2>1, <2>2
  <1> QED BY <1>1 DEF RightUpTo

(* Every finite set has a table. *)
LEMMA TableExists ==
    ASSUME NEW f, NEW S, IsFiniteSet(S)
    PROVE  \E iter : IsTable(iter, f, S)
  <1> DEFINE Reached == {n \in Nat : \E g : RightUpTo(g, f, S, n)}
             N == Cardinality(S)
  <1>1. 0 \in Reached
    <2> DEFINE g == [T \in SUBSET S |-> 0]
    <2>1. ASSUME NEW T \in SUBSET S, Cardinality(T) <= 0 PROVE T = {}
      <3>1. IsFiniteSet(T)
        BY FS_Subset
      <3> QED BY <2>1, <3>1, FS_CardinalityType, FS_EmptySet
    <2>2. RightUpTo(g, f, S, 0)
      BY <2>1 DEF RightUpTo, Entry
    <2> HIDE DEF g
    <2> QED BY <2>2
  <1>2. ASSUME NEW n \in Nat, n \in Reached PROVE n + 1 \in Reached
    <2>1. PICK g : RightUpTo(g, f, S, n)
      BY <1>2
    <2>2. RightUpTo([T \in SUBSET S |-> Entry(g, f, T)], f, S, n + 1)
      BY <2>1, TableGrows
    <2> DEFINE h == [T \in SUBSET S |-> Entry(g, f, T)]
    <2> HIDE DEF h
    <2> QED BY <2>2 DEF h
  <1>3. N \in Nat
    BY FS_CardinalityType
  <1>4. N \in Reached
    <2> HIDE DEF Reached
    <2>1. Nat \subseteq Reached
      BY <1>1, <1>2, Induction
    <2> QED BY <1>3, <2>1
  <1>5. PICK g : RightUpTo(g, f, S, N)
    BY <1>4
  <1> DEFINE h == [T \in SUBSET S |-> Entry(g, f, T)]
  <1>6. RightUpTo(h, f, S, N + 1)
    BY <1>3, <1>5, TableGrows
  <1>7. \A T \in SUBSET S : Cardinality(T) <= N + 1
    BY <1>3, FS_Subset, FS_CardinalityType
  <1>8. \A T \in SUBSET S : h[T] = Entry(h, f, T)
    BY <1>6, <1>7 DEF RightUpTo
  <1>9. h = [T \in SUBSET S |-> Entry(h, f, T)]
    BY <1>8
  <1>10. IsTable(h, f, S)
    BY <1>9 DEF IsTable, Entry
  <1> HIDE DEF h
  <1> QED BY <1>10

TableOf(f, S) == CHOOSE iter : IsTable(iter, f, S)

(* Its entries obey the recursion of the fold. *)
LEMMA EntryOfTable ==
    ASSUME NEW f, NEW S, IsFiniteSet(S), NEW T \in SUBSET S
    PROVE  TableOf(f, S)[T] = Entry(TableOf(f, S), f, T)
  <1>1. IsTable(TableOf(f, S), f, S)
    BY TableExists DEF TableOf
  <1> QED BY <1>1 DEF IsTable, Entry

(* What a table says of a set does not depend on the set it was built for. *)
LEMMA TablesAgree ==
    ASSUME NEW f, NEW A, NEW B, IsFiniteSet(A), IsFiniteSet(B), NEW S \in SUBSET (A \cap B)
    PROVE  TableOf(f, A)[S] = TableOf(f, B)[S]
  <1> DEFINE g == TableOf(f, A)
             h == TableOf(f, B)
             Agreed == {T \in SUBSET S : g[T] = h[T]}
  <1>1. ASSUME NEW T \in SUBSET S
        PROVE  g[T] = Entry(g, f, T) /\ h[T] = Entry(h, f, T)
    <2>1. T \in SUBSET A /\ T \in SUBSET B
      OBVIOUS
    <2> QED BY <2>1, EntryOfTable
  <1>2. IsFiniteSet(S)
    BY FS_Subset
  <1> HIDE DEF g, h
  <1>3. {} \in Agreed
    BY <1>1 DEF Entry
  <1>4. ASSUME NEW T \in SUBSET S, T # {}, \A x \in T : T \ {x} \in Agreed
        PROVE  T \in Agreed
    <2>1. Picked(T) \in T
      BY <1>4 DEF Picked
    <2> QED BY <1>1, <1>4, <2>1 DEF Entry
  <1>5. S \in Agreed
    <2> HIDE DEF Agreed
    <2> QED BY <1>2, <1>3, <1>4, SetInduction
  <1> QED BY <1>5 DEF g, h

(* Nothing sums to zero. *)
LEMMA SumEmpty ==
    ASSUME NEW f
    PROVE  SumFunctionOnSet(f, {}) = 0
  BY SumIsEntry, EntryOfTable, FS_EmptySet DEF TableOf, Entry

(* The first element is what the fold takes out. *)
LEMMA SumFirst ==
    ASSUME NEW f, NEW S, IsFiniteSet(S), S # {}
    PROVE  SumFunctionOnSet(f, S) = f[Picked(S)] + SumFunctionOnSet(f, S \ {Picked(S)})
  <1> DEFINE U == S \ {Picked(S)}
  <1>1. SumFunctionOnSet(f, S) = f[Picked(S)] + TableOf(f, S)[U]
    <2>1. S \in SUBSET S
      OBVIOUS
    <2>2. SumFunctionOnSet(f, S) = TableOf(f, S)[S]
      BY SumIsEntry DEF TableOf
    <2> QED BY <2>1, <2>2, EntryOfTable DEF Entry
  <1>2. IsFiniteSet(U) /\ U \in SUBSET (S \cap U)
    BY WithoutFirst
  <1>3. TableOf(f, S)[U] = TableOf(f, U)[U]
    BY <1>2, TablesAgree
  <1>4. SumFunctionOnSet(f, U) = TableOf(f, U)[U]
    BY SumIsEntry DEF TableOf
  <1> QED BY <1>1, <1>3, <1>4

(* The sum of naturals that are at most b is natural and at most b each. *)
LEMMA SumIsNat ==
    ASSUME NEW f, NEW S, IsFiniteSet(S), \A x \in S : f[x] \in Nat
    PROVE  SumFunctionOnSet(f, S) \in Nat
  <1> DEFINE P == {T \in SUBSET S : SumFunctionOnSet(f, T) \in Nat}
  <1>1. {} \in P
    BY SumEmpty
  <1>2. ASSUME NEW T \in SUBSET S, T # {}, \A x \in T : T \ {x} \in P PROVE T \in P
    <2>1. IsFiniteSet(T)
      BY FS_Subset
    <2>2. Picked(T) \in T
      BY <1>2, <2>1, WithoutFirst
    <2>3. SumFunctionOnSet(f, T) = f[Picked(T)] + SumFunctionOnSet(f, T \ {Picked(T)})
      BY <1>2, <2>1, SumFirst
    <2> QED BY <1>2, <2>2, <2>3
  <1>3. S \in P
    <2> HIDE DEF P
    <2> QED BY <1>1, <1>2, SetInduction
  <1> QED BY <1>3

LEMMA SumBounded ==
    ASSUME NEW f, NEW S, IsFiniteSet(S), NEW b \in Nat, \A x \in S : f[x] \in 0..b
    PROVE  SumFunctionOnSet(f, S) <= b * Cardinality(S)
  <1> DEFINE P == {T \in SUBSET S : SumFunctionOnSet(f, T) <= b * Cardinality(T)}
  <1>1. {} \in P
    BY SumEmpty, FS_EmptySet
  <1>2. ASSUME NEW T \in SUBSET S, T # {}, \A x \in T : T \ {x} \in P PROVE T \in P
    <2> DEFINE U == T \ {Picked(T)}
    <2>1. IsFiniteSet(T)
      BY FS_Subset
    <2>2. /\ Picked(T) \in T /\ IsFiniteSet(U)
          /\ Cardinality(T) \in Nat /\ Cardinality(U) = Cardinality(T) - 1
      BY <1>2, <2>1, WithoutFirst
    <2>3. SumFunctionOnSet(f, T) = f[Picked(T)] + SumFunctionOnSet(f, U)
      BY <1>2, <2>1, SumFirst
    <2>4. SumFunctionOnSet(f, U) \in Nat
      <3>1. \A x \in U : f[x] \in Nat
        OBVIOUS
      <3> HIDE DEF U
      <3> QED BY <2>2, <3>1, SumIsNat
    <2>5. f[Picked(T)] \in 0..b /\ SumFunctionOnSet(f, U) <= b * (Cardinality(T) - 1)
      BY <1>2, <2>2
    <2>6. b * (Cardinality(T) - 1) = b * Cardinality(T) - b
      BY <2>2
    <2>7. b * Cardinality(T) \in Nat
      BY <2>2
    <2> QED BY <2>3, <2>4, <2>5, <2>6, <2>7
  <1>3. S \in P
    <2> HIDE DEF P
    <2> QED BY <1>1, <1>2, SetInduction
  <1> QED BY <1>3

(* Any element may be taken out first. *)
LEMMA SumWithout ==
    ASSUME NEW f, NEW S, IsFiniteSet(S), \A x \in S : f[x] \in Nat, NEW y \in S
    PROVE  SumFunctionOnSet(f, S) = f[y] + SumFunctionOnSet(f, S \ {y})
  <1> DEFINE Sum(T) == SumFunctionOnSet(f, T)
             P == {T \in SUBSET S : \A x \in T : Sum(T) = f[x] + Sum(T \ {x})}
  <1>1. ASSUME NEW T \in SUBSET S PROVE IsFiniteSet(T) /\ Sum(T) \in Nat
    <2>1. IsFiniteSet(T)
      BY FS_Subset
    <2> QED BY <2>1, SumIsNat
  <1>2. ASSUME NEW T \in SUBSET S, T # {} PROVE Sum(T) = f[Picked(T)] + Sum(T \ {Picked(T)})
    BY <1>1, <1>2, SumFirst
  <1> HIDE DEF Sum
  <1>3. {} \in P
    OBVIOUS
  <1>4. ASSUME NEW T \in SUBSET S, T # {}, \A x \in T : T \ {x} \in P PROVE T \in P
    <2> SUFFICES ASSUME NEW x \in T PROVE Sum(T) = f[x] + Sum(T \ {x})
      OBVIOUS
    <2> DEFINE c == Picked(T)
    <2>1. c \in T
      BY DEF Picked
    <2> HIDE DEF c
    <2>2. Sum(T) = f[c] + Sum(T \ {c})
      BY <1>2 DEF c
    <2>3. CASE x = c
      BY <2>2, <2>3
    <2>4. CASE x # c
      <3> DEFINE V == (T \ {c}) \ {x}
      <3>1. Sum(T \ {c}) = f[x] + Sum(V)
        BY <1>4, <2>1, <2>4
      <3>2. V = (T \ {x}) \ {c}
        OBVIOUS
      <3>3. Sum(T \ {x}) = f[c] + Sum(V)
        <4> HIDE DEF V
        <4> QED BY <1>4, <2>1, <2>4, <3>2
      <3>4. Sum(V) \in Nat /\ f[c] \in Nat /\ f[x] \in Nat
        BY <1>1, <2>1
      <3> HIDE DEF V
      <3> QED BY <2>2, <3>1, <3>3, <3>4
    <2> QED BY <2>3, <2>4
  <1>5. S \in P
    <2> HIDE DEF P
    <2> QED BY <1>3, <1>4, SetInduction
  <1> QED BY <1>5 DEF Sum

-----------------------------------------------------------------------------
(* NetCheck.  An attempt costs no more than the window grants one, and a   *)
(* pause what it is granted, so what is left of the window always covers   *)
(* what the loop may still do.                                             *)

LEMMA MaxOfTwo ==
    ASSUME NEW a \in Int, NEW b \in Int
    PROVE  Max({a, b}) = IF a >= b THEN a ELSE b
  BY DEF Max

(* The ranges of the constants and of what is derived from them. *)
LEMMA CheckLimits ==
    /\ Samples \in Nat /\ WarmupPings \in Nat /\ MaxRtt \in Nat /\ MaxJitter \in Nat
    /\ MaxLossPct \in Nat /\ MaxSetup \in Nat /\ BackoffBase \in Nat
    /\ PingBudget \in Nat /\ AckBudget \in Nat
    /\ Attempts \in Nat \ {0} /\ Pings \in Nat \ {0}
    /\ Samples # 0 => Pings = Samples
  BY NetCheckAssumption, MaxOfTwo DEF PingBudget, AckBudget, Attempts, Pings

(* The doubled backoff is a natural number: 2^k counts the subsets of k. *)
LEMMA BackoffIsNat ==
    ASSUME NEW n \in Nat \ {0}
    PROVE  RetryBackoff(n) \in Nat
  <1> DEFINE k == Min({n - 1, 16})
  <1>1. k \in Nat
    BY DEF Min
  <1> HIDE DEF k
  <1>2. IsFiniteSet(1..k) /\ Cardinality(1..k) = k
    BY <1>1, FS_Interval
  <1>3. 2^k = Cardinality(SUBSET (1..k)) /\ IsFiniteSet(SUBSET (1..k))
    BY <1>2, FS_SUBSET
  <1>4. 2^k \in Nat
    BY <1>3, FS_CardinalityType
  <1>5. \A x \in Nat : BackoffBase * x \in Nat
    BY CheckLimits
  <1> QED BY <1>4, <1>5 DEF RetryBackoff, k

(* So is every pause of the loop. *)
LEMMA BackoffsAreNat == \A n \in 1..(Attempts - 1) : Backoffs[n] \in Nat
  BY CheckLimits, BackoffIsNat DEF Backoffs

(* The pauses that are left before attempt i + 1 and the later ones. *)
PausesLeft(i) == SumFunctionOnSet(Backoffs, i..(Attempts - 1))

(* One pause is one summand of those left. *)
LEMMA OnePauseLess ==
    ASSUME NEW i \in 1..(Attempts - 1)
    PROVE  PausesLeft(i) = RetryBackoff(i) + PausesLeft(i + 1)
  <1> DEFINE S == i..(Attempts - 1)
  <1>1. IsFiniteSet(S) /\ i \in S /\ S \ {i} = (i + 1)..(Attempts - 1)
    <2>1. IsFiniteSet(S)
      BY CheckLimits, FS_Interval
    <2> QED BY <2>1, CheckLimits
  <1>2. \A n \in S : Backoffs[n] \in Nat
    BY CheckLimits, BackoffsAreNat
  <1>3. SumFunctionOnSet(Backoffs, S) = Backoffs[i] + SumFunctionOnSet(Backoffs, S \ {i})
    <2> HIDE DEF S
    <2> QED BY <1>1, <1>2, SumWithout
  <1>4. Backoffs[i] = RetryBackoff(i)
    BY DEF Backoffs
  <1> QED BY <1>1, <1>3, <1>4 DEF PausesLeft

(* What is left of the pauses is a natural number. *)
LEMMA PausesLeftIsNat ==
    ASSUME NEW i \in Nat \ {0}
    PROVE  PausesLeft(i) \in Nat
  <1> DEFINE S == i..(Attempts - 1)
  <1>1. IsFiniteSet(S)
    BY CheckLimits, FS_Interval
  <1>2. \A n \in S : Backoffs[n] \in Nat
    BY CheckLimits, BackoffsAreNat
  <1> HIDE DEF S
  <1>3. SumFunctionOnSet(Backoffs, S) \in Nat
    BY <1>1, <1>2, SumIsNat
  <1> QED BY <1>3 DEF PausesLeft, S

(* Pings that take their budget at most take it that many times at most. *)
LEMMA PingsSpend ==
    ASSUME NEW n \in Nat, NEW pings \in [1..n -> 0..PingBudget]
    PROVE  SumFunction(pings) \in 0..(PingBudget * n)
  <1> DEFINE S == DOMAIN pings
  <1>1. IsFiniteSet(S) /\ Cardinality(S) = n
    BY FS_Interval
  <1>2. (\A i \in S : pings[i] \in Nat) /\ (\A i \in S : pings[i] \in 0..PingBudget)
    BY CheckLimits
  <1> HIDE DEF S
  <1>3. SumFunctionOnSet(pings, S) \in Nat
    BY <1>1, <1>2, SumIsNat
  <1>4. SumFunctionOnSet(pings, S) <= PingBudget * Cardinality(S)
    BY <1>1, <1>2, CheckLimits, SumBounded
  <1>5. PingBudget * n \in Nat
    BY CheckLimits
  <1> QED BY <1>1, <1>3, <1>4, <1>5 DEF SumFunction, S

-----------------------------------------------------------------------------
(* What preflight_max_window_ms grants one attempt. *)
PerAttempt == PingBudget * (Samples + WarmupPings) + AckBudget + 5000

(* The window's own terms: a connection is refused or made within 5 s, and *)
(* the number of pings is the number configured (none is taken for one).   *)
PromptConnect == ConnectTimes \subseteq 0..5000 /\ Samples # 0

(* What a probe that ended at its verdict took. *)
LEMMA ProbeTakes ==
    ASSUME NEW connect \in ConnectTimes, NEW warm \in [1..WarmupPings -> Rtts \cup {PingBudget}],
           NEW lost \in 0..Pings, NEW rtts \in [1..(Pings - lost) -> Rtts],
           NEW ack \in AckTimes \cup {AckBudget}
    PROVE  LET spent == connect + SumFunction(warm) + SumFunction(rtts) + lost * PingBudget + ack
           IN  /\ {connect, SumFunction(warm), SumFunction(rtts), lost * PingBudget, ack} \subseteq Nat
               /\ spent \in Nat /\ (PromptConnect => spent <= PerAttempt)
  <1> DEFINE w == SumFunction(warm)
             r == SumFunction(rtts)
  <1>1. w \in 0..(PingBudget * WarmupPings)
    <2>1. Rtts \cup {PingBudget} \subseteq 0..PingBudget
      BY BudgetAssumption, CheckLimits
    <2>2. warm \in [1..WarmupPings -> 0..PingBudget]
      BY <2>1
    <2> QED BY <2>2, CheckLimits, PingsSpend
  <1>2. r \in 0..(PingBudget * (Pings - lost))
    <2>1. Pings - lost \in Nat
      BY CheckLimits
    <2>2. rtts \in [1..(Pings - lost) -> 0..PingBudget]
      BY BudgetAssumption
    <2> QED BY <2>1, <2>2, PingsSpend
  <1>3. connect \in Nat /\ ack \in 0..AckBudget
    BY NetCheckAssumption, BudgetAssumption, CheckLimits
  <1>4. /\ PingBudget * (Pings - lost) = PingBudget * Pings - PingBudget * lost
        /\ PingBudget * (Pings + WarmupPings) = PingBudget * Pings + PingBudget * WarmupPings
        /\ lost * PingBudget = PingBudget * lost
        /\ PingBudget * Pings \in Nat /\ PingBudget * lost \in Nat
        /\ PingBudget * WarmupPings \in Nat
    BY CheckLimits
  <1>5. PromptConnect => connect <= 5000 /\ Pings = Samples
    BY CheckLimits DEF PromptConnect
  <1> HIDE DEF w, r
  <1>6. {connect, w, r, lost * PingBudget, ack} \subseteq Nat
        /\ connect + w + r + lost * PingBudget + ack \in Nat
    BY <1>1, <1>2, <1>3, <1>4, CheckLimits
  <1>7. ASSUME PromptConnect
        PROVE  connect + w + r + lost * PingBudget + ack <= PerAttempt
    BY <1>1, <1>2, <1>3, <1>4, <1>5, <1>7, CheckLimits DEF PerAttempt
  <1> QED BY <1>6, <1>7 DEF w, r

(* What a probe took that broke before its verdict. *)
LEMMA BrokenProbeTakes ==
    ASSUME NEW connect \in ConnectTimes, NEW unanswered \in 0..(WarmupPings + Pings)
    PROVE  /\ connect + unanswered * PingBudget \in Nat
           /\ PromptConnect => connect + unanswered * PingBudget <= PerAttempt
  <1>1. /\ unanswered \in Nat /\ unanswered * PingBudget \in Nat
        /\ unanswered * PingBudget <= PingBudget * (Pings + WarmupPings)
    <2>1. \A a, b \in Nat : a <= b => a * PingBudget <= PingBudget * b
      BY CheckLimits
    <2> QED BY <2>1, CheckLimits
  <1>2. connect \in Nat
    BY NetCheckAssumption
  <1>3. PromptConnect => connect <= 5000 /\ Pings = Samples
    BY CheckLimits DEF PromptConnect
  <1> QED BY <1>1, <1>2, <1>3, CheckLimits DEF PerAttempt

-----------------------------------------------------------------------------
(* What is left of the window covers the attempts and pauses that are left *)
(* and, once the loop is over, nothing more.                               *)
Covered(attempts, from) ==
    elapsed + PausesLeft(from) + attempts * PerAttempt <= MaxWindow

WindowInv ==
    /\ CheckTypeOK
    /\ step = "probe" => (PromptConnect => Covered(Attempts - attempt + 1, attempt))
    /\ step = "pause" => attempt < Attempts /\ (PromptConnect => Covered(Attempts - attempt, attempt))
    /\ PromptConnect => elapsed <= MaxWindow

(* The window is every pause and every attempt. *)
LEMMA WindowNumbers ==
    /\ PerAttempt \in Nat /\ MaxWindow \in Nat
    /\ MaxWindow = PausesLeft(1) + Attempts * PerAttempt
  <1>1. PerAttempt \in Nat
    BY CheckLimits DEF PerAttempt
  <1>2. MaxWindow = PausesLeft(1) + Attempts * PerAttempt
    BY DEF MaxWindow, PausesLeft, PerAttempt, SumFunction, Backoffs
  <1>3. PausesLeft(1) \in Nat /\ Attempts * PerAttempt \in Nat
    BY <1>1, CheckLimits, PausesLeftIsNat
  <1> QED BY <1>1, <1>2, <1>3

(* The empty probe is one. *)
LEMMA NoProbeIsOne == NoProbe \in [rtts : Seq(Rtts), lost : 0..Pings]
  <1>1. <<>> \in Seq(Rtts) /\ 0 \in 0..Pings
    BY CheckLimits
  <1> QED BY <1>1 DEF NoProbe

LEMMA WindowInit == CheckInit => WindowInv
  <1> SUFFICES ASSUME CheckInit PROVE WindowInv
    OBVIOUS
  <1>1. CheckTypeOK
    <2>1. attempt \in 1..Attempts /\ setup \in Nat /\ elapsed \in Nat
      BY CheckLimits DEF CheckInit
    <2>2. probe \in [rtts : Seq(Rtts), lost : 0..Pings]
      BY NoProbeIsOne DEF CheckInit
    <2> QED BY <2>1, <2>2 DEF CheckInit, CheckTypeOK
  <1>2. Covered(Attempts - attempt + 1, attempt)
    BY WindowNumbers, CheckLimits, PausesLeftIsNat DEF CheckInit, Covered
  <1> QED BY <1>1, <1>2, WindowNumbers DEF CheckInit, WindowInv

(* A probe that takes no more than an attempt is granted, and is judged.   *)
LEMMA ProbeKeepsWindow ==
    ASSUME WindowInv, step = "probe", NEW spent \in Nat,
           PromptConnect => spent <= PerAttempt,
           elapsed' = elapsed + spent, CheckTypeOK', NEW ok, Judged(ok)
    PROVE  WindowInv'
  <1>1. /\ attempt' = attempt /\ attempt \in 1..Attempts
        /\ step' = IF ok \/ attempt = Attempts THEN "over" ELSE "pause"
        /\ elapsed \in Nat
    BY DEF Judged, WindowInv, CheckTypeOK
  <1>2. ASSUME PromptConnect PROVE Covered(Attempts - attempt, attempt)'
    <2>1. elapsed + PausesLeft(attempt) + (Attempts - attempt + 1) * PerAttempt <= MaxWindow
      BY <1>2 DEF WindowInv, Covered
    <2>2. (Attempts - attempt + 1) * PerAttempt = (Attempts - attempt) * PerAttempt + PerAttempt
          /\ (Attempts - attempt) * PerAttempt \in Nat
      BY <1>1, CheckLimits, WindowNumbers
    <2>3. PausesLeft(attempt) \in Nat /\ PausesLeft(attempt)' = PausesLeft(attempt)
      BY <1>1, PausesLeftIsNat
    <2> QED BY <1>1, <1>2, <2>1, <2>2, <2>3, WindowNumbers DEF Covered
  <1>3. ASSUME PromptConnect PROVE elapsed' <= MaxWindow
    <2>1. /\ elapsed' + PausesLeft(attempt) + (Attempts - attempt) * PerAttempt <= MaxWindow
          /\ PausesLeft(attempt) \in Nat /\ (Attempts - attempt) * PerAttempt \in Nat
      BY <1>1, <1>2, <1>3, CheckLimits, WindowNumbers, PausesLeftIsNat DEF Covered
    <2> QED BY <1>1, <2>1, WindowNumbers
  <1>4. step' = "pause" => attempt' < Attempts
    BY <1>1, CheckLimits
  <1> QED BY <1>1, <1>2, <1>3, <1>4 DEF WindowInv

(* A pause uses up its own summand, and leaves one attempt less. *)
LEMMA PauseKeepsWindow ==
    ASSUME WindowInv, Pauses
    PROVE  WindowInv'
  <1>1. attempt \in 1..(Attempts - 1) /\ attempt' = attempt + 1 /\ elapsed \in Nat
    BY CheckLimits DEF WindowInv, Pauses, CheckTypeOK
  <1>2. RetryBackoff(attempt) \in Nat
    BY <1>1, CheckLimits, BackoffIsNat
  <1>3. CheckTypeOK'
    <2>1. attempt' \in 1..Attempts /\ setup' \in Nat /\ elapsed' \in Nat
      BY <1>1, <1>2, CheckLimits DEF Pauses
    <2>2. probe' \in [rtts : Seq(Rtts), lost : 0..Pings]
      BY NoProbeIsOne DEF Pauses
    <2> QED BY <2>1, <2>2 DEF WindowInv, Pauses, CheckTypeOK
  <1>4. ASSUME PromptConnect
        PROVE  Covered(Attempts - attempt + 1, attempt)' /\ elapsed' <= MaxWindow
    <2>1. elapsed + PausesLeft(attempt) + (Attempts - attempt) * PerAttempt <= MaxWindow
      BY <1>4 DEF WindowInv, Pauses, Covered
    <2>2. /\ PausesLeft(attempt) = RetryBackoff(attempt) + PausesLeft(attempt + 1)
          /\ PausesLeft(attempt + 1) \in Nat
      BY <1>1, OnePauseLess, PausesLeftIsNat
    <2>3. elapsed' = elapsed + RetryBackoff(attempt)
      BY DEF Pauses
    <2>4. Attempts - attempt' + 1 = Attempts - attempt /\ (Attempts - attempt) * PerAttempt \in Nat
      BY <1>1, CheckLimits, WindowNumbers
    <2>5. elapsed' + PausesLeft(attempt + 1) + (Attempts - attempt) * PerAttempt <= MaxWindow
      BY <1>1, <1>2, <2>1, <2>2, <2>3, <2>4, WindowNumbers
    <2> QED BY <1>1, <1>2, <2>2, <2>3, <2>4, <2>5, WindowNumbers DEF Covered
  <1> QED BY <1>3, <1>4 DEF WindowInv, Pauses

LEMMA WindowStep == WindowInv /\ [CheckNext]_checkVars => WindowInv'
  <1> SUFFICES ASSUME WindowInv, [CheckNext]_checkVars PROVE WindowInv'
    OBVIOUS
  <1>1. CASE ProbeFails
    <2>1. PICK connect \in ConnectTimes, unanswered \in 0..(WarmupPings + Pings) :
             elapsed' = elapsed + connect + unanswered * PingBudget
      BY <1>1 DEF ProbeFails
    <2> DEFINE spent == connect + unanswered * PingBudget
    <2>2. spent \in Nat /\ (PromptConnect => spent <= PerAttempt)
      BY BrokenProbeTakes
    <2>3. elapsed' = elapsed + spent
      BY <2>1, CheckLimits, NetCheckAssumption DEF WindowInv, CheckTypeOK
    <2> HIDE DEF spent
    <2>4. CheckTypeOK'
      <3>1. attempt' \in 1..Attempts /\ setup' \in Nat /\ elapsed' \in Nat
        BY <1>1, <2>2, <2>3 DEF ProbeFails, Judged, WindowInv, CheckTypeOK
      <3>2. probe' \in [rtts : Seq(Rtts), lost : 0..Pings]
        BY <1>1, NoProbeIsOne DEF ProbeFails
      <3> QED BY <1>1, <3>1, <3>2 DEF ProbeFails, Judged, CheckTypeOK
    <2> QED BY <1>1, <2>2, <2>3, <2>4, ProbeKeepsWindow DEF ProbeFails
  <1>2. CASE ProbeEnds
    <2>1. PICK connect \in ConnectTimes, warm \in [1..WarmupPings -> Rtts \cup {PingBudget}],
               lost \in 0..Pings, ack \in AckTimes \cup {AckBudget}, answer \in BOOLEAN :
             \E rtts \in [1..(Pings - lost) -> Rtts] :
                /\ probe' = [rtts |-> rtts, lost |-> lost]
                /\ acked' = answer /\ setup' = connect + ack
                /\ elapsed' = elapsed + connect + SumFunction(warm) + SumFunction(rtts)
                                + lost * PingBudget + ack
                /\ Judged(answer /\ IsUsable(rtts, lost, connect + ack))
      BY <1>2 DEF ProbeEnds
    <2>2. PICK rtts \in [1..(Pings - lost) -> Rtts] :
             /\ probe' = [rtts |-> rtts, lost |-> lost]
             /\ acked' = answer /\ setup' = connect + ack
             /\ elapsed' = elapsed + connect + SumFunction(warm) + SumFunction(rtts)
                             + lost * PingBudget + ack
             /\ Judged(answer /\ IsUsable(rtts, lost, connect + ack))
      BY <2>1
    <2> DEFINE spent == connect + SumFunction(warm) + SumFunction(rtts) + lost * PingBudget + ack
               ok == answer /\ IsUsable(rtts, lost, connect + ack)
    <2>3. spent \in Nat /\ (PromptConnect => spent <= PerAttempt)
      BY ProbeTakes
    <2>4. elapsed' = elapsed + spent
      <3>1. SumFunction(warm) \in Nat /\ SumFunction(rtts) \in Nat /\ lost * PingBudget \in Nat
            /\ connect \in Nat /\ ack \in Nat /\ elapsed \in Nat
        BY ProbeTakes DEF WindowInv, CheckTypeOK
      <3> QED BY <2>2, <3>1
    <2>5. rtts \in Seq(Rtts) /\ connect + ack \in Nat
      BY CheckLimits, NetCheckAssumption, BudgetAssumption
    <2> HIDE DEF spent, ok
    <2>6. CheckTypeOK'
      BY <2>2, <2>3, <2>4, <2>5, CheckLimits DEF Judged, WindowInv, CheckTypeOK, ok
    <2> QED BY <1>2, <2>2, <2>3, <2>4, <2>6, ProbeKeepsWindow DEF ProbeEnds, ok
  <1>3. CASE Pauses
    BY <1>3, PauseKeepsWindow
  <1>4. CASE CheckCancelled
    BY <1>4 DEF CheckCancelled, WindowInv, CheckTypeOK
  <1>5. CASE UNCHANGED checkVars
    BY <1>5 DEF checkVars, WindowInv, CheckTypeOK, Covered
  <1> QED BY <1>1, <1>2, <1>3, <1>4, <1>5 DEF CheckNext

(* Every variable of the preflight has its type, at any configuration.     *)
THEOREM CheckTypesHold == CheckSpec => []CheckTypeOK
  <1>1. WindowInv => CheckTypeOK
    BY DEF WindowInv
  <1> QED BY <1>1, WindowInit, WindowStep, PTL DEF CheckSpec

(* A preflight is over within the window of preflight_max_window_ms, for   *)
(* any limits, any number of attempts and pings, and any round trips.      *)
THEOREM PreflightsKeepTheirWindow ==
    ASSUME PromptConnect
    PROVE  CheckSpec => []WithinWindow
  <1>1. WindowInv => WithinWindow
    BY DEF WindowInv, WithinWindow
  <1> QED BY <1>1, WindowInit, WindowStep, PTL DEF CheckSpec

-----------------------------------------------------------------------------
(* The verdict.  The 95th percentile is the slowest entry of a sample of   *)
(* eleven at most, which is what trimming leaves of twelve answers; from   *)
(* thirteen on it is the slowest but one, and a second late answer passes. *)
FewPings == Samples <= 12

(* summarize sorts the answers. *)
Ascending(rtts) == \A i, j \in DOMAIN rtts : i <= j => rtts[i] <= rtts[j]

(* The rounded position of a quantile among n entries. *)
LEMMA QuantileIndex ==
    ASSUME NEW n \in Nat \ {0}
    PROVE  /\ ((n - 1) * 95 + 50) \div 100 + 1 \in 1..n
           /\ n <= 11 => ((n - 1) * 95 + 50) \div 100 + 1 = n
           /\ ((n - 1) * 50 + 50) \div 100 + 1 \in 1..n
  <1>1. \A x \in Nat : x \div 100 \in Nat /\ 100 * (x \div 100) <= x /\ x < 100 * (x \div 100) + 100
    OBVIOUS
  <1>2. (n - 1) * 95 + 50 \in Nat /\ (n - 1) * 50 + 50 \in Nat
    OBVIOUS
  <1> DEFINE a == ((n - 1) * 95 + 50) \div 100
             b == ((n - 1) * 50 + 50) \div 100
  <1>3. a \in Nat /\ 100 * a <= (n - 1) * 95 + 50 /\ (n - 1) * 95 + 50 < 100 * a + 100
    BY <1>1, <1>2
  <1>4. b \in Nat /\ 100 * b <= (n - 1) * 50 + 50
    BY <1>1, <1>2
  <1> HIDE DEF a, b
  <1>5. a + 1 \in 1..n /\ (n <= 11 => a + 1 = n)
    BY <1>3
  <1>6. b + 1 \in 1..n
    BY <1>4
  <1> QED BY <1>5, <1>6 DEF a, b

(* The quantiles are entries of the sample; of twelve answers or fewer the *)
(* 95th percentile is the sample's slowest.                                *)
LEMMA Quantile ==
    ASSUME NEW rtts, rtts \in Seq(Rtts), rtts # <<>>
    PROVE  /\ Len(rtts) \in Nat \ {0} /\ DOMAIN rtts = 1..Len(rtts)
           /\ \A i \in 1..Len(rtts) : rtts[i] \in Nat
           /\ SampleSize(rtts) \in 1..Len(rtts)
           /\ Len(rtts) - SampleSize(rtts) \in 0..1
           /\ \E i \in 1..SampleSize(rtts) :
                 /\ At(rtts, 95) = rtts[i]
                 /\ Len(rtts) <= 12 => i = SampleSize(rtts)
           /\ \E i \in 1..SampleSize(rtts) : At(rtts, 50) = rtts[i]
  <1> DEFINE n == SampleSize(rtts)
             slow == ((n - 1) * 95 + 50) \div 100 + 1
             mid == ((n - 1) * 50 + 50) \div 100 + 1
  <1>1. /\ Len(rtts) \in Nat \ {0} /\ DOMAIN rtts = 1..Len(rtts)
        /\ \A i \in 1..Len(rtts) : rtts[i] \in Nat
    <2>1. Rtts \subseteq Nat
      BY BudgetAssumption
    <2>2. Len(rtts) \in Nat /\ DOMAIN rtts = 1..Len(rtts)
      OBVIOUS
    <2>3. Len(rtts) # 0
      OBVIOUS
    <2>4. \A i \in 1..Len(rtts) : rtts[i] \in Rtts
      OBVIOUS
    <2> QED BY <2>1, <2>2, <2>3, <2>4
  <1>2. n \in 1..Len(rtts) /\ Len(rtts) - n \in 0..1 /\ (Len(rtts) <= 12 => n <= 11)
    BY <1>1 DEF SampleSize
  <1>3. At(rtts, 95) = rtts[slow] /\ At(rtts, 50) = rtts[mid]
    BY DEF At
  <1> HIDE DEF n
  <1>4. n \in Nat \ {0}
    <2> DEFINE l == Len(rtts)
    <2>1. l \in Nat /\ n \in 1..l
      BY <1>1, <1>2
    <2> HIDE DEF l
    <2> QED BY <2>1
  <1>5. slow \in 1..n /\ (n <= 11 => slow = n) /\ mid \in 1..n
    BY <1>4, QuantileIndex
  <1> HIDE DEF slow, mid
  <1>6. Len(rtts) <= 12 => slow = n
    BY <1>2, <1>5
  <1> QED BY <1>1, <1>2, <1>3, <1>5, <1>6 DEF n

(* The verdict is that of the last probe, whose answers are in order.      *)
VerdictInv ==
    /\ step = "probe" => probe = NoProbe
    /\ probe # NoProbe =>
          /\ Len(probe.rtts) = Pings - probe.lost
          /\ Ascending(probe.rtts)
          /\ usable <=> acked /\ IsUsable(probe.rtts, probe.lost, setup)

(* Every step replaces the probe with its verdict, or clears it. *)
LEMMA VerdictStep ==
    ASSUME WindowInv, VerdictInv, [CheckNext]_checkVars
    PROVE  VerdictInv'
  <1>1. CASE ProbeFails
    BY <1>1 DEF ProbeFails, Judged, VerdictInv
  <1>2. CASE ProbeEnds
    <2>1. PICK connect \in ConnectTimes, warm \in [1..WarmupPings -> Rtts \cup {PingBudget}],
               lost \in 0..Pings, ack \in AckTimes \cup {AckBudget}, answer \in BOOLEAN :
             \E rtts \in [1..(Pings - lost) -> Rtts] :
                /\ \A i, j \in DOMAIN rtts : i <= j => rtts[i] <= rtts[j]
                /\ ack = AckBudget => ~answer
                /\ probe' = [rtts |-> rtts, lost |-> lost]
                /\ acked' = answer /\ setup' = connect + ack
                /\ elapsed' = elapsed + connect + SumFunction(warm) + SumFunction(rtts)
                                + lost * PingBudget + ack
                /\ Judged(answer /\ IsUsable(rtts, lost, connect + ack))
      BY <1>2 DEF ProbeEnds
    <2>2. PICK rtts \in [1..(Pings - lost) -> Rtts] :
             /\ \A i, j \in DOMAIN rtts : i <= j => rtts[i] <= rtts[j]
             /\ probe' = [rtts |-> rtts, lost |-> lost]
             /\ acked' = answer /\ setup' = connect + ack
             /\ Judged(answer /\ IsUsable(rtts, lost, connect + ack))
      BY <2>1
    <2>3. Len(rtts) = Pings - lost
      BY CheckLimits
    <2>4. step' # "probe" /\ (usable' <=> answer /\ IsUsable(rtts, lost, connect + ack))
      BY <2>2 DEF Judged
    <2>5. probe'.rtts = rtts /\ probe'.lost = lost
      BY <2>2
    <2>6. /\ Len(probe'.rtts) = Pings - probe'.lost
          /\ Ascending(probe'.rtts)
          /\ usable' <=> acked' /\ IsUsable(probe'.rtts, probe'.lost, setup')
      BY <2>2, <2>3, <2>4, <2>5 DEF Ascending
    <2> QED BY <2>4, <2>6 DEF VerdictInv, IsUsable, At, SampleSize, SetupInTime, Ascending
  <1>3. CASE Pauses
    BY <1>3 DEF Pauses, VerdictInv
  <1>4. CASE CheckCancelled
    BY <1>4 DEF CheckCancelled, VerdictInv, IsUsable, At, SampleSize, SetupInTime
  <1>5. CASE UNCHANGED checkVars
    BY <1>5 DEF checkVars, VerdictInv, IsUsable, At, SampleSize, SetupInTime
  <1> QED BY <1>1, <1>2, <1>3, <1>4, <1>5 DEF CheckNext

(* A usable probe: nothing up to its 95th percentile was late. *)
LEMMA OneLateAnswer ==
    ASSUME FewPings, CheckTypeOK, VerdictInv, probe # NoProbe, usable
    PROVE  /\ Cardinality(Slow(probe.rtts)) <= 1
           /\ probe.lost * 100 <= MaxLossPct * Pings
           /\ acked /\ SetupInTime(setup)
  <1> DEFINE s == probe.rtts
  <1>1. /\ s \in Seq(Rtts) /\ s # <<>> /\ Ascending(s) /\ At(s, 95) <= MaxRtt
        /\ Len(s) = Pings - probe.lost /\ probe.lost \in 0..Pings
        /\ probe.lost * 100 <= MaxLossPct * Pings /\ acked /\ SetupInTime(setup)
    BY DEF CheckTypeOK, VerdictInv, IsUsable
  <1> HIDE DEF s
  <1>2. Len(s) <= 12
    <2>1. Pings <= 12
      BY CheckLimits, MaxOfTwo DEF FewPings, Pings
    <2> QED BY <1>1, <2>1, CheckLimits
  <1>3. /\ Len(s) \in Nat \ {0} /\ DOMAIN s = 1..Len(s)
        /\ \A i \in 1..Len(s) : s[i] \in Nat
        /\ SampleSize(s) \in 1..Len(s)
        /\ Len(s) - SampleSize(s) \in 0..1
        /\ At(s, 95) = s[SampleSize(s)]
    BY <1>1, <1>2, Quantile
  <1>4. Slow(s) \subseteq {Len(s)}
    <2> SUFFICES ASSUME NEW i \in 1..Len(s), s[i] > MaxRtt PROVE i = Len(s)
      BY <1>3 DEF Slow
    <2>1. s[SampleSize(s)] <= MaxRtt /\ s[i] \in Nat /\ s[SampleSize(s)] \in Nat /\ MaxRtt \in Nat
      BY <1>1, <1>3, CheckLimits
    <2>2. i <= SampleSize(s) => s[i] <= s[SampleSize(s)]
      BY <1>1, <1>3 DEF Ascending
    <2>3. ~(i <= SampleSize(s))
      BY <2>1, <2>2
    <2>4. Len(s) - SampleSize(s) \in 0..1 /\ i \in 1..Len(s) /\ SampleSize(s) \in 1..Len(s)
      BY <1>3
    <2> DEFINE l == Len(s)
               n == SampleSize(s)
    <2>5. l - n \in 0..1 /\ i \in 1..l /\ n \in 1..l /\ l \in Nat /\ ~(i <= n)
      BY <1>3, <2>3, <2>4
    <2> HIDE DEF l, n
    <2>6. i = l
      BY <2>5
    <2> QED BY <2>6 DEF l
  <1>5. Cardinality(Slow(s)) <= 1
    <2>1. IsFiniteSet({Len(s)}) /\ Cardinality({Len(s)}) = 1
      BY FS_Singleton
    <2> QED BY <1>4, <2>1, FS_Subset
  <1> QED BY <1>1, <1>5 DEF s

(* The late answer is trimmed; the others decide. *)
LEMMA LoneSpikePasses ==
    ASSUME CheckTypeOK, VerdictInv, probe # NoProbe,
           Pings > 2, acked, SetupInTime(setup), probe.lost = 0,
           \A i \in 1..(Pings - 1) :
              probe.rtts[i] <= MaxRtt /\ probe.rtts[i] <= probe.rtts[1] + MaxJitter
    PROVE  usable
  <1> DEFINE s == probe.rtts
  <1>1. /\ s \in Seq(Rtts) /\ Len(s) = Pings /\ Ascending(s)
        /\ \A i \in 1..(Pings - 1) : s[i] <= MaxRtt /\ s[i] <= s[1] + MaxJitter
    BY CheckLimits DEF CheckTypeOK, VerdictInv
  <1>2. IsUsable(s, 0, setup) => usable
    BY DEF VerdictInv
  <1> HIDE DEF s
  <1>3. s # <<>>
    BY <1>1
  <1>4. SampleSize(s) = Pings - 1
    BY <1>1 DEF SampleSize
  <1>5. PICK i \in 1..SampleSize(s) : At(s, 95) = s[i]
    BY <1>1, <1>3, Quantile
  <1>6. PICK j \in 1..SampleSize(s) : At(s, 50) = s[j]
    BY <1>1, <1>3, Quantile
  <1>7. /\ s[1] \in Nat /\ s[i] \in Nat /\ s[j] \in Nat
        /\ DOMAIN s = 1..Pings
    <2>1. DOMAIN s = 1..Pings /\ \A k \in 1..Pings : s[k] \in Nat
      BY <1>1, <1>3, Quantile
    <2>2. {1, i, j} \subseteq 1..Pings
      BY <1>4, CheckLimits
    <2> QED BY <2>1, <2>2
  <1>8. s[1] <= s[j] /\ s[i] <= MaxRtt /\ s[i] <= s[1] + MaxJitter
    BY <1>1, <1>4, <1>7, CheckLimits DEF Ascending
  <1>9. 0 * 100 <= MaxLossPct * Pings
    BY CheckLimits
  <1> QED BY <1>2, <1>3, <1>5, <1>6, <1>7, <1>8, <1>9, CheckLimits DEF IsUsable

(* One late ping is forgiven and a second is not, at any limits and any    *)
(* round trips, when at most twelve pings are sent (the default is ten).   *)
THEOREM LoneSpikesAreForgiven ==
    ASSUME FewPings
    PROVE  CheckSpec => []LoneSpikeIsForgiven
  <1>1. CheckInit => VerdictInv
    BY DEF CheckInit, VerdictInv
  <1>2. WindowInv /\ VerdictInv => LoneSpikeIsForgiven
    BY OneLateAnswer, LoneSpikePasses DEF LoneSpikeIsForgiven, WindowInv
  <1>3. WindowInv /\ VerdictInv /\ [CheckNext]_checkVars => WindowInv' /\ VerdictInv'
    BY WindowStep, VerdictStep
  <1> QED BY <1>1, <1>2, <1>3, WindowInit, PTL DEF CheckSpec

-----------------------------------------------------------------------------
(* The ranges of the watches: what is published comes from counters that   *)
(* only grow, and a streak that is long enough ends the loop.              *)
Kinds == {"none", "clean", "bad"}

WatchRanges ==
    /\ now \in 0..MaxTicks /\ beat \in {"elapse", "listen", "tick"}
    /\ uplink \in Nat \X Nat /\ unseen \in Nat
    /\ uplinkHist \in Seq(Nat \X Nat) /\ Len(uplinkHist) <= UplinkWindow
    /\ streak \in 0..BreachTicks /\ (watchEnd = "none" => streak < BreachTicks)
    /\ report \in Kinds \X (-1..now)
    /\ published \in Kinds \X (-1..now)
    /\ previous \in Kinds \X (-1..now)
    /\ fairAt \in 0..now /\ soundAt \in 0..now
    /\ watchEnd \in {"none", "underruns", "uplink", "downlink", "silence"}

WatchLimits ==
    /\ UplinkWindow \in Nat \ {0} /\ BreachTicks \in Nat \ {0} /\ MaxTicks \in Nat
    /\ Rate \in Nat /\ Losses \subseteq 0..Rate

(* The window drops its oldest tick when it is full. *)
LEMMA TrimmedFits ==
    ASSUME NEW w, w \in Seq(Nat \X Nat), Len(w) <= UplinkWindow, NEW u \in Nat \X Nat, WatchLimits
    PROVE  /\ Trimmed(Append(w, u)) \in Seq(Nat \X Nat)
           /\ Len(Trimmed(Append(w, u))) <= UplinkWindow
  <1> DEFINE a == Append(w, u)
  <1>1. a \in Seq(Nat \X Nat) /\ Len(a) = Len(w) + 1 /\ Len(w) \in Nat
    OBVIOUS
  <1> HIDE DEF a
  <1>2. a # <<>> => Tail(a) \in Seq(Nat \X Nat) /\ Len(Tail(a)) = Len(a) - 1
    BY <1>1
  <1>3. a # <<>>
    BY <1>1
  <1>4. Trimmed(a) \in Seq(Nat \X Nat) /\ Len(Trimmed(a)) <= UplinkWindow
    <2>1. CASE Len(a) > UplinkWindow
      BY <1>1, <1>2, <1>3, <2>1 DEF Trimmed, WatchLimits
    <2>2. CASE ~(Len(a) > UplinkWindow)
      BY <1>1, <2>2 DEF Trimmed, WatchLimits
    <2> QED BY <2>1, <2>2
  <1> QED BY <1>4 DEF a

LEMMA RangesStep ==
    ASSUME WatchLimits, WatchRanges, [WatchNext]_watchVars
    PROVE  WatchRanges'
  <1>1. ASSUME NEW lost \in Losses, NEW stutters \in 0..1, SecondPasses(lost, stutters)
        PROVE  WatchRanges'
    <2>1. now' = now + 1 /\ now' \in 0..MaxTicks /\ now \in Nat
      BY <1>1 DEF SecondPasses, Watched, WatchRanges, WatchLimits
    <2>2. uplink' \in Nat \X Nat /\ unseen' \in Nat
      <3>1. lost \in Nat /\ Rate - lost \in Nat /\ Rate \in Nat
        BY DEF WatchLimits
      <3>2. /\ uplink \in Nat \X Nat /\ uplink[1] \in Nat /\ uplink[2] \in Nat
            /\ unseen \in Nat
        BY DEF WatchRanges
      <3>3. uplink[1] + Rate - lost \in Nat /\ uplink[2] + unseen + lost \in Nat
        BY <3>1, <3>2
      <3>4. Heard(lost) \in Nat \X Nat
        BY <3>2, <3>3 DEF Heard
      <3> QED BY <1>1, <3>1, <3>2, <3>4 DEF SecondPasses
    <2>3. -1..now \subseteq -1..now' /\ 0..now \subseteq 0..now'
      BY <2>1
    <2>4. /\ UNCHANGED <<uplinkHist, streak, report, published, previous, fairAt, soundAt,
                         watchEnd>>
          /\ beat' = "listen"
      BY <1>1 DEF SecondPasses, reportVars, sampleVars
    <2>5. /\ report' \in Kinds \X (-1..now') /\ published' \in Kinds \X (-1..now')
          /\ previous' \in Kinds \X (-1..now')
          /\ fairAt' \in 0..now' /\ soundAt' \in 0..now'
      BY <2>3, <2>4 DEF WatchRanges
    <2> QED BY <2>1, <2>2, <2>4, <2>5 DEF WatchRanges
  <1>2. CASE Speaks \/ HarvestBegins \/ UNCHANGED watchVars
    BY <1>2 DEF Speaks, HarvestBegins, watchVars, uplinkVars, reportVars, sampleVars, WatchRanges
  <1>3. ASSUME NEW quality \in {"clean", "bad"}, Reports(quality)
        PROVE  WatchRanges'
    <2>1. <<quality, now>> \in Kinds \X (-1..now)
      BY DEF WatchRanges, Kinds
    <2> QED BY <1>3, <2>1 DEF Reports, uplinkVars, sampleVars, WatchRanges
  <1>4. CASE SampleReport
    BY <1>4 DEF SampleReport, uplinkVars, WatchRanges
  <1>5. CASE QualityTick
    <2>1. PICK downlink \in Snapshots : Gates(Trimmed(Append(uplinkHist, uplink)), downlink)
      BY <1>5 DEF QualityTick
    <2>2. /\ uplinkHist' = uplinkHist \/ uplinkHist' = Trimmed(Append(uplinkHist, uplink))
          /\ \/ streak' = streak /\ watchEnd' \in {"underruns", "uplink"}
             \/ streak' = Streak(streak, downlink) /\ streak' >= BreachTicks /\ watchEnd' = "downlink"
             \/ streak' = Streak(streak, downlink) /\ ~(streak' >= BreachTicks)
                  /\ watchEnd' \in {"silence", "none"}
      BY <2>1 DEF Gates, WrapUpTick
    <2>3. uplinkHist' \in Seq(Nat \X Nat) /\ Len(uplinkHist') <= UplinkWindow
      BY <2>2, TrimmedFits DEF WatchRanges
    <2>4. streak \in Nat /\ streak < BreachTicks
      BY <1>5 DEF QualityTick, WatchRanges, WatchLimits
    <2>5. Streak(streak, downlink) \in 0..BreachTicks
      BY <2>4 DEF Streak, WatchLimits
    <2>6. streak' \in 0..BreachTicks /\ (watchEnd' = "none" => streak' < BreachTicks)
          /\ watchEnd' \in {"none", "underruns", "uplink", "downlink", "silence"}
      BY <2>2, <2>4, <2>5 DEF WatchLimits
    <2> QED BY <1>5, <2>3, <2>6 DEF QualityTick, sampleVars, WatchRanges
  <1> QED BY <1>1, <1>2, <1>3, <1>4, <1>5 DEF WatchNext

LEMMA WatchTypesHold == WatchSpec => []WatchTypeOK
  <1>1. WatchLimits
    BY WatchAssumption DEF WatchLimits
  <1>2. WatchInit => WatchRanges
    <2> SUFFICES ASSUME WatchInit PROVE WatchRanges
      OBVIOUS
    <2>1. <<>> \in Seq(Nat \X Nat) /\ Len(<<>>) = 0
      OBVIOUS
    <2>2. NoReport \in Kinds \X (-1..0)
      BY DEF NoReport, Kinds, Never
    <2> QED BY <1>1, <2>1, <2>2 DEF WatchInit, WatchRanges, WatchLimits
  <1>3. WatchRanges /\ SilenceInv => WatchTypeOK
    BY DEF WatchRanges, SilenceInv, ClockOfSilence, NudgeInSilence, WatchTypeOK, Kinds, Phase
  <1> QED BY <1>1, <1>2, <1>3, RangesStep, SilenceInit, SilenceNext, PTL DEF WatchSpec

-----------------------------------------------------------------------------
(* UplinkLevel.  The gain moves part of the way to a level between nothing *)
(* and its maximum, the noise floor is an average of levels, and an onset  *)
(* that has not been confirmed has been counted less often than it takes.  *)
LevelRanges == LevelTypeOK /\ (~fired => consec < OnsetFrames)

LevelLimits ==
    /\ RingFrames \in Nat /\ WarmupFrames \in Nat
    /\ OnsetFrames \in Nat \ {0} /\ NoiseFloorRms \in Nat \ {0}
    /\ TargetRms \in Nat /\ MaxGain \in Nat /\ MaxGain >= 1000
    /\ LineLevels \subseteq 0..MaxRms /\ SpeechLevels \subseteq 0..MaxRms
    /\ MaxRms \in Nat

DetectorLimits == MinRms \in Nat /\ Ratio \in Nat

(* Large literals are kept out of the ranges. *)
LEMMA Bounds == MaxRms \in Nat /\ MinPcm \in Int /\ MaxPcm \in Int /\ MinPcm < MaxPcm
  BY DEF MaxRms, MinPcm, MaxPcm

LEMMA MinIsOne ==
    ASSUME NEW a \in Int, NEW b \in Int
    PROVE  Min({a, b}) = IF a <= b THEN a ELSE b
  BY DEF Min

(* A quotient of naturals is one. *)
LEMMA QuotientIsNat ==
    ASSUME NEW a \in Nat, NEW b \in Nat \ {0}
    PROVE  a \div b \in Nat
  OBVIOUS

(* Some hundredths of the way from one level to another stay between them. *)
LEMMA PartOfTheWay ==
    ASSUME NEW from \in Nat, NEW to \in Nat, NEW percent \in 0..100
    PROVE  LET at == from + ((to - from) * percent) \div 100
           IN  at \in Nat /\ (at <= from \/ at <= to)
  <1> DEFINE d == to - from
             p == d * percent
             q == p \div 100
  <1>1. d \in Int /\ p \in Int
    OBVIOUS
  <1>2. d >= 0 => 0 <= p /\ p <= 100 * d
    <2> HIDE DEF d
    <2>1. d >= 0 => d * percent >= 0 /\ d * (100 - percent) >= 0
      BY <1>1
    <2> QED BY <1>1, <2>1
  <1>3. d <= 0 => 100 * d <= p /\ p <= 0
    <2> HIDE DEF d
    <2>1. d <= 0 => d * percent <= 0 /\ d * (100 - percent) <= 0
      BY <1>1
    <2> QED BY <1>1, <2>1
  <1> HIDE DEF p
  <1>4. q \in Int /\ 100 * q <= p /\ p < 100 * q + 100
    BY <1>1
  <1> HIDE DEF q
  <1>5. (d >= 0 => 0 <= q /\ q <= d) /\ (d <= 0 => d <= q /\ q <= 0)
    <2> HIDE DEF d
    <2> QED BY <1>1, <1>2, <1>3, <1>4
  <1>6. from + q \in Nat /\ (from + q <= from \/ from + q <= to)
    BY <1>4, <1>5
  <1> QED BY <1>6 DEF q, p, d

LEMMA AdaptedInRange ==
    ASSUME LevelLimits, NEW rms \in 0..MaxRms, gain \in 0..MaxGain
    PROVE  Adapted(rms) \in 0..MaxGain
  <1>1. CASE rms < NoiseFloorRms
    BY <1>1 DEF Adapted
  <1>2. CASE ~(rms < NoiseFloorRms)
    <2> DEFINE level == (TargetRms * 1000) \div rms
               desired == Min({level, MaxGain})
               percent == IF desired < gain THEN 30 ELSE 5
    <2>1. level \in Nat
      <3>1. rms \in Nat \ {0} /\ TargetRms * 1000 \in Nat
        BY <1>2 DEF LevelLimits
      <3> QED BY <3>1, QuotientIsNat
    <2> HIDE DEF level
    <2>2. desired \in 0..MaxGain
      BY <2>1, MinIsOne DEF LevelLimits
    <2>3. gain \in Nat /\ desired \in Nat /\ percent \in 0..100
      BY <2>2 DEF LevelLimits
    <2> HIDE DEF desired, percent
    <2>4. /\ gain + ((desired - gain) * percent) \div 100 \in Nat
          /\ \/ gain + ((desired - gain) * percent) \div 100 <= gain
             \/ gain + ((desired - gain) * percent) \div 100 <= desired
      BY <2>3, PartOfTheWay
    <2>5. gain + ((desired - gain) * percent) \div 100 \in 0..MaxGain
      BY <2>2, <2>4 DEF LevelLimits
    <2> QED BY <1>2, <2>5 DEF Adapted, desired, percent, level
  <1> QED BY <1>1, <1>2

LEMMA AmplifiedInRange ==
    ASSUME LevelLimits, NEW rms \in 0..MaxRms, NEW g \in Nat
    PROVE  Amplified(rms, g) \in 0..MaxRms
  <1>1. rms * g \in Nat /\ MaxRms \in Nat
    BY DEF LevelLimits
  <1>2. (rms * g) \div 1000 \in Nat
    BY <1>1, QuotientIsNat
  <1> DEFINE a == (rms * g) \div 1000
  <1> HIDE DEF a
  <1>3. Min({a, MaxRms}) \in 0..MaxRms
    BY <1>1, <1>2, MinIsOne DEF a
  <1> QED BY <1>3 DEF Amplified, a

LEMMA ObserveInRange ==
    ASSUME LevelLimits, LevelRanges, NEW rms \in 0..MaxRms, ObserveFrame(rms)
    PROVE  /\ noiseFloor' \in 0..(MaxRms * 1000) /\ seen' \in 0..WarmupFrames
           /\ consec' \in 0..OnsetFrames /\ fired' \in BOOLEAN
           /\ ~fired' => consec' < OnsetFrames
  <1>1. /\ noiseFloor \in 0..(MaxRms * 1000) /\ seen \in 0..WarmupFrames
        /\ consec \in 0..OnsetFrames /\ fired \in BOOLEAN
        /\ ~fired => consec < OnsetFrames
    BY DEF LevelRanges, LevelTypeOK
  <1>2. CASE fired
    BY <1>1, <1>2 DEF ObserveFrame
  <1>3. CASE ~fired
    <2>1. seen' \in 0..WarmupFrames
      BY <1>1, <1>3, MinIsOne DEF ObserveFrame, LevelLimits
    <2>2. CASE seen = 0 /\ WarmupFrames > 0
      BY <1>1, <1>3, <2>1, <2>2 DEF ObserveFrame, LevelLimits
    <2>3. CASE ~(seen = 0 /\ WarmupFrames > 0)
      <3>1. Classify(rms)
        BY <1>3, <2>3 DEF ObserveFrame
      <3>2. CASE rms * 1000 >= Threshold
        <4>1. consec' = consec + 1 /\ fired' = (consec + 1 >= OnsetFrames)
              /\ noiseFloor' = noiseFloor
          BY <3>1, <3>2 DEF Classify
        <4>2. consec' \in 0..OnsetFrames /\ noiseFloor' \in 0..(MaxRms * 1000)
          BY <1>1, <1>3, <4>1 DEF LevelLimits
        <4>3. fired' \in BOOLEAN
          BY <4>1
        <4>4. ASSUME ~fired' PROVE consec' < OnsetFrames
          <5>1. ~(consec + 1 >= OnsetFrames)
            BY <4>1, <4>4, Zenon
          <5> QED BY <1>1, <4>1, <5>1 DEF LevelLimits
        <4> QED BY <2>1, <4>2, <4>3, <4>4
      <3>3. CASE ~(rms * 1000 >= Threshold)
        <4>1. consec' = 0 /\ fired' = fired
              /\ noiseFloor' = (noiseFloor * 9 + rms * 1000) \div 10
          BY <3>1, <3>3 DEF Classify
        <4>2. noiseFloor' \in 0..(MaxRms * 1000)
          BY <1>1, <4>1 DEF LevelLimits
        <4> QED BY <1>1, <1>3, <2>1, <4>1, <4>2 DEF LevelLimits
      <3> QED BY <3>2, <3>3
    <2> QED BY <2>2, <2>3
  <1> QED BY <1>1, <1>2, <1>3

LEMMA LevelStep ==
    ASSUME LevelLimits, LevelRanges, [LevelNext]_levelVars
    PROVE  LevelRanges'
  <1>1. /\ stage \in {"ring", "line", "speech"} /\ frames \in Nat
        /\ line \in LineLevels /\ speech \in SpeechLevels
        /\ kept \in 0..RingFrames /\ gain \in 0..MaxGain
    BY DEF LevelRanges, LevelTypeOK
  <1>2. CASE Keepalive
    <2>1. kept' \in 0..RingFrames
      BY <1>1, <1>2 DEF Keepalive, LevelLimits
    <2>2. ObserveFrame(0)
      BY <1>2 DEF Keepalive
    <2>3. UNCHANGED <<stage, frames, line, speech, gain>> /\ 0 \in 0..MaxRms
      BY <1>2 DEF Keepalive, LevelLimits
    <2>4. /\ noiseFloor' \in 0..(MaxRms * 1000) /\ seen' \in 0..WarmupFrames
          /\ consec' \in 0..OnsetFrames /\ fired' \in BOOLEAN
          /\ ~fired' => consec' < OnsetFrames
      BY <2>2, <2>3, ObserveInRange
    <2>5. /\ stage' \in {"ring", "line", "speech"} /\ frames' \in Nat
          /\ line' \in LineLevels /\ speech' \in SpeechLevels
          /\ kept' \in 0..RingFrames /\ gain' \in 0..MaxGain
      BY <1>1, <2>1, <2>3
    <2> QED BY <2>4, <2>5 DEF LevelRanges, LevelTypeOK
  <1>3. ASSUME NEW rms \in 0..MaxRms, PhoneFrame(rms), stage' \in {"line", "speech"}, frames' \in Nat
        PROVE  LevelRanges'
    <2>1. gain' \in 0..MaxGain /\ gain' \in Nat
      BY <1>1, <1>3, AdaptedInRange DEF PhoneFrame, LevelLimits
    <2>2. ObserveFrame(Amplified(rms, gain')) /\ Amplified(rms, gain') \in 0..MaxRms
      BY <1>3, <2>1, AmplifiedInRange DEF PhoneFrame
    <2> QED BY <1>1, <1>3, <2>1, <2>2, ObserveInRange DEF PhoneFrame, LevelRanges, LevelTypeOK
  <1>4. CASE LineFrame
    BY <1>1, <1>3, <1>4 DEF LineFrame, LevelLimits
  <1>5. CASE SpeechFrame
    BY <1>1, <1>3, <1>5 DEF SpeechFrame, LevelLimits
  <1>6. CASE UNCHANGED levelVars
    BY <1>6 DEF levelVars, LevelRanges, LevelTypeOK
  <1> QED BY <1>2, <1>4, <1>5, <1>6 DEF LevelNext

LEMMA DetectorNumbers ==
    /\ LevelLimits /\ DetectorLimits
  BY LevelAssumption, Bounds DEF LevelLimits, DetectorLimits

LEMMA LevelRangesInit ==
    ASSUME LevelInit PROVE LevelRanges
  <1>1. /\ stage = "ring" /\ frames = 0 /\ line \in LineLevels /\ speech \in SpeechLevels
        /\ kept = 0 /\ gain = 1000 /\ noiseFloor = 0 /\ seen = 0 /\ consec = 0 /\ fired = FALSE
    BY DEF LevelInit
  <1>2. /\ kept \in 0..RingFrames /\ gain \in 0..MaxGain /\ noiseFloor \in 0..(MaxRms * 1000)
        /\ seen \in 0..WarmupFrames /\ consec \in 0..OnsetFrames /\ consec < OnsetFrames
    BY DetectorNumbers, <1>1 DEF LevelLimits
  <1>3. stage \in {"ring", "line", "speech"} /\ frames \in Nat
    BY <1>1
  <1>4. fired \in BOOLEAN /\ ~fired
    BY Zenon DEF LevelInit
  <1> QED BY <1>1, <1>2, <1>3, <1>4, Zenon DEF LevelRanges, LevelTypeOK

LEMMA LevelTypesHold == LevelSpec => []LevelTypeOK
  <1>1. LevelInit => LevelRanges
    BY LevelRangesInit
  <1>2. LevelRanges /\ [LevelNext]_levelVars => LevelRanges'
    BY DetectorNumbers, LevelStep
  <1>3. LevelRanges => LevelTypeOK
    BY DEF LevelRanges
  <1> QED BY <1>1, <1>2, <1>3, PTL DEF LevelSpec

-----------------------------------------------------------------------------
(* Quiet lines.  Below the gain control's own noise floor the gain stays   *)
(* at one until somebody speaks, so the detector sees the line as it is.   *)
(* What it takes: a detector whose first frame seeds the floor and whose   *)
(* ratio is more than one; and, for speech that the gain turns down while  *)
(* the onset is counted, a target above the least level and above what     *)
(* stands out of any quiet line, with room for the rounding.  By default   *)
(* that is 200 RMS, a ratio of 3, 10 frames and a target of 4125.          *)
DetectorSeeds == MinRms > 0 /\ Ratio > 1 /\ WarmupFrames > 0

TargetStandsOut ==
    /\ MaxRms + MinRms * 1000 <= TargetRms * 1000
    /\ MaxRms + (Ratio * NoiseFloorRms) * 1000 <= TargetRms * 1000

Quiet == line < NoiseFloorRms
StandsOut == speech >= MinRms /\ speech >= Ratio * line

(* A gain at which a level is as loud as at the trunk, or loud enough.     *)
Carry(level, bar, g) == g >= 1000 \/ level * g >= bar * 1000

Carries(g) == Carry(speech, MinRms, g) /\ Carry(speech, Ratio * NoiseFloorRms, g)

QuietInv ==
    /\ seen = 0 => stage = "ring" /\ kept = 0
    /\ stage = "ring" => ~fired /\ noiseFloor = 0 /\ (kept = 0 => seen = 0)
    /\ stage \in {"ring", "line"} =>
          /\ gain = 1000 /\ noiseFloor <= line * 1000
          /\ fired => kept > 0 /\ line >= MinRms
    /\ stage = "line" /\ kept = 0 => noiseFloor = line * 1000
    /\ TargetStandsOut /\ stage = "speech" /\ StandsOut =>
          /\ noiseFloor <= line * 1000 /\ Carries(gain)
          /\ fired \/ consec >= frames

(* A frame at the threshold is counted, and one below it moves the floor.  *)
LEMMA LoudFrame ==
    ASSUME LevelLimits, DetectorLimits, LevelRanges, NEW rms \in 0..MaxRms, ObserveFrame(rms),
           seen # 0, rms >= MinRms, rms * 1000 >= noiseFloor * Ratio
    PROVE  /\ noiseFloor' = noiseFloor /\ (fired => fired')
           /\ ~fired' => consec' = consec + 1
           /\ ~fired /\ fired' => consec + 1 >= OnsetFrames
  <1>1. CASE fired
    BY <1>1 DEF ObserveFrame
  <1>2. CASE ~fired
    <2>1. MinRms * 1000 \in Int /\ noiseFloor * Ratio \in Int /\ rms * 1000 >= MinRms * 1000
      BY DEF LevelRanges, LevelTypeOK, DetectorLimits
    <2>2. rms * 1000 >= Threshold
      BY <2>1, MaxOfTwo DEF Threshold
    <2>3. Classify(rms)
      BY <1>2 DEF ObserveFrame
    <2>4. consec' = consec + 1 /\ noiseFloor' = noiseFloor /\ fired' = (consec + 1 >= OnsetFrames)
      BY <2>2, <2>3 DEF Classify
    <2>5. fired' => consec + 1 >= OnsetFrames
      BY <2>4, Zenon
    <2> QED BY <1>2, <2>4, <2>5
  <1> QED BY <1>1, <1>2

LEMMA SoftFrame ==
    ASSUME LevelLimits, DetectorLimits, LevelRanges, NEW rms \in 0..MaxRms, ObserveFrame(rms),
           seen # 0, rms * 1000 < MinRms * 1000 \/ rms * 1000 < noiseFloor * Ratio
    PROVE  /\ fired' = fired
           /\ noiseFloor' = IF fired THEN noiseFloor ELSE (noiseFloor * 9 + rms * 1000) \div 10
           /\ ~fired => consec' = 0
  <1>1. CASE fired
    BY <1>1 DEF ObserveFrame
  <1>2. CASE ~fired
    <2>1. MinRms * 1000 \in Int /\ noiseFloor * Ratio \in Int /\ rms * 1000 \in Int
      BY DEF LevelRanges, LevelTypeOK, DetectorLimits
    <2>2. ~(rms * 1000 >= Threshold)
      BY <2>1, MaxOfTwo DEF Threshold
    <2>3. Classify(rms)
      BY <1>2 DEF ObserveFrame
    <2> QED BY <1>2, <2>2, <2>3 DEF Classify
  <1> QED BY <1>1, <1>2

(* The first frame ever seeds the floor, and no frame is forgotten.        *)
LEMMA FirstFrame ==
    ASSUME LevelLimits, DetectorSeeds, LevelRanges, NEW rms \in 0..MaxRms, ObserveFrame(rms),
           ~fired, seen = 0
    PROVE  noiseFloor' = rms * 1000 /\ fired' = fired /\ consec' = 0
  BY DEF ObserveFrame, DetectorSeeds

LEMMA FramesAreSeen ==
    ASSUME LevelLimits, DetectorSeeds, LevelRanges, NEW rms, ObserveFrame(rms),
           fired => seen # 0
    PROVE  seen' # 0
  <1>1. seen \in Nat /\ WarmupFrames \in Nat /\ WarmupFrames > 0
    BY DEF LevelRanges, LevelTypeOK, LevelLimits, DetectorSeeds
  <1>2. CASE fired
    BY <1>2 DEF ObserveFrame
  <1>3. CASE ~fired
    <2>1. seen' = Min({seen + 1, WarmupFrames})
      BY <1>3 DEF ObserveFrame
    <2> QED BY <1>1, <2>1, MinIsOne
  <1> QED BY <1>2, <1>3

(* At a gain of one a level passes as it is.                               *)
LEMMA UnitGain ==
    ASSUME LevelLimits, NEW rms \in 0..MaxRms
    PROVE  Amplified(rms, 1000) = rms
  <1>1. (rms * 1000) \div 1000 = rms /\ rms \in Int /\ MaxRms \in Int
    BY DEF LevelLimits
  <1> QED BY <1>1, MinIsOne DEF Amplified

(* The keepalive is silence, which is below any least level.               *)
LEMMA KeepaliveStaysQuiet ==
    ASSUME DetectorSeeds, LevelRanges, Quiet, QuietInv, Keepalive
    PROVE  QuietInv'
  <1>1. /\ stage = "ring" /\ ~fired /\ noiseFloor = 0 /\ ObserveFrame(0)
        /\ kept' = kept + 1 /\ UNCHANGED <<stage, frames, line, speech, gain>>
    BY DEF Keepalive, QuietInv
  <1>2. kept \in Nat /\ line \in Nat /\ 0 \in 0..MaxRms /\ seen \in Nat /\ gain = 1000
    BY <1>1, DetectorNumbers DEF LevelRanges, LevelTypeOK, LevelLimits, QuietInv
  <1>3. seen' # 0
    BY <1>1, <1>2, DetectorNumbers, FramesAreSeen
  <1>4. fired' = fired /\ noiseFloor' = 0
    <2>1. CASE seen = 0
      BY <1>1, <1>2, <2>1, DetectorNumbers, FirstFrame
    <2>2. CASE seen # 0
      <3>1. 0 * 1000 < MinRms * 1000
        BY DetectorNumbers DEF DetectorSeeds, DetectorLimits
      <3>2. fired' = fired /\ noiseFloor' = IF fired THEN noiseFloor ELSE (noiseFloor * 9 + 0 * 1000) \div 10
        BY <1>1, <1>2, <2>2, <3>1, DetectorNumbers, SoftFrame
      <3> QED BY <1>1, <3>2
    <2> QED BY <2>1, <2>2
  <1>5. ~fired' /\ line * 1000 >= 0 /\ kept' # 0
    BY <1>1, <1>2, <1>4
  <1> QED BY <1>1, <1>2, <1>3, <1>4, <1>5 DEF QuietInv

(* A frame of the line, at a gain of one: it seeds the floor, or is below  *)
(* what the floor asks, or comes after a silence that left the floor low.  *)
LEMMA LineStaysQuiet ==
    ASSUME DetectorSeeds, LevelRanges, Quiet, QuietInv, LineFrame
    PROVE  QuietInv'
  <1>1. stage \in {"ring", "line"} /\ stage' = "line" /\ PhoneFrame(line)
    BY DEF LineFrame
  <1>2. /\ line \in 0..MaxRms /\ line \in Nat /\ kept \in Nat /\ seen \in Nat
        /\ noiseFloor \in Nat /\ gain = 1000 /\ noiseFloor <= line * 1000
        /\ MinRms \in Nat /\ Ratio \in Nat /\ Ratio > 1 /\ MinRms > 0
    BY <1>1, DetectorNumbers
       DEF LevelRanges, LevelTypeOK, LevelLimits, QuietInv, DetectorLimits, DetectorSeeds
  <1>3. gain' = 1000 /\ UNCHANGED <<line, speech, kept>> /\ ObserveFrame(line)
    <2>1. gain' = 1000
      BY <1>1, <1>2 DEF PhoneFrame, Adapted, Quiet
    <2> QED BY <1>1, <1>2, <2>1, DetectorNumbers, UnitGain DEF PhoneFrame
  <1>4. seen' # 0
    BY <1>1, <1>3, DetectorNumbers, FramesAreSeen DEF QuietInv
  <1>5. noiseFloor' <= line * 1000 /\ (kept = 0 => noiseFloor' = line * 1000)
        /\ (fired' => kept > 0 /\ line >= MinRms)
    <2>1. CASE seen = 0
      <3>1. ~fired
        BY <2>1 DEF QuietInv
      <3> QED BY <1>2, <1>3, <2>1, <3>1, DetectorNumbers, FirstFrame
    <2>2. CASE seen # 0
      <3>1. stage = "ring" => kept # 0 /\ noiseFloor = 0
        BY <2>2 DEF QuietInv
      <3>2. kept = 0 => noiseFloor = line * 1000 /\ ~fired
        BY <1>1, <1>2, <3>1 DEF QuietInv
      <3>3. fired => kept > 0 /\ line >= MinRms
        BY <1>1 DEF QuietInv
      <3>4. CASE line * 1000 < MinRms * 1000 \/ line * 1000 < noiseFloor * Ratio
        <4>1. /\ fired' = fired
              /\ noiseFloor' = IF fired THEN noiseFloor ELSE (noiseFloor * 9 + line * 1000) \div 10
          BY <1>2, <1>3, <2>2, <3>4, DetectorNumbers, SoftFrame
        <4>2. noiseFloor' <= line * 1000 /\ (kept = 0 => noiseFloor' = line * 1000)
          BY <1>2, <3>2, <4>1
        <4> QED BY <3>3, <4>1, <4>2
      <3>5. CASE ~(line * 1000 < MinRms * 1000 \/ line * 1000 < noiseFloor * Ratio)
        <4>1. noiseFloor * Ratio \in Int
          BY <1>2
        <4>2. line >= MinRms /\ line * 1000 >= noiseFloor * Ratio
          BY <1>2, <3>5, <4>1
        <4>3. noiseFloor' = noiseFloor
          BY <1>2, <1>3, <2>2, <4>2, DetectorNumbers, LoudFrame
        <4>4. kept # 0
          <5>1. noiseFloor = line * 1000 => noiseFloor * Ratio >= noiseFloor * 2
            BY <1>2
          <5>2. noiseFloor = line * 1000 => noiseFloor * 2 > line * 1000
            BY <1>2, <4>2
          <5> QED BY <1>2, <3>2, <4>1, <4>2, <5>1, <5>2
        <4> QED BY <1>2, <4>2, <4>3, <4>4
      <3> QED BY <3>4, <3>5
    <2> QED BY <2>1, <2>2
  <1> QED BY <1>1, <1>2, <1>3, <1>4, <1>5 DEF QuietInv

(* A level seen through the gain control: the gain falls no further than   *)
(* to where the target is, so a gain that carries the level moves to one   *)
(* that does.                                                              *)
LEMMA LevelStaysCarried ==
    ASSUME LevelRanges, NEW level \in 0..MaxRms, NEW bar \in Nat,
           MaxRms + bar * 1000 <= TargetRms * 1000, Carry(level, bar, gain)
    PROVE  Carry(level, bar, Adapted(level))
  <1>1. /\ level \in Nat /\ MaxRms \in Nat /\ gain \in Nat /\ TargetRms \in Nat
        /\ MaxGain \in Nat /\ MaxGain >= 1000 /\ NoiseFloorRms \in Nat \ {0}
    BY DetectorNumbers DEF LevelRanges, LevelTypeOK, LevelLimits
  <1>2. CASE level < NoiseFloorRms
    BY <1>2 DEF Adapted
  <1>3. CASE ~(level < NoiseFloorRms)
    <2> DEFINE target == TargetRms * 1000
               factor == target \div level
               desired == Min({factor, MaxGain})
               percent == IF desired < gain THEN 30 ELSE 5
               at == gain + ((desired - gain) * percent) \div 100
    <2>1. level > 0 /\ target \in Nat /\ MaxRms + bar * 1000 <= target
      BY <1>1, <1>3
    <2>2. Adapted(level) = at
      BY <1>3 DEF Adapted
    <2> HIDE DEF target
    <2>3. factor \in Nat /\ level * factor > target - level
      BY <1>1, <2>1
    <2> HIDE DEF factor
    <2>4. desired \in Nat /\ (desired = factor \/ desired = MaxGain)
      BY <1>1, <2>3, MinIsOne
    <2>5. Carry(level, bar, desired)
      <3>1. CASE desired = MaxGain
        BY <1>1, <3>1 DEF Carry
      <3>2. CASE desired = factor
        <4> DEFINE loud == level * factor
        <4>1. loud \in Int /\ loud > target - level
          BY <1>1, <2>3
        <4> HIDE DEF loud
        <4>2. loud >= bar * 1000
          BY <1>1, <2>1, <4>1
        <4> QED BY <3>2, <4>2 DEF Carry, loud
      <3> QED BY <2>4, <3>1, <3>2
    <2> HIDE DEF desired
    <2>6. at \in Nat /\ (at >= gain \/ at >= desired)
      <3> DEFINE d == desired - gain
                 q == (d * percent) \div 100
      <3>1. d \in Int /\ percent \in {5, 30} /\ (d < 0 => percent = 30) /\ (d >= 0 => percent = 5)
        BY <1>1, <2>4
      <3> HIDE DEF d
      <3>2. d * percent \in Int /\ q \in Int
        BY <3>1
      <3>3. d >= 0 => q >= 0
        BY <3>1
      <3>4. d < 0 => q >= d /\ q <= 0
        BY <3>1
      <3>5. at = gain + q
        BY DEF d
      <3> HIDE DEF q
      <3> QED BY <1>1, <2>4, <3>1, <3>2, <3>3, <3>4, <3>5 DEF d
    <2>7. ASSUME NEW g \in Nat, NEW h \in Nat, g >= h, Carry(level, bar, h)
          PROVE  Carry(level, bar, g)
      <3> DEFINE lg == level * g
                 lh == level * h
      <3>1. lg \in Nat /\ lh \in Nat /\ lg >= lh
        BY <1>1, <2>7
      <3>2. h >= 1000 \/ lh >= bar * 1000
        BY <2>7 DEF Carry
      <3> HIDE DEF lg, lh
      <3>3. g >= 1000 \/ lg >= bar * 1000
        BY <2>7, <3>1, <3>2
      <3> QED BY <3>3 DEF Carry, lg
    <2> HIDE DEF at
    <2> QED BY <1>1, <2>2, <2>4, <2>5, <2>6, <2>7
  <1> QED BY <1>2, <1>3

(* What is carried, and was loud enough at the trunk, is loud enough.      *)
LEMMA CarriedIsLoud ==
    ASSUME LevelRanges, NEW level \in 0..MaxRms, NEW bar \in Nat, NEW need \in Nat,
           MaxRms + bar * 1000 <= TargetRms * 1000, need <= bar, need <= level,
           NEW g \in Nat, Carry(level, bar, g)
    PROVE  Amplified(level, g) \in 0..MaxRms /\ Amplified(level, g) >= need
  <1>1. level \in Nat /\ MaxRms \in Nat
    BY DetectorNumbers DEF LevelLimits
  <1> DEFINE loud == level * g
             raised == loud \div 1000
  <1>2. loud \in Nat /\ (g >= 1000 => loud >= level * 1000)
    BY <1>1
  <1>3. g >= 1000 \/ loud >= bar * 1000
    BY DEF Carry
  <1>4. Amplified(level, g) = Min({raised, MaxRms})
    BY DEF Amplified
  <1> HIDE DEF loud
  <1>5. raised \in Nat /\ (raised + 1) * 1000 > loud
    BY <1>2
  <1> HIDE DEF raised
  <1>6. raised >= need
    BY <1>1, <1>2, <1>3, <1>5
  <1>7. need <= MaxRms
    BY <1>1
  <1> QED BY <1>1, <1>4, <1>5, <1>6, <1>7, MinIsOne

(* So is the speaker, at the threshold of a floor no higher than the line. *)
LEMMA GainCarries ==
    ASSUME TargetStandsOut, LevelRanges, Carries(gain)
    PROVE  Carries(Adapted(speech))
  <1>1. speech \in 0..MaxRms /\ MinRms \in Nat /\ Ratio * NoiseFloorRms \in Nat
    BY DetectorNumbers DEF LevelRanges, LevelTypeOK, LevelLimits, DetectorLimits
  <1> QED BY <1>1, LevelStaysCarried DEF Carries, TargetStandsOut

LEMMA SpeakerIsLoud ==
    ASSUME TargetStandsOut, LevelRanges, Quiet, StandsOut, NEW g \in Nat, Carries(g)
    PROVE  LET heard == Amplified(speech, g)
           IN  heard \in 0..MaxRms /\ heard >= MinRms /\ heard >= Ratio * line
  <1>1. /\ speech \in 0..MaxRms /\ line \in Nat /\ MinRms \in Nat /\ Ratio \in Nat
        /\ NoiseFloorRms \in Nat
    BY DetectorNumbers DEF LevelRanges, LevelTypeOK, LevelLimits, DetectorLimits
  <1>2. /\ Ratio * line \in Nat /\ Ratio * NoiseFloorRms \in Nat
        /\ Ratio * line <= Ratio * NoiseFloorRms
    <2>1. Ratio * (NoiseFloorRms - line) >= 0
      BY <1>1 DEF Quiet
    <2> QED BY <1>1, <2>1
  <1>3. Amplified(speech, g) \in 0..MaxRms /\ Amplified(speech, g) >= MinRms
    BY <1>1, CarriedIsLoud DEF Carries, StandsOut, TargetStandsOut
  <1>4. Amplified(speech, g) >= Ratio * line
    <2> DEFINE bar == Ratio * NoiseFloorRms
               need == Ratio * line
    <2>1. /\ bar \in Nat /\ need \in Nat /\ need <= bar /\ need <= speech
          /\ MaxRms + bar * 1000 <= TargetRms * 1000 /\ Carry(speech, bar, g)
      BY <1>2 DEF Carries, StandsOut, TargetStandsOut
    <2> HIDE DEF bar, need
    <2>2. Amplified(speech, g) >= need
      BY <1>1, <2>1, CarriedIsLoud
    <2> QED BY <2>2 DEF need
  <1> QED BY <1>3, <1>4

(* Each frame of such speech is counted. *)
LEMMA SpeechIsCounted ==
    ASSUME DetectorSeeds, LevelRanges, Quiet, QuietInv, SpeechFrame
    PROVE  QuietInv'
  <1>1. stage \in {"line", "speech"} /\ stage' = "speech" /\ PhoneFrame(speech)
        /\ frames' = IF stage = "line" THEN 1 ELSE frames + 1
    BY DEF SpeechFrame
  <1>2. /\ speech \in 0..MaxRms /\ line \in Nat /\ seen \in Nat /\ frames \in Nat
        /\ noiseFloor \in Nat /\ gain \in 0..MaxGain /\ consec \in Nat
        /\ MinRms \in Nat /\ Ratio \in Nat /\ fired \in BOOLEAN
    BY DetectorNumbers DEF LevelRanges, LevelTypeOK, LevelLimits, DetectorLimits
  <1>3. /\ gain' = Adapted(speech) /\ gain' \in Nat
        /\ ObserveFrame(Amplified(speech, gain')) /\ UNCHANGED <<line, speech, kept>>
    BY <1>1, <1>2, DetectorNumbers, AdaptedInRange DEF PhoneFrame, LevelLimits
  <1>4. seen # 0
    BY <1>1 DEF QuietInv
  <1>5. seen' # 0
    BY <1>3, <1>4, DetectorNumbers, FramesAreSeen
  <1>6. ASSUME TargetStandsOut, StandsOut
        PROVE  noiseFloor' <= line * 1000 /\ Carries(gain') /\ (fired' \/ consec' >= frames')
    <2>1. noiseFloor <= line * 1000 /\ Carries(gain)
      BY <1>1, <1>6 DEF QuietInv, Carries, Carry
    <2>2. Carries(gain')
      BY <1>3, <1>6, <2>1, GainCarries
    <2> DEFINE heard == Amplified(speech, gain')
    <2>3. heard \in 0..MaxRms /\ heard >= MinRms /\ heard >= Ratio * line
      BY <1>3, <1>6, <2>2, SpeakerIsLoud
    <2>4. ObserveFrame(heard)
      BY <1>3
    <2> HIDE DEF heard
    <2>5. heard * 1000 >= noiseFloor * Ratio
      <3> DEFINE stands == Ratio * line
      <3>1. Ratio * (line * 1000 - noiseFloor) >= 0
        BY <1>2, <2>1
      <3>2. noiseFloor * Ratio <= stands * 1000 /\ stands \in Nat /\ noiseFloor * Ratio \in Nat
        BY <1>2, <3>1
      <3>3. heard >= stands /\ heard \in Int
        BY <2>3, DetectorNumbers DEF LevelLimits
      <3> HIDE DEF stands
      <3> QED BY <3>2, <3>3
    <2>6. noiseFloor' = noiseFloor /\ (fired => fired') /\ (~fired' => consec' = consec + 1)
      BY <1>4, <2>3, <2>4, <2>5, DetectorNumbers, LoudFrame
    <2>7. fired' \/ consec' >= frames'
      <3>1. stage = "speech" => fired \/ consec >= frames
        BY <1>6 DEF QuietInv
      <3> QED BY <1>1, <1>2, <2>6, <3>1
    <2> QED BY <2>1, <2>2, <2>6, <2>7, <1>3
  <1>7. StandsOut' = StandsOut /\ Carries(gain)' = Carries(gain')
    BY <1>3 DEF StandsOut, Carries, Carry
  <1> QED BY <1>1, <1>3, <1>5, <1>6, <1>7 DEF QuietInv

QuietLine == Quiet => QuietInv

LEMMA QuietInit ==
    ASSUME LevelInit PROVE QuietLine
  <1>1. line \in Nat
    BY DetectorNumbers DEF LevelInit, LevelLimits
  <1> QED BY <1>1 DEF LevelInit, QuietLine, QuietInv

LEMMA QuietStep ==
    ASSUME DetectorSeeds, LevelRanges, QuietLine, [LevelNext]_levelVars
    PROVE  QuietLine'
  <1>1. Quiet' = Quiet
    BY DEF LevelNext, Keepalive, LineFrame, SpeechFrame, PhoneFrame, levelVars, Quiet
  <1>2. SUFFICES ASSUME Quiet, QuietInv PROVE QuietInv'
    BY <1>1 DEF QuietLine
  <1>3. CASE UNCHANGED levelVars
    BY <1>2, <1>3 DEF levelVars, QuietInv, StandsOut, Carries, Carry
  <1> QED BY <1>2, <1>3, KeepaliveStaysQuiet, LineStaysQuiet, SpeechIsCounted DEF LevelNext

LEMMA QuietLinesStay ==
    ASSUME DetectorSeeds
    PROVE  LevelSpec => [](LevelRanges /\ QuietLine)
  <1>1. LevelInit => LevelRanges /\ QuietLine
    BY LevelRangesInit, QuietInit
  <1>2. (LevelRanges /\ QuietLine) /\ [LevelNext]_levelVars => (LevelRanges /\ QuietLine)'
    BY DetectorNumbers, LevelStep, QuietStep
  <1> QED BY <1>1, <1>2, PTL DEF LevelSpec

(* On a quiet line, speech that stands out of it by the configured ratio   *)
(* is confirmed on the frame the onset asks for, however loud it is and    *)
(* however the gain control turns it down meanwhile.                       *)
THEOREM SpeechIsHeardOnQuietLines ==
    ASSUME DetectorSeeds, TargetStandsOut
    PROVE  LevelSpec => [](line < NoiseFloorRms => SpeechIsHeard)
  <1>1. LevelRanges /\ QuietLine => (line < NoiseFloorRms => SpeechIsHeard)
    <2> SUFFICES ASSUME LevelRanges, QuietInv, Quiet, stage = "speech", frames >= OnsetFrames,
                        speech >= Max({MinRms, Ratio * line})
                 PROVE  fired
      BY DEF QuietLine, Quiet, SpeechIsHeard
    <2>1. /\ MinRms \in Int /\ Ratio * line \in Int /\ consec \in Nat /\ speech \in Int
          /\ OnsetFrames \in Nat /\ frames \in Nat
      BY DetectorNumbers DEF LevelRanges, LevelTypeOK, LevelLimits, DetectorLimits
    <2>2. StandsOut
      BY <2>1, MaxOfTwo DEF StandsOut
    <2>3. fired \/ consec >= frames
      BY <2>2 DEF QuietInv
    <2> QED BY <2>1, <2>3 DEF LevelRanges
  <1> QED BY <1>1, QuietLinesStay, PTL

-----------------------------------------------------------------------------
(* Any line after the silence of a ring.  The floor is at nothing, so the  *)
(* least level alone decides: below it the gain is held and no frame       *)
(* counts, at it every frame does, for the gain never turns a line down    *)
(* below the least level.                                                  *)
RingSeeds ==
    /\ MinRms <= NoiseFloorRms
    /\ MaxRms + MinRms * 1000 <= TargetRms * 1000

RingInv ==
    /\ stage = "ring" =>
          /\ ~fired /\ noiseFloor = 0 /\ gain = 1000 /\ frames = 0 /\ consec = 0
          /\ kept > 0 => seen # 0
    /\ stage = "line" /\ kept > 0 =>
          /\ seen # 0
          /\ line < MinRms => ~fired /\ gain = 1000
          /\ line >= MinRms =>
                /\ noiseFloor = 0 /\ Carry(line, MinRms, gain)
                /\ IF fired THEN frames >= OnsetFrames ELSE consec = frames

LEMMA KeepaliveSeeds ==
    ASSUME DetectorSeeds, LevelRanges, RingInv, Keepalive
    PROVE  RingInv'
  <1>1. /\ stage = "ring" /\ ~fired /\ noiseFloor = 0 /\ gain = 1000 /\ frames = 0 /\ consec = 0
        /\ ObserveFrame(0) /\ kept' = kept + 1 /\ UNCHANGED <<stage, frames, line, speech, gain>>
    BY DEF Keepalive, RingInv
  <1>2. seen' # 0
    BY <1>1, DetectorNumbers, FramesAreSeen
  <1>3. 0 \in 0..MaxRms /\ 0 * 1000 < MinRms * 1000
    BY DetectorNumbers DEF LevelLimits, DetectorLimits, DetectorSeeds
  <1>4. ~fired' /\ noiseFloor' = 0 /\ consec' = 0
    <2>1. CASE seen = 0
      BY <1>1, <1>3, <2>1, DetectorNumbers, FirstFrame
    <2>2. CASE seen # 0
      BY <1>1, <1>3, <2>2, DetectorNumbers, SoftFrame
    <2> QED BY <2>1, <2>2
  <1> QED BY <1>1, <1>2, <1>4 DEF RingInv

LEMMA LineFrameDecides ==
    ASSUME DetectorSeeds, RingSeeds, LevelRanges, RingInv, LineFrame
    PROVE  RingInv'
  <1>1. /\ stage \in {"ring", "line"} /\ stage' = "line" /\ frames' = frames + 1
        /\ gain' = Adapted(line) /\ ObserveFrame(Amplified(line, gain'))
        /\ UNCHANGED <<line, speech, kept>>
    BY DEF LineFrame, PhoneFrame
  <1>2. /\ line \in 0..MaxRms /\ line \in Nat /\ MinRms \in Nat /\ frames \in Nat
        /\ consec \in Nat /\ fired \in BOOLEAN /\ gain \in 0..MaxGain /\ noiseFloor \in Nat
        /\ OnsetFrames \in Nat /\ Ratio \in Nat /\ MaxRms \in Nat /\ NoiseFloorRms \in Nat
    BY DetectorNumbers DEF LevelRanges, LevelTypeOK, LevelLimits, DetectorLimits
  <1> SUFFICES ASSUME kept > 0
               PROVE  /\ seen' # 0
                      /\ line < MinRms => ~fired' /\ gain' = 1000
                      /\ line >= MinRms =>
                            /\ noiseFloor' = 0 /\ Carry(line, MinRms, gain')
                            /\ IF fired' THEN frames' >= OnsetFrames ELSE consec' = frames'
    BY <1>1 DEF RingInv, Carry
  <1>3. seen # 0
    BY <1>1 DEF RingInv
  <1>4. seen' # 0
    BY <1>1, <1>3, DetectorNumbers, FramesAreSeen
  <1>5. ASSUME line < MinRms PROVE ~fired' /\ gain' = 1000
    <2>1. ~fired /\ gain = 1000
      BY <1>1, <1>5 DEF RingInv
    <2>2. gain' = 1000
      BY <1>1, <1>2, <1>5, <2>1 DEF Adapted, RingSeeds
    <2>3. ObserveFrame(line)
      BY <1>1, <1>2, <2>2, DetectorNumbers, UnitGain
    <2>4. line * 1000 < MinRms * 1000
      BY <1>2, <1>5
    <2>5. fired' = fired
      BY <1>2, <1>3, <2>3, <2>4, DetectorNumbers, SoftFrame
    <2> QED BY <2>1, <2>2, <2>5
  <1>6. ASSUME line >= MinRms
        PROVE  /\ noiseFloor' = 0 /\ Carry(line, MinRms, gain')
               /\ IF fired' THEN frames' >= OnsetFrames ELSE consec' = frames'
    <2>1. /\ noiseFloor = 0 /\ Carry(line, MinRms, gain)
          /\ IF fired THEN frames >= OnsetFrames ELSE consec = frames
      <3>1. CASE stage = "ring"
        BY <3>1 DEF RingInv, Carry
      <3>2. CASE stage = "line"
        BY <1>6, <3>2 DEF RingInv
      <3> QED BY <1>1, <3>1, <3>2
    <2>2. Carry(line, MinRms, gain')
      BY <1>1, <1>2, <2>1, LevelStaysCarried DEF RingSeeds
    <2>3. gain' \in Nat
      BY <1>1, <1>2, DetectorNumbers, AdaptedInRange DEF LevelLimits
    <2> DEFINE heard == Amplified(line, gain')
    <2>4. heard \in 0..MaxRms /\ heard >= MinRms
      BY <1>2, <1>6, <2>2, <2>3, CarriedIsLoud DEF RingSeeds
    <2>5. ObserveFrame(heard)
      BY <1>1
    <2> HIDE DEF heard
    <2>6. heard * 1000 >= noiseFloor * Ratio
      <3>1. noiseFloor * Ratio = 0
        BY <1>2, <2>1
      <3> QED BY <1>2, <2>4, <3>1
    <2>7. /\ noiseFloor' = noiseFloor /\ (fired => fired')
          /\ ~fired' => consec' = consec + 1
          /\ ~fired /\ fired' => consec + 1 >= OnsetFrames
      BY <1>3, <2>4, <2>5, <2>6, DetectorNumbers, LoudFrame
    <2> QED BY <1>1, <1>2, <2>1, <2>2, <2>7
  <1> QED BY <1>4, <1>5, <1>6

LEMMA RingStep ==
    ASSUME DetectorSeeds, RingSeeds, LevelRanges, RingInv, [LevelNext]_levelVars
    PROVE  RingInv'
  <1>1. CASE SpeechFrame
    <2>1. stage' = "speech"
      BY <1>1 DEF SpeechFrame
    <2> QED BY <2>1 DEF RingInv
  <1>2. CASE UNCHANGED levelVars
    BY <1>2 DEF levelVars, RingInv, Carry
  <1> QED BY <1>1, <1>2, KeepaliveSeeds, LineFrameDecides DEF LevelNext

(* vad.rs:4-8, :63-72: what a steady line comes to, on every line that the *)
(* silence of a ring comes before, and on every line below the gain        *)
(* control's noise floor.  The least level decides the first, for the      *)
(* silence has seeded the floor; the second seeds the floor itself and is  *)
(* never taken for speech.  A louder line that seeds the floor is lifted   *)
(* under the detector, and whether that looks like a jump is a matter of   *)
(* the numbers.                                                            *)
THEOREM SteadyLinesAreDecided ==
    ASSUME DetectorSeeds, RingSeeds
    PROVE  LevelSpec => [](kept > 0 \/ line < NoiseFloorRms => RingSilenceDecides)
  <1>1. LevelInit => RingInv
    BY DEF LevelInit, RingInv
  <1>2. LevelRanges /\ RingInv /\ [LevelNext]_levelVars => RingInv'
    BY RingStep
  <1>3. LevelRanges /\ QuietLine /\ RingInv =>
           (kept > 0 \/ line < NoiseFloorRms => RingSilenceDecides)
    <2> SUFFICES ASSUME LevelRanges, QuietLine, RingInv, kept > 0 \/ line < NoiseFloorRms,
                        stage = "line"
                 PROVE  fired = (kept > 0 /\ line >= MinRms /\ frames >= OnsetFrames)
      BY DEF RingSilenceDecides
    <2>1. /\ fired \in BOOLEAN /\ kept \in Nat /\ line \in Nat /\ MinRms \in Nat
          /\ OnsetFrames \in Nat /\ frames \in Nat /\ consec \in Nat
          /\ ~fired => consec < OnsetFrames
      BY DetectorNumbers DEF LevelRanges, LevelTypeOK, LevelLimits, DetectorLimits
    <2>2. CASE kept > 0
      <3>1. CASE line < MinRms
        BY <2>1, <2>2, <3>1 DEF RingInv
      <3>2. CASE line >= MinRms
        <4>1. IF fired THEN frames >= OnsetFrames ELSE consec = frames
          BY <2>2, <3>2 DEF RingInv
        <4>2. fired <=> frames >= OnsetFrames
          BY <2>1, <4>1
        <4> QED BY <2>1, <2>2, <3>2, <4>2
      <3> QED BY <2>1, <3>1, <3>2
    <2>3. CASE ~(kept > 0)
      <3>1. ~fired
        BY <2>3 DEF QuietLine, Quiet, QuietInv
      <3> QED BY <2>1, <2>3, <3>1
    <2> QED BY <2>2, <2>3
  <1> QED BY <1>1, <1>2, <1>3, QuietLinesStay, PTL DEF LevelSpec

-----------------------------------------------------------------------------
(* A behaviour of the composition is one of each part: while one moves the *)
(* others stutter.                                                         *)
LEMMA PartsRun ==
    MCSpec => CheckSpec /\ PacerSpec /\ RtpSpec /\ LevelSpec /\ WatchSpec
  <1>1. MCInit => CheckInit /\ PacerInit /\ RtpInit /\ LevelInit /\ WatchInit
    BY DEF MCInit
  <1>2. ASSUME [MCNext]_mediaVars
        PROVE  /\ [CheckNext]_checkVars /\ [PacerNext]_pacerVars /\ [RtpNext]_rtpVars
               /\ [LevelNext]_levelVars /\ [WatchNext]_watchVars
    BY <1>2 DEF MCNext, mediaVars, Preflight, DownlinkEvent, DownlinkTick, Reception, Level,
                Watch, NextSample, PacerNext
  <1> QED BY <1>1, <1>2, PTL DEF MCSpec, CheckSpec, PacerSpec, RtpSpec, LevelSpec, WatchSpec

(* All that is timed and counted around a call keeps its range, in every   *)
(* configuration: preflight, pacer, loss accounting, levels and watches.   *)
THEOREM MediaTypesHold == MCSpec => []MediaTypeOK
  <1> DEFINE Trial == part \in Parts /\ pcm \in Pcm16
  <1>1. MCInit => Trial
    <2>1. ASSUME NEW i \in 0..15 PROVE MinPcm + 4096 * i \in Pcm16
      <3>1. i \in Int /\ 0 <= i /\ i <= 15
        OBVIOUS
      <3>2. MinPcm + 4096 * 15 <= MaxPcm
        BY DEF MinPcm, MaxPcm
      <3> QED BY <3>1, <3>2, Bounds DEF Pcm16
    <2> QED BY <2>1 DEF MCInit
  <1>2. Trial /\ [MCNext]_mediaVars => Trial'
    BY Bounds DEF MCNext, mediaVars, Preflight, DownlinkEvent, DownlinkTick, Reception, Level,
           Watch, NextSample, Pcm16
  <1>3. MCSpec => []Trial
    BY <1>1, <1>2, PTL DEF MCSpec
  <1> HIDE DEF Trial
  <1>4. Trial /\ CheckTypeOK /\ PacerTypeOK /\ RtpTypeOK /\ LevelTypeOK /\ WatchTypeOK => MediaTypeOK
    BY DEF Trial, MediaTypeOK
  <1> QED BY <1>3, <1>4, PartsRun, CheckTypesHold, FramesAreWhole, NewestIsTracked, LevelTypesHold,
             WatchTypesHold, PTL
=============================================================================
