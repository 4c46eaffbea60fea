-------------------------------- MODULE Pacer -------------------------------
(***************************************************************************)
(* The downlink of a bridge (src/src/bridge/pace.rs): model audio at 24    *)
(* kHz is buffered, held until a prefill is reached, and played in frames  *)
(* of 20 ms through the decimating filter of src/src/bridge/resample.rs.   *)
(* The environment is the part of the bridge's select! that drives it      *)
(* (src/src/bridge/mod.rs).  A buffer is its number of samples.            *)
(***************************************************************************)
EXTENDS Naturals, FiniteSetsExt

CONSTANTS
    PrebufferMs,    \* quality.prebuffer_ms
    ResumeMs,       \* quality.resume_ms
    Chunks,         \* sizes of the model's audio events, in samples
    MaxAudio        \* bound: samples the model sends

InPerFrame == 480
OutPerFrame == 160
SamplesPerMs == 24
FadeMs == 25
Prebuffer == PrebufferMs * SamplesPerMs
Resume == ResumeMs * SamplesPerMs

ASSUME PacerAssumption ==
    /\ PrebufferMs \in Nat /\ ResumeMs \in Nat /\ MaxAudio \in Nat
    /\ Chunks \subseteq Nat \ {0}

VARIABLES
    buf,            \* samples buffered
    playing,        \* real audio is being emitted
    expecting,      \* a model turn is in flight
    fillTarget,     \* samples to hold before playout (re)starts
    filterPhase,    \* the decimator's position, modulo 3
    emitted,        \* 8 kHz samples of the last frame
    underruns,      \* times the buffer ran dry in a turn
    sent,           \* history: samples the model has sent
    ran             \* history: a frame was played since the turn began or the
                    \* last underrun

pacerVars == <<buf, playing, expecting, fillTarget, filterPhase, emitted, underruns, sent, ran>>

PacerInit ==
    /\ buf = 0 /\ playing = FALSE /\ expecting = FALSE
    /\ fillTarget = Prebuffer
    /\ filterPhase = 0 /\ emitted = OutPerFrame /\ underruns = 0
    /\ sent = 0 /\ ran = FALSE

(* A frame is 160 samples at 8 kHz, silence included: the forwarder stamps *)
(* each packet 160 samples after the last.                                 *)
PacerTypeOK ==
    /\ buf \in 0..MaxAudio /\ sent \in 0..MaxAudio
    /\ playing \in BOOLEAN /\ expecting \in BOOLEAN
    /\ fillTarget \in {Prebuffer, Resume}
    /\ filterPhase \in 0..2 /\ emitted = OutPerFrame
    /\ underruns \in Nat /\ ran \in BOOLEAN

-----------------------------------------------------------------------------
(* set_expecting(true): its rising edge re-arms the prefill. *)
ExpectTurn ==
    /\ expecting' = TRUE
    /\ ran' = (ran /\ expecting)
    /\ IF expecting THEN UNCHANGED <<playing, fillTarget>>
       ELSE playing' = FALSE /\ fillTarget' = Prebuffer

(* Event::OutputAudio, neither muted nor in the forward-only phase. *)
OutputAudio(n) ==
    /\ sent + n <= MaxAudio
    /\ ExpectTurn
    /\ buf' = buf + n /\ sent' = sent + n
    /\ UNCHANGED <<filterPhase, emitted, underruns>>

(* Downlink::clear *)
Clear ==
    /\ buf' = 0 /\ playing' = FALSE /\ fillTarget' = Prebuffer /\ filterPhase' = 0

(* Downlink::interrupt_fade: the head is faded and played, the rest dropped. *)
Fade ==
    LET n == Min({FadeMs * SamplesPerMs, buf})
    IN  IF n = 0 THEN Clear
        ELSE buf' = n /\ playing' = TRUE /\ fillTarget' = Prebuffer /\ UNCHANGED filterPhase

(* Event::Interrupted *)
Interrupted ==
    /\ expecting' = FALSE
    /\ Fade
    /\ UNCHANGED <<emitted, underruns, sent, ran>>

(* Event::TurnComplete *)
TurnOver ==
    /\ expecting' = FALSE
    /\ UNCHANGED <<buf, playing, fillTarget, filterPhase, emitted, underruns, sent, ran>>

ProcessNoWrap(n) ==                     \* mutant: the phase is not reduced
    /\ emitted' = Cardinality({i \in 0..(n - 1) : (filterPhase + i) % 3 = 0})
    /\ filterPhase' = filterPhase + n

(* Downsampler::process on a block of n: one sample out of three. *)
Process(n) ==
    /\ emitted' = Cardinality({i \in 0..(n - 1) : (filterPhase + i) % 3 = 0})
    /\ filterPhase' = (filterPhase + n) % 3

TargetPassed == buf > Max({fillTarget, InPerFrame})     \* mutant: off by one

TargetMet == buf >= Max({fillTarget, InPerFrame})

(* The frame stays silent: the prefill is not reached. *)
HoldFrame ==
    /\ ~playing /\ ~TargetMet
    /\ Process(InPerFrame)
    /\ UNCHANGED <<buf, playing, expecting, fillTarget, underruns, sent, ran>>

PlayFrame ==
    /\ playing \/ TargetMet
    /\ buf >= InPerFrame
    /\ playing' = TRUE
    /\ buf' = buf - InPerFrame
    /\ ran' = TRUE
    /\ Process(InPerFrame)
    /\ UNCHANGED <<expecting, fillTarget, underruns, sent>>

UnderrunAlwaysCounts ==                 \* mutant: outside a turn too
    /\ playing /\ buf < InPerFrame
    /\ underruns' = underruns + 1
    /\ playing' = FALSE /\ fillTarget' = Resume
    /\ Process(InPerFrame)
    /\ ran' = FALSE
    /\ UNCHANGED <<buf, expecting, sent>>

(* The buffer ran dry: silence, and a refill before playout resumes. *)
Underrun ==
    /\ playing /\ buf < InPerFrame
    /\ underruns' = underruns + (IF expecting THEN 1 ELSE 0)
    /\ playing' = FALSE /\ fillTarget' = Resume
    /\ Process(InPerFrame)
    /\ ran' = FALSE
    /\ UNCHANGED <<buf, expecting, sent>>

(* The 20 ms ticker: Downlink::next_frame. *)
PacerTick == HoldFrame \/ PlayFrame \/ Underrun

(* What the bridge takes from the model. *)
PacerEvent ==
    \/ \E n \in Chunks : OutputAudio(n)
    \/ Interrupted
    \/ TurnOver

PacerNext == PacerEvent \/ PacerTick

PacerSpec == PacerInit /\ [][PacerNext]_pacerVars

-----------------------------------------------------------------------------
(* A counted underrun is a real dropout: between two of them, and before   *)
(* the first of a turn, at least one frame of the turn was played.  A      *)
(* barge-in, or the start of the next turn behind its faded tail, counts   *)
(* none (abort_underruns ends the call on this count).                     *)
UnderrunsAreDropouts == [][underruns' > underruns => ran]_pacerVars

(* What the pacer holds for good is less than a refill: once the model is  *)
(* silent, everything but such a tail is played.                           *)
OnlyTailIsHeld == <>[](buf < Max({Prebuffer, Resume, InPerFrame}))
=============================================================================
