----------------------------- MODULE UplinkLevel ----------------------------
(***************************************************************************)
(* The level of the uplink on its way from the phone to the decision that  *)
(* the callee speaks: the gain control of src/src/bridge/agc.rs, then the  *)
(* detector of src/src/vad.rs, which the driver also feeds the silence     *)
(* that ring_wait (src/src/engine.rs) sends before the answer.  A frame is *)
(* its RMS; gain and noise floor are in thousandths, rounded down.  The    *)
(* line has a steady background; then, perhaps, somebody speaks.           *)
(***************************************************************************)
EXTENDS Integers, FiniteSetsExt

CONSTANTS
    RingFrames,     \* bound: keepalive frames before the answer
    LineLevels, SpeechLevels,           \* RMS at the trunk
    MaxLine, MaxSpeech,                 \* bounds: frames of either
    TargetRms, MaxGain, NoiseFloorRms,  \* AgcConfig
    MinRms, Ratio, OnsetFrames, WarmupFrames,   \* VadConfig
    LiftedRatio     \* how far speech stands out of a line the gain has lifted

MaxRms == 32767         \* of 16-bit samples

ASSUME LevelAssumption ==
    /\ RingFrames \in Nat /\ MaxLine \in Nat /\ MaxSpeech \in Nat
    /\ LineLevels \subseteq 0..MaxRms /\ SpeechLevels \subseteq 0..MaxRms
    /\ TargetRms \in 0..MaxRms /\ NoiseFloorRms \in Nat \ {0}
    /\ MaxGain \in Nat /\ MaxGain >= 1000
    /\ MinRms \in Nat /\ Ratio \in Nat \ {0} /\ OnsetFrames \in Nat \ {0}
    /\ WarmupFrames \in Nat /\ LiftedRatio \in Nat

VARIABLES
    stage,          \* "ring", "line" or "speech"
    frames,         \* frames in this stage
    line, speech,   \* levels of the background and of the speaker
    kept,           \* keepalive frames that came first
    gain,           \* Agc.gain
    noiseFloor,     \* Vad.noise_floor
    seen,           \* Vad.frames_seen
    consec,         \* Vad.consec
    fired           \* Vad.fired

levelVars == <<stage, frames, line, speech, kept, gain, noiseFloor, seen, consec, fired>>

LevelInit ==
    /\ stage = "ring" /\ frames = 0
    /\ line \in LineLevels /\ speech \in SpeechLevels
    /\ kept = 0 /\ gain = 1000
    /\ noiseFloor = 0 /\ seen = 0 /\ consec = 0 /\ fired = FALSE

LevelTypeOK ==
    /\ stage \in {"ring", "line", "speech"} /\ frames \in Nat
    /\ line \in LineLevels /\ speech \in SpeechLevels
    /\ kept \in 0..RingFrames /\ gain \in 0..MaxGain
    /\ noiseFloor \in 0..(MaxRms * 1000)
    /\ seen \in 0..WarmupFrames /\ consec \in 0..OnsetFrames /\ fired \in BOOLEAN

Threshold == Max({MinRms * 1000, noiseFloor * Ratio})

(* Vad::classify *)
ClassifyLate(rms) ==                    \* mutant: one frame too many is asked
    IF rms * 1000 >= Threshold
    THEN /\ consec' = Min({consec + 1, OnsetFrames})
         /\ fired' = (consec >= OnsetFrames)
         /\ UNCHANGED noiseFloor
    ELSE /\ consec' = 0
         /\ noiseFloor' = (noiseFloor * 9 + rms * 1000) \div 10
         /\ UNCHANGED fired

Classify(rms) ==
    IF rms * 1000 >= Threshold
    THEN /\ consec' = consec + 1
         /\ fired' = (consec + 1 >= OnsetFrames)
         /\ UNCHANGED noiseFloor
    ELSE /\ consec' = 0
         /\ noiseFloor' = (noiseFloor * 9 + rms * 1000) \div 10
         /\ UNCHANGED fired

(* Vad::observe: the first frame ever seeds the floor; onset fires once. *)
ObserveFrame(rms) ==
    IF fired THEN UNCHANGED <<noiseFloor, seen, consec, fired>>
    ELSE /\ seen' = Min({seen + 1, WarmupFrames})
         /\ IF seen = 0 /\ WarmupFrames > 0
            THEN noiseFloor' = rms * 1000 /\ consec' = 0 /\ UNCHANGED fired
            ELSE Classify(rms)

AdaptedUnheld(rms) ==                   \* mutant: not held on near-silence
    LET desired == Min({(TargetRms * 1000) \div Max({rms, 1}), MaxGain})
    IN  gain + ((desired - gain) * (IF desired < gain THEN 30 ELSE 5)) \div 100

(* Agc::process: held on near-silence, fast down, slow up. *)
Adapted(rms) ==
    IF rms < NoiseFloorRms THEN gain
    ELSE LET desired == Min({(TargetRms * 1000) \div rms, MaxGain})
         IN  gain + ((desired - gain) * (IF desired < gain THEN 30 ELSE 5)) \div 100

Amplified(rms, g) == Min({(rms * g) \div 1000, MaxRms})

(* ring_wait's keepalive reaches the driver without passing the bridge. *)
Keepalive ==
    /\ stage = "ring" /\ kept < RingFrames
    /\ ObserveFrame(0)
    /\ kept' = kept + 1
    /\ UNCHANGED <<stage, frames, line, speech, gain>>

(* A frame of the phone: the bridge's uplink task, then the driver's. *)
PhoneFrame(rms) ==
    /\ gain' = Adapted(rms)
    /\ ObserveFrame(Amplified(rms, gain'))
    /\ UNCHANGED <<line, speech, kept>>

LineFrame ==
    /\ stage \in {"ring", "line"} /\ frames < MaxLine
    /\ stage' = "line"
    /\ frames' = frames + 1
    /\ PhoneFrame(line)

SpeechFrame ==
    /\ stage = "line" \/ (stage = "speech" /\ frames < MaxSpeech)
    /\ stage' = "speech"
    /\ frames' = IF stage = "line" THEN 1 ELSE frames + 1
    /\ PhoneFrame(speech)

LevelNext == Keepalive \/ LineFrame \/ SpeechFrame

LevelSpec == LevelInit /\ [][LevelNext]_levelVars

-----------------------------------------------------------------------------
(* What a steady line comes to.  Where it seeds the floor itself it is     *)
(* never taken for the callee, neither when it is loud nor while the gain  *)
(* lifts it under the detector: vad.rs:4-8, "a JUMP from an established    *)
(* baseline, not absolute loudness".  Where the silence of a ring came     *)
(* first, as it does in every call that rings, absolute loudness decides:  *)
(* the line is taken for speech, and suppresses the greeting, exactly if   *)
(* it reaches the least level, on the frame the onset asks for.            *)
RingSilenceDecides ==
    stage = "line" => fired = (kept > 0 /\ line >= MinRms /\ frames >= OnsetFrames)

(* Speech that stands out of the line is confirmed on its third frame,     *)
(* although the gain moves under it: the configured ratio is enough on a   *)
(* line below the gain control's own noise floor; on a line it has lifted  *)
(* the gain falls while the onset is counted, and LiftedRatio is needed.   *)
SpeechIsHeard ==
    LET needed == IF line < NoiseFloorRms THEN Ratio ELSE LiftedRatio
    IN  stage = "speech" /\ frames >= OnsetFrames
          /\ speech >= Max({MinRms, needed * line}) => fired
=============================================================================
