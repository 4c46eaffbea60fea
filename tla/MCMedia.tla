------------------------------- MODULE MCMedia ------------------------------
(***************************************************************************)
(* The network and media path of a call, for TLC: the preflight, the       *)
(* downlink pacer, the loss accounting of the uplink, its level up to      *)
(* speech detection, the watches over a live call, and the codec.  They    *)
(* share no state, so a behaviour exercises one of them, and a watched     *)
(* call has one kind of trouble.                                           *)
(***************************************************************************)
EXTENDS NetCheck, Pacer, RtpStats, UplinkLevel, CallWatch, G711

VARIABLES
    part,           \* the part this behaviour exercises
    pcm             \* the sample at the codec

Troubles == {"lossy_uplink", "callee_reports", "dead_air"}
Parts == {"preflight", "downlink", "loss", "level", "codec"} \cup Troubles

mediaVars == <<part, pcm, checkVars, pacerVars, rtpVars, levelVars, watchVars>>

MCInit ==
    /\ part \in Parts
    /\ pcm \in {MinPcm + 4096 * i : i \in 0..15}  \* the codec in 16 stretches
    /\ CheckInit /\ PacerInit /\ RtpInit /\ LevelInit /\ WatchInit
    /\ part # "level" => line = 0 /\ speech = 0
    /\ part # "codec" => pcm = MinPcm

Preflight ==
    /\ part = "preflight" /\ CheckNext
    /\ UNCHANGED <<part, pcm, pacerVars, rtpVars, levelVars, watchVars>>

DownlinkEvent ==
    /\ part = "downlink" /\ PacerEvent
    /\ UNCHANGED <<part, pcm, checkVars, rtpVars, levelVars, watchVars>>

DownlinkTick ==
    /\ part = "downlink" /\ PacerTick
    /\ UNCHANGED <<part, pcm, checkVars, rtpVars, levelVars, watchVars>>

Reception ==
    /\ part = "loss" /\ RtpNext
    /\ UNCHANGED <<part, pcm, checkVars, pacerVars, levelVars, watchVars>>

Level ==
    /\ part = "level" /\ LevelNext
    /\ UNCHANGED <<part, pcm, checkVars, pacerVars, rtpVars, watchVars>>

Watch ==
    /\ part \in Troubles /\ WatchNext
    /\ part # "lossy_uplink" => \A i \in DOMAIN lostBy' : lostBy'[i] = 0
    /\ part # "callee_reports" => report' = NoReport
    /\ part # "dead_air" => dropouts' = 0 /\ ~harvest' /\ (beat' = "tick" => spokeAt' = now')
    /\ UNCHANGED <<part, pcm, checkVars, pacerVars, rtpVars, levelVars>>

NextSample ==
    /\ part = "codec" /\ pcm < MaxPcm
    /\ pcm' = pcm + 1
    /\ UNCHANGED <<part, checkVars, pacerVars, rtpVars, levelVars, watchVars>>

MCNext == Preflight \/ DownlinkEvent \/ DownlinkTick \/ Reception \/ Level \/ Watch \/ NextSample

(* The pacer's ticker is a timer of the runtime. *)
MCSpec ==
    /\ MCInit /\ [][MCNext]_mediaVars
    /\ WF_mediaVars(DownlinkTick)

-----------------------------------------------------------------------------
MediaTypeOK ==
    /\ part \in Parts /\ pcm \in Pcm16
    /\ CheckTypeOK /\ PacerTypeOK /\ RtpTypeOK /\ LevelTypeOK /\ WatchTypeOK

Coded(law, sample) == Decode(law, Encode(law, sample))
Distance(a, b) == IF a >= b THEN a - b ELSE b - a

(* A trip through the codec changes a sample by at most half a step of its *)
(* segment, a 32nd of it, up to the clip; it keeps the order of samples    *)
(* and fits 16 bits; and a byte that was decoded is encoded to itself, so  *)
(* no hop adds to the distortion (mu-law has two zeros).                   *)
CodecIsFaithful ==
    part = "codec" => \A law \in Laws :
        /\ Coded(law, pcm) \in Pcm16
        /\ Distance(pcm, 0) <= 32256 =>
              32 * Distance(Coded(law, pcm), pcm) <= Distance(pcm, 0) + 256
        /\ pcm < MaxPcm => Coded(law, pcm) <= Coded(law, pcm + 1)
        /\ LET byte == pcm % 256
           IN  <<law, byte>> # <<"ulaw", 127>> =>
                  Encode(law, Decode(law, byte)) = byte
=============================================================================
