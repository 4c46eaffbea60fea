----------------------------- MODULE CallSession ----------------------------
(***************************************************************************)
(* One answered call: the orchestration loop and the teardown of run_call  *)
(* (src/src/engine.rs), the Gemini driver task (run_driver of              *)
(* src/src/gemini_live.rs), the bridge on its own thread (run of           *)
(* src/src/bridge/mod.rs) and the SIP leg (run_call of src/src/sip/call.rs)*)
(* over the channels between them.  It starts when the phone is answered   *)
(* and ends with the record that CallEngine calls a LiveResult.            *)
(*                                                                         *)
(* A step is one arm of a select! or one statement of the teardown.  Audio *)
(* is whether some is buffered, a text delta is never blank, a goal is its *)
(* amd verdict, a timer may elapse at any time unless its guard says more. *)
(* Channels have room, and audio to the model is not followed.             *)
(***************************************************************************)
EXTENDS Naturals, Sequences, Disposition

CONSTANTS
    HarvestGrace,   \* whether wrap_up_grace_ms > 0
    WrapUp,         \* whether dead_air_nudge_ms > 0
    Goals,          \* amd verdicts of the goals the model may submit
    Durations,      \* lengths of the call, in milliseconds
    MaxEvents       \* bound: audio, text and turn ends the model produces

NoGoal == "no_goal"

ASSUME SessionAssumption ==
    /\ HarvestGrace \in BOOLEAN
    /\ WrapUp \in BOOLEAN
    /\ Goals \subseteq AmdVerdicts
    /\ Durations \subseteq Nat
    /\ MaxEvents \in Nat

VARIABLES
    driver,     \* the Gemini task: "connecting", "run" or "done"
    ending,     \* its deferred end: the goal of the first end_call, or NoGoal;
                \* kept as history when the driver is done
    unflushed,  \* whether its TranscriptAccumulator holds text
    outcome,    \* its CallOutcome, complete when it is done
    produced,   \* number of events the model has produced
    events,     \* channel driver -> bridge
    bridge,     \* "run", or the BridgeEnd it reported
    uplink,     \* whether the bridge's uplink task runs
    forwarding, \* the bridge's harvesting: no pacing, the grace timer armed
    busy,       \* the pacer holds audio, or some came within DOWNLINK_GRACE_MS
    active,     \* QualityShared.downlink_active, as last published
    mute,       \* mute_downlink
    reports,    \* channel bridge -> engine
    eng,        \* control point of run_call
    goal,       \* goal of the EndCall the engine received, or NoGoal
    talked,     \* transcript_events > 0
    harvesting, \* the engine's harvesting
    nudged,     \* WrapUpState.nudged_at_ms is set
    aborted,    \* abort_reason is set
    loopEnd,    \* how the loop ended, or None
    leg,        \* the SIP dialog: "up" or "over"
    media,      \* whether the RTP channels of the leg are open
    term,       \* Terminated in sip_events: "no", "sent" or "taken"
    cancel,     \* end_call has fired cancel_tx
    hangup,     \* the driver's hangup channel holds a message
    stop,       \* bridge_cancel_tx has fired
    record      \* what is finalized, or NoRecord

driverVars == <<driver, ending, unflushed, outcome, produced>>
bridgeVars == <<bridge, uplink, forwarding, busy, active>>
wrapVars   == <<mute, nudged, talked>>
loopVars   == <<eng, goal, harvesting, aborted, loopEnd>>
legVars    == <<leg, media, term>>
signals    == <<cancel, hangup, stop>>

vars == <<driverVars, events, bridgeVars, reports, wrapVars, loopVars, legVars,
          signals, record>>

(* Event: its kind, and the goal an EndCall carries. *)
Event == ({"audio", "text", "interrupted", "turn"} \X {NoGoal}) \cup ({"end_call"} \X Goals)
Plain(kind) == <<kind, NoGoal>>
EndCall(g) == <<"end_call", g>>

Outcome == [endedBy : EndedBy, goal : Goals \cup {NoGoal}, lines : Nat]
NoRecord == [disposition |-> None, goal |-> NoGoal, error |-> FALSE]

(* The call is answered; the session was started while the phone rang.     *)
Init ==
    /\ driver \in {"connecting", "run", "done"}
    /\ \E by \in IF driver = "done" THEN {"error", "remote_close"} ELSE {"error"} :
          outcome = [endedBy |-> by, goal |-> NoGoal, lines |-> 0]
    /\ ending = NoGoal /\ unflushed = FALSE /\ produced = 0
    /\ events = <<>> /\ reports = <<>>
    /\ bridge = "run" /\ uplink = TRUE /\ forwarding = FALSE
    /\ busy = FALSE /\ active = FALSE
    /\ mute = FALSE /\ nudged = FALSE /\ talked = FALSE
    /\ eng = "loop" /\ goal = NoGoal /\ harvesting = FALSE
    /\ aborted = FALSE /\ loopEnd = None
    /\ leg = "up" /\ media = TRUE /\ term = "no"
    /\ cancel = FALSE /\ hangup = FALSE /\ stop = FALSE
    /\ record = NoRecord

-----------------------------------------------------------------------------
(* The Gemini driver.                                                      *)

Connected ==
    /\ driver = "connecting"
    /\ driver' = "run"
    /\ UNCHANGED <<ending, unflushed, outcome, produced>>

ReturnsUnflushed(by, g) ==              \* mutant: no flush on the way out
    /\ driver' = "done"
    /\ unflushed' = FALSE
    /\ outcome' = [endedBy |-> by, goal |-> g, lines |-> outcome.lines]

(* What every exit of the driver's loop comes to: the last, unterminated   *)
(* turn is flushed and the outcome returned.                               *)
Returns(by, g) ==
    /\ driver' = "done"
    /\ unflushed' = FALSE
    /\ outcome' = [endedBy |-> by, goal |-> g,
                   lines |-> outcome.lines + (IF unflushed THEN 1 ELSE 0)]

ConnectFails ==
    /\ driver = "connecting"
    /\ Returns("error", NoGoal)
    /\ UNCHANGED <<ending, produced, events>>

Produces == driver = "run" /\ produced < MaxEvents /\ produced' = produced + 1

ModelAudio ==
    /\ Produces
    /\ events' = Append(events, Plain("audio"))
    /\ UNCHANGED <<driver, ending, unflushed, outcome>>

ModelText ==
    /\ Produces
    /\ unflushed' = TRUE
    /\ events' = Append(events, Plain("text"))
    /\ UNCHANGED <<driver, ending, outcome>>

(* A barge-in, or the flush after the session was reopened. *)
ModelInterrupted ==
    /\ Produces
    /\ events' = Append(events, Plain("interrupted"))
    /\ UNCHANGED <<driver, ending, unflushed, outcome>>

(* TurnComplete: the turn's text is flushed; a deferred end is due now. *)
TurnComplete ==
    /\ Produces
    /\ IF ending = NoGoal
       THEN /\ outcome' = [outcome EXCEPT !.lines = @ + (IF unflushed THEN 1 ELSE 0)]
            /\ unflushed' = FALSE
            /\ events' = Append(events, Plain("turn"))
            /\ UNCHANGED driver
       ELSE /\ events' = events \o <<Plain("turn"), EndCall(ending)>>
            /\ Returns("model_end_call", ending)
    /\ UNCHANGED ending

(* The model calls end_call: the goodbye goes on until its turn completes. *)
ModelEndCall(g) ==
    /\ driver = "run" /\ ending = NoGoal
    /\ ending' = g
    /\ UNCHANGED <<driver, unflushed, outcome, produced, events>>

EndingDeadline ==
    /\ driver = "run" /\ ending # NoGoal
    /\ events' = Append(events, EndCall(ending))
    /\ Returns("model_end_call", ending)
    /\ UNCHANGED <<ending, produced>>

(* SessionClosed, or a send to the session that fails. *)
RemoteClose ==
    /\ driver = "run"
    /\ Returns("remote_close", NoGoal)
    /\ UNCHANGED <<ending, produced, events>>

(* hangup_rx, or audio_in: the last sender of the uplink channel is gone.  *)
CallerGone ==
    /\ driver = "run"
    /\ hangup \/ (bridge # "run" /\ ~uplink)
    /\ Returns("caller_hangup", NoGoal)
    /\ UNCHANGED <<ending, produced, events>>

Driver ==
    /\ \/ Connected /\ UNCHANGED events
       \/ ConnectFails
       \/ ModelAudio \/ ModelText \/ ModelInterrupted \/ TurnComplete
       \/ \E g \in Goals : ModelEndCall(g)
       \/ EndingDeadline \/ RemoteClose \/ CallerGone
    /\ UNCHANGED <<bridgeVars, reports, wrapVars, loopVars, legVars, signals, record>>

-----------------------------------------------------------------------------
(* The bridge.                                                             *)

Stops(end) ==
    /\ bridge' = end
    /\ uplink' = FALSE
    /\ UNCHANGED <<forwarding, busy, active>>

PhoneGoneNoGrace ==                     \* mutant: the bridge ends at once
    bridge' = "phone_closed" /\ UNCHANGED forwarding

(* The phone is gone: without a grace the bridge ends, with one it goes on *)
(* to forward what the model still says.                                   *)
PhoneGone ==
    IF HarvestGrace THEN forwarding' = TRUE /\ UNCHANGED bridge
    ELSE bridge' = "phone_closed" /\ UNCHANGED forwarding

(* The uplink task ends with the phone's channel, or with a send into a    *)
(* session whose driver has returned.                                      *)
UplinkEnds ==
    /\ bridge = "run" /\ uplink
    /\ ~media \/ driver = "done"
    /\ uplink' = FALSE
    /\ PhoneGone
    /\ UNCHANGED <<busy, active, events, reports>>

(* The grace is seconds, and everything else takes far less: it elapses    *)
(* when the engine has seen the leg end and the driver has yet to return.  *)
GraceElapses ==
    /\ bridge = "run" /\ forwarding
    /\ leg = "over" /\ eng = "loop" => term = "taken"
    /\ driver # "done"
    /\ Stops("phone_closed")
    /\ UNCHANGED <<events, reports>>

Cancelled ==
    /\ bridge = "run" /\ stop
    /\ Stops("cancelled")
    /\ UNCHANGED <<events, reports>>

GeminiClosed ==
    /\ bridge = "run" /\ driver = "done" /\ events = <<>>
    /\ Stops("gemini_closed")
    /\ UNCHANGED <<events, reports>>

Takes(kinds) ==
    /\ bridge = "run" /\ events # <<>> /\ Head(events)[1] \in kinds
    /\ events' = Tail(events)
    /\ UNCHANGED <<bridge, uplink, forwarding, active>>

TakeAudio ==
    /\ Takes({"audio"})
    /\ IF forwarding \/ mute THEN UNCHANGED busy
       ELSE busy' = TRUE
    /\ UNCHANGED reports

(* interrupt_fade leaves a faded head in the buffer, or clears it. *)
TakeInterrupted ==
    /\ Takes({"interrupted"})
    /\ busy' \in {busy, FALSE}
    /\ UNCHANGED reports

TakeTurn ==
    /\ Takes({"turn"})
    /\ busy' \in {busy, FALSE}
    /\ reports' = Append(reports, Plain("turn"))

TakeOther ==
    /\ Takes({"text", "end_call"})
    /\ reports' = Append(reports, Head(events))
    /\ UNCHANGED busy

(* One tick of the pacer: a frame is played, the buffer may run empty and  *)
(* the last audio may cease to be recent; a closed phone is noticed.       *)
PacerTick ==
    /\ bridge = "run" /\ ~forwarding
    /\ busy' \in {busy, FALSE}
    /\ active' = busy'
    /\ IF media THEN UNCHANGED <<bridge, uplink, forwarding>>
       ELSE PhoneGone /\ uplink' = (uplink /\ bridge' = "run")
    /\ UNCHANGED <<events, reports>>

Bridge ==
    /\ \/ UplinkEnds \/ GraceElapses \/ Cancelled \/ GeminiClosed
       \/ TakeAudio \/ TakeInterrupted \/ TakeTurn \/ TakeOther \/ PacerTick
    /\ UNCHANGED <<driverVars, wrapVars, loopVars, legVars, signals, record>>

-----------------------------------------------------------------------------
(* The SIP leg, and end_call of the engine.                                *)

CalleeHangsUp ==
    /\ leg = "up"
    /\ leg' = "over"
    /\ UNCHANGED <<media, term, cancel>>

MediaCloses ==
    /\ leg = "over" /\ media
    /\ media' = FALSE
    /\ UNCHANGED <<leg, term, cancel>>

SendTerminated ==
    /\ leg = "over" /\ term = "no" /\ eng = "loop"
    /\ term' = "sent"
    /\ UNCHANGED <<leg, media, cancel>>

EndCallRequested ==
    /\ eng = "loop" /\ ~cancel
    /\ cancel' = TRUE
    /\ UNCHANGED legVars

Outside ==
    /\ CalleeHangsUp \/ MediaCloses \/ SendTerminated \/ EndCallRequested
    /\ UNCHANGED <<driverVars, events, bridgeVars, reports, wrapVars, loopVars,
                   hangup, stop, record>>

-----------------------------------------------------------------------------
(* The engine's loop.  Breaking out of it decides on the drain: only a     *)
(* goal the loop has received, with the phone still there, is waited for.  *)

Breaks(end, g) ==
    /\ loopEnd' = end
    /\ goal' = g
    /\ eng' = IF g # NoGoal /\ ~harvesting THEN "drain" ELSE "bye"
    /\ UNCHANGED harvesting

(* on_activity: a resumed conversation clears the nudge and un-mutes. *)
Activity ==
    /\ nudged' = FALSE
    /\ mute' = (mute /\ ~nudged)

EngineReport ==
    /\ eng = "loop" /\ reports # <<>>
    /\ reports' = Tail(reports)
    /\ LET kind == Head(reports)[1] IN
          IF kind = "end_call"
          THEN Breaks("completed", Head(reports)[2]) /\ UNCHANGED wrapVars
          ELSE /\ Activity
               /\ talked' = (talked \/ kind = "text")
               /\ UNCHANGED <<eng, goal, harvesting, loopEnd>>
    /\ UNCHANGED <<term, aborted>>

HarvestEligible == HarvestGrace /\ talked /\ goal = NoGoal

(* Terminated: an abrupt hangup after a conversation starts the harvest.   *)
EngineTerminated ==
    /\ eng = "loop" /\ term = "sent"
    /\ term' = "taken"
    /\ IF HarvestEligible
       THEN harvesting' = TRUE /\ UNCHANGED <<eng, goal, loopEnd>>
       ELSE Breaks("hung_up", goal)
    /\ UNCHANGED <<reports, wrapVars, aborted>>

EngineBridgeDone ==
    /\ eng = "loop" /\ bridge # "run"
    /\ Breaks(IF harvesting /\ bridge # "cancelled" THEN "completed"
              ELSE IF bridge = "gemini_closed" THEN "failed" ELSE "hung_up", goal)
    /\ UNCHANGED <<reports, wrapVars, term, aborted>>

MaxCallElapses ==
    /\ eng = "loop"
    /\ Breaks("completed", goal)
    /\ UNCHANGED <<reports, wrapVars, term, aborted>>

HarvestElapses ==
    /\ eng = "loop" /\ harvesting
    /\ Breaks("completed", goal)
    /\ UNCHANGED <<reports, wrapVars, term, aborted>>

NudgeElapses ==
    /\ eng = "loop" /\ nudged /\ ~harvesting
    /\ Breaks("completed", goal)
    /\ UNCHANGED <<reports, wrapVars, term, aborted>>

EngineCancelledUnlessNudged ==          \* mutant: deaf while wrapping up
    /\ eng = "loop" /\ cancel /\ ~nudged
    /\ Breaks("cancelled", goal)
    /\ UNCHANGED <<reports, wrapVars, term, aborted>>

EngineCancelled ==
    /\ eng = "loop" /\ cancel
    /\ Breaks("cancelled", goal)
    /\ UNCHANGED <<reports, wrapVars, term, aborted>>

(* The quality tick finds the audio too bad ... *)
EngineAborts ==
    /\ eng = "loop"
    /\ aborted' = TRUE
    /\ Breaks("failed", goal)
    /\ UNCHANGED <<reports, wrapVars, term>>

(* ... or the line silent for too long, and no harvest under way. *)
EngineNudges ==
    /\ eng = "loop" /\ WrapUp /\ HarvestGrace /\ ~harvesting /\ ~nudged
    /\ nudged' = TRUE
    /\ mute' = TRUE
    /\ UNCHANGED <<reports, talked, term, loopVars>>

EngineLoop ==
    /\ \/ EngineReport \/ EngineTerminated \/ EngineBridgeDone
       \/ MaxCallElapses \/ HarvestElapses \/ NudgeElapses
       \/ EngineCancelled \/ EngineAborts \/ EngineNudges
    /\ UNCHANGED <<driverVars, events, bridgeVars, leg, media, signals, record>>

(* The teardown. *)

Drained ==                      \* the downlink is idle, or 8 s have passed
    /\ eng = "drain"
    /\ eng' = "bye"
    /\ UNCHANGED <<leg, hangup, stop, record>>

SipHangup ==
    /\ eng = "bye"
    /\ eng' = "hangup"
    /\ leg' = "over"
    /\ UNCHANGED <<hangup, stop, record>>

HangUpDriver ==
    /\ eng = "hangup"
    /\ eng' = "stop"
    /\ hangup' = (driver # "done")
    /\ UNCHANGED <<leg, stop, record>>

StopBridge ==
    /\ eng = "stop"
    /\ eng' = "join"
    /\ stop' = TRUE
    /\ UNCHANGED <<leg, hangup, record>>

JoinBridge ==
    /\ eng = "join" /\ bridge # "run"
    /\ eng' = "outcome"
    /\ UNCHANGED <<leg, hangup, stop, record>>

FinalGoalFromLoop == goal               \* mutant: the outcome is not consulted

(* A goal the engine never received is taken from the driver's outcome. *)
FinalGoal == IF goal # NoGoal THEN goal ELSE outcome.goal

Verdict(g) == IF g = NoGoal THEN None ELSE g

Shape(duration) ==
    [answered |-> TRUE, duration |-> duration, transcript |-> outcome.lines,
     endedBy |-> outcome.endedBy]

(* The driver is joined and the call finalized with its outcome. *)
Finalized ==
    /\ eng = "outcome" /\ driver = "done"
    /\ eng' = "done"
    /\ \E duration \in Durations :
          LET d == Resolve(loopEnd = "cancelled", Verdict(FinalGoal), None, Shape(duration))
          IN  record' = [disposition |-> d, goal |-> FinalGoal,
                         error |-> aborted /\ d = "failed"]
    /\ UNCHANGED <<leg, hangup, stop>>

Teardown ==
    /\ Drained \/ SipHangup \/ HangUpDriver \/ StopBridge \/ JoinBridge \/ Finalized
    /\ UNCHANGED <<driverVars, events, bridgeVars, reports, wrapVars, goal, harvesting,
                   aborted, loopEnd, media, term, cancel>>

-----------------------------------------------------------------------------
Next == Driver \/ Bridge \/ Outside \/ EngineLoop \/ Teardown

Spec == Init /\ [][Next]_vars

(* Tasks and the bridge thread are scheduled, a pending connect ends one   *)
(* way or the other, a grace elapses, a drain is capped.  Nothing is said  *)
(* of the model, the callee, end_call or max_call_secs.                    *)
Fairness ==
    /\ WF_vars(Driver /\ driver = "connecting")
    /\ WF_vars(Driver /\ CallerGone)
    /\ WF_vars(Bridge /\ (UplinkEnds \/ GraceElapses \/ Cancelled \/ GeminiClosed))
    /\ WF_vars(Bridge /\ (TakeAudio \/ TakeInterrupted \/ TakeTurn \/ TakeOther))
    /\ WF_vars(Outside /\ (MediaCloses \/ SendTerminated))
    /\ WF_vars(EngineLoop /\ (EngineTerminated \/ EngineBridgeDone \/ EngineCancelled))
    /\ WF_vars(EngineLoop /\ HarvestElapses)
    /\ WF_vars(Teardown)

FairSpec == Spec /\ Fairness

-----------------------------------------------------------------------------
TypeOK ==
    /\ driver \in {"connecting", "run", "done"}
    /\ {ending, goal} \subseteq Goals \cup {NoGoal}
    /\ outcome \in Outcome
    /\ produced \in 0..MaxEvents
    /\ events \in Seq(Event) /\ reports \in Seq(Event)
    /\ bridge \in {"run", "phone_closed", "gemini_closed", "cancelled"}
    /\ loopEnd \in {None, "completed", "failed", "hung_up", "cancelled"}
    /\ leg \in {"up", "over"} /\ term \in {"no", "sent", "taken"}
    /\ eng \in {"loop", "drain", "bye", "hangup", "stop", "join", "outcome", "done"}
    /\ record \in [disposition : Dispositions \cup {None}, goal : Goals \cup {NoGoal},
                   error : BOOLEAN]

(* Once the callee is gone, the driver has returned or end_call was called,*)
(* run_call reaches its finalize: no task waits for another for ever.      *)
SessionEnds ==
    (leg = "over" \/ driver = "done" \/ cancel) ~> (eng = "done")

(* engine.rs:1241 and :1256: a harvested call has a transcript, so nothing *)
(* that ends the harvest makes it a failure or an announcement.            *)
HarvestCompletes ==
    eng = "done" /\ harvesting /\ loopEnd # "cancelled" =>
        \/ record.disposition = "completed"
        \/ record.disposition = record.goal

(* engine.rs:1227-1238: with a grace configured, a hangup after the engine *)
(* saw a conversation and no goal is never taken as a plain hangup,        *)
(* whichever of the two hangup signals comes first.                        *)
EligibleHarvested ==
    loopEnd = "hung_up" => ~HarvestEligible

(* engine.rs:1361: an end_call that the driver completed is in the record, *)
(* also when the engine's loop ended for another reason before it came.    *)
GoalRecorded ==
    eng = "done" /\ outcome.endedBy = "model_end_call" => record.goal = ending

(* README.md:141: the model "passes it as the arguments of a single        *)
(* end_call tool call at the end; kutsu records those arguments as the     *)
(* final goal JSON".                                                       *)
GoalKept == eng = "done" => record.goal = ending
=============================================================================
