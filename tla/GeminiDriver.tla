----------------------------- MODULE GeminiDriver ---------------------------
(***************************************************************************)
(* The Gemini task of one call in detail (src/src/gemini_live.rs): connect *)
(* while the phone rings, greet a callee who stays silent, hand the events *)
(* of the session on, take up the exchange after the session was reopened, *)
(* inject cues, and return.  CallSession has the same task with what the   *)
(* bridge and the engine see of it.                                        *)
(*                                                                         *)
(* An action is one arm of run_driver's select!, or a step of its          *)
(* environment: the phone, the engine, and the gemini-live crate, whose    *)
(* session reconnects by itself.  Voice activity detection reports the     *)
(* first onset of speech of a call and no other (Vad::observe).  Channels  *)
(* to the bridge have room; the AMD probe only logs and is left out.       *)
(***************************************************************************)
EXTENDS Naturals

CONSTANTS
    GreetEnabled,   \* greet_after_silence_ms > 0
    Goals           \* arguments the model may pass to end_call

NoGoal == "no_goal"

ASSUME DriverAssumption == GreetEnabled \in BOOLEAN /\ NoGoal \notin Goals

VARIABLES
    driver,         \* "connecting", "run" or "done"
    armed,          \* greet_armed
    greetTimer,     \* greet_deadline: "off", "running" or "due"
    greeted,
    activity,       \* had_activity
    callee,         \* callee_active
    resumeNeeded,   \* resume_needed
    reopened,       \* is_reconnect_session
    answeredClosed, \* answered_closed
    textOpen,       \* text_channel_open
    ending,         \* deferred end: the goal, or NoGoal
    endTimer,       \* ending_deadline: "off", "running" or "due"
    acc,            \* TranscriptAccumulator: what each role's buffer holds
    transcript,     \* roles that have a transcript entry
    outcome,        \* [by, goal], complete when the driver is done
    env,            \* the channels, and the crate's session
    hist            \* history, for the properties

greetVars == <<armed, greetTimer, greeted>>
talkVars  == <<activity, callee, resumeNeeded>>
endVars   == <<ending, endTimer>>
textVars  == <<acc, transcript>>
latches   == <<answeredClosed, textOpen>>

vars == <<driver, greetVars, talkVars, reopened, endVars, textVars, latches, outcome,
          env, hist>>

Roles == {"user", "model"}
Empty == [r \in Roles |-> "empty"]
NoOutcome == [by |-> "error", goal |-> NoGoal]

(* picked: the answer is published.  answered, text, audio: a sender of    *)
(* that channel is alive.  frames: audio_in holds one.  hungUp: hangup_rx  *)
(* has a message or no sender.                                             *)
Channels == [picked : BOOLEAN, answered : BOOLEAN, text : BOOLEAN,
             frames : BOOLEAN, audio : BOOLEAN, hungUp : BOOLEAN, session : {"up", "closed"}]

(* greets: greeting cues sent, up to 2.  said: roles that said something   *)
(* not blank.  voiced: voice activity was reported.  owed: the callee      *)
(* spoke since the last completed turn.  turned: a turn was completed.     *)
(* lost: a session was reopened without the callee's last words, and       *)
(* nothing was sent to it.                                                 *)
History == [greets : 0..2, said : SUBSET Roles, voiced : BOOLEAN,
            owed : BOOLEAN, turned : BOOLEAN, lost : BOOLEAN]

Capped(n, cap) == IF n < cap THEN n + 1 ELSE cap

(* The locals of run_driver; armed is read when it starts. *)
Init ==
    /\ driver = "connecting"
    /\ armed = FALSE /\ greetTimer = "off" /\ greeted = ~GreetEnabled
    /\ activity = FALSE /\ callee = FALSE /\ resumeNeeded = FALSE /\ reopened = FALSE
    /\ answeredClosed = FALSE /\ textOpen = TRUE
    /\ ending = NoGoal /\ endTimer = "off"
    /\ acc = Empty /\ transcript = {}
    /\ outcome = NoOutcome
    /\ env = [picked |-> FALSE, answered |-> TRUE, text |-> TRUE,
              frames |-> FALSE, audio |-> TRUE, hungUp |-> FALSE, session |-> "up"]
    /\ hist = [greets |-> 0, said |-> {}, voiced |-> FALSE,
               owed |-> FALSE, turned |-> FALSE, lost |-> FALSE]

-----------------------------------------------------------------------------
(* Transcript, start and return.                                           *)

Delta(role, blank) ==
    acc' = [acc EXCEPT ![role] = IF blank /\ @ # "text" THEN "blank" ELSE "text"]

FlushUserOnly ==                        \* mutant: an entry for the callee alone
    /\ transcript' = transcript \cup {r \in {"user"} : acc[r] = "text"}
    /\ acc' = Empty

(* An entry for each role whose buffer is not blank; both are cleared. *)
Flush ==
    /\ transcript' = transcript \cup {r \in Roles : acc[r] = "text"}
    /\ acc' = Empty

Connected ==
    /\ driver = "connecting"
    /\ driver' = "run"
    /\ armed' = env.picked
    /\ greetTimer' = IF env.picked THEN "running" ELSE "off"
    /\ UNCHANGED <<greeted, talkVars, reopened, endVars, textVars, latches, outcome, env,
                   hist>>

ConnectFails ==
    /\ driver = "connecting"
    /\ driver' = "done"
    /\ outcome' = NoOutcome
    /\ UNCHANGED <<greetVars, talkVars, reopened, endVars, textVars, latches, env, hist>>

(* Every break out of the loop: the last, unterminated turn is flushed.    *)
(* ending is kept as history.                                              *)
Returns(by, g) ==
    /\ driver' = "done"
    /\ outcome' = [by |-> by, goal |-> g]
    /\ Flush
    /\ UNCHANGED <<greetVars, talkVars, reopened, endVars, latches, env, hist>>

(* The task unwinds: join() makes an error of it, without a transcript. *)
Unwinds ==
    /\ driver = "run"
    /\ driver' = "done"
    /\ outcome' = NoOutcome
    /\ acc' = Empty /\ transcript' = {}
    /\ UNCHANGED <<greetVars, talkVars, reopened, endVars, latches, env, hist>>

-----------------------------------------------------------------------------
(* The greeting.                                                           *)

ArmGreetingClosedFirst ==               \* mutant: a dropped sender hides the answer
    /\ driver = "run"
    /\ ~armed /\ ~greeted /\ ~answeredClosed
    /\ env.picked \/ ~env.answered
    /\ IF env.answered
       THEN armed' = TRUE /\ greetTimer' = "running" /\ UNCHANGED answeredClosed
       ELSE answeredClosed' = TRUE /\ UNCHANGED <<armed, greetTimer>>
    /\ UNCHANGED <<driver, greeted, talkVars, reopened, endVars, textVars, textOpen, outcome,
                   env, hist>>

(* answered.changed(): an answer arms the timer, a dropped sender is       *)
(* remembered so that it is not polled again.                              *)
ArmGreeting ==
    /\ driver = "run"
    /\ ~armed /\ ~greeted /\ ~answeredClosed
    /\ env.picked \/ ~env.answered
    /\ IF env.picked
       THEN armed' = TRUE /\ greetTimer' = "running" /\ UNCHANGED answeredClosed
       ELSE answeredClosed' = TRUE /\ UNCHANGED <<armed, greetTimer>>
    /\ UNCHANGED <<driver, greeted, talkVars, reopened, endVars, textVars, textOpen, outcome,
                   env, hist>>

(* The callee was silent for too long: the model gets the first turn. *)
Greet ==
    /\ driver = "run"
    /\ armed /\ greetTimer = "due" /\ ~greeted
    /\ ~activity /\ ~callee /\ ~reopened
    /\ IF env.session = "closed"
       THEN Returns("remote_close", NoGoal)
       ELSE /\ greeted' = TRUE
            /\ hist' = [hist EXCEPT !.greets = Capped(@, 2)]
            /\ UNCHANGED <<driver, armed, greetTimer, talkVars, reopened, endVars, textVars,
                           latches, outcome, env>>

-----------------------------------------------------------------------------
(* Audio from the callee; while the phone rings, ring_wait's silence.      *)

UplinkFrame(speech) ==
    /\ driver = "run" /\ env.frames
    /\ speech => env.picked
    /\ LET onset == speech /\ ~hist.voiced IN
          /\ callee' = (callee \/ onset)
          /\ resumeNeeded' = (resumeNeeded \/ onset)
    /\ env' = [env EXCEPT !.frames = FALSE]
    /\ hist' = [hist EXCEPT !.voiced = @ \/ speech, !.owed = @ \/ speech]
    /\ IF env.session = "closed"
       THEN /\ driver' = "done"
            /\ outcome' = [by |-> "remote_close", goal |-> NoGoal]
            /\ Flush
       ELSE UNCHANGED <<driver, outcome, textVars>>
    /\ UNCHANGED <<greetVars, activity, reopened, endVars, latches>>

UplinkClosed ==
    /\ driver = "run" /\ ~env.frames /\ ~env.audio
    /\ Returns("caller_hangup", NoGoal)

-----------------------------------------------------------------------------
(* Events of the session.                                                  *)

Receives == driver = "run" /\ env.session = "up"

ReopenedOnlyResumed(resumed) ==         \* mutant: the wrong sense of resumed
    /\ Receives
    /\ reopened' = TRUE /\ greeted' = TRUE
    /\ env' = [env EXCEPT !.frames = FALSE]
    /\ hist' = [hist EXCEPT !.lost = @ \/ (~resumed /\ hist.owed)]
    /\ UNCHANGED <<driver, armed, greetTimer, talkVars, endVars, textVars, latches, outcome>>

(* SessionOpened after a reconnect: stale callee audio is dropped, the     *)
(* pacer flushed, the resume cue sent when an exchange was lost in the     *)
(* middle, and the greeting is off for good.                               *)
Reopened(resumed) ==
    /\ Receives
    /\ reopened' = TRUE /\ greeted' = TRUE
    /\ env' = [env EXCEPT !.frames = FALSE]
    /\ LET cue == ~resumed /\ resumeNeeded IN
          hist' = [hist EXCEPT !.lost = @ \/ (~resumed /\ hist.owed /\ ~cue)]
    /\ UNCHANGED <<driver, armed, greetTimer, talkVars, endVars, textVars, latches, outcome>>

(* The session closes while the resume cue is being sent. *)
ReopenedAndClosed ==
    /\ Receives /\ resumeNeeded
    /\ reopened' = TRUE
    /\ env' = [env EXCEPT !.frames = FALSE, !.session = "closed"]
    /\ driver' = "done"
    /\ outcome' = [by |-> "remote_close", goal |-> NoGoal]
    /\ Flush
    /\ UNCHANGED <<greetVars, talkVars, endVars, latches, hist>>

(* OutputAudio, Affect and Interrupted are handed on to the bridge. *)
Forwarded ==
    /\ Receives
    /\ activity' = TRUE
    /\ UNCHANGED <<driver, greetVars, callee, resumeNeeded, reopened, endVars, textVars,
                   latches, outcome, env, hist>>

Transcribed(role, blank) ==
    /\ Receives
    /\ activity' = TRUE
    /\ callee' = (callee \/ role = "user")
    /\ resumeNeeded' = (resumeNeeded \/ role = "user")
    /\ Delta(role, blank)
    /\ hist' = [hist EXCEPT !.said = IF blank THEN @ ELSE @ \cup {role},
                            !.owed = @ \/ role = "user"]
    /\ UNCHANGED <<driver, greetVars, reopened, endVars, transcript, latches, outcome, env>>

TurnComplete ==
    /\ Receives
    /\ activity' = TRUE
    /\ resumeNeeded' = FALSE
    /\ Flush
    /\ hist' = [hist EXCEPT !.owed = FALSE, !.turned = TRUE]
    /\ IF ending = NoGoal THEN UNCHANGED <<driver, outcome>>
       ELSE driver' = "done" /\ outcome' = [by |-> "model_end_call", goal |-> ending]
    /\ UNCHANGED <<greetVars, callee, reopened, endVars, latches, env>>

EndCallRestarts(g) ==                   \* mutant: a second call starts the cap over
    /\ Receives
    /\ ending' = IF ending = NoGoal THEN g ELSE ending
    /\ endTimer' = "running" /\ greeted' = TRUE
    /\ UNCHANGED <<driver, armed, greetTimer, talkVars, reopened, textVars, latches,
                   outcome, env, hist>>

EndCallMayGreet(g) ==                   \* mutant: greeted is left alone
    /\ Receives
    /\ IF ending = NoGoal THEN ending' = g /\ endTimer' = "running"
       ELSE UNCHANGED endVars
    /\ UNCHANGED <<driver, greetVars, talkVars, reopened, textVars, latches,
                   outcome, env, hist>>

(* end_call defers the end to the turn's completion; a second is a no-op.  *)
(* A call of any other tool changes nothing.                               *)
EndCall(g) ==
    /\ Receives
    /\ IF ending = NoGoal
       THEN ending' = g /\ endTimer' = "running" /\ greeted' = TRUE
       ELSE UNCHANGED <<endVars, greeted>>
    /\ UNCHANGED <<driver, armed, greetTimer, talkVars, reopened, textVars, latches,
                   outcome, env, hist>>

EndingDeadline ==
    /\ driver = "run" /\ ending # NoGoal /\ endTimer = "due"
    /\ Returns("model_end_call", ending)

SessionClosed ==
    /\ driver = "run" /\ env.session = "closed"
    /\ Returns("remote_close", NoGoal)

-----------------------------------------------------------------------------
(* What the engine sends.                                                  *)

HangupReceived ==
    /\ driver = "run" /\ env.hungUp
    /\ Returns("caller_hangup", NoGoal)

(* text_rx: a cue is passed on, whether or not the session takes it, which *)
(* changes nothing here; a closed channel is remembered.                   *)
TextClosed ==
    /\ driver = "run" /\ textOpen /\ ~env.text
    /\ textOpen' = FALSE
    /\ UNCHANGED <<driver, greetVars, talkVars, reopened, endVars, textVars, answeredClosed,
                   outcome, env, hist>>

Driver ==
    \/ Connected \/ ConnectFails \/ Unwinds
    \/ ArmGreeting \/ Greet \/ EndingDeadline
    \/ \E speech \in BOOLEAN : UplinkFrame(speech)
    \/ UplinkClosed
    \/ \E resumed \in BOOLEAN : Reopened(resumed)
    \/ ReopenedAndClosed \/ Forwarded
    \/ \E role \in Roles, blank \in BOOLEAN : Transcribed(role, blank)
    \/ TurnComplete \/ (\E g \in Goals : EndCall(g)) \/ SessionClosed
    \/ HangupReceived \/ TextClosed

-----------------------------------------------------------------------------
(* The environment of the task while it lives.                             *)

GreetElapses ==
    /\ greetTimer = "running" /\ greetTimer' = "due"
    /\ UNCHANGED <<endTimer, env>>

EndElapses ==
    /\ endTimer = "running" /\ endTimer' = "due"
    /\ UNCHANGED <<greetTimer, env>>

(* The engine publishes the answer; it drops the sender with the call.     *)
PickedUp == ~env.picked /\ env.answered /\ env' = [env EXCEPT !.picked = TRUE]
CallLeft == env.answered /\ env' = [env EXCEPT !.answered = FALSE]
HangupSent == ~env.hungUp /\ env' = [env EXCEPT !.hungUp = TRUE]
HandleDropped == env.text /\ env' = [env EXCEPT !.hungUp = TRUE, !.text = FALSE]
FrameComes == env.audio /\ ~env.frames /\ env' = [env EXCEPT !.frames = TRUE]
PhoneGone == env.audio /\ env' = [env EXCEPT !.audio = FALSE]
CrateCloses ==
    driver = "run" /\ env.session = "up" /\ env' = [env EXCEPT !.session = "closed"]

Environment ==
    /\ driver # "done"
    /\ \/ GreetElapses \/ EndElapses
       \/ /\ \/ PickedUp \/ CallLeft \/ HangupSent \/ HandleDropped
             \/ FrameComes \/ PhoneGone \/ CrateCloses
          /\ UNCHANGED <<greetTimer, endTimer>>
    /\ UNCHANGED <<driver, armed, greeted, talkVars, reopened, ending, textVars, latches,
                   outcome, hist>>

Next == Driver \/ Environment

Spec == Init /\ [][Next]_vars

(* select! polls its arms in random order: an arm that stays ready is      *)
(* taken.  Timers run out.  Nothing is said of callee, model or engine.    *)
FairSpec ==
    /\ Spec
    /\ WF_vars(Connected \/ ConnectFails)
    /\ WF_vars(ArmGreeting) /\ WF_vars(Greet)
    /\ WF_vars(EndingDeadline) /\ WF_vars(SessionClosed)
    /\ WF_vars(Environment /\ GreetElapses)
    /\ WF_vars(Environment /\ EndElapses)

-----------------------------------------------------------------------------
TypeOK ==
    /\ driver \in {"connecting", "run", "done"}
    /\ {armed, greeted, activity, callee, resumeNeeded, reopened, answeredClosed, textOpen}
          \subseteq BOOLEAN
    /\ {greetTimer, endTimer} \subseteq {"off", "running", "due"}
    /\ ending \in Goals \cup {NoGoal}
    /\ acc \in [Roles -> {"empty", "blank", "text"}] /\ transcript \subseteq Roles
    /\ outcome \in [by : {"error", "remote_close", "caller_hangup"}, goal : {NoGoal}]
                    \cup [by : {"model_end_call"}, goal : Goals]
    /\ env \in Channels /\ hist \in History

(* gemini_live.rs:279-304: the greeting goes into silence and nowhere      *)
(* else: once, after the answer, before anyone was heard, never in a       *)
(* session that was reopened and never while the model wraps up.           *)
GreetsIntoSilence ==
    [][hist.greets # hist'.greets =>
          /\ hist.greets = 0 /\ env.picked
          /\ ~activity /\ hist.said = {} /\ ~hist.voiced
          /\ ~reopened /\ ending = NoGoal]_vars

(* config.rs:201: a callee who has picked up and a model that waits for    *)
(* the first word do not wait for each other: someone is heard or the      *)
(* model is told to begin.  A session that was reopened is excepted: its   *)
(* greeting is off, also when the phone was still ringing.                 *)
SilentCalleeIsGreeted ==
    (driver = "run" /\ env.picked /\ GreetEnabled) ~>
        (\/ hist.greets > 0 \/ activity \/ callee
         \/ reopened \/ ending # NoGoal \/ driver = "done")

(* gemini_live.rs:302-308 and :452: once the model has called end_call the *)
(* task returns, also when no TurnComplete comes and the model calls again.*)
EndCallEnds == (ending # NoGoal) ~> (driver = "done")

(* gemini_live.rs:380-397: when the session comes back without its         *)
(* context, the callee's unanswered words are made up for with the resume  *)
(* cue; they go unnoticed only after a first turn, when voice activity is  *)
(* no longer reported and no transcript of them has come yet.              *)
LostOnlyAfterFirstTurn == hist.lost => hist.turned

(* gemini_live.rs:110, :488: what CallSession and the engine rely on.  The *)
(* task returns once, with the goal of the first end_call if that is why;  *)
(* and unless it unwinds, every role that said something has its words in  *)
(* the transcript by then, a turn cut short included.                      *)
WordsOwed ==
    /\ driver # "done" \/ outcome.by # "error"
    /\ (\E r \in Roles : acc[r] = "text") \/ hist.said # transcript

Contract == INSTANCE SessionDriver WITH
    Submitted <- Goals, Nothing <- NoGoal, stage <- driver, held <- ending,
    unwritten <- WordsOwed, returned <- outcome

KeepsContract == Contract!DriverSpec
=============================================================================
