------------------------- MODULE GeminiDriverProofs -------------------------
(***************************************************************************)
(* Theorems about GeminiDriver, for every set of goals, with the greeting  *)
(* enabled or not: the Gemini task keeps the contract its callers rely on, *)
(* greets into silence only, and loses an exchange only after a first turn.*)
(***************************************************************************)
EXTENDS GeminiDriver, TLAPS

Texts == {r \in Roles : acc[r] = "text"}

DriverTypes ==
    /\ driver \in {"connecting", "run", "done"}
    /\ armed \in BOOLEAN /\ greeted \in BOOLEAN /\ activity \in BOOLEAN
    /\ callee \in BOOLEAN /\ resumeNeeded \in BOOLEAN /\ reopened \in BOOLEAN
    /\ ending \in Goals \cup {NoGoal}
    /\ acc \in [Roles -> {"empty", "blank", "text"}] /\ transcript \subseteq Roles
    /\ env \in Channels /\ hist \in History

(* While the task runs nothing that was said is in neither place.          *)
WordsKept ==
    /\ driver # "done" => hist.said = transcript \cup Texts
    /\ driver = "connecting" => ending = NoGoal

(* Whatever forbids the greeting is remembered in what the guard reads.    *)
GreetingDue ==
    /\ armed => env.picked
    /\ hist.greets # 0 => greeted
    /\ hist.said # {} => activity
    /\ hist.voiced => callee
    /\ ending # NoGoal => greeted

(* Until the first completed turn, resume_needed remembers the callee.     *)
ResumeDue ==
    /\ ~hist.turned /\ (hist.owed \/ hist.voiced) => resumeNeeded
    /\ hist.lost => hist.turned

DriverInv == DriverTypes /\ WordsKept /\ GreetingDue /\ ResumeDue

-----------------------------------------------------------------------------
LEMMA HistoryFields ==
    ASSUME DriverTypes
    PROVE  /\ hist.greets \in 0..2 /\ hist.said \subseteq Roles /\ hist.voiced \in BOOLEAN
           /\ hist.owed \in BOOLEAN /\ hist.turned \in BOOLEAN /\ hist.lost \in BOOLEAN
           /\ env.picked \in BOOLEAN
           /\ hist = [greets |-> hist.greets, said |-> hist.said, voiced |-> hist.voiced,
                      owed |-> hist.owed, turned |-> hist.turned, lost |-> hist.lost]
BY DEF DriverTypes, History, Channels

(* What the step of an accumulator does to the words it holds.             *)
LEMMA DeltaTexts ==
    ASSUME DriverTypes, NEW role \in Roles, NEW blank \in BOOLEAN, Delta(role, blank)
    PROVE  /\ acc' \in [Roles -> {"empty", "blank", "text"}]
           /\ Texts' = IF blank THEN Texts ELSE Texts \cup {role}
BY DEF DriverTypes, Delta, Texts

LEMMA FlushTexts ==
    ASSUME DriverTypes, Flush
    PROVE  /\ acc' \in [Roles -> {"empty", "blank", "text"}]
           /\ transcript' = transcript \cup Texts /\ transcript' \subseteq Roles
           /\ Texts' = {}
BY DEF DriverTypes, Flush, Texts, Empty

(* The task returns. *)
LEMMA ReturnKeeps ==
    ASSUME DriverInv, driver' = "done", Flush, UNCHANGED <<greetVars, talkVars, endVars, hist>>,
           env' \in Channels, env'.picked = env.picked, reopened' \in BOOLEAN
    PROVE  DriverInv'
BY FlushTexts DEF DriverInv, DriverTypes, WordsKept, GreetingDue, ResumeDue,
                  greetVars, talkVars, endVars

(* A step that leaves the greeting, the talk and the words alone.          *)
LEMMA OtherKeeps ==
    ASSUME DriverInv, driver' = driver,
           UNCHANGED <<armed, greeted, talkVars, ending, textVars, hist>>,
           env' \in Channels, env.picked => env'.picked, reopened' \in BOOLEAN
    PROVE  DriverInv'
BY DEF DriverInv, DriverTypes, WordsKept, GreetingDue, ResumeDue, talkVars, textVars, Texts

-----------------------------------------------------------------------------
LEMMA StartKeeps ==
    ASSUME DriverInv, Connected \/ ConnectFails \/ Unwinds
    PROVE  DriverInv'
<1>1. env.picked \in BOOLEAN
    BY HistoryFields DEF DriverInv
<1>2. CASE Connected
    BY <1>1, <1>2 DEF Connected, DriverInv, DriverTypes, WordsKept, GreetingDue, ResumeDue,
                      talkVars, endVars, textVars, Texts
<1>3. CASE ConnectFails
    BY <1>3 DEF ConnectFails, DriverInv, DriverTypes, WordsKept, GreetingDue, ResumeDue,
                greetVars, talkVars, endVars, textVars
<1>4. CASE Unwinds
    BY <1>4 DEF Unwinds, DriverInv, DriverTypes, WordsKept, GreetingDue, ResumeDue,
                greetVars, talkVars, endVars, Empty
<1> QED
    BY <1>2, <1>3, <1>4

LEMMA GreetingKeeps ==
    ASSUME DriverInv, ArmGreeting \/ Greet
    PROVE  DriverInv'
<1>1. CASE ArmGreeting
    BY <1>1 DEF ArmGreeting, DriverInv, DriverTypes, WordsKept, GreetingDue, ResumeDue,
                talkVars, endVars, textVars, Texts
<1>2. CASE Greet /\ env.session = "closed"
    BY <1>2, ReturnKeeps DEF Greet, Returns, DriverInv, DriverTypes
<1>3. CASE Greet /\ env.session # "closed"
  <2>1. /\ greeted' = TRUE /\ hist' = [hist EXCEPT !.greets = Capped(@, 2)]
        /\ UNCHANGED <<driver, armed, talkVars, reopened, endVars, textVars, env>>
      BY <1>3 DEF Greet
  <2>2. Capped(hist.greets, 2) \in 0..2
      BY HistoryFields DEF Capped, DriverInv
  <2>3. /\ hist' \in History /\ hist'.said = hist.said /\ hist'.voiced = hist.voiced
        /\ hist'.owed = hist.owed /\ hist'.turned = hist.turned /\ hist'.lost = hist.lost
      BY <2>1, <2>2 DEF DriverInv, DriverTypes, History
  <2> QED
      BY <2>1, <2>3 DEF DriverInv, DriverTypes, WordsKept, GreetingDue, ResumeDue,
                        talkVars, endVars, textVars, Texts
<1> QED
    BY <1>1, <1>2, <1>3

(* The callee is heard: the first onset of speech reaches resume_needed.   *)
LEMMA UplinkKeeps ==
    ASSUME DriverInv, NEW speech \in BOOLEAN, UplinkFrame(speech)
    PROVE  DriverInv'
<1> DEFINE onset == speech /\ ~hist.voiced
<1>1. /\ driver = "run"
      /\ callee' = (callee \/ onset) /\ resumeNeeded' = (resumeNeeded \/ onset)
      /\ env' = [env EXCEPT !.frames = FALSE]
      /\ hist' = [hist EXCEPT !.voiced = @ \/ speech, !.owed = @ \/ speech]
      /\ UNCHANGED <<greetVars, activity, reopened, endVars>>
    BY DEF UplinkFrame
<1>2. /\ hist' \in History
      /\ hist'.greets = hist.greets /\ hist'.said = hist.said
      /\ hist'.turned = hist.turned /\ hist'.lost = hist.lost
      /\ hist'.voiced = (hist.voiced \/ speech) /\ hist'.owed = (hist.owed \/ speech)
    BY <1>1 DEF DriverInv, DriverTypes, History
<1>3. env' \in Channels /\ env'.picked = env.picked
    BY <1>1 DEF DriverInv, DriverTypes, Channels
<1>4. hist.voiced \in BOOLEAN /\ hist.owed \in BOOLEAN
    BY HistoryFields DEF DriverInv
<1>5. /\ callee' \in BOOLEAN /\ resumeNeeded' \in BOOLEAN
      /\ GreetingDue' /\ ResumeDue'
    BY <1>1, <1>2, <1>3, <1>4
       DEF DriverInv, DriverTypes, GreetingDue, ResumeDue, greetVars, endVars
<1>6. CASE driver' = "done" /\ Flush
    BY <1>1, <1>2, <1>3, <1>5, <1>6, FlushTexts
       DEF DriverInv, DriverTypes, WordsKept, greetVars, endVars
<1>7. CASE UNCHANGED <<driver, outcome, textVars>>
    BY <1>1, <1>2, <1>3, <1>5, <1>7
       DEF DriverInv, DriverTypes, WordsKept, greetVars, endVars, textVars, Texts
<1> QED
    BY <1>6, <1>7 DEF UplinkFrame

LEMMA ReopenedKeeps ==
    ASSUME DriverInv, NEW resumed \in BOOLEAN, Reopened(resumed)
    PROVE  DriverInv'
<1> DEFINE cue == ~resumed /\ resumeNeeded
<1>1. /\ driver = "run" /\ reopened' = TRUE /\ greeted' = TRUE
      /\ env' = [env EXCEPT !.frames = FALSE]
      /\ hist' = [hist EXCEPT !.lost = @ \/ (~resumed /\ hist.owed /\ ~cue)]
      /\ UNCHANGED <<driver, armed, talkVars, endVars, textVars>>
    BY DEF Reopened, Receives
<1>2. /\ hist' \in History
      /\ hist'.greets = hist.greets /\ hist'.said = hist.said
      /\ hist'.turned = hist.turned /\ hist'.voiced = hist.voiced /\ hist'.owed = hist.owed
      /\ hist'.lost = (hist.lost \/ (~resumed /\ hist.owed /\ ~cue))
    BY <1>1 DEF DriverInv, DriverTypes, History
<1>3. env' \in Channels /\ env'.picked = env.picked
    BY <1>1 DEF DriverInv, DriverTypes, Channels
<1>4. hist.turned \in BOOLEAN
    BY HistoryFields DEF DriverInv
<1> QED
    BY <1>1, <1>2, <1>3, <1>4
       DEF DriverInv, DriverTypes, WordsKept, GreetingDue, ResumeDue, talkVars, endVars,
           textVars, Texts

LEMMA SessionKeeps ==
    ASSUME DriverInv,
           \/ ReopenedAndClosed \/ Forwarded \/ TurnComplete \/ SessionClosed
           \/ \E role \in Roles, blank \in BOOLEAN : Transcribed(role, blank)
           \/ \E g \in Goals : EndCall(g)
    PROVE  DriverInv'
<1>1. CASE ReopenedAndClosed
  <2>1. env' \in Channels /\ env'.picked = env.picked
      BY <1>1 DEF ReopenedAndClosed, DriverInv, DriverTypes, Channels
  <2> QED
      BY <1>1, <2>1, ReturnKeeps DEF ReopenedAndClosed
<1>2. CASE SessionClosed
    BY <1>2, ReturnKeeps DEF SessionClosed, Returns, DriverInv, DriverTypes
<1>3. CASE Forwarded
    BY <1>3 DEF Forwarded, DriverInv, DriverTypes, WordsKept, GreetingDue, ResumeDue,
                greetVars, endVars, textVars, Texts
<1>4. ASSUME NEW role \in Roles, NEW blank \in BOOLEAN, Transcribed(role, blank)
      PROVE  DriverInv'
  <2>1. /\ activity' = TRUE /\ callee' = (callee \/ role = "user")
        /\ resumeNeeded' = (resumeNeeded \/ role = "user")
        /\ UNCHANGED <<driver, greetVars, reopened, endVars, transcript, env>>
        /\ driver = "run"
      BY <1>4 DEF Transcribed, Receives
  <2>2. /\ hist' \in History
        /\ hist'.said = (IF blank THEN hist.said ELSE hist.said \cup {role})
        /\ hist'.owed = (hist.owed \/ role = "user")
        /\ hist'.greets = hist.greets /\ hist'.voiced = hist.voiced
        /\ hist'.turned = hist.turned /\ hist'.lost = hist.lost
      BY <1>4 DEF Transcribed, DriverInv, DriverTypes, History
  <2>3. /\ acc' \in [Roles -> {"empty", "blank", "text"}]
        /\ Texts' = IF blank THEN Texts ELSE Texts \cup {role}
      BY <1>4, DeltaTexts DEF Transcribed, DriverInv
  <2>4. WordsKept'
      BY <2>1, <2>2, <2>3 DEF DriverInv, WordsKept
  <2> QED
      BY <2>1, <2>2, <2>3, <2>4 DEF DriverInv, DriverTypes, GreetingDue, ResumeDue,
                                    greetVars, endVars
<1>5. CASE TurnComplete
  <2>1. /\ hist' \in History /\ hist'.said = hist.said /\ hist'.greets = hist.greets
        /\ hist'.voiced = hist.voiced /\ hist'.turned = TRUE /\ hist'.owed = FALSE
        /\ hist'.lost = hist.lost
      BY <1>5 DEF TurnComplete, DriverInv, DriverTypes, History
  <2>2. driver' \in {"run", "done"} /\ driver = "run"
      BY <1>5 DEF TurnComplete, Receives
  <2>3. acc' \in [Roles -> {"empty", "blank", "text"}] /\ Texts' = {}
        /\ transcript' = transcript \cup Texts /\ transcript' \subseteq Roles
      BY <1>5, FlushTexts DEF TurnComplete, DriverInv
  <2> QED
      BY <1>5, <2>1, <2>2, <2>3 DEF TurnComplete, DriverInv, DriverTypes, WordsKept,
                                    GreetingDue, ResumeDue, greetVars, endVars
<1>6. ASSUME NEW g \in Goals, EndCall(g) PROVE DriverInv'
    BY <1>6 DEF EndCall, Receives, DriverInv, DriverTypes, WordsKept, GreetingDue,
                ResumeDue, talkVars, textVars, endVars, Texts
<1> QED
    BY <1>1, <1>2, <1>3, <1>4, <1>5, <1>6

LEMMA EnvironmentKeeps ==
    ASSUME DriverInv, Environment
    PROVE  DriverInv'
<1>1. env' \in Channels /\ (env.picked => env'.picked)
    BY DEF DriverInv, DriverTypes, Channels, Environment, GreetElapses, EndElapses,
           PickedUp, CallLeft, HangupSent, HandleDropped, FrameComes, PhoneGone, CrateCloses
<1> QED
    BY <1>1, OtherKeeps DEF Environment, DriverInv, DriverTypes

LEMMA NextKeepsDriverInv == DriverInv /\ [Next]_vars => DriverInv'
<1> SUFFICES ASSUME DriverInv, [Next]_vars PROVE DriverInv'
    OBVIOUS
<1>1. CASE EndingDeadline \/ UplinkClosed \/ HangupReceived
    BY <1>1, ReturnKeeps DEF EndingDeadline, UplinkClosed, HangupReceived, Returns,
                             DriverInv, DriverTypes
<1>2. CASE TextClosed
    BY <1>2, OtherKeeps DEF TextClosed, greetVars, endVars, DriverInv, DriverTypes
<1>3. CASE UNCHANGED vars
    BY <1>3, OtherKeeps DEF vars, greetVars, endVars, DriverInv, DriverTypes
<1> QED
    BY <1>1, <1>2, <1>3, StartKeeps, GreetingKeeps, UplinkKeeps, ReopenedKeeps,
       SessionKeeps, EnvironmentKeeps DEF Next, Driver

LEMMA InitDriverInv == Init => DriverInv
<1> SUFFICES ASSUME Init PROVE DriverInv
    OBVIOUS
<1>1. env \in Channels /\ hist \in History
    BY DEF Init, Channels, History
<1>2. acc \in [Roles -> {"empty", "blank", "text"}] /\ Texts = {}
    BY DEF Init, Empty, Texts
<1>3. greeted \in BOOLEAN
    BY DriverAssumption DEF Init
<1>4. DriverTypes
    BY <1>1, <1>2, <1>3 DEF Init, DriverTypes
<1> QED
    BY <1>2, <1>4 DEF Init, DriverInv, WordsKept, GreetingDue, ResumeDue

-----------------------------------------------------------------------------
(* A session that comes back without its context finds the callee's words  *)
(* forgotten only after a first completed turn: until then resume_needed   *)
(* stands for every word and every onset of speech.                        *)
THEOREM FirstTurnIsNeverLost == Spec => []LostOnlyAfterFirstTurn
<1>1. DriverInv => LostOnlyAfterFirstTurn
    BY DEF DriverInv, ResumeDue, LostOnlyAfterFirstTurn
<1> QED
    BY <1>1, InitDriverInv, NextKeepsDriverInv, PTL DEF Spec

(* Only Greet counts a greeting. *)
LEMMA GreetingIntoSilence ==
    ASSUME DriverInv, [Next]_vars, hist.greets # hist'.greets
    PROVE  /\ hist.greets = 0 /\ env.picked
           /\ ~activity /\ hist.said = {} /\ ~hist.voiced
           /\ ~reopened /\ ending = NoGoal
<1>1. DriverTypes
    BY DEF DriverInv
<1>2. Greet
  <2>1. ASSUME NEW speech \in BOOLEAN, UplinkFrame(speech) PROVE FALSE
      BY <1>1, <2>1 DEF UplinkFrame, DriverTypes, History
  <2>2. ASSUME NEW resumed \in BOOLEAN, Reopened(resumed) PROVE FALSE
      BY <1>1, <2>2 DEF Reopened, DriverTypes, History
  <2>3. ASSUME NEW role \in Roles, NEW blank \in BOOLEAN, Transcribed(role, blank) PROVE FALSE
      BY <1>1, <2>3 DEF Transcribed, DriverTypes, History
  <2>4. CASE TurnComplete
      BY <1>1, <2>4 DEF TurnComplete, DriverTypes, History
  <2> QED
      BY <2>1, <2>2, <2>3, <2>4
         DEF Next, Driver, vars, Connected, ConnectFails, Unwinds, ArmGreeting, Greet,
             EndingDeadline, UplinkClosed, ReopenedAndClosed, Forwarded, EndCall,
             SessionClosed, HangupReceived, TextClosed, Returns, Environment
<1> QED
    BY <1>2 DEF Greet, DriverInv, GreetingDue

(* The greeting goes into silence and nowhere else: once, after the        *)
(* answer, before anyone was heard, never into a session that was reopened *)
(* and never while the model wraps up.                                     *)
THEOREM GreetingsGoIntoSilence == Spec => GreetsIntoSilence
<1> DEFINE Silent ==
        hist.greets # hist'.greets =>
          /\ hist.greets = 0 /\ env.picked
          /\ ~activity /\ hist.said = {} /\ ~hist.voiced
          /\ ~reopened /\ ending = NoGoal
<1>1. DriverInv /\ [Next]_vars => [Silent]_vars
    BY GreetingIntoSilence
<1> QED
    BY <1>1, InitDriverInv, NextKeepsDriverInv, PTL DEF Spec, GreetsIntoSilence

-----------------------------------------------------------------------------
(* The task implements SessionDriver.                                      *)
ContractStep == Contract!DriverNext \/ UNCHANGED Contract!dvars

LEMMA WordsOwedIs ==
    ASSUME DriverInv, driver # "done"
    PROVE  WordsOwed <=> Texts # {}
BY DEF DriverInv, WordsKept, WordsOwed, Texts, DriverTypes

LEMMA ReturnImplements ==
    ASSUME DriverInv, driver = "run", driver' = "done", Flush,
           NEW by, NEW g, outcome' = [by |-> by, goal |-> g],
           \/ by \in {"caller_hangup", "remote_close"} /\ g = NoGoal
           \/ by = "model_end_call" /\ g = ending /\ ending # NoGoal,
           UNCHANGED <<ending, hist>>
    PROVE  ContractStep
<1>1. WordsOwed' = FALSE
  <2>1. transcript' = transcript \cup Texts /\ Texts' = {}
      BY FlushTexts DEF DriverInv
  <2>2. hist'.said = transcript'
      BY <2>1 DEF DriverInv, WordsKept
  <2> QED
      BY <2>1, <2>2 DEF WordsOwed, Texts
<1>2. Contract!ReturnsWith(by, g)
    BY <1>1 DEF Contract!ReturnsWith
<1> QED
    BY <1>2 DEF ContractStep, Contract!DriverNext, Contract!Leaves, Contract!Concludes

LEMMA FailImplements ==
    ASSUME DriverInv, driver # "done", driver' = "done", outcome' = NoOutcome,
           UNCHANGED ending
    PROVE  ContractStep
<1>1. WordsOwed' = FALSE
    BY DEF WordsOwed, NoOutcome
<1> QED
    BY <1>1 DEF ContractStep, Contract!DriverNext, Contract!Fails, Contract!ReturnsWith,
                NoOutcome

LEMMA StutterImplements ==
    ASSUME UNCHANGED <<driver, ending, outcome, textVars>>, hist'.said = hist.said
    PROVE  ContractStep
BY DEF ContractStep, Contract!dvars, WordsOwed, textVars

LEMMA NextImplements == DriverInv /\ DriverInv' /\ [Next]_vars => ContractStep
<1> SUFFICES ASSUME DriverInv, DriverInv', [Next]_vars PROVE ContractStep
    OBVIOUS
<1> USE DEF greetVars, talkVars, endVars, latches
<1>1. DriverTypes
    BY DEF DriverInv
<1>2. CASE Connected
  <2>1. WordsOwed' = WordsOwed
      BY <1>2 DEF Connected, WordsOwed, textVars
  <2> QED
      BY <1>2, <2>1 DEF Connected, ContractStep, Contract!DriverNext, Contract!Connects
<1>3. CASE ConnectFails \/ Unwinds
    BY <1>3, FailImplements DEF ConnectFails, Unwinds
<1>4. CASE EndingDeadline \/ UplinkClosed \/ HangupReceived \/ SessionClosed
           \/ (Greet /\ env.session = "closed")
    BY <1>4, ReturnImplements
       DEF EndingDeadline, UplinkClosed, HangupReceived, SessionClosed, Greet, Returns
<1>5. CASE ReopenedAndClosed
    BY <1>5, ReturnImplements DEF ReopenedAndClosed, Receives
<1>6. CASE Greet /\ env.session # "closed"
  <2>1. hist'.said = hist.said
      BY <1>1, <1>6 DEF Greet, DriverTypes, History
  <2> QED
      BY <1>6, <2>1, StutterImplements DEF Greet
<1>7. ASSUME NEW speech \in BOOLEAN, UplinkFrame(speech) PROVE ContractStep
  <2>1. hist'.said = hist.said
      BY <1>1, <1>7 DEF UplinkFrame, DriverTypes, History
  <2>2. CASE env.session = "closed"
    <3>1. WordsOwed' = FALSE
      <4>1. transcript' = transcript \cup Texts /\ Texts' = {}
          BY <1>1, <1>7, <2>2, FlushTexts DEF UplinkFrame
      <4> QED
          BY <1>7, <2>1, <4>1 DEF UplinkFrame, DriverInv, WordsKept, WordsOwed, Texts
    <3> QED
        BY <1>7, <2>2, <3>1 DEF UplinkFrame, ContractStep, Contract!DriverNext,
                                Contract!Leaves, Contract!ReturnsWith
  <2>3. CASE env.session # "closed"
      BY <1>7, <2>1, <2>3, StutterImplements DEF UplinkFrame
  <2> QED
      BY <2>2, <2>3
<1>8. ASSUME NEW resumed \in BOOLEAN, Reopened(resumed) PROVE ContractStep
  <2>1. hist'.said = hist.said
      BY <1>1, <1>8 DEF Reopened, DriverTypes, History
  <2> QED
      BY <1>8, <2>1, StutterImplements DEF Reopened
<1>9. ASSUME NEW role \in Roles, NEW blank \in BOOLEAN, Transcribed(role, blank)
      PROVE  ContractStep
  <2>1. Texts' = IF blank THEN Texts ELSE Texts \cup {role}
      BY <1>1, <1>9, DeltaTexts DEF Transcribed
  <2>2. driver = "run" /\ UNCHANGED <<driver, ending, outcome>>
      BY <1>9 DEF Transcribed, Receives
  <2>3. WordsOwed' <=> Texts' # {}
    <3>1. hist'.said = transcript' \cup Texts'
        BY <2>2 DEF DriverInv, WordsKept
    <3> QED
        BY <2>2, <3>1 DEF WordsOwed, Texts, DriverInv, DriverTypes
  <2>4. CASE blank
    <3>1. WordsOwed' = WordsOwed
        BY <2>1, <2>2, <2>3, <2>4, WordsOwedIs DEF WordsOwed
    <3> QED
        BY <2>2, <3>1 DEF ContractStep, Contract!dvars
  <2>5. CASE ~blank
    <3>1. WordsOwed' = TRUE
        BY <2>1, <2>3, <2>5 DEF WordsOwed
    <3> QED
        BY <2>2, <3>1 DEF ContractStep, Contract!DriverNext, Contract!Says
  <2> QED
      BY <2>4, <2>5
<1>10. CASE TurnComplete
  <2>1. /\ driver = "run" /\ Flush /\ ending' = ending /\ hist'.said = hist.said
      BY <1>1, <1>10 DEF TurnComplete, Receives, DriverTypes, History
  <2>2. WordsOwed' = FALSE
    <3>1. transcript' = transcript \cup Texts /\ Texts' = {}
        BY <1>1, <2>1, FlushTexts
    <3> QED
        BY <2>1, <3>1 DEF DriverInv, WordsKept, WordsOwed, Texts
  <2>3. CASE ending = NoGoal
      BY <1>10, <2>1, <2>2, <2>3
         DEF TurnComplete, ContractStep, Contract!DriverNext, Contract!Writes
  <2>4. CASE ending # NoGoal
      BY <1>10, <2>1, <2>2, <2>4
         DEF TurnComplete, ContractStep, Contract!DriverNext, Contract!Concludes,
             Contract!ReturnsWith
  <2> QED
      BY <2>3, <2>4
<1>11. ASSUME NEW g \in Goals, EndCall(g) PROVE ContractStep
  <2>1. WordsOwed' = WordsOwed /\ driver = "run"
      BY <1>11 DEF EndCall, Receives, WordsOwed, textVars
  <2>2. CASE ending = NoGoal
      BY <1>11, <2>1, <2>2
         DEF EndCall, ContractStep, Contract!DriverNext, Contract!Submits
  <2>3. CASE ending # NoGoal
      BY <1>11, <2>3, StutterImplements DEF EndCall
  <2> QED
      BY <2>2, <2>3
<1>12. CASE ArmGreeting \/ Forwarded \/ TextClosed \/ Environment \/ UNCHANGED vars
    BY <1>12, StutterImplements DEF ArmGreeting, Forwarded, TextClosed, Environment, vars
<1> QED
    BY <1>2, <1>3, <1>4, <1>5, <1>6, <1>7, <1>8, <1>9, <1>10, <1>11, <1>12
       DEF Next, Driver

LEMMA InitImplements == Init => Contract!DriverInit
BY DEF Init, Contract!DriverInit, WordsOwed, Contract!Pending, NoOutcome, Empty, Roles

(* The task returns once, what was said is in the transcript by then, and  *)
(* it has a goal, the first one submitted, exactly when it returns because *)
(* of the model's end_call: the contract CallSession builds on.            *)
THEOREM DriverKeepsContract == Spec => KeepsContract
<1>1. DriverInv /\ DriverInv' /\ [Next]_vars => [Contract!DriverNext]_(Contract!dvars)
    BY NextImplements DEF ContractStep
<1> QED
    BY <1>1, InitDriverInv, NextKeepsDriverInv, InitImplements, PTL
       DEF Spec, KeepsContract, Contract!DriverSpec
=============================================================================
