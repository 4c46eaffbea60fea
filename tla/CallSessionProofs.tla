-------------------------- MODULE CallSessionProofs -------------------------
(***************************************************************************)
(* Theorems about CallSession, for all goals, lengths of a call, numbers   *)
(* of events and either setting of the grace and the nudge: however the    *)
(* ends of an answered call race, the goal the driver returned with is in  *)
(* the record, a hangup after a conversation is harvested, and a harvested *)
(* call is a success or what the model called it.                          *)
(***************************************************************************)
EXTENDS CallSession, SequenceTheorems, TLAPS

(* The model has said something; what was said is written on return.       *)
Said == unflushed \/ outcome.lines > 0

(* What an event on its way to the engine may claim.                       *)
Told ==
    {e \in Event : /\ e[1] = "end_call" => e[2] = ending
                   /\ e[1] = "text" => Said}

SessionTypes ==
    /\ driver \in {"connecting", "run", "done"}
    /\ {ending, goal} \subseteq Goals \cup {NoGoal}
    /\ outcome \in Outcome
    /\ bridge \in {"run", "phone_closed", "gemini_closed", "cancelled"}
    /\ {unflushed, talked, harvesting, forwarding, media, stop} \subseteq BOOLEAN

(* The engine knows nothing that the driver did not say.                   *)
GoalHeld ==
    /\ events \in Seq(Told) /\ reports \in Seq(Told)
    /\ talked => Said
    /\ goal # NoGoal => goal = ending
    /\ outcome.goal # NoGoal => outcome.goal = ending
    /\ outcome.endedBy = "model_end_call" => driver = "done" /\ outcome.goal = ending
    /\ driver = "done" => ~unflushed

(* A bridge that gave up on the phone while the engine still loops did so  *)
(* when the engine had taken the hangup and was harvesting.                *)
HangupSeen ==
    /\ ~media => leg = "over"
    /\ forwarding /\ driver # "done" => ~media
    /\ eng = "loop" => ~stop /\ (term = "taken" => harvesting)
    /\ bridge = "cancelled" => stop
    /\ bridge = "phone_closed" /\ HarvestGrace /\ eng = "loop" => harvesting
    /\ harvesting => talked

EndMeans ==
    /\ eng = "loop" => loopEnd = None
    /\ loopEnd = "hung_up" => ~HarvestEligible

RecordMeans ==
    eng = "done" =>
        /\ driver = "done" /\ record.goal = FinalGoal
        /\ harvesting /\ loopEnd # "cancelled" =>
              record.disposition \in {"completed", record.goal}

SessionInv == SessionTypes /\ GoalHeld /\ HangupSeen /\ EndMeans /\ RecordMeans

-----------------------------------------------------------------------------
LEMMA NoGoalIsNone == NoGoal \notin Goals
BY SessionAssumption DEF NoGoal, AmdVerdicts, None

LEMMA InitSessionInv == Init => SessionInv
<1> SUFFICES ASSUME Init PROVE SessionInv
    OBVIOUS
<1>0. PICK by \in {"error", "remote_close"} :
          outcome = [endedBy |-> by, goal |-> NoGoal, lines |-> 0]
    BY DEF Init
<1>1. SessionTypes
    BY <1>0 DEF Init, SessionTypes, Outcome, EndedBy
<1>2. <<>> \in Seq(Told)
    BY EmptySeq
<1> QED
    BY <1>0, <1>1, <1>2 DEF Init, SessionInv, GoalHeld, HangupSeen, EndMeans, RecordMeans, None

(* What may be claimed stays claimable: the first goal is the only one,    *)
(* and what was said stays said.                                           *)
LEMMA ToldGrows ==
    ASSUME SessionTypes, Said => Said', ending' = ending \/ ending = NoGoal
    PROVE  Told \subseteq Told'
<1> SUFFICES ASSUME NEW e \in Told PROVE e \in Told'
    OBVIOUS
<1>1. e \in Event /\ (e[1] = "end_call" => e[2] \in Goals)
    BY DEF Told, Event
<1> QED
    BY <1>1, NoGoalIsNone DEF Told

LEMMA MayBeTold ==
    /\ \A kind \in {"audio", "interrupted", "turn"} : Plain(kind) \in Told'
    /\ Said' => Plain("text") \in Told'
    /\ ending' \in Goals => EndCall(ending') \in Told'
<1>1. \A e : e \in Told' <=> /\ e \in Event
                             /\ e[1] = "end_call" => e[2] = ending'
                             /\ e[1] = "text" => Said'
    BY DEF Told
<1> HIDE DEF Told
<1>2. /\ \A kind \in {"audio", "interrupted", "turn"} :
            /\ Plain(kind) \in Event /\ Plain(kind)[1] = kind
      /\ Plain("text") \in Event /\ Plain("text")[1] = "text"
    BY DEF Plain, Event
<1>3. \A g \in Goals : EndCall(g) \in Event /\ EndCall(g)[1] = "end_call" /\ EndCall(g)[2] = g
    BY DEF EndCall, Event
<1> QED
    BY <1>1, <1>2, <1>3

(* Every exit of the driver writes what it holds and names a goal only     *)
(* when it is the deferred one.                                            *)
LEMMA ReturnsMeans ==
    ASSUME SessionTypes, NEW by \in EndedBy, NEW g \in Goals \cup {NoGoal}, Returns(by, g)
    PROVE  /\ driver' = "done" /\ unflushed' = FALSE /\ outcome' \in Outcome
           /\ outcome'.endedBy = by /\ outcome'.goal = g
           /\ Said => Said'
BY DEF SessionTypes, Outcome, Returns, Said

(* What a step of the driver means to the others.                          *)
DriverGoesOn ==
    /\ driver # "done" /\ driver' \in {"connecting", "run", "done"}
    /\ outcome' \in Outcome /\ unflushed' \in BOOLEAN
    /\ ending' \in Goals \cup {NoGoal}
    /\ ending' = ending \/ (ending = NoGoal /\ driver' # "done")
    /\ Said => Said'
    /\ driver' = "done" =>
          /\ ~unflushed'
          /\ outcome'.goal # NoGoal \/ outcome'.endedBy = "model_end_call" =>
                outcome'.goal = ending
    /\ driver' # "done" => outcome'.goal = outcome.goal /\ outcome'.endedBy = outcome.endedBy

LEMMA DriverSteps ==
    ASSUME SessionTypes, GoalHeld, Driver
    PROVE  DriverGoesOn /\ events' \in Seq(Told')
<1>1. EndedBy = {"model_end_call", "caller_hangup", "remote_close", "error"}
    BY DEF EndedBy
<1>2. ASSUME DriverGoesOn PROVE events \in Seq(Told')
    BY <1>2, ToldGrows, SeqMonotonic DEF DriverGoesOn, GoalHeld
<1>3. CASE Connected /\ UNCHANGED events
  <2>1. DriverGoesOn
      BY <1>3 DEF Connected, SessionTypes, Said, DriverGoesOn
  <2> QED
      BY <1>2, <1>3, <2>1
<1>4. CASE ConnectFails
  <2>1. DriverGoesOn
      BY <1>1, <1>4, ReturnsMeans DEF ConnectFails, SessionTypes, DriverGoesOn
  <2> QED
      BY <1>2, <1>4, <2>1 DEF ConnectFails
<1>5. CASE ModelAudio
  <2>1. DriverGoesOn
      BY <1>5 DEF ModelAudio, Produces, SessionTypes, Said, DriverGoesOn
  <2> QED
      BY <1>2, <1>5, <2>1, MayBeTold, AppendProperties DEF ModelAudio
<1>6. CASE ModelText
  <2>1. DriverGoesOn /\ Said'
      BY <1>6 DEF ModelText, Produces, SessionTypes, Said, DriverGoesOn
  <2> QED
      BY <1>2, <1>6, <2>1, MayBeTold, AppendProperties DEF ModelText
<1>7. CASE ModelInterrupted
  <2>1. DriverGoesOn
      BY <1>7 DEF ModelInterrupted, Produces, SessionTypes, Said, DriverGoesOn
  <2> QED
      BY <1>2, <1>7, <2>1, MayBeTold, AppendProperties DEF ModelInterrupted
<1>8. CASE TurnComplete /\ ending = NoGoal
  <2>0. /\ outcome' \in Outcome /\ unflushed' = FALSE
        /\ Said => Said'
        /\ outcome'.goal = outcome.goal /\ outcome'.endedBy = outcome.endedBy
      BY <1>8 DEF TurnComplete, SessionTypes, Outcome, Said
  <2>1. driver = "run" /\ driver' = driver /\ ending' = ending
      BY <1>8 DEF TurnComplete, Produces
  <2>2. DriverGoesOn
      BY <2>0, <2>1 DEF SessionTypes, DriverGoesOn
  <2> QED
      BY <1>2, <1>8, <2>2, MayBeTold, AppendProperties DEF TurnComplete
<1>9. CASE TurnComplete /\ ending # NoGoal
  <2>1. DriverGoesOn
      BY <1>1, <1>9, ReturnsMeans DEF TurnComplete, Produces, SessionTypes, DriverGoesOn
  <2>2. Plain("turn") \in Told' /\ EndCall(ending) \in Told'
      BY <1>9, MayBeTold DEF TurnComplete, SessionTypes
  <2>3. <<Plain("turn"), EndCall(ending)>> \in Seq(Told')
      BY <2>2
  <2> QED
      BY <1>2, <1>9, <2>1, <2>3, ConcatProperties DEF TurnComplete
<1>10. CASE \E g \in Goals : ModelEndCall(g)
  <2>1. DriverGoesOn
      BY <1>10 DEF ModelEndCall, SessionTypes, Said, DriverGoesOn
  <2> QED
      BY <1>2, <1>10, <2>1 DEF ModelEndCall
<1>11. CASE EndingDeadline
  <2>1. DriverGoesOn
      BY <1>1, <1>11, ReturnsMeans DEF EndingDeadline, SessionTypes, DriverGoesOn
  <2>2. EndCall(ending) \in Told'
      BY <1>11, MayBeTold DEF EndingDeadline, SessionTypes
  <2> QED
      BY <1>2, <1>11, <2>1, <2>2, AppendProperties DEF EndingDeadline
<1>12. CASE RemoteClose
  <2>1. /\ driver' = "done" /\ unflushed' = FALSE /\ outcome' \in Outcome
        /\ outcome'.endedBy = "remote_close" /\ outcome'.goal = NoGoal
        /\ Said => Said'
      BY <1>1, <1>12, ReturnsMeans DEF RemoteClose
  <2>2. DriverGoesOn
      BY <1>12, <2>1 DEF RemoteClose, SessionTypes, DriverGoesOn
  <2> QED
      BY <1>2, <1>12, <2>2 DEF RemoteClose
<1>13. CASE CallerGone
  <2>1. /\ driver' = "done" /\ unflushed' = FALSE /\ outcome' \in Outcome
        /\ outcome'.endedBy = "caller_hangup" /\ outcome'.goal = NoGoal
        /\ Said => Said'
      BY <1>1, <1>13, ReturnsMeans DEF CallerGone
  <2>2. DriverGoesOn
      BY <1>13, <2>1 DEF CallerGone, SessionTypes, DriverGoesOn
  <2> QED
      BY <1>2, <1>13, <2>2 DEF CallerGone
<1> QED
    BY <1>3, <1>4, <1>5, <1>6, <1>7, <1>8, <1>9, <1>10, <1>11, <1>12, <1>13 DEF Driver

LEMMA DriverKeepsSession ==
    ASSUME SessionInv, Driver
    PROVE  SessionInv'
<1> USE DEF bridgeVars, wrapVars, loopVars, legVars, signals
<1>1. /\ DriverGoesOn /\ events' \in Seq(Told')
      /\ SessionTypes /\ GoalHeld /\ HangupSeen /\ EndMeans /\ RecordMeans
    BY DriverSteps DEF SessionInv
<1>2. UNCHANGED <<bridgeVars, reports, wrapVars, loopVars, legVars, signals, record>>
    BY DEF Driver
<1>3. SessionTypes'
    BY <1>1, <1>2 DEF DriverGoesOn, SessionTypes
<1>4. GoalHeld'
  <2>1. reports' \in Seq(Told')
      BY <1>1, <1>2, ToldGrows, SeqMonotonic DEF DriverGoesOn, GoalHeld
  <2>2. goal' # NoGoal => goal' = ending'
      BY <1>1, <1>2 DEF DriverGoesOn, GoalHeld
  <2>3. outcome'.goal # NoGoal => outcome'.goal = ending'
      BY <1>1, <1>2 DEF DriverGoesOn, GoalHeld
  <2>4. outcome'.endedBy = "model_end_call" => driver' = "done" /\ outcome'.goal = ending'
      BY <1>1, <1>2 DEF DriverGoesOn, GoalHeld
  <2> QED
      BY <1>1, <1>2, <2>1, <2>2, <2>3, <2>4 DEF DriverGoesOn, GoalHeld
<1>5. HangupSeen'
    BY <1>1, <1>2 DEF DriverGoesOn, HangupSeen
<1>6. EndMeans' /\ RecordMeans'
    BY <1>1, <1>2 DEF DriverGoesOn, EndMeans, RecordMeans, HarvestEligible
<1> QED
    BY <1>3, <1>4, <1>5, <1>6 DEF SessionInv

(* What a step of the bridge means to the others.                          *)
LEMMA BridgeSteps ==
    ASSUME SessionInv, Bridge
    PROVE  /\ events' \in Seq(Told) /\ reports' \in Seq(Told)
           /\ forwarding' \in BOOLEAN
           /\ bridge' \in {"run", "phone_closed", "gemini_closed", "cancelled"}
           /\ forwarding' /\ driver # "done" => ~media
           /\ bridge' = "cancelled" => stop
           /\ bridge' = "phone_closed" /\ HarvestGrace /\ eng = "loop" => harvesting
<1>1. SessionTypes /\ GoalHeld /\ HangupSeen
    BY DEF SessionInv
<1>2. events # <<>> => Tail(events) \in Seq(Told) /\ Head(events) \in Told
    BY <1>1, HeadTailProperties DEF GoalHeld
<1>3. Plain("turn") \in Told
    BY DEF Plain, Told, Event
<1>4. CASE UplinkEnds
    BY <1>1, <1>4 DEF UplinkEnds, PhoneGone, SessionTypes, GoalHeld, HangupSeen
<1>5. CASE GraceElapses
    BY <1>1, <1>5 DEF GraceElapses, Stops, SessionTypes, GoalHeld, HangupSeen
<1>6. CASE Cancelled
    BY <1>1, <1>6 DEF Cancelled, Stops, SessionTypes, GoalHeld, HangupSeen
<1>7. CASE GeminiClosed
    BY <1>1, <1>7 DEF GeminiClosed, Stops, SessionTypes, GoalHeld, HangupSeen
<1>8. CASE TakeAudio
    BY <1>1, <1>2, <1>8 DEF TakeAudio, Takes, SessionTypes, GoalHeld, HangupSeen
<1>9. CASE TakeInterrupted
    BY <1>1, <1>2, <1>9 DEF TakeInterrupted, Takes, SessionTypes, GoalHeld, HangupSeen
<1>10. CASE TakeTurn
  <2>1. reports' \in Seq(Told)
      BY <1>1, <1>3, <1>10, AppendProperties DEF TakeTurn, GoalHeld
  <2> QED
      BY <1>1, <1>2, <1>10, <2>1 DEF TakeTurn, Takes, SessionTypes, HangupSeen
<1>11. CASE TakeOther
  <2>1. reports' \in Seq(Told)
      BY <1>1, <1>2, <1>11, AppendProperties DEF TakeOther, Takes, GoalHeld
  <2> QED
      BY <1>1, <1>2, <1>11, <2>1 DEF TakeOther, Takes, SessionTypes, HangupSeen
<1>12. CASE PacerTick
    BY <1>1, <1>12 DEF PacerTick, PhoneGone, SessionTypes, GoalHeld, HangupSeen
<1> QED
    BY <1>4, <1>5, <1>6, <1>7, <1>8, <1>9, <1>10, <1>11, <1>12 DEF Bridge

LEMMA BridgeKeepsSession ==
    ASSUME SessionInv, Bridge
    PROVE  SessionInv'
<1> USE DEF driverVars, wrapVars, loopVars, legVars, signals
<1>1. UNCHANGED <<driverVars, wrapVars, loopVars, legVars, signals, record>>
    BY DEF Bridge
<1>2. SessionTypes'
    BY <1>1, BridgeSteps DEF SessionInv, SessionTypes
<1>3. Told' = Told
    BY <1>1 DEF Told, Said
<1>4. GoalHeld'
    BY <1>1, <1>3, BridgeSteps DEF SessionInv, GoalHeld, Said
<1>5. HangupSeen'
    BY <1>1, BridgeSteps DEF SessionInv, HangupSeen
<1>6. EndMeans' /\ RecordMeans'
    BY <1>1 DEF SessionInv, EndMeans, RecordMeans, HarvestEligible, FinalGoal
<1> QED
    BY <1>2, <1>4, <1>5, <1>6 DEF SessionInv

LEMMA OutsideKeepsSession ==
    ASSUME SessionInv, Outside
    PROVE  SessionInv'
<1> USE DEF driverVars, bridgeVars, wrapVars, loopVars, legVars
<1>1. /\ UNCHANGED <<driverVars, events, bridgeVars, reports, wrapVars, loopVars>>
      /\ UNCHANGED <<hangup, stop, record>>
    BY DEF Outside
<1>2. /\ media' = media \/ (leg = "over" /\ media' = FALSE)
      /\ leg = "over" => leg' = "over"
      /\ term' = "taken" => term = "taken"
    BY DEF Outside, CalleeHangsUp, MediaCloses, SendTerminated, EndCallRequested
<1>3. Told' = Told
    BY <1>1 DEF Told, Said
<1>4. SessionTypes' /\ GoalHeld'
    BY <1>1, <1>2, <1>3 DEF SessionInv, SessionTypes, GoalHeld, Said
<1>5. HangupSeen'
    BY <1>1, <1>2 DEF SessionInv, HangupSeen
<1>6. EndMeans' /\ RecordMeans'
    BY <1>1 DEF SessionInv, EndMeans, RecordMeans, HarvestEligible, FinalGoal
<1> QED
    BY <1>4, <1>5, <1>6 DEF SessionInv

(* The loop ends: with a plain hangup only if nothing was to be harvested. *)
Ends ==
    /\ eng = "loop" /\ eng' \in {"drain", "bye"}
    /\ goal' = goal \/ goal' = ending
    /\ loopEnd' = "hung_up" => ~HarvestEligible /\ goal' = goal
    /\ UNCHANGED <<talked, harvesting>>

(* A step of the loop: it ends, or it goes on and learns what was said.    *)
LoopGoesOn ==
    /\ eng = "loop" /\ UNCHANGED <<eng, loopEnd, goal>>
    /\ talked' \in BOOLEAN /\ harvesting' \in BOOLEAN
    /\ talked' => Said
    /\ talked => talked'
    /\ harvesting => harvesting'
    /\ harvesting' => talked'
    /\ term' = "taken" => harvesting'

LEMMA LoopSteps ==
    ASSUME SessionInv, EngineLoop
    PROVE  /\ reports' \in Seq(Told)
           /\ goal' \in Goals \cup {NoGoal} /\ talked' \in BOOLEAN
           /\ goal' # NoGoal => goal' = ending
           /\ Ends \/ LoopGoesOn
<1> USE DEF wrapVars, loopVars
<1>1. /\ SessionTypes /\ GoalHeld /\ HangupSeen /\ eng = "loop"
      /\ {ending, goal} \subseteq Goals \cup {NoGoal} /\ talked \in BOOLEAN
    BY DEF SessionInv, SessionTypes, EngineLoop, EngineReport, EngineTerminated,
           EngineBridgeDone, MaxCallElapses, HarvestElapses, NudgeElapses,
           EngineCancelled, EngineAborts, EngineNudges
<1>2. reports # <<>> => Tail(reports) \in Seq(Told) /\ Head(reports) \in Told
    BY <1>1, HeadTailProperties DEF GoalHeld
<1>3. CASE EngineReport /\ Head(reports)[1] = "end_call"
  <2>1. Head(reports)[2] = ending /\ Breaks("completed", ending) /\ UNCHANGED wrapVars
        /\ UNCHANGED term /\ reports' = Tail(reports)
      BY <1>2, <1>3 DEF EngineReport, Told
  <2> QED
      BY <1>1, <1>2, <1>3, <2>1 DEF Breaks, Ends, EngineReport
<1>4. CASE EngineReport /\ Head(reports)[1] # "end_call"
  <2>1. /\ talked' = (talked \/ Head(reports)[1] = "text")
        /\ UNCHANGED <<eng, goal, harvesting, loopEnd, term>> /\ reports' = Tail(reports)
      BY <1>4 DEF EngineReport
  <2>2. Head(reports)[1] = "text" => Said
      BY <1>2, <1>4 DEF EngineReport, Told
  <2> QED
      BY <1>1, <1>2, <1>4, <2>1, <2>2
      DEF LoopGoesOn, SessionTypes, GoalHeld, HangupSeen, EngineReport
<1>5. CASE EngineTerminated /\ HarvestEligible
    BY <1>1, <1>5
    DEF EngineTerminated, HarvestEligible, LoopGoesOn, SessionTypes, GoalHeld, HangupSeen
<1>6. CASE EngineTerminated /\ ~HarvestEligible
    BY <1>1, <1>6 DEF EngineTerminated, Breaks, Ends, GoalHeld
<1>7. CASE EngineBridgeDone
  <2>1. loopEnd' = "hung_up" => bridge = "phone_closed" /\ ~harvesting
      BY <1>1, <1>7 DEF EngineBridgeDone, Breaks, HangupSeen, SessionTypes
  <2>2. loopEnd' = "hung_up" => ~HarvestEligible
      BY <1>1, <2>1 DEF HangupSeen, HarvestEligible
  <2> QED
      BY <1>1, <1>7, <2>2 DEF EngineBridgeDone, Breaks, Ends, GoalHeld
<1>8. CASE MaxCallElapses \/ HarvestElapses \/ NudgeElapses \/ EngineCancelled \/ EngineAborts
    BY <1>1, <1>8 DEF MaxCallElapses, HarvestElapses, NudgeElapses, EngineCancelled,
                      EngineAborts, Breaks, Ends, GoalHeld
<1>9. CASE EngineNudges
    BY <1>1, <1>9 DEF EngineNudges, LoopGoesOn, SessionTypes, GoalHeld, HangupSeen
<1> QED
    BY <1>3, <1>4, <1>5, <1>6, <1>7, <1>8, <1>9 DEF EngineLoop

LEMMA LoopKeepsSession ==
    ASSUME SessionInv, EngineLoop
    PROVE  SessionInv'
<1> USE DEF driverVars, bridgeVars, wrapVars, loopVars, signals
<1>1. UNCHANGED <<driverVars, events, bridgeVars, leg, media, signals, record>>
    BY DEF EngineLoop
<1>2. /\ SessionTypes /\ GoalHeld /\ HangupSeen /\ EndMeans
      /\ Told' = Told /\ Said' = Said
    BY <1>1 DEF SessionInv, Told, Said
<1>3. /\ reports' \in Seq(Told)
      /\ goal' \in Goals \cup {NoGoal} /\ talked' \in BOOLEAN
      /\ goal' # NoGoal => goal' = ending
    BY LoopSteps
<1>4. CASE Ends
  <2>1. SessionTypes' /\ HangupSeen'
      BY <1>1, <1>2, <1>3, <1>4 DEF Ends, SessionTypes, HangupSeen
  <2>2. GoalHeld'
      BY <1>1, <1>2, <1>3, <1>4 DEF Ends, GoalHeld
  <2>3. EndMeans' /\ RecordMeans'
      BY <1>4 DEF Ends, EndMeans, RecordMeans, HarvestEligible
  <2> QED
      BY <2>1, <2>2, <2>3 DEF SessionInv
<1>5. CASE LoopGoesOn
  <2>1. SessionTypes' /\ HangupSeen'
      BY <1>1, <1>2, <1>3, <1>5 DEF LoopGoesOn, SessionTypes, HangupSeen
  <2>2. GoalHeld'
      BY <1>1, <1>2, <1>3, <1>5 DEF LoopGoesOn, GoalHeld
  <2>3. EndMeans' /\ RecordMeans'
      BY <1>2, <1>5 DEF LoopGoesOn, EndMeans, RecordMeans, None
  <2> QED
      BY <2>1, <2>2, <2>3 DEF SessionInv
<1> QED
    BY <1>4, <1>5, LoopSteps

(* A call with a transcript that nobody cancelled is a success, or what    *)
(* its goal says it met.                                                   *)
LEMMA TranscriptDecides ==
    ASSUME NEW amd, NEW shape, shape.answered, shape.transcript > 0
    PROVE  Resolve(FALSE, amd, None, shape) \in {"completed", amd}
BY DEF Resolve, OfShape, FastDisconnect

LEMMA FinalizedMeans ==
    ASSUME SessionInv, Finalized
    PROVE  /\ driver = "done" /\ record'.goal = FinalGoal
           /\ harvesting /\ loopEnd # "cancelled" =>
                 record'.disposition \in {"completed", record'.goal}
<1>1. PICK duration \in Durations :
          record' = [disposition |-> Resolve(loopEnd = "cancelled", Verdict(FinalGoal),
                                             None, Shape(duration)),
                     goal |-> FinalGoal,
                     error |-> aborted
                               /\ Resolve(loopEnd = "cancelled", Verdict(FinalGoal),
                                          None, Shape(duration)) = "failed"]
    BY DEF Finalized
<1>2. driver = "done"
    BY DEF Finalized
<1>3. ASSUME harvesting, loopEnd # "cancelled"
      PROVE  record'.disposition \in {"completed", record'.goal}
  <2>1. outcome.lines > 0
      BY <1>2, <1>3 DEF SessionInv, SessionTypes, GoalHeld, HangupSeen, Said
  <2>2. Resolve(FALSE, Verdict(FinalGoal), None, Shape(duration))
            \in {"completed", Verdict(FinalGoal)}
      BY <2>1, TranscriptDecides DEF Shape
  <2>3. Resolve(FALSE, None, None, Shape(duration)) = "completed"
      BY <2>1 DEF Resolve, OfShape, FastDisconnect, Shape, None
  <2> QED
      BY <1>1, <1>3, <2>2, <2>3 DEF Verdict
<1> QED
    BY <1>1, <1>2, <1>3

LEMMA TeardownKeepsSession ==
    ASSUME SessionInv, Teardown
    PROVE  SessionInv'
<1> USE DEF driverVars, bridgeVars, wrapVars
<1>1. UNCHANGED <<driverVars, events, bridgeVars, reports, wrapVars, goal, harvesting,
                  loopEnd, media, term>>
    BY DEF Teardown
<1>2. /\ eng # "loop" /\ eng' # "loop" /\ stop' \in {stop, TRUE}
      /\ leg' = leg \/ leg' = "over"
    BY DEF Teardown, Drained, SipHangup, HangUpDriver, StopBridge, JoinBridge, Finalized
<1>3. /\ SessionTypes /\ GoalHeld /\ HangupSeen /\ EndMeans
      /\ Told' = Told /\ Said' = Said /\ FinalGoal' = FinalGoal
    BY <1>1 DEF SessionInv, Told, Said, FinalGoal
<1>4. SessionTypes' /\ HangupSeen'
    BY <1>1, <1>2, <1>3 DEF SessionTypes, HangupSeen
<1>5. GoalHeld'
    BY <1>1, <1>3 DEF GoalHeld
<1>6. EndMeans'
    BY <1>1, <1>2, <1>3 DEF EndMeans, HarvestEligible
<1>7. RecordMeans'
  <2>1. CASE Finalized
      BY <1>1, <1>3, <2>1, FinalizedMeans DEF RecordMeans
  <2>2. CASE ~Finalized
      BY <2>2 DEF Teardown, Drained, SipHangup, HangUpDriver, StopBridge, JoinBridge, RecordMeans
  <2> QED
      BY <2>1, <2>2
<1> QED
    BY <1>4, <1>5, <1>6, <1>7 DEF SessionInv

LEMMA NextKeepsSession == SessionInv /\ [Next]_vars => SessionInv'
<1> SUFFICES ASSUME SessionInv, [Next]_vars PROVE SessionInv'
    OBVIOUS
<1>1. CASE UNCHANGED vars
    BY <1>1 DEF vars, driverVars, bridgeVars, wrapVars, loopVars, legVars, signals, SessionInv,
                SessionTypes, GoalHeld, HangupSeen, EndMeans, RecordMeans, Told, Said,
                HarvestEligible, FinalGoal
<1> QED
    BY <1>1, DriverKeepsSession, BridgeKeepsSession, OutsideKeepsSession, LoopKeepsSession,
       TeardownKeepsSession DEF Next

LEMMA SessionInvariant == Spec => []SessionInv
BY InitSessionInv, NextKeepsSession, PTL DEF Spec

-----------------------------------------------------------------------------
(* An end_call that the driver completed is in the record, for all goals,  *)
(* whatever else ended the engine's loop before it came.                   *)
THEOREM GoalsAreRecorded == Spec => []GoalRecorded
<1>1. SessionInv => GoalRecorded
    BY DEF SessionInv, GoalHeld, RecordMeans, GoalRecorded, FinalGoal
<1> QED
    BY <1>1, SessionInvariant, PTL

(* A hangup after a conversation and before a goal is harvested, whichever *)
(* of SIP leg and bridge tells the engine of it first.                     *)
THEOREM HangupsAreHarvested == Spec => []EligibleHarvested
<1>1. SessionInv => EligibleHarvested
    BY DEF SessionInv, EndMeans, EligibleHarvested
<1> QED
    BY <1>1, SessionInvariant, PTL

(* A harvested call is a success or what its goal says it met, however     *)
(* long it was, whatever ended the harvest and however the driver returned.*)
THEOREM HarvestsComplete == Spec => []HarvestCompletes
<1>1. SessionInv => HarvestCompletes
    BY DEF SessionInv, RecordMeans, HarvestCompletes
<1> QED
    BY <1>1, SessionInvariant, PTL

-----------------------------------------------------------------------------
(* The driver as the session sees it, an outcome and a channel of events,  *)
(* keeps the contract that GeminiDriver, the same task with its turns,     *)
(* greetings and reconnects, is shown to keep: two views of one task.      *)
Contract == INSTANCE SessionDriver WITH
    Submitted <- Goals, Nothing <- NoGoal,
    stage <- driver, held <- ending, unwritten <- unflushed,
    returned <- [by |-> outcome.endedBy, goal |-> outcome.goal]

ContractStep == Contract!DriverNext \/ UNCHANGED Contract!dvars

(* An exit for one of the reasons the contract names is a step of it.      *)
LEMMA ReturnImplements ==
    ASSUME driver = "run", NEW by, NEW g, Returns(by, g), UNCHANGED ending,
           \/ by \in {"caller_hangup", "remote_close"} /\ g = NoGoal
           \/ by = "model_end_call" /\ g = ending /\ ending # NoGoal
    PROVE  ContractStep
<1>1. Contract!ReturnsWith(by, g)
    BY DEF Returns, Contract!ReturnsWith
<1> QED
    BY <1>1 DEF ContractStep, Contract!DriverNext, Contract!Leaves, Contract!Concludes

LEMMA DriverImplements ==
    ASSUME SessionTypes, Driver
    PROVE  ContractStep
<1>1. CASE Connected /\ UNCHANGED events
    BY <1>1 DEF Connected, ContractStep, Contract!DriverNext, Contract!Connects
<1>2. CASE ConnectFails
  <2>1. Contract!Fails
      BY <1>2 DEF ConnectFails, Returns, Contract!Fails, Contract!ReturnsWith
  <2> QED
      BY <2>1 DEF ContractStep, Contract!DriverNext
<1>3. CASE ModelAudio \/ ModelInterrupted
    BY <1>3 DEF ModelAudio, ModelInterrupted, Produces, ContractStep, Contract!dvars
<1>4. CASE ModelText
    BY <1>4 DEF ModelText, Produces, ContractStep, Contract!DriverNext, Contract!Says
<1>5. CASE TurnComplete /\ ending = NoGoal
  <2>1. outcome'.endedBy = outcome.endedBy /\ outcome'.goal = outcome.goal
      BY <1>5 DEF TurnComplete, SessionTypes, Outcome
  <2>2. Contract!Writes
      BY <1>5, <2>1 DEF TurnComplete, Produces, Contract!Writes
  <2> QED
      BY <2>2 DEF ContractStep, Contract!DriverNext
<1>6. CASE TurnComplete /\ ending # NoGoal
    BY <1>6, ReturnImplements DEF TurnComplete, Produces
<1>7. CASE \E g \in Goals : ModelEndCall(g)
    BY <1>7 DEF ModelEndCall, ContractStep, Contract!DriverNext, Contract!Submits
<1>8. CASE EndingDeadline \/ RemoteClose \/ CallerGone
    BY <1>8, ReturnImplements DEF EndingDeadline, RemoteClose, CallerGone
<1> QED
    BY <1>1, <1>2, <1>3, <1>4, <1>5, <1>6, <1>7, <1>8 DEF Driver

(* No other task of the session takes a step of the driver.                *)
LEMMA OthersStutter ==
    ASSUME Bridge \/ Outside \/ EngineLoop \/ Teardown \/ UNCHANGED vars
    PROVE  ContractStep
<1>1. UNCHANGED driverVars
    BY DEF Bridge, Outside, EngineLoop, Teardown, vars
<1> QED
    BY <1>1 DEF driverVars, ContractStep, Contract!dvars

(* In an answered call the driver returns once, with everything that was   *)
(* said in its lines, and with the first goal exactly if it returns because*)
(* of the model's end_call, whatever bridge, leg and engine do meanwhile.  *)
THEOREM SessionKeepsContract == Spec => Contract!DriverSpec
<1>1. Init => Contract!DriverInit
    BY DEF Init, Contract!DriverInit, Contract!Pending
<1>2. SessionInv /\ [Next]_vars => [Contract!DriverNext]_(Contract!dvars)
    BY DriverImplements, OthersStutter DEF ContractStep, SessionInv, Next
<1> QED
    BY <1>1, <1>2, SessionInvariant, PTL DEF Spec, Contract!DriverSpec
=============================================================================
