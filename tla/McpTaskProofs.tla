---------------------------- MODULE McpTaskProofs ---------------------------
(***************************************************************************)
(* Theorems about place_call as an MCP task (McpTask), for every set of    *)
(* calls and every history cap, deadline, drain and margin: what a task    *)
(* reports is what its call came to, and a task is swept under a           *)
(* conversation only after a long wait.                                    *)
(***************************************************************************)
EXTENDS McpTask, TLAPS

IsOver(p) == p \in {"ended", "forgotten"}
Talking(c) == phase[c] = "in_progress" /\ driver[c] # 0

(* The engine's part of the state, and the rest.                           *)
CallTypes ==
    /\ phase \in [Calls -> Phases]
    /\ tries \in [Calls -> 0..MaxAttempts] /\ driver \in [Calls -> 0..MaxAttempts]
    /\ channels \subseteq Calls \X (1..MaxAttempts)
    /\ signal \in [Calls -> BOOLEAN]
    /\ result \in [Calls -> Results \cup {"none"}]

Statuses == {"none", "placing", "working", "completed", "failed", "cancelled",
             "swept", "lost"}

TaskTypes ==
    /\ task \in [Calls -> Statuses]
    /\ watcher \in [Calls -> {"none", "select", "fetch", "done"}]
    /\ asked \in [Calls -> BOOLEAN] /\ attached \in BOOLEAN
    /\ server \in {"up", "closing", "down"} /\ closing \subseteq Calls

ClockTypes ==
    /\ age \in [Calls -> 0..TTL] /\ waited \in [Calls -> 0..TTL]
    /\ live \in [Calls -> 0..(MaxCall + Drain)]

(* A call has a result from its end on, and keeps it.                      *)
ResultMeansOver == \A c \in Calls : result[c] # "none" <=> IsOver(phase[c])

FetchMeansOver == \A c \in Calls : watcher[c] = "fetch" => IsOver(phase[c])

(* A swept task is as old as its TTL, and no future of it is left.         *)
SweptIsOld == \A c \in Calls : task[c] = "swept" => watcher[c] = "done" /\ age[c] >= TTL

(* While the call is talked on, its task grows no faster than the call.    *)
ClocksAgree == \A c \in Calls : Talking(c) => age[c] <= waited[c] + live[c]

TaskInv ==
    /\ CallTypes /\ TaskTypes /\ ClockTypes
    /\ ResultMeansOver /\ FetchMeansOver /\ SweptIsOld /\ ClocksAgree
    /\ TaskTellsResult

(* What a step may do to the calls: the end of a call is final and leaves  *)
(* a result.                                                               *)
Life ==
    /\ CallTypes'
    /\ \A c \in Calls :
          /\ IsOver(phase[c]) => IsOver(phase'[c]) /\ result'[c] = result[c]
          /\ phase[c] = "forgotten" => phase'[c] = "forgotten"
          /\ ~IsOver(phase[c]) =>
                IF IsOver(phase'[c]) THEN result'[c] \in Results ELSE result'[c] = result[c]

NobodyAnswers == \A c \in Calls : Talking(c)' => Talking(c)

-----------------------------------------------------------------------------
(* The engine. *)
LEMMA EndsAsLife ==
    ASSUME CallTypes, ResultMeansOver, NEW c \in Calls, NEW r \in Results, EndsAs(c, r),
           signal' \in [Calls -> BOOLEAN]
    PROVE  Life /\ NobodyAnswers /\ ~Talking(c)'
  <1>1. PICK lost \in SUBSET ({c} \cup {d \in Calls : phase[d] = "ended"}) :
            phase' = [d \in Calls |-> IF d \in lost THEN "forgotten"
                                      ELSE IF d = c THEN "ended" ELSE phase[d]]
    BY DEF EndsAs, End
  <1>2. /\ phase[c] \in {"queued", "ringing", "in_progress"}
        /\ driver' = [driver EXCEPT ![c] = 0] /\ result' = [result EXCEPT ![c] = r]
        /\ UNCHANGED <<tries, channels>>
    BY DEF EndsAs, End
  <1>3. phase'[c] \in {"ended", "forgotten"}
        /\ \A d \in Calls \ {c} : \/ phase'[d] = phase[d]
                                  \/ phase[d] = "ended" /\ phase'[d] = "forgotten"
    BY <1>1
  <1>4. CallTypes'
    <2>1. phase' \in [Calls -> Phases]
      BY <1>1 DEF CallTypes, Phases
    <2>2. driver' \in [Calls -> 0..MaxAttempts]
      BY <1>2, TaskAssumption DEF CallTypes
    <2>3. result' \in [Calls -> Results \cup {"none"}]
      BY <1>2 DEF CallTypes
    <2> QED BY <1>2, <2>1, <2>2, <2>3 DEF CallTypes
  <1>5. driver'[c] = 0 /\ result'[c] = r
        /\ \A d \in Calls \ {c} : driver'[d] = driver[d] /\ result'[d] = result[d]
    BY <1>2 DEF CallTypes
  <1>6. NobodyAnswers /\ ~Talking(c)'
    BY <1>3, <1>5 DEF NobodyAnswers, Talking
  <1>7. \A d \in Calls :
          /\ IsOver(phase[d]) => IsOver(phase'[d]) /\ result'[d] = result[d]
          /\ phase[d] = "forgotten" => phase'[d] = "forgotten"
          /\ ~IsOver(phase[d]) =>
                IF IsOver(phase'[d]) THEN result'[d] \in Results ELSE result'[d] = result[d]
    BY <1>2, <1>3, <1>5 DEF IsOver
  <1> QED BY <1>4, <1>6, <1>7 DEF Life

LEMMA SameLife ==
    ASSUME CallTypes, UNCHANGED <<svars, result>>, signal' \in [Calls -> BOOLEAN]
    PROVE  Life /\ NobodyAnswers
  <1>1. UNCHANGED <<phase, tries, driver, channels, result>>
    BY DEF svars
  <1>2. CallTypes' /\ NobodyAnswers
    BY <1>1 DEF CallTypes, NobodyAnswers, Talking
  <1> QED BY <1>1, <1>2 DEF Life, IsOver

LEMMA EndCallLife ==
    ASSUME CallTypes, ResultMeansOver, NEW c \in Calls, EndCall(c)
    PROVE  Life /\ NobodyAnswers
  <1>1. CASE EndsAs(c, "cancelled") /\ UNCHANGED signal
    <2>1. signal' \in [Calls -> BOOLEAN] /\ "cancelled" \in Results
      BY <1>1 DEF CallTypes, Results
    <2> QED BY <1>1, <2>1, EndsAsLife
  <1>2. CASE signal' = [signal EXCEPT ![c] = @ \/ driver[c] # 0] /\ UNCHANGED <<svars, result>>
    <2>1. signal' \in [Calls -> BOOLEAN]
      BY <1>2, Zenon DEF CallTypes
    <2> QED BY <1>2, <2>1, SameLife
  <1> QED BY <1>1, <1>2 DEF EndCall

(* A phase that is not over goes to another that is not. *)
LEMMA MovesOn ==
    ASSUME CallTypes, NEW c \in Calls, NEW p \in Phases, ~IsOver(phase[c]), ~IsOver(p),
           phase' = [phase EXCEPT ![c] = p], UNCHANGED result,
           tries' \in [Calls -> 0..MaxAttempts], driver' \in [Calls -> 0..MaxAttempts],
           channels' \subseteq Calls \X (1..MaxAttempts), signal' \in [Calls -> BOOLEAN]
    PROVE  Life
  <1>1. phase' \in [Calls -> Phases] /\ phase'[c] = p
        /\ \A d \in Calls \ {c} : phase'[d] = phase[d]
    BY DEF CallTypes
  <1>2. CallTypes'
    BY <1>1, Zenon DEF CallTypes
  <1> QED BY <1>1, <1>2 DEF Life, IsOver

LEMMA PlaceLife ==
    ASSUME CallTypes, NEW c \in Calls, Place(c), UNCHANGED <<signal, result>>
    PROVE  Life /\ NobodyAnswers
  <1>1. /\ phase[c] = "unknown" /\ phase' = [phase EXCEPT ![c] = "queued"]
        /\ UNCHANGED <<tries, driver, channels, signal, result>>
    BY DEF Place
  <1>2. Life
    BY <1>1, MovesOn DEF CallTypes, IsOver, Phases
  <1> QED BY <1>1, <1>2 DEF NobodyAnswers, Talking, CallTypes

(* What the engine's attempts do short of ending a call: nobody but the    *)
(* call that is answered begins to talk.                                   *)
LEMMA AttemptLife ==
    ASSUME CallTypes, NEW c \in Calls, UNCHANGED result,
           signal' \in [Calls -> BOOLEAN],
           \/ Dial(c) \/ Ring(c) \/ SendBack(c) \/ HandOver(c) \/ Abandon(c)
           \/ \E a \in 1..MaxAttempts : Release(c, a)
    PROVE  Life /\ NobodyAnswers
  <1> USE TaskAssumption
  <1>1. CASE Dial(c)
    <2>1. /\ phase' = phase /\ phase[c] = "queued" /\ tries[c] + 1 \in 1..MaxAttempts
          /\ tries' = [tries EXCEPT ![c] = @ + 1]
          /\ driver' = [driver EXCEPT ![c] = tries[c] + 1]
          /\ channels' = channels \cup {<<c, tries[c] + 1>>}
      BY <1>1 DEF Dial, CallTypes
    <2>2. tries' \in [Calls -> 0..MaxAttempts] /\ driver' \in [Calls -> 0..MaxAttempts]
      BY <2>1 DEF CallTypes
    <2>3. channels' \subseteq Calls \X (1..MaxAttempts)
      BY <2>1 DEF CallTypes
    <2>4. CallTypes'
      BY <2>1, <2>2, <2>3 DEF CallTypes
    <2>5. NobodyAnswers
      BY <2>1 DEF NobodyAnswers, Talking, CallTypes
    <2> QED BY <2>1, <2>4, <2>5 DEF Life
  <1>2. CASE Ring(c)
    <2>1. /\ phase[c] = "queued" /\ phase' = [phase EXCEPT ![c] = "ringing"]
          /\ UNCHANGED <<tries, driver, channels>>
      BY <1>2 DEF Ring
    <2>2. Life
      BY <2>1, MovesOn DEF CallTypes, IsOver, Phases
    <2> QED BY <2>1, <2>2 DEF NobodyAnswers, Talking, CallTypes
  <1>3. CASE SendBack(c)
    <2>1. /\ phase[c] = "ringing" /\ phase' = [phase EXCEPT ![c] = "queued"]
          /\ UNCHANGED <<tries, driver, channels>>
      BY <1>3 DEF SendBack
    <2>2. Life
      BY <2>1, MovesOn DEF CallTypes, IsOver, Phases
    <2> QED BY <2>1, <2>2 DEF NobodyAnswers, Talking, CallTypes
  <1>4. CASE HandOver(c) \/ Abandon(c)
    <2>1. driver' = [driver EXCEPT ![c] = 0] /\ UNCHANGED <<phase, tries, channels>>
      BY <1>4 DEF HandOver, Abandon
    <2>2. driver' \in [Calls -> 0..MaxAttempts] /\ driver'[c] = 0
          /\ \A d \in Calls \ {c} : driver'[d] = driver[d]
      BY <2>1 DEF CallTypes
    <2>3. CallTypes'
      BY <2>1, <2>2, Zenon DEF CallTypes
    <2>4. NobodyAnswers
      BY <2>1, <2>2 DEF NobodyAnswers, Talking
    <2> QED BY <2>1, <2>3, <2>4 DEF Life
  <1>5. CASE \E a \in 1..MaxAttempts : Release(c, a)
    <2>1. channels' \subseteq channels /\ UNCHANGED <<phase, tries, driver>>
      BY <1>5 DEF Release
    <2>2. CallTypes'
      BY <2>1, Zenon DEF CallTypes
    <2> QED BY <2>1, <2>2 DEF Life, NobodyAnswers, Talking
  <1> QED BY <1>1, <1>2, <1>3, <1>4, <1>5

LEMMA AnswerLife ==
    ASSUME CallTypes, NEW c \in Calls, Answer(c), UNCHANGED <<signal, result>>
    PROVE  Life /\ \A d \in Calls \ {c} : Talking(d)' => Talking(d)
  <1>1. /\ phase[c] = "ringing" /\ phase' = [phase EXCEPT ![c] = "in_progress"]
        /\ UNCHANGED <<tries, driver, channels, signal, result>>
    BY DEF Answer
  <1>2. Life
    BY <1>1, MovesOn DEF CallTypes, IsOver, Phases
  <1> QED BY <1>1, <1>2 DEF Talking, CallTypes

-----------------------------------------------------------------------------
(* The parts of the invariant, over a step that keeps to Life. *)
LEMMA LifeKeepsResults ==
    ASSUME CallTypes, ResultMeansOver, Life
    PROVE  ResultMeansOver'
  <1> SUFFICES ASSUME NEW c \in Calls
               PROVE  result'[c] # "none" <=> IsOver(phase'[c])
    BY DEF ResultMeansOver
  <1>1. \A r \in Results : r # "none"
    BY DEF Results
  <1>2. CASE IsOver(phase[c])
    BY <1>2 DEF Life, ResultMeansOver
  <1>3. CASE ~IsOver(phase[c])
    BY <1>1, <1>3 DEF Life, ResultMeansOver
  <1> QED BY <1>2, <1>3

(* A status that was reported stays true; a new one is for its action.     *)
Reports(c) == task'[c] # task[c] /\ task'[c] \in {"completed", "cancelled", "failed"}

LEMMA LifeKeepsTold ==
    ASSUME CallTypes, ResultMeansOver, TaskTellsResult, Life,
           \A c \in Calls : asked[c] => asked'[c],
           \A c \in Calls : Reports(c) =>
              /\ task'[c] = "completed" => result'[c] = "answered"
              /\ task'[c] = "cancelled" => asked'[c] \/ result'[c] = "cancelled"
              /\ task'[c] = "failed" => result'[c] = "failure" \/ phase'[c] = "forgotten"
    PROVE  TaskTellsResult'
  <1> SUFFICES ASSUME NEW c \in Calls, ~Reports(c)
               PROVE  /\ task'[c] = "completed" => result'[c] = "answered"
                      /\ task'[c] = "cancelled" => asked'[c] \/ result'[c] = "cancelled"
                      /\ task'[c] = "failed" => result'[c] = "failure" \/ phase'[c] = "forgotten"
    BY DEF TaskTellsResult
  <1>1. CASE task'[c] \notin {"completed", "cancelled", "failed"}
    BY <1>1
  <1>2. CASE task'[c] = task[c]
    <2>1. result[c] # "none" => result'[c] = result[c]
      BY DEF ResultMeansOver, Life
    <2> QED BY <1>2, <2>1 DEF TaskTellsResult, Life
  <1> QED BY <1>1, <1>2 DEF Reports

(* The clocks of a step that lets no time pass. *)
LEMMA StillClocks ==
    ASSUME ClocksAgree, NobodyAnswers, UNCHANGED <<waited, live>>,
           ClockTypes, ClockTypes', \A c \in Calls : age'[c] \in {0, age[c]}
    PROVE  ClocksAgree'
  <1> SUFFICES ASSUME NEW c \in Calls, Talking(c) PROVE age'[c] <= waited[c] + live[c]
    BY DEF ClocksAgree, NobodyAnswers
  <1>1. age[c] <= waited[c] + live[c]
    BY DEF ClocksAgree
  <1>2. age[c] \in Nat /\ waited[c] \in Nat /\ live[c] \in Nat
    BY TaskAssumption DEF ClockTypes, TTL
  <1> QED BY <1>1, <1>2

LEMMA LifeKeepsFetch ==
    ASSUME FetchMeansOver, Life,
           \A c \in Calls : watcher'[c] = "fetch" => watcher[c] = "fetch" \/ IsOver(phase[c])
    PROVE  FetchMeansOver'
BY DEF FetchMeansOver, Life

(* A step of the calls alone, in which no time passes. *)
LEMMA CallsMoveAlone ==
    ASSUME TaskInv, Life, NobodyAnswers, UNCHANGED <<task, watcher, age, waited, live>>,
           asked' \in [Calls -> BOOLEAN], \A c \in Calls : asked[c] => asked'[c],
           attached' \in BOOLEAN, server' \in {"up", "closing", "down"},
           closing' \subseteq Calls
    PROVE  TaskInv'
  <1> USE DEF TaskInv
  <1>1. CallTypes' /\ TaskTypes' /\ ClockTypes'
    BY Zenon DEF Life, TaskTypes, ClockTypes
  <1>2. ResultMeansOver'
    BY LifeKeepsResults
  <1>3. FetchMeansOver'
    BY LifeKeepsFetch
  <1>4. SweptIsOld'
    BY DEF SweptIsOld
  <1>5. ClocksAgree'
    BY <1>1, StillClocks
  <1>6. TaskTellsResult'
    BY LifeKeepsTold DEF Reports
  <1> QED BY <1>1, <1>2, <1>3, <1>4, <1>5, <1>6

(* The task of one call moves on; no call is ended by it that was not.     *)
LEMMA TaskMoves ==
    ASSUME TaskInv, Life, NobodyAnswers, NEW c \in Calls, NEW st \in Statuses,
           NEW at \in {"none", "select", "fetch", "done"},
           task' = [task EXCEPT ![c] = st], watcher' = [watcher EXCEPT ![c] = at],
           UNCHANGED <<asked, attached, age, waited, live, serverVars>>,
           st \notin {"completed", "cancelled", "failed", "swept"},
           at = "fetch" => IsOver(phase[c])
    PROVE  TaskInv'
  <1> USE DEF TaskInv
  <1>1. /\ task'[c] = st /\ \A d \in Calls \ {c} : task'[d] = task[d]
        /\ watcher'[c] = at /\ \A d \in Calls \ {c} : watcher'[d] = watcher[d]
    BY DEF TaskTypes
  <1>2. CallTypes' /\ TaskTypes' /\ ClockTypes'
    BY Zenon DEF Life, TaskTypes, ClockTypes, serverVars
  <1>3. ResultMeansOver'
    BY LifeKeepsResults
  <1>4. FetchMeansOver'
    BY <1>1, LifeKeepsFetch
  <1>5. SweptIsOld'
    BY <1>1 DEF SweptIsOld
  <1>6. ClocksAgree'
    BY <1>2, StillClocks
  <1>7. TaskTellsResult'
    BY <1>1, LifeKeepsTold DEF Reports
  <1> QED BY <1>2, <1>3, <1>4, <1>5, <1>6, <1>7

(* The future of one call is over. *)
LEMMA TaskSettlesAs ==
    ASSUME TaskInv, Life, NobodyAnswers, NEW c \in Calls,
           NEW status \in {"completed", "failed", "cancelled", "swept"},
           Settles(c, status), watcher[c] # "done" \/ task[c] = "working",
           status = "completed" => result'[c] = "answered",
           status = "cancelled" => asked[c] \/ result'[c] = "cancelled",
           status = "failed" => result'[c] = "failure" \/ phase'[c] = "forgotten",
           status = "swept" => task[c] = "working" /\ age[c] >= TTL
    PROVE  TaskInv'
  <1> USE DEF TaskInv
  <1>1. /\ task'[c] = IF task[c] = "working" THEN status ELSE task[c]
        /\ \A d \in Calls \ {c} : task'[d] = task[d]
        /\ watcher'[c] = "done" /\ \A d \in Calls \ {c} : watcher'[d] = watcher[d]
        /\ age'[c] = IF status = "swept" THEN age[c] ELSE 0
        /\ \A d \in Calls \ {c} : age'[d] = age[d]
        /\ UNCHANGED <<asked, attached, waited, live, server, closing>>
    BY DEF Settles, TaskTypes, ClockTypes, serverVars
  <1>2. TaskTypes'
    <2>1. task' \in [Calls -> Statuses]
      BY DEF Settles, TaskTypes, Statuses
    <2>2. watcher' \in [Calls -> {"none", "select", "fetch", "done"}]
      BY DEF Settles, TaskTypes
    <2> QED BY <1>1, <2>1, <2>2, Zenon DEF TaskTypes
  <1>3. ClockTypes'
    <2>1. age' \in [Calls -> 0..TTL]
      BY TaskAssumption DEF Settles, ClockTypes, TTL
    <2> QED BY <1>1, <2>1, Zenon DEF ClockTypes
  <1>4. CallTypes' /\ ResultMeansOver'
    BY LifeKeepsResults DEF Life
  <1>5. FetchMeansOver'
    BY <1>1, LifeKeepsFetch
  <1>6. SweptIsOld'
    BY <1>1 DEF SweptIsOld
  <1>7. ClocksAgree'
    BY <1>1, <1>3, StillClocks
  <1>8. TaskTellsResult'
    BY <1>1, LifeKeepsTold DEF Reports
  <1> QED BY <1>2, <1>3, <1>4, <1>5, <1>6, <1>7, <1>8

LEMMA ToolsKeep == TaskInv /\ Tools => TaskInv'
  <1> SUFFICES ASSUME TaskInv, NEW c \in Calls,
                      \/ \E scheduled \in BOOLEAN : PlaceCall(c, scheduled)
                      \/ SpawnTask(c) \/ EndCallTool(c) \/ CancelTask(c)
               PROVE  TaskInv'
    BY DEF Tools
  <1> USE DEF TaskInv
  <1>1. CASE \E scheduled \in BOOLEAN : PlaceCall(c, scheduled)
    <2>1. PICK scheduled \in BOOLEAN : PlaceCall(c, scheduled)
      BY <1>1
    <2>2. /\ Life /\ NobodyAnswers
          /\ watcher' = [watcher EXCEPT ![c] = watcher[c]]
          /\ UNCHANGED <<asked, attached, age, waited, live, serverVars>>
      BY <2>1, PlaceLife DEF PlaceCall, TaskTypes, clocks
    <2>3. CASE c \in TaskCalls /\ ~scheduled
      <3>1. task' = [task EXCEPT ![c] = "placing"]
        BY <2>1, <2>3 DEF PlaceCall
      <3>2. watcher[c] = "fetch" => IsOver(phase[c])
        BY DEF FetchMeansOver
      <3>3. watcher[c] \in {"none", "select", "fetch", "done"} /\ "placing" \in Statuses
        BY DEF TaskTypes, Statuses
      <3> QED BY <2>2, <3>1, <3>2, <3>3, TaskMoves
    <2>4. CASE ~(c \in TaskCalls /\ ~scheduled)
      <3>1. task' = task /\ watcher' = watcher
        BY <2>1, <2>4 DEF PlaceCall, TaskTypes
      <3> QED BY <2>2, <3>1, CallsMoveAlone DEF TaskTypes, serverVars
    <2> QED BY <2>3, <2>4
  <1>2. CASE SpawnTask(c)
    <2>1. Life /\ NobodyAnswers
      BY <1>2, SameLife DEF SpawnTask, CallTypes
    <2>2. "working" \in Statuses /\ UNCHANGED <<age, waited, live>>
      BY <1>2 DEF SpawnTask, Statuses, clocks
    <2> QED BY <1>2, <2>1, <2>2, TaskMoves DEF SpawnTask
  <1>3. CASE EndCallTool(c)
    <2>1. Life /\ NobodyAnswers
      BY <1>3, EndCallLife DEF EndCallTool
    <2> QED BY <1>3, <2>1, CallsMoveAlone
            DEF EndCallTool, TaskTypes, taskVars, clocks, serverVars
  <1>4. CASE CancelTask(c)
    <2>1. Life /\ NobodyAnswers
      BY <1>4, SameLife DEF CancelTask, CallTypes
    <2>2. asked' \in [Calls -> BOOLEAN] /\ \A d \in Calls : asked[d] => asked'[d]
      BY <1>4 DEF CancelTask, TaskTypes
    <2> QED BY <1>4, <2>1, <2>2, CallsMoveAlone
            DEF CancelTask, TaskTypes, clocks, serverVars
  <1> QED BY <1>1, <1>2, <1>3, <1>4

LEMMA TasksKeep == TaskInv /\ Tasks => TaskInv'
  <1> SUFFICES ASSUME TaskInv, Tasks PROVE TaskInv'
    OBVIOUS
  <1> USE DEF TaskInv
  <1>1. ASSUME NEW c \in Calls, WatchSees(c) PROVE TaskInv'
    <2>1. Life /\ NobodyAnswers
      BY <1>1, SameLife DEF WatchSees, CallTypes
    <2>2. task' = [task EXCEPT ![c] = task[c]] /\ IsOver(phase[c])
          /\ watcher' = [watcher EXCEPT ![c] = "fetch"]
          /\ UNCHANGED <<asked, attached, age, waited, live, serverVars, task>>
      BY <1>1 DEF WatchSees, TaskTypes, IsOver, clocks
    <2>3. CallTypes' /\ TaskTypes' /\ ClockTypes' /\ ResultMeansOver'
      BY <2>1, <2>2, LifeKeepsResults, Zenon DEF Life, TaskTypes, ClockTypes, serverVars
    <2>4. watcher[c] = "select" /\ watcher'[c] = "fetch"
          /\ \A d \in Calls \ {c} : watcher'[d] = watcher[d]
      BY <1>1, <2>2 DEF WatchSees, TaskTypes
    <2>5. FetchMeansOver' /\ SweptIsOld'
      BY <2>1, <2>2, <2>4, LifeKeepsFetch DEF SweptIsOld
    <2>6. ClocksAgree'
      BY <2>1, <2>2, <2>3, StillClocks
    <2>7. TaskTellsResult'
      BY <2>1, <2>2, LifeKeepsTold DEF Reports
    <2> QED BY <2>3, <2>5, <2>6, <2>7
  <1>2. ASSUME NEW c \in Calls, WatchCancelled(c) PROVE TaskInv'
    <2>1. Life /\ NobodyAnswers
      BY <1>2, EndCallLife DEF WatchCancelled
    <2> QED BY <1>2, <2>1, TaskSettlesAs DEF WatchCancelled
  <1>3. ASSUME NEW c \in Calls, WatchFetches(c) PROVE TaskInv'
    <2>1. Life /\ NobodyAnswers
      BY <1>3, SameLife DEF WatchFetches, CallTypes
    <2>2. IsOver(phase[c]) /\ result[c] \in Results
      BY <1>3 DEF WatchFetches, FetchMeansOver, ResultMeansOver, CallTypes
    <2>3. /\ TaskResult(c) \in {"completed", "failed", "cancelled"}
          /\ TaskResult(c) = "completed" => result[c] = "answered"
          /\ TaskResult(c) = "cancelled" => result[c] = "cancelled"
          /\ TaskResult(c) = "failed" => result[c] = "failure" \/ phase[c] = "forgotten"
      BY <2>2 DEF TaskResult, IsOver, Results
    <2>4. result' = result /\ phase' = phase
      BY <1>3 DEF WatchFetches, svars
    <2> QED BY <1>3, <2>1, <2>3, <2>4, TaskSettlesAs DEF WatchFetches
  <1>4. ASSUME NEW c \in Calls, Swept(c) PROVE TaskInv'
    <2>1. Life /\ NobodyAnswers
      BY <1>4, SameLife DEF Swept, CallTypes
    <2> QED BY <1>4, <2>1, TaskSettlesAs DEF Swept
  <1>5. CASE SessionEnds
    <2>1. Life /\ NobodyAnswers
      BY <1>5, SameLife DEF SessionEnds, CallTypes
    <2>2. /\ UNCHANGED <<watcher, asked, waited, live, server, closing>>
          /\ attached' = FALSE
          /\ \A c \in Calls : /\ task'[c] \in {"lost", task[c]}
                              /\ age'[c] = IF task'[c] = "lost" THEN 0 ELSE age[c]
      BY <1>5 DEF SessionEnds, serverVars
    <2>3. task' \in [Calls -> Statuses] /\ age' \in [Calls -> 0..TTL]
      BY <1>5, TaskAssumption DEF SessionEnds, TaskTypes, ClockTypes, Statuses, TTL
    <2>4. TaskTypes' /\ ClockTypes'
      BY <2>2, <2>3, Zenon DEF TaskTypes, ClockTypes
    <2>5. CallTypes' /\ ResultMeansOver' /\ FetchMeansOver'
      BY <2>1, <2>2, LifeKeepsResults, LifeKeepsFetch DEF Life
    <2>6. SweptIsOld'
      BY <2>2 DEF SweptIsOld
    <2>7. ClocksAgree'
      BY <2>1, <2>2, <2>4, StillClocks
    <2>8. TaskTellsResult'
      BY <2>1, <2>2, LifeKeepsTold DEF Reports
    <2> QED BY <2>4, <2>5, <2>6, <2>7, <2>8
  <1> QED BY <1>1, <1>2, <1>3, <1>4, <1>5 DEF Tasks

LEMMA EngineKeeps == TaskInv /\ Engine => TaskInv'
  <1> SUFFICES ASSUME TaskInv, Engine PROVE TaskInv'
    OBVIOUS
  <1> USE DEF TaskInv
  <1>1. UNCHANGED <<task, watcher, asked, attached, server, closing>>
    BY DEF Engine, taskVars, serverVars
  <1>2. ASSUME Life, NobodyAnswers, UNCHANGED clocks PROVE TaskInv'
    BY <1>1, <1>2, CallsMoveAlone DEF TaskTypes, clocks
  <1>3. ASSUME NEW c \in Calls, Dials(c) \/ Rings(c) \/ SendsBack(c) PROVE TaskInv'
    BY <1>2, <1>3, AttemptLife DEF Dials, Rings, SendsBack, CallTypes
  <1>4. ASSUME NEW c \in Calls, HandsOver(c) \/ Unwinds(c) PROVE TaskInv'
    <2>1. signal' \in [Calls -> BOOLEAN]
      BY <1>4, Zenon DEF HandsOver, Unwinds, Unsignalled, CallTypes
    <2> QED BY <1>2, <1>4, <2>1, AttemptLife DEF HandsOver, Unwinds
  <1>5. ASSUME NEW c \in Calls, NEW a \in 1..MaxAttempts, Releases(c, a) PROVE TaskInv'
    BY <1>2, <1>5, AttemptLife DEF Releases, CallTypes
  <1>6. ASSUME NEW c \in Calls, Answers(c) PROVE TaskInv'
    <2>1. Life /\ \A d \in Calls \ {c} : Talking(d)' => Talking(d)
      BY <1>6, AnswerLife DEF Answers
    <2>2. /\ waited' \in [Calls -> 0..TTL] /\ waited'[c] = age[c]
          /\ \A d \in Calls \ {c} : waited'[d] = waited[d]
          /\ UNCHANGED <<age, live>>
      BY <1>6 DEF Answers, ClockTypes
    <2>3. CallTypes' /\ TaskTypes' /\ ClockTypes'
      BY <1>1, <2>1, <2>2, Zenon DEF Life, TaskTypes, ClockTypes
    <2>4. ResultMeansOver' /\ FetchMeansOver' /\ SweptIsOld' /\ TaskTellsResult'
      BY <1>1, <2>1, <2>2, LifeKeepsResults, LifeKeepsFetch, LifeKeepsTold
         DEF SweptIsOld, Reports
    <2>5. ClocksAgree'
      <3> SUFFICES ASSUME NEW d \in Calls, Talking(d)'
                   PROVE  age[d] <= waited'[d] + live[d]
        BY <2>2 DEF ClocksAgree
      <3>1. age[d] \in Nat /\ live[d] \in Nat
        BY TaskAssumption DEF ClockTypes, TTL
      <3> QED BY <2>1, <2>2, <3>1 DEF ClocksAgree
    <2> QED BY <2>3, <2>4, <2>5
  <1>7. ASSUME NEW c \in Calls, NEW r \in Results, Ends(c, r) PROVE TaskInv'
    <2>1. signal' \in [Calls -> BOOLEAN]
      BY <1>7, Zenon DEF Ends, Unsignalled, CallTypes
    <2>2. Life /\ NobodyAnswers /\ ~Talking(c)'
      BY <1>7, <2>1, EndsAsLife DEF Ends
    <2>3. /\ waited' = [waited EXCEPT ![c] = 0] /\ live' = [live EXCEPT ![c] = 0]
          /\ age' = age
      BY <1>7 DEF Ends
    <2>4. waited' \in [Calls -> 0..TTL] /\ live' \in [Calls -> 0..(MaxCall + Drain)]
      BY <2>3, TaskAssumption DEF ClockTypes, TTL
    <2>5. CallTypes' /\ TaskTypes' /\ ClockTypes'
      BY <1>1, <2>2, <2>3, <2>4, Zenon DEF Life, TaskTypes, ClockTypes
    <2>6. ResultMeansOver' /\ FetchMeansOver' /\ SweptIsOld' /\ TaskTellsResult'
      BY <1>1, <2>2, <2>3, LifeKeepsResults, LifeKeepsFetch, LifeKeepsTold
         DEF SweptIsOld, Reports
    <2>7. ClocksAgree'
      <3> SUFFICES ASSUME NEW d \in Calls, d # c, Talking(d)
                   PROVE  age[d] <= waited'[d] + live'[d]
        BY <2>2, <2>3 DEF ClocksAgree, NobodyAnswers
      <3> QED BY <2>3 DEF ClocksAgree, ClockTypes
    <2> QED BY <2>5, <2>6, <2>7
  <1> QED BY <1>3, <1>4, <1>5, <1>6, <1>7 DEF Engine

LEMMA TickKeeps == TaskInv /\ Tick => TaskInv'
  <1> SUFFICES ASSUME TaskInv, Tick PROVE TaskInv'
    OBVIOUS
  <1> USE TaskAssumption DEF TaskInv
  <1>1. /\ UNCHANGED <<svars, signal, result, task, watcher, asked, attached, server,
                       closing, waited>>
        /\ \A c \in Calls : Talking(c) => live[c] < MaxCall + Drain
        /\ age' = [c \in Calls |-> IF task[c] = "working" /\ age[c] < TTL
                                   THEN age[c] + 1 ELSE age[c]]
        /\ live' = [c \in Calls |-> IF Talking(c) THEN live[c] + 1 ELSE live[c]]
    BY DEF Tick, Talking, taskVars, serverVars
  <1>2. Life /\ NobodyAnswers
    BY <1>1, SameLife DEF CallTypes
  <1>3. \A c \in Calls : age[c] \in 0..TTL /\ live[c] \in 0..(MaxCall + Drain)
                         /\ waited[c] \in 0..TTL
    BY DEF ClockTypes
  <1>4. age' \in [Calls -> 0..TTL] /\ live' \in [Calls -> 0..(MaxCall + Drain)]
    BY <1>1, <1>3 DEF TTL
  <1>5. CallTypes' /\ TaskTypes' /\ ClockTypes'
    BY <1>1, <1>2, <1>4, Zenon DEF Life, TaskTypes, ClockTypes
  <1>6. ResultMeansOver' /\ FetchMeansOver' /\ TaskTellsResult'
    BY <1>1, <1>2, LifeKeepsResults, LifeKeepsFetch, LifeKeepsTold DEF Reports
  <1>7. SweptIsOld'
    BY <1>1, <1>3 DEF SweptIsOld, TTL
  <1>8. ClocksAgree'
    <2> SUFFICES ASSUME NEW c \in Calls, Talking(c)
                 PROVE  age'[c] <= waited[c] + live'[c]
      BY <1>1, <1>2 DEF ClocksAgree, NobodyAnswers
    <2>1. age[c] <= waited[c] + live[c]
      BY DEF ClocksAgree
    <2>2. age'[c] <= age[c] + 1 /\ live'[c] = live[c] + 1
      BY <1>1, <1>3 DEF TTL
    <2>3. age[c] \in Nat /\ age'[c] \in Nat /\ live[c] \in Nat /\ waited[c] \in Nat
      BY <1>3, <1>4 DEF TTL
    <2> QED BY <2>1, <2>2, <2>3
  <1> QED BY <1>5, <1>6, <1>7, <1>8

LEMMA TeardownKeeps == TaskInv /\ Teardown => TaskInv'
  <1> SUFFICES ASSUME TaskInv, Teardown PROVE TaskInv'
    OBVIOUS
  <1> USE DEF TaskInv
  <1>1. CASE Close \/ Exit
    <2>1. UNCHANGED <<svars, signal, result, taskVars, clocks>>
          /\ server' \in {"up", "closing", "down"} /\ closing' \subseteq Calls
      BY <1>1 DEF Close, Exit, TaskTypes
    <2>2. Life /\ NobodyAnswers
      BY <2>1, SameLife DEF CallTypes
    <2> QED BY <2>1, <2>2, CallsMoveAlone DEF taskVars, clocks, TaskTypes
  <1>2. ASSUME NEW c \in Calls, CloseCall(c) PROVE TaskInv'
    <2>1. Life /\ NobodyAnswers
      BY <1>2, EndCallLife DEF CloseCall
    <2>2. closing' \subseteq Calls
      BY <1>2 DEF CloseCall, TaskTypes
    <2> QED BY <1>2, <2>1, <2>2, CallsMoveAlone DEF CloseCall, taskVars, clocks, TaskTypes
  <1> QED BY <1>1, <1>2 DEF Teardown

LEMMA InitTaskInv == Init => TaskInv
  <1> SUFFICES ASSUME Init PROVE TaskInv
    OBVIOUS
  <1> USE TaskAssumption DEF Init, ServiceInit
  <1>1. CallTypes
    BY DEF CallTypes, Phases
  <1>2. TaskTypes
    BY DEF TaskTypes, Statuses
  <1>3. ClockTypes
    BY DEF ClockTypes, TTL
  <1>4. ResultMeansOver /\ FetchMeansOver /\ SweptIsOld /\ ClocksAgree /\ TaskTellsResult
    BY DEF ResultMeansOver, FetchMeansOver, SweptIsOld, ClocksAgree, TaskTellsResult,
           IsOver, Talking
  <1> QED BY <1>1, <1>2, <1>3, <1>4 DEF TaskInv

LEMMA TaskInvariant == Spec => []TaskInv
  <1>1. TaskInv /\ [Next]_vars => TaskInv'
    <2> SUFFICES ASSUME TaskInv, [Next]_vars PROVE TaskInv'
      OBVIOUS
    <2>1. CASE UNCHANGED vars
      <3>1. Life /\ NobodyAnswers
        BY <2>1, SameLife DEF vars, TaskInv, CallTypes
      <3> QED BY <2>1, <3>1, CallsMoveAlone
              DEF vars, taskVars, clocks, serverVars, TaskInv, TaskTypes
    <2> QED BY <2>1, ToolsKeep, TasksKeep, EngineKeeps, TickKeeps, TeardownKeeps DEF Next
  <1> QED BY <1>1, InitTaskInv, PTL DEF Spec

-----------------------------------------------------------------------------
(* The variables of McpTask keep their types. *)
THEOREM TaskTypesHold == Spec => []TypeOK
  <1>1. TaskInv => TypeOK
    BY Zenon DEF TaskInv, CallTypes, TaskTypes, ClockTypes, Statuses, TypeOK
  <1> QED BY <1>1, TaskInvariant, PTL

(* mcp.rs:121-204: what a task reports is what its call came to, however   *)
(* end_call, tasks/cancel, the end of the call, its eviction from the      *)
(* history, the end of the session and the teardown interleave.            *)
THEOREM TasksTellResults == Spec => []TaskTellsResult
  <1>1. TaskInv => TaskTellsResult
    BY DEF TaskInv
  <1> QED BY <1>1, TaskInvariant, PTL

(* mcp.rs:286-291: a task is swept under a conversation only when the call *)
(* was answered late: for every deadline, drain and margin.                *)
THEOREM SweptOnlyAfterLongWait == Spec => []SweptAfterLongWait
  <1>1. TaskInv => SweptAfterLongWait
    <2> SUFFICES ASSUME TaskInv, NEW c \in Calls, task[c] = "swept", Talking(c)
                 PROVE  waited[c] + Drain >= Margin
      BY DEF SweptAfterLongWait, Talking
    <2>1. age[c] \in Nat /\ waited[c] \in Nat /\ live[c] \in 0..(MaxCall + Drain)
      BY TaskAssumption DEF TaskInv, ClockTypes, TTL
    <2>2. age[c] >= MaxCall + Margin /\ age[c] <= waited[c] + live[c]
      BY DEF TaskInv, SweptIsOld, ClocksAgree, TTL
    <2> QED BY <2>1, <2>2, TaskAssumption
  <1> QED BY <1>1, TaskInvariant, PTL
=============================================================================
