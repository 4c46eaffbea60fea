------------------------------- MODULE McpTask ------------------------------
(***************************************************************************)
(* place_call as an MCP task (src/src/mcp.rs): the tool handlers of        *)
(* KutsuServer, the future that watches the store for the end of the call, *)
(* cancellation, and the teardown of the server (run_mcp of                *)
(* src/src/main.rs).  The engine is its abstraction CallService, which     *)
(* CallEngine implements; on top of it stand the cancel sender of the      *)
(* attempt, the recorded result and the order in which the bounded history *)
(* loses records (src/src/state.rs).  TaskManager is rmcp's: it keeps the  *)
(* status of a task, asks its future to stop, and aborts the future of a   *)
(* task that is older than its TTL.                                        *)
(*                                                                         *)
(* One tick is 10 s.  Calls are numbered as Enqueuer::seq numbers them.    *)
(* The second between two status messages and the 200 ms between two polls *)
(* are shorter than a tick: a watcher may poll at any time.                *)
(***************************************************************************)
EXTENDS CallService

CONSTANTS
    TaskCalls,      \* the calls whose client declares the tasks capability
    MaxHistory,     \* max_call_history
    MaxCall,        \* max_call_secs, in ticks
    Drain,          \* cap of what a call does after its deadline, in ticks
    Margin          \* the 30 s added to the TTL, in ticks

ASSUME TaskAssumption ==
    /\ Calls \subseteq Nat /\ TaskCalls \subseteq Calls
    /\ {MaxAttempts, MaxHistory, MaxCall, Drain, Margin} \subseteq Nat
    /\ MaxHistory > 0

VARIABLES
    signal,     \* end_call has fired the cancel sender of the live attempt
    result,     \* recorded result of each call, kept as history
    task,       \* status of each call's task, as the client sees it
    watcher,    \* control point of the task's future
    asked,      \* tasks/cancel was received
    attached,   \* the session, and with it its TaskManager, is there
    age,        \* ticks since the task was created, up to the TTL; 0 once settled
    waited,     \* its age when the call was answered, while the call lasts
    live,       \* ticks since the call was answered, while it lasts
    server,     \* "up", "closing" or "down"
    closing     \* calls the teardown has yet to end

clocks == <<age, waited, live>>
taskVars == <<task, watcher, asked, attached>>
serverVars == <<server, closing>>
vars == <<svars, signal, result, taskVars, clocks, serverVars>>

(* Dispositions by what task_result_for makes of them: "answered" stands   *)
(* for Completed and the four answering-machine ones, "failure" for the    *)
(* dial and technical failures.                                            *)
Results == {"answered", "failure", "cancelled"}

TTLNoMargin == MaxCall                  \* mutant: the call deadline alone

(* engine.max_call_secs() * 1000 + 30_000 *)
TTL == MaxCall + Margin

Known(c) == phase[c] \notin {"unknown", "forgotten"}

Init ==
    /\ ServiceInit
    /\ signal = [c \in Calls |-> FALSE]
    /\ result = [c \in Calls |-> "none"]
    /\ task = [c \in Calls |-> "none"]
    /\ watcher = [c \in Calls |-> "none"]
    /\ asked = [c \in Calls |-> FALSE]
    /\ attached = TRUE
    /\ age = [c \in Calls |-> 0]
    /\ waited = [c \in Calls |-> 0]
    /\ live = [c \in Calls |-> 0]
    /\ server = "up" /\ closing = {}

-----------------------------------------------------------------------------
(* The end of a call: the result is recorded and the history brought back  *)
(* to its cap, the lowest call numbers first, the one that has just ended  *)
(* not excepted.                                                           *)

Evicted(c) ==
    LET over == {c} \cup {d \in Calls : phase[d] = "ended"} IN
    {d \in over : Cardinality({e \in over : e > d}) >= MaxHistory}

EndsAs(c, r) ==
    /\ End(c)
    /\ {d \in Calls : phase'[d] = "forgotten" /\ phase[d] # "forgotten"} = Evicted(c)
    /\ result' = [result EXCEPT ![c] = r]

(* Engine::end_call: a call in the queue ends at once, a live attempt is   *)
(* signalled, any other call is left alone.                                *)
EndCall(c) ==
    IF phase[c] = "queued" /\ driver[c] = 0
    THEN EndsAs(c, "cancelled") /\ UNCHANGED signal
    ELSE /\ signal' = [signal EXCEPT ![c] = @ \/ driver[c] # 0]
         /\ UNCHANGED <<svars, result>>

-----------------------------------------------------------------------------
(* The tools.                                                              *)

(* place_call: a plain client and a scheduled call get their call id, a    *)
(* client with tasks gets a task, once the call has been placed.           *)
PlaceCall(c, scheduled) ==
    /\ attached
    /\ \A d \in Calls : d < c => phase[d] # "unknown"
    /\ Place(c)
    /\ task' = [task EXCEPT ![c] = IF c \in TaskCalls /\ ~scheduled THEN "placing" ELSE @]
    /\ UNCHANGED <<signal, result, watcher, asked, attached, clocks, serverVars>>

SpawnTask(c) ==
    /\ task[c] = "placing" /\ attached
    /\ task' = [task EXCEPT ![c] = "working"]
    /\ watcher' = [watcher EXCEPT ![c] = "select"]
    /\ UNCHANGED <<svars, signal, result, asked, attached, clocks, serverVars>>

(* end_call: an id the store does not know is refused. *)
EndCallTool(c) ==
    /\ attached /\ Known(c)
    /\ EndCall(c)
    /\ UNCHANGED <<taskVars, clocks, serverVars>>

CancelTask(c) ==
    /\ attached /\ task[c] = "working"
    /\ asked' = [asked EXCEPT ![c] = TRUE]
    /\ UNCHANGED <<svars, signal, result, task, watcher, attached, clocks, serverVars>>

Tools ==
    /\ server = "up"
    /\ \E c \in Calls :
          \/ \E scheduled \in BOOLEAN : PlaceCall(c, scheduled)
          \/ SpawnTask(c) \/ EndCallTool(c) \/ CancelTask(c)

-----------------------------------------------------------------------------
(* The task's future, and its TaskManager.                                 *)

(* The future is over; a TaskManager that is still there keeps its status. *)
Settles(c, status) ==
    /\ watcher' = [watcher EXCEPT ![c] = "done"]
    /\ task' = [task EXCEPT ![c] = IF @ = "working" THEN status ELSE @]
    /\ age' = [age EXCEPT ![c] = IF status = "swept" THEN @ ELSE 0]
    /\ UNCHANGED <<asked, attached, waited, live, serverVars>>

(* watch_call_to_terminal: the store has the record, and it has ended. *)
WatchSees(c) ==
    /\ watcher[c] = "select" /\ phase[c] = "ended"
    /\ watcher' = [watcher EXCEPT ![c] = "fetch"]
    /\ UNCHANGED <<svars, signal, result, task, asked, attached, clocks, serverVars>>

(* ctx.cancelled(): the call is ended and the task settles as cancelled. *)
WatchCancelled(c) ==
    /\ watcher[c] = "select" /\ asked[c]
    /\ EndCall(c)
    /\ Settles(c, "cancelled")

TaskResultIgnoresCancel(c) ==           \* mutant: a cancelled call succeeds
    IF phase[c] # "ended" \/ result[c] = "failure" THEN "failed" ELSE "completed"

(* task_result_for(store.get(..)): the record may be gone by now. *)
TaskResult(c) ==
    IF phase[c] # "ended" \/ result[c] = "failure" THEN "failed"
    ELSE IF result[c] = "cancelled" THEN "cancelled" ELSE "completed"

WatchFetches(c) ==
    /\ watcher[c] = "fetch"
    /\ Settles(c, TaskResult(c))
    /\ UNCHANGED <<svars, signal, result>>

SweptNever(c) == FALSE /\ UNCHANGED vars \* mutant: no TTL is set

Swept(c) ==
    /\ attached /\ task[c] = "working" /\ age[c] >= TTL
    /\ Settles(c, "swept")
    /\ UNCHANGED <<svars, signal, result>>

(* The session ends and takes the TaskManager along; futures are detached. *)
SessionEnds ==
    /\ attached
    /\ attached' = FALSE
    /\ task' = [c \in Calls |-> IF task[c] \in {"placing", "working"} THEN "lost"
                                ELSE task[c]]
    /\ age' = [c \in Calls |-> IF task'[c] = "lost" THEN 0 ELSE age[c]]
    /\ UNCHANGED <<svars, signal, result, watcher, asked, waited, live, serverVars>>

Tasks ==
    \/ \E c \in Calls :
          WatchSees(c) \/ WatchCancelled(c) \/ WatchFetches(c) \/ Swept(c)
    \/ SessionEnds

-----------------------------------------------------------------------------
(* The engine, as its callers see it.                                      *)

(* A task that ends, hands over or unwinds takes its cancel receiver along.*)
Unsignalled(c) == signal' = [signal EXCEPT ![c] = FALSE]

Dials(c) == Dial(c) /\ UNCHANGED <<signal, result, clocks>>
Rings(c) == Ring(c) /\ UNCHANGED <<signal, result, clocks>>

Answers(c) ==
    /\ Answer(c)
    /\ waited' = [waited EXCEPT ![c] = age[c]]
    /\ UNCHANGED <<signal, result, age, live>>

SendsBack(c) == SendBack(c) /\ UNCHANGED <<signal, result, clocks>>
HandsOver(c) == HandOver(c) /\ Unsignalled(c) /\ UNCHANGED <<result, clocks>>
Unwinds(c) == Abandon(c) /\ Unsignalled(c) /\ UNCHANGED <<result, clocks>>
Releases(c, a) == Release(c, a) /\ UNCHANGED <<signal, result, clocks>>

(* A live attempt ends its call: cancelled when it reads the signal, which *)
(* it does not while the phone rings; with a conversation when there was   *)
(* an answer.                                                              *)
Ends(c, r) ==
    /\ driver[c] # 0
    /\ r = "cancelled" => signal[c] /\ phase[c] # "ringing"
    /\ r = "answered" => phase[c] = "in_progress"
    /\ EndsAs(c, r)
    /\ Unsignalled(c)
    /\ waited' = [waited EXCEPT ![c] = 0]
    /\ live' = [live EXCEPT ![c] = 0]
    /\ UNCHANGED age

Engine ==
    /\ \E c \in Calls :
          \/ Dials(c) \/ Rings(c) \/ Answers(c) \/ SendsBack(c) \/ HandsOver(c)
          \/ Unwinds(c)
          \/ \E a \in 1..MaxAttempts : Releases(c, a)
          \/ \E r \in Results : Ends(c, r)
    /\ UNCHANGED <<taskVars, serverVars>>

(* A conversation that is driven ends by its deadline and what follows it. *)
Tick ==
    /\ \A c \in Calls : phase[c] = "in_progress" /\ driver[c] # 0 =>
          live[c] < MaxCall + Drain
    /\ age' = [c \in Calls |-> IF task[c] = "working" /\ age[c] < TTL
                               THEN age[c] + 1 ELSE age[c]]
    /\ live' = [c \in Calls |-> IF phase[c] = "in_progress" /\ driver[c] # 0
                                THEN live[c] + 1 ELSE live[c]]
    /\ UNCHANGED <<svars, signal, result, taskVars, waited, serverVars>>

-----------------------------------------------------------------------------
(* run_mcp after its transport has closed: every record is ended, 300 ms   *)
(* later the process exits.                                                *)

Close ==
    /\ server = "up" /\ ~attached
    /\ server' = "closing"
    /\ closing' = {c \in Calls : Known(c)}
    /\ UNCHANGED <<svars, signal, result, taskVars, clocks>>

CloseCall(c) ==
    /\ c \in closing
    /\ closing' = closing \ {c}
    /\ EndCall(c)
    /\ UNCHANGED <<taskVars, clocks, server>>

Exit ==
    /\ server = "closing" /\ closing = {}
    /\ server' = "down"
    /\ UNCHANGED <<svars, signal, result, taskVars, clocks, closing>>

Teardown == Close \/ (\E c \in Calls : CloseCall(c)) \/ Exit

Next ==
    /\ server # "down"
    /\ Tools \/ Tasks \/ Engine \/ Tick \/ Teardown

Spec == Init /\ [][Next]_vars

(* Time passes, a conversation past its deadline ends, a future that can   *)
(* go on is polled, rmcp sweeps.  Nothing is said of the callee or the     *)
(* client.                                                                 *)
TimePasses == server # "down" /\ Tick
SweepComes(c) == server # "down" /\ Swept(c)
PollComes(c) == server # "down" /\ (WatchSees(c) \/ WatchFetches(c) \/ WatchCancelled(c))
TalkEnds(c) ==
    phase[c] = "in_progress" /\ driver[c] # 0 /\ Engine /\ phase'[c] \in {"ended", "forgotten"}

FairSpec ==
    /\ Spec
    /\ WF_vars(TimePasses)
    /\ \A c \in Calls : WF_vars(SweepComes(c)) /\ WF_vars(PollComes(c)) /\ WF_vars(TalkEnds(c))

-----------------------------------------------------------------------------
TypeOK ==
    /\ phase \in [Calls -> Phases]
    /\ tries \in [Calls -> 0..MaxAttempts] /\ driver \in [Calls -> 0..MaxAttempts]
    /\ channels \subseteq Calls \X (1..MaxAttempts)
    /\ signal \in [Calls -> BOOLEAN] /\ asked \in [Calls -> BOOLEAN]
    /\ result \in [Calls -> Results \cup {"none"}]
    /\ task \in [Calls -> {"none", "placing", "working", "completed", "failed",
                           "cancelled", "swept", "lost"}]
    /\ watcher \in [Calls -> {"none", "select", "fetch", "done"}]
    /\ attached \in BOOLEAN
    /\ age \in [Calls -> 0..TTL] /\ waited \in [Calls -> 0..TTL]
    /\ live \in [Calls -> 0..(MaxCall + Drain)]
    /\ server \in {"up", "closing", "down"} /\ closing \subseteq Calls

(* mcp.rs:121-204: what a task reports is what its call came to.  A client *)
(* that reads completed had its call answered; cancelled was asked for, by *)
(* it or by end_call; failed is a failure, or a record that the history    *)
(* lost between the watcher's look and its fetch.                          *)
TaskTellsResult ==
    \A c \in Calls :
        /\ task[c] = "completed" => result[c] = "answered"
        /\ task[c] = "cancelled" => asked[c] \/ result[c] = "cancelled"
        /\ task[c] = "failed" => result[c] = "failure" \/ phase[c] = "forgotten"

(* mcp.rs:286-291: the TTL is made for a conversation of full length.  A   *)
(* task is swept under a conversation only when the call was answered so   *)
(* long after the task's creation that what is left of the margin is not   *)
(* enough for the teardown.                                                *)
SweptAfterLongWait ==
    \A c \in Calls :
        task[c] = "swept" /\ phase[c] = "in_progress" /\ driver[c] # 0 =>
            waited[c] + Drain >= Margin

(* mcp.rs:121 and :291: whatever becomes of the call - a ring without end, *)
(* a task that unwound, a record that was evicted unseen - a client that   *)
(* polls its task does not poll for ever.                                  *)
TaskSettles ==
    \A c \in TaskCalls :
        task[c] = "working" ~> (task[c] # "working" \/ server = "down")
=============================================================================
