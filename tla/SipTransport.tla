---------------------------- MODULE SipTransport ----------------------------
(***************************************************************************)
(* The SIP transport (src/src/sip/mod.rs) and the loop that drives one     *)
(* call on its thread (src/src/sip/call.rs).  Callers talk to the thread   *)
(* through a command channel, and to a call through the channels of its    *)
(* SipCall handle: events, the oneshot reply, the oneshot hangup.  A call  *)
(* stands for one place_call.  The ezk stack below is external: what it    *)
(* returns is a choice among the results the code tells apart.             *)
(***************************************************************************)
EXTENDS Disposition, Sequences, FiniteSets

CONSTANTS
    Calls,          \* the place_calls that may be made
    Register,       \* cfg.register: the trunk wants a REGISTER binding
    CmdRoom,        \* capacity of the command channel, 16 in the code
    Statuses        \* final statuses the far end may refuse with

ShutdownCmd == "shutdown"

ASSUME SipAssumption ==
    /\ ShutdownCmd \notin Calls
    /\ Register \in BOOLEAN
    /\ CmdRoom \in Nat \ {0}
    /\ Statuses \subseteq Nat

VARIABLES
    thread,         \* the runtime thread: binding, registering, serving, down
    registered,     \* whether the REGISTER binding is held
    ready,          \* what SipTransport::new was told: "none", "ok", "failed"
    cmds,           \* the command channel
    active,         \* the counter of active calls
    task,           \* run_call of each call
    reply,          \* the oneshot that place_call waits on
    events,         \* the SipEvent channel of each call
    hup,            \* the hangup oneshot of each call
    rtp,            \* the RTP ends that media negotiation produced
    picked          \* whether the callee picked up (200 OK to the INVITE)

sipVars == <<thread, registered, ready, cmds, active, task, reply, events, hup, rtp, picked>>

Shutdowns == {i \in 1..Len(cmds) : cmds[i] = ShutdownCmd}

(* SipEvent: Answered, and Terminated with its reason.                     *)
Reasons == {"remote_hangup", "local_hangup"} \cup Outcomes
Terminated(reason) == [kind |-> "terminated", reason |-> reason]
AnsweredEvent == [kind |-> "answered", reason |-> None]

(* SipError, as the caller of place_call can receive it.                   *)
Errors == {"runtime_gone", "invite", "not_answered", "media"}

(* making: OutboundCall::make; ringing: wait_for_completion; acking:       *)
(* finish; media: waiting for the RTP ends; up: the main loop; leaving:    *)
(* terminate() after a hangup; closing: after the media deadline.          *)
LiveStages == {"making", "ringing", "acking", "media", "up", "leaving", "closing"}
Live == {c \in Calls : task[c] \in LiveStages}

SipTypeOK ==
    /\ thread \in {"binding", "registering", "serving", "down"}
    /\ registered \in BOOLEAN
    /\ ready \in {"none", "ok", "failed"}
    /\ cmds \in Seq(Calls \cup {ShutdownCmd}) /\ Len(cmds) <= CmdRoom
    /\ active \in Nat
    /\ task \in [Calls -> LiveStages \cup {"none", "dead"}]
    /\ reply \in [Calls -> Errors \cup {"none", "pending", "handle", "taken", "unwanted"}]
    /\ hup \in [Calls -> {"none", "armed", "fired", "dropped"}]
    /\ rtp \in [Calls -> SUBSET {"sender", "receiver"}]
    /\ picked \in [Calls -> BOOLEAN]
    /\ \A c \in Calls :
          \* at most Answered and one Terminated, in this order
          /\ Len(events[c]) <= 2
          /\ \A i \in 1..Len(events[c]) :
                events[c][i].kind = "answered" => i = 1

SipInit ==
    /\ thread = "binding"
    /\ registered = FALSE
    /\ ready = "none"
    /\ cmds = <<>>
    /\ active = 0
    /\ task = [c \in Calls |-> "none"]
    /\ reply = [c \in Calls |-> "none"]
    /\ events = [c \in Calls |-> <<>>]
    /\ hup = [c \in Calls |-> "none"]
    /\ rtp = [c \in Calls |-> {}]
    /\ picked = [c \in Calls |-> FALSE]

callVars == <<cmds, active, task, reply, events, hup, rtp, picked>>

(***************************************************************************)
(* The thread: bind, register, then serve commands.                        *)
(***************************************************************************)
StartFails ==
    /\ thread \in {"binding", "registering"}
    /\ thread' = "down"
    /\ ready' = "failed"
    /\ UNCHANGED <<registered, callVars>>

Serves ==
    /\ \/ thread = "binding" /\ ~Register /\ registered' = registered
       \/ thread = "registering" /\ registered' = TRUE
    /\ thread' = "serving"
    /\ ready' = "ok"
    /\ UNCHANGED callVars

Binds ==
    /\ thread = "binding" /\ Register
    /\ thread' = "registering"
    /\ UNCHANGED <<registered, ready, callVars>>

ServePlace ==
    /\ thread = "serving" /\ cmds # <<>> /\ Head(cmds) # ShutdownCmd
    /\ cmds' = Tail(cmds)
    /\ active' = active + 1
    /\ task' = [task EXCEPT ![Head(cmds)] = "making"]
    /\ UNCHANGED <<thread, registered, ready, reply, events, hup, rtp, picked>>

(* The loop breaks: the registration is dropped, and with the LocalSet the *)
(* tasks and with the receiver the commands that are still queued.         *)
ServeShutdownKeepsQueue ==          \* mutant: queued replies stay open
    /\ thread = "serving" /\ cmds # <<>> /\ Head(cmds) = ShutdownCmd
    /\ thread' = "down"
    /\ registered' = FALSE
    /\ cmds' = <<>>
    /\ task' = [c \in Calls |-> IF c \in Live THEN "dead" ELSE task[c]]
    /\ UNCHANGED <<ready, active, reply, events, hup, rtp, picked>>

ServeShutdown ==
    /\ thread = "serving" /\ cmds # <<>> /\ Head(cmds) = ShutdownCmd
    /\ thread' = "down"
    /\ registered' = FALSE
    /\ cmds' = <<>>
    /\ task' = [c \in Calls |-> IF c \in Live THEN "dead" ELSE task[c]]
    /\ reply' = [c \in Calls |-> IF reply[c] = "pending" THEN "runtime_gone" ELSE reply[c]]
    /\ UNCHANGED <<ready, active, events, hup, rtp, picked>>

(***************************************************************************)
(* run_call on the thread.                                                 *)
(***************************************************************************)
threadVars == <<thread, registered, ready, cmds>>

(* The task returns: its ends of the channels go, the counter goes down.   *)
Returns(c) ==
    /\ task' = [task EXCEPT ![c] = "dead"]
    /\ active' = active - 1

Says(c, event) == events' = [events EXCEPT ![c] = Append(@, event)]

(* build_media or OutboundCall::make fails; a caller that has gone does    *)
(* not receive the error.                                                  *)
MakeFails(c, error) ==
    /\ task[c] = "making"
    /\ reply' = [reply EXCEPT ![c] = IF @ = "pending" THEN error ELSE @]
    /\ Returns(c)
    /\ UNCHANGED <<threadVars, events, hup, rtp, picked>>

(* The dialog is established: the caller gets its handle, or, if it has    *)
(* gone, the INVITE is cancelled.                                          *)
Made(c) ==
    /\ task[c] = "making"
    /\ \/ /\ reply[c] = "pending"
          /\ reply' = [reply EXCEPT ![c] = "handle"]
          /\ hup' = [hup EXCEPT ![c] = "armed"]
          /\ task' = [task EXCEPT ![c] = "ringing"]
          /\ UNCHANGED active
       \/ /\ reply[c] = "unwanted"
          /\ Returns(c)
          /\ UNCHANGED <<reply, hup>>
    /\ UNCHANGED <<threadVars, events, rtp, picked>>

(* classify_completion_err: a final status, the transaction timeout, or    *)
(* any other failure.                                                      *)
CompletionOutcomes == {OutcomeFromStatus(s) : s \in Statuses} \cup {"no_answer", "failed"}

RingFails(c, outcome) ==
    /\ task[c] = "ringing"
    /\ Says(c, Terminated(outcome))
    /\ Returns(c)
    /\ UNCHANGED <<threadVars, reply, hup, rtp, picked>>

PicksUp(c) ==
    /\ task[c] = "ringing"
    /\ picked' = [picked EXCEPT ![c] = TRUE]
    /\ task' = [task EXCEPT ![c] = "acking"]
    /\ UNCHANGED <<threadVars, active, reply, events, hup, rtp>>

Finishes(c) ==
    /\ task[c] = "acking"
    /\ task' = [task EXCEPT ![c] = "media"]
    /\ UNCHANGED <<threadVars, active, reply, events, hup, rtp, picked>>

(* After the 200 OK: finish fails, the call loop reports an error, or one  *)
(* of its events cannot be handled.  What finish returns is classified     *)
(* like a failed INVITE, but it acknowledges a success: no refusal.        *)
BreaksAsBusy(c) ==                  \* mutant: a refusal's outcome is reused
    /\ task[c] \in {"acking", "media", "up"}
    /\ Says(c, Terminated("busy"))
    /\ Returns(c)
    /\ UNCHANGED <<threadVars, reply, hup, rtp, picked>>

Breaks(c) ==
    /\ task[c] \in {"acking", "media", "up"}
    /\ \/ Says(c, Terminated("failed"))
       \/ task[c] = "acking" /\ Says(c, Terminated("no_answer"))
    /\ Returns(c)
    /\ UNCHANGED <<threadVars, reply, hup, rtp, picked>>

(* SenderAdded, ReceiverAdded, in either order; the second one makes the   *)
(* call answered.  A repeated one replaces what was there.                 *)
Negotiates(c, end) ==
    /\ task[c] = "media" /\ end \notin rtp[c]
    /\ rtp' = [rtp EXCEPT ![c] = @ \cup {end}]
    /\ IF rtp'[c] = {"sender", "receiver"}
       THEN task' = [task EXCEPT ![c] = "up"] /\ Says(c, AnsweredEvent)
       ELSE UNCHANGED <<task, events>>
    /\ UNCHANGED <<threadVars, active, reply, hup, picked>>

(* The ten seconds for the media elapse: Terminated is sent first, the BYE *)
(* after it.                                                               *)
MediaDeadline(c) ==
    /\ task[c] = "media"
    /\ Says(c, Terminated("failed"))
    /\ task' = [task EXCEPT ![c] = "closing"]
    /\ UNCHANGED <<threadVars, active, reply, hup, rtp, picked>>

Closed(c) ==
    /\ task[c] = "closing"
    /\ Returns(c)
    /\ UNCHANGED <<threadVars, reply, events, hup, rtp, picked>>

RemoteHangup(c) ==
    /\ task[c] \in {"media", "up"}
    /\ Says(c, Terminated("remote_hangup"))
    /\ Returns(c)
    /\ UNCHANGED <<threadVars, reply, hup, rtp, picked>>

(* The main loop alone hears the hangup; a sender that was dropped unused  *)
(* resolves the oneshot as well.                                           *)
HearsHangupSent(c) ==               \* mutant: a dropped sender is not heard
    /\ task[c] = "up" /\ hup[c] = "fired"
    /\ task' = [task EXCEPT ![c] = "leaving"]
    /\ UNCHANGED <<threadVars, active, reply, events, hup, rtp, picked>>

HearsHangup(c) ==
    /\ task[c] = "up" /\ hup[c] \in {"fired", "dropped"}
    /\ task' = [task EXCEPT ![c] = "leaving"]
    /\ UNCHANGED <<threadVars, active, reply, events, hup, rtp, picked>>

Leaves(c) ==
    /\ task[c] = "leaving"
    /\ Says(c, Terminated("local_hangup"))
    /\ Returns(c)
    /\ UNCHANGED <<threadVars, reply, hup, rtp, picked>>

SipStart == StartFails \/ Binds \/ Serves
SipServe == ServePlace \/ ServeShutdown
SipMakes(c) == Made(c) \/ \E error \in {"invite", "not_answered", "media"} : MakeFails(c, error)
SipRings(c) == PicksUp(c) \/ \E outcome \in CompletionOutcomes : RingFails(c, outcome)
SipNegotiates(c) ==
    \/ Finishes(c) \/ MediaDeadline(c)
    \/ \E end \in {"sender", "receiver"} : Negotiates(c, end)
SipLeaves(c) == HearsHangup(c) \/ Leaves(c) \/ Closed(c)
SipTask(c) == SipMakes(c) \/ SipRings(c) \/ SipNegotiates(c) \/ SipLeaves(c)
SipDrops(c) == Breaks(c) \/ RemoteHangup(c)

SipNext ==
    \/ SipStart \/ SipServe
    \/ \E c \in Calls : SipTask(c) \/ SipDrops(c)

(***************************************************************************)
(* What a caller can do.                                                   *)
(***************************************************************************)
handleVars == <<thread, registered, ready, active, task, rtp, picked>>

(* place_call sends the command: at once an error when the thread is down. *)
Place(c) ==
    /\ ready = "ok" /\ reply[c] = "none"
    /\ \/ /\ thread = "down"
          /\ reply' = [reply EXCEPT ![c] = "runtime_gone"]
          /\ UNCHANGED cmds
       \/ /\ thread # "down" /\ Len(cmds) < CmdRoom
          /\ reply' = [reply EXCEPT ![c] = "pending"]
          /\ cmds' = Append(cmds, c)
    /\ UNCHANGED <<handleVars, events, hup>>

PlaceReturns(c) ==
    /\ reply[c] \in Errors \cup {"handle"}
    /\ reply' = [reply EXCEPT ![c] = "taken"]
    /\ UNCHANGED <<handleVars, cmds, events, hup>>

(* The caller's task goes, with the reply's receiver or with the handle: a *)
(* handle in an unread reply goes with it.                                 *)
Abandon(c) ==
    /\ reply[c] # "none"
    /\ reply' = [reply EXCEPT ![c] = IF @ = "taken" THEN @ ELSE "unwanted"]
    /\ hup' = [hup EXCEPT ![c] = IF @ = "armed" THEN "dropped" ELSE @]
    /\ UNCHANGED <<handleVars, cmds, events>>

HangUp(c) ==
    /\ hup' = [hup EXCEPT ![c] = "fired"]
    /\ UNCHANGED <<handleVars, cmds, reply, events>>

TakeEvent(c) ==
    /\ events[c] # <<>>
    /\ events' = [events EXCEPT ![c] = Tail(@)]
    /\ UNCHANGED <<handleVars, cmds, reply, hup>>

(* recv() is None: every event is read and the task is gone.               *)
EventsClosed(c) == events[c] = <<>> /\ task[c] = "dead"

Shutdown ==
    /\ ready = "ok" /\ Shutdowns = {} /\ thread # "down"
    /\ Len(cmds) < CmdRoom
    /\ cmds' = Append(cmds, ShutdownCmd)
    /\ UNCHANGED <<handleVars, reply, events, hup>>

(***************************************************************************)
(* Fairness: the thread serves, its tasks run, and the stack below answers *)
(* (RequestTimedOut ends an INVITE nobody answers).  That a ringing phone  *)
(* is picked up or refused some day is up to the far end.                  *)
(***************************************************************************)
SipFairness ==
    /\ WF_sipVars(SipStart \/ SipServe)
    /\ \A c \in Calls : WF_sipVars(SipTask(c))
=============================================================================
