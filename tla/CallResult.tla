----------------------------- MODULE CallResult -----------------------------
(***************************************************************************)
(* How a call comes by its result: run_call of the engine                  *)
(* (src/src/engine.rs) as the caller of the SIP transport, from the        *)
(* preflight to finalize_call.  One attempt per call; the media session is *)
(* the result it may end with (CallSession details it).                    *)
(***************************************************************************)
EXTENDS SipTransport

CONSTANT
    SessionResults      \* per call, the <<amd, shape>> its session may end with

Shape == [answered : {TRUE}, duration : Nat, transcript : Nat, endedBy : EndedBy]

ASSUME ResultAssumption ==
    \A c \in Calls : SessionResults[c] \subseteq AmdVerdicts \X Shape

VARIABLES
    stage,      \* where run_call of each call is
    result      \* what was recorded: a set, empty while in flight

vars == <<sipVars, stage, result>>

Stages == {"pending", "placing", "ring", "session", "over", "requeued", "unwound"}

TypeOK ==
    /\ SipTypeOK
    /\ stage \in [Calls -> Stages]
    /\ \A c \in Calls :
          /\ Cardinality(result[c]) = IF stage[c] = "over" THEN 1 ELSE 0
          /\ \A r \in result[c] : r.as \in Dispositions

Init ==
    /\ SipInit
    /\ stage = [c \in Calls |-> "pending"]
    /\ result = [c \in Calls |-> {}]

(* finalize_call: the disposition, with what it was resolved from.         *)
Finalizes(c, isCancelled, amd, sip, shape) ==
    /\ stage' = [stage EXCEPT ![c] = "over"]
    /\ result' = [result EXCEPT ![c] =
                     @ \cup {[as |-> Resolve(isCancelled, amd, sip, shape),
                              cancelled |-> isCancelled, amd |-> amd, shape |-> shape]}]

(* end_call finds the call in the queue, or reaches it in its preflight.   *)
CancelledBeforeDial(c, shape) ==
    /\ ready = "ok" /\ stage[c] = "pending"
    /\ Finalizes(c, TRUE, None, None, shape)
    /\ UNCHANGED sipVars

PreflightFails(c) ==
    /\ ready = "ok" /\ stage[c] = "pending"
    /\ Finalizes(c, FALSE, None, None, UnansweredShape)
    /\ UNCHANGED sipVars

Dials(c) ==
    /\ stage[c] = "pending"
    /\ stage' = [stage EXCEPT ![c] = "placing"]
    /\ Place(c)
    /\ UNCHANGED result

DialFails(c) ==
    /\ stage[c] = "placing"
    /\ reply[c] \in Errors
    /\ PlaceReturns(c)
    /\ Finalizes(c, FALSE, None, None, UnansweredShape)

Rings(c) ==
    /\ stage[c] = "placing"
    /\ reply[c] = "handle"
    /\ PlaceReturns(c)
    /\ stage' = [stage EXCEPT ![c] = "ring"]
    /\ UNCHANGED result

(* The other ends of the call's channels go with run_call.                 *)
LetsGo(c) == hup' = [hup EXCEPT ![c] = IF @ = "armed" THEN "dropped" ELSE @]

Takes(c) == events' = [events EXCEPT ![c] = Tail(@)]

(* ring_wait: Answered starts the session.                                 *)
RingAnswered(c) ==
    /\ stage[c] = "ring"
    /\ events[c] # <<>> /\ Head(events[c]).kind = "answered"
    /\ TakeEvent(c)
    /\ stage' = [stage EXCEPT ![c] = "session"]
    /\ UNCHANGED result

(* A hangup before the answer is effectively no answer.                    *)
OutcomeOf(reason) ==
    IF reason \in {"remote_hangup", "local_hangup"} THEN "no_answer" ELSE reason

(* Busy may be retried: the record goes back to the queue.                 *)
RingTerminated(c) ==
    /\ stage[c] = "ring"
    /\ events[c] # <<>> /\ Head(events[c]).kind = "terminated"
    /\ Takes(c) /\ LetsGo(c)
    /\ LET outcome == OutcomeOf(Head(events[c]).reason) IN
          \/ Finalizes(c, FALSE, None, outcome, UnansweredShape)
          \/ /\ outcome = "busy"
             /\ stage' = [stage EXCEPT ![c] = "requeued"]
             /\ UNCHANGED result
    /\ UNCHANGED <<handleVars, cmds, reply>>

RingClosed(c) ==
    /\ stage[c] = "ring"
    /\ EventsClosed(c)
    /\ LetsGo(c)
    /\ Finalizes(c, FALSE, None, None, UnansweredShape)
    /\ UNCHANGED <<handleVars, cmds, reply, events>>

(* The session takes the events of its leg as they come, and may end for   *)
(* any reason; its teardown hangs the leg up.                              *)
SessionHears(c) ==
    /\ stage[c] = "session"
    /\ TakeEvent(c)
    /\ UNCHANGED <<stage, result>>

SessionEnds(c) ==
    /\ stage[c] = "session"
    /\ HangUp(c)
    /\ \E isCancelled \in BOOLEAN, r \in SessionResults[c] :
          Finalizes(c, isCancelled, r[1], None, r[2])

(* The task panics, or its runtime goes away.                              *)
Unwinds(c) ==
    /\ stage[c] \in {"placing", "ring", "session"}
    /\ Abandon(c)
    /\ stage' = [stage EXCEPT ![c] = "unwound"]
    /\ UNCHANGED result

PlaceOver(c) == DialFails(c) \/ Rings(c)
RingOver(c) == RingAnswered(c) \/ RingTerminated(c) \/ RingClosed(c)
RunCall(c) ==
    \/ \E shape \in {PendingShape, UnansweredShape} : CancelledBeforeDial(c, shape)
    \/ PreflightFails(c) \/ Dials(c)
    \/ PlaceOver(c) \/ RingOver(c) \/ SessionHears(c) \/ SessionEnds(c) \/ Unwinds(c)

Next ==
    \/ SipNext /\ UNCHANGED <<stage, result>>
    \/ Shutdown /\ UNCHANGED <<stage, result>>
    \/ \E c \in Calls : RunCall(c)

Spec == Init /\ [][Next]_vars

(* CallSession shows that a session ends.                                  *)
FairSpec ==
    /\ Spec /\ SipFairness
    /\ \A c \in Calls : WF_vars(PlaceOver(c) \/ RingOver(c) \/ SessionEnds(c))

-----------------------------------------------------------------------------
(* "completed" is never claimed without evidence of a conversation: the    *)
(* callee picked up, nobody cancelled the call, and either the model saw a *)
(* live callee or something was transcribed and no machine was recognised; *)
(* and an error of our own never passes for a carrier announcement         *)
(* (resolve_disposition over what the SIP leg and the session report).     *)
ResultHasEvidence ==
    \A c \in Calls : \A r \in result[c] :
        /\ r.as = "completed" =>
              /\ picked[c] /\ ~r.cancelled
              /\ r.amd = "live" \/ (r.amd \in {"other", None} /\ r.shape.transcript > 0)
        /\ r.as = "announcement" /\ r.amd # "announcement" =>
              r.shape.endedBy \notin {"error", "model_end_call"}

(* A callee who picked up is neither dialled again as busy nor recorded as *)
(* one who refused: run_call in call.rs promises that Busy comes before    *)
(* the 200 OK only, and the retry of run_call in engine.rs rests on it.    *)
RefusalIsUnanswered ==
    \A c \in Calls :
        \/ stage[c] = "requeued"
        \/ \E r \in result[c] : r.as \in {"busy", "rejected", "not_found", "unavailable"}
        => ~picked[c]

(* place_call returns: with a handle, with the refusal, or with            *)
(* RuntimeGone when a shutdown overtakes its command.                      *)
PlaceResolves == \A c \in Calls : stage[c] = "placing" ~> stage[c] # "placing"

(* A leg whose caller hung up, or went away without hanging up, ends: also *)
(* when that was while it rang, when nothing listens to the hangup yet.    *)
HangupEnds ==
    \A c \in Calls :
        (hup[c] \in {"fired", "dropped"} \/ reply[c] = "unwanted") ~> task[c] \in {"none", "dead"}
=============================================================================
