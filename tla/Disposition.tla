----------------------------- MODULE Disposition ----------------------------
(***************************************************************************)
(* How the terminal result of a call is decided: the mapping of a final    *)
(* SIP status to a dial outcome (src/src/sip/outcome.rs) and the           *)
(* precedence of resolve_disposition (src/src/state.rs).                   *)
(***************************************************************************)
EXTENDS Naturals

None == "none"

(* CallOutcome, and None for a call with no SIP outcome. *)
Outcomes ==
    {"completed", "busy", "no_answer", "rejected", "not_found", "unavailable", "failed"}

Dispositions ==
    {"completed", "voicemail", "announcement", "ivr", "hold", "busy",
     "no_answer", "rejected", "not_found", "unavailable", "failed", "cancelled"}

(* The goal's "amd" field: the values the code tests, any other text, none. *)
AmdVerdicts == {"voicemail", "announcement", "ivr", "hold", "live", "other", None}

EndedBy == {"model_end_call", "caller_hangup", "remote_close", "error"}

FastDisconnectMaxMs == 15000

(* CallShape; the duration in milliseconds, the transcript by its length. *)
CallShape == [answered : BOOLEAN, duration : Nat, transcript : Nat, endedBy : EndedBy]

(* unanswered_shape: every finalize site before the answer. *)
UnansweredShape ==
    [answered |-> FALSE, duration |-> 0, transcript |-> 0, endedBy |-> "error"]

(* end_call on a call that is still pending. *)
PendingShape ==
    [answered |-> FALSE, duration |-> 0, transcript |-> 0, endedBy |-> "caller_hangup"]

(* outcome_from_status: the outcome of a final SIP status. *)
OutcomeFromStatus(code) ==
    IF code \in 200..299 THEN "completed"
    ELSE IF code \in {404, 484} THEN "not_found"
    ELSE IF code \in {486, 600} THEN "busy"
    ELSE IF code \in {408, 480} THEN "no_answer"
    ELSE IF code \in {403, 603} THEN "rejected"
    ELSE IF code \in 500..599 THEN "unavailable"
    ELSE "failed"

(* The unanswered branch: a dial failure is its own disposition. *)
OfSip(sip) ==
    IF sip \in {"busy", "no_answer", "rejected", "not_found", "unavailable"}
    THEN sip ELSE "failed"

(* The answered branch without a recognised amd verdict. *)
FastDisconnect(shape) ==
    /\ shape.endedBy \in {"remote_close", "caller_hangup"}
    /\ shape.duration < FastDisconnectMaxMs
    /\ shape.transcript = 0

OfShape(shape) ==
    IF FastDisconnect(shape) THEN "announcement"
    ELSE IF shape.transcript > 0 THEN "completed" ELSE "failed"

ResolveAmdFirst(cancelled, amd, sip, shape) ==      \* mutant: order swapped
    IF shape.answered /\ amd = "live" THEN "completed"
    ELSE IF cancelled THEN "cancelled"
    ELSE IF ~shape.answered THEN OfSip(sip)
    ELSE IF amd \in {"voicemail", "announcement", "ivr", "hold"} THEN amd
    ELSE OfShape(shape)

Resolve(cancelled, amd, sip, shape) ==
    IF cancelled THEN "cancelled"
    ELSE IF ~shape.answered THEN OfSip(sip)
    ELSE IF amd = "live" THEN "completed"
    ELSE IF amd \in {"voicemail", "announcement", "ivr", "hold"} THEN amd
    ELSE OfShape(shape)
=============================================================================
