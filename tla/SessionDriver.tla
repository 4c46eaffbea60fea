---------------------------- MODULE SessionDriver ---------------------------
(***************************************************************************)
(* What the Gemini task of a call promises to whoever joins it: it returns *)
(* once, what was said is written by then, the arguments of the first      *)
(* end_call are its goal when it returns because of that call, and it has  *)
(* no goal when it returns for any other reason.                           *)
(***************************************************************************)
CONSTANTS
    Submitted,  \* the goals the model may submit
    Nothing     \* no goal

VARIABLES
    stage,      \* "connecting", "run" or "done"
    held,       \* goal of the first end_call, or Nothing
    unwritten,  \* whether something was said that is not written
    returned    \* [by, goal] once done

dvars == <<stage, held, unwritten, returned>>

Pending == [by |-> "error", goal |-> Nothing]

DriverInit ==
    /\ stage \in {"connecting", "run", "done"}
    /\ held = Nothing /\ unwritten = FALSE
    /\ returned.goal = Nothing
    /\ stage # "done" => returned = Pending
    /\ returned.by \in {"error", "remote_close"}

Connects ==
    /\ stage = "connecting" /\ stage' = "run"
    /\ UNCHANGED <<held, unwritten, returned>>

Says ==
    /\ stage = "run"
    /\ unwritten' = TRUE
    /\ UNCHANGED <<stage, held, returned>>

Writes ==
    /\ stage = "run"
    /\ unwritten' = FALSE
    /\ UNCHANGED <<stage, held, returned>>

Submits(g) ==
    /\ stage = "run" /\ held = Nothing
    /\ held' = g
    /\ UNCHANGED <<stage, unwritten, returned>>

(* The last turn is written on the way out. *)
ReturnsWith(by, g) ==
    /\ stage' = "done"
    /\ unwritten' = FALSE
    /\ returned' = [by |-> by, goal |-> g]
    /\ UNCHANGED held

Concludes == stage = "run" /\ held # Nothing /\ ReturnsWith("model_end_call", held)
Leaves(by) == stage = "run" /\ ReturnsWith(by, Nothing)
Fails == stage # "done" /\ ReturnsWith("error", Nothing)

DriverNext ==
    \/ Connects \/ Says \/ Writes \/ Concludes \/ Fails
    \/ \E g \in Submitted : Submits(g)
    \/ \E by \in {"caller_hangup", "remote_close"} : Leaves(by)

DriverSpec == DriverInit /\ [][DriverNext]_dvars
=============================================================================
