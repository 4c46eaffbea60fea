---------------------------- MODULE MCCallResult ----------------------------
(* Two calls: one whose session ends in each way that resolve_disposition  *)
(* tells apart (it treats the machine verdicts alike, other text as none,  *)
(* and asks of ended_by only whether the far end closed the call), and one *)
(* that keeps the transport busy beside it.                                *)
EXTENDS CallResult, TLC

CONSTANTS c1, c2

MCResults ==
    (c1 :> ({"hold", "live", None} \X
              [answered : {TRUE}, duration : {14999, 15000},
               transcript : {0, 1}, endedBy : {"caller_hangup", "error"}]))
    @@ (c2 :> {<<"live", [answered |-> TRUE, duration |-> 60000, transcript |-> 1,
                          endedBy |-> "remote_close"]>>})
=============================================================================
