---------------------------- MODULE MCCallEngine ----------------------------
(* Model-checking instances of CallEngine. *)
EXTENDS CallEngine, TLC

(* The engine has served nine calls; the next ids are call-9 and call-10,  *)
(* whose strings sort as "call-10" < "call-9".                             *)
MCTwoCalls == {9, 10}
MCKeyRank == (9 :> 3) @@ (10 :> 1)

(* An answered call with a transcript. *)
Talked == [answered |-> TRUE, duration |-> 60000, transcript |-> 1,
           endedBy |-> "model_end_call"]

MCTalkedOnly == {<<None, Talked>>}
=============================================================================
