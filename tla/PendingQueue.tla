---------------------------- MODULE PendingQueue ----------------------------
(***************************************************************************)
(* The pending-call queue of the scheduler (src/src/queue.rs): MemQueue, a *)
(* BTreeMap keyed by (eligible_at_ms, call_id).  A queue value is a set of *)
(* entries.  Call ids are the sequence numbers of "call-N"; the map orders *)
(* the id STRINGS, so KeyRank gives the lexicographic rank of each id      *)
(* ("call-10" sorts before "call-9").                                      *)
(***************************************************************************)
EXTENDS Naturals, FiniteSets

CONSTANTS
    Calls,      \* the sequence numbers a call id can carry
    KeyRank     \* lexicographic rank of the id string of each call

ASSUME KeyAssumption ==
    /\ Calls \subseteq Nat
    /\ KeyRank \in [Calls -> Nat]
    /\ \A c, d \in Calls : KeyRank[c] = KeyRank[d] => c = d

(* PendingEntry, without the dialled number and the scenario. *)
Entry == [id : Calls, at : Nat, attempt : Nat]

(* The key order of the map. *)
Before(e, f) ==
    \/ e.at < f.at
    \/ e.at = f.at /\ KeyRank[e.id] < KeyRank[f.id]

(* push: BTreeMap insert, which replaces the value of an equal key. *)
Push(q, e) == {f \in q : f.at # e.at \/ f.id # e.id} \cup {e}

(* first_key_value; an Option is a set with at most one member. *)
First(q) == {e \in q : \A f \in q \ {e} : Before(e, f)}

(* The entry that pop_eligible(now) takes off the map. *)
PopEligible(q, now) == {e \in First(q) : e.at <= now}
HasEligible(q, now) == PopEligible(q, now) # {}

(* peek_next_eligible_at. *)
NextEligibleNever(q) == {}              \* mutant: nothing is ever due
NextEligibleAt(q) == {e.at : e \in First(q)}

(* remove(call_id) finds by value.  At most one entry of a call is queued. *)
IsPending(q, c) == \E e \in q : e.id = c
WithoutNone(q, c) == q                  \* mutant: the entry stays queued
Without(q, c) == {e \in q : e.id # c}
=============================================================================
