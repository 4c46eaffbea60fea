----------------------------- MODULE CallService ----------------------------
(***************************************************************************)
(* What the engine promises about each call, without queue, dispatcher,    *)
(* cancel map, breaker or counters: at most Cap attempts hold a channel, a *)
(* call is dialled at most MaxAttempts times and never twice at once, it   *)
(* is answered at most once, only an unanswered call goes back to the      *)
(* queue, and a call that ended is over for good.                          *)
(***************************************************************************)
EXTENDS Naturals, FiniteSets

CONSTANTS Calls, Cap, MaxAttempts

VARIABLES
    phase,      \* lifecycle phase of each call
    tries,      \* dial attempts of each call that were given a channel
    driver,     \* the attempt that is driving each call, or 0
    channels    \* attempts, as <<call, attempt>>, that hold a channel

svars == <<phase, tries, driver, channels>>

(* "forgotten": ended, and evicted from the bounded history. *)
Phases == {"unknown", "queued", "ringing", "in_progress", "ended", "forgotten"}

ServiceInit ==
    /\ phase = [c \in Calls |-> "unknown"]
    /\ tries = [c \in Calls |-> 0]
    /\ driver = [c \in Calls |-> 0]
    /\ channels = {}

Place(c) ==
    /\ phase[c] = "unknown"
    /\ phase' = [phase EXCEPT ![c] = "queued"]
    /\ UNCHANGED <<tries, driver, channels>>

(* The next attempt of a queued call takes a channel. *)
Dial(c) ==
    /\ phase[c] = "queued"
    /\ driver[c] = 0
    /\ tries[c] < MaxAttempts
    /\ Cardinality(channels) < Cap
    /\ tries' = [tries EXCEPT ![c] = @ + 1]
    /\ driver' = [driver EXCEPT ![c] = tries[c] + 1]
    /\ channels' = channels \cup {<<c, tries[c] + 1>>}
    /\ UNCHANGED phase

Ring(c) ==
    /\ phase[c] = "queued"
    /\ driver[c] # 0
    /\ phase' = [phase EXCEPT ![c] = "ringing"]
    /\ UNCHANGED <<tries, driver, channels>>

Answer(c) ==
    /\ phase[c] = "ringing"
    /\ driver[c] # 0
    /\ phase' = [phase EXCEPT ![c] = "in_progress"]
    /\ UNCHANGED <<tries, driver, channels>>

(* A busy attempt sends its call back, then stops driving it. *)
SendBack(c) ==
    /\ phase[c] = "ringing"
    /\ driver[c] # 0
    /\ tries[c] < MaxAttempts
    /\ phase' = [phase EXCEPT ![c] = "queued"]
    /\ UNCHANGED <<tries, driver, channels>>

HandOver(c) ==
    /\ phase[c] = "queued"
    /\ driver[c] # 0
    /\ driver' = [driver EXCEPT ![c] = 0]
    /\ UNCHANGED <<phase, tries, channels>>

(* A call ends once, from any phase before; the history may lose some of   *)
(* the calls that have ended, this one included.                           *)
End(c) ==
    /\ phase[c] \in {"queued", "ringing", "in_progress"}
    /\ \E lost \in SUBSET ({c} \cup {d \in Calls : phase[d] = "ended"}) :
          phase' = [d \in Calls |->
                       IF d \in lost THEN "forgotten"
                       ELSE IF d = c THEN "ended" ELSE phase[d]]
    /\ driver' = [driver EXCEPT ![c] = 0]
    /\ UNCHANGED <<tries, channels>>

(* An attempt that crashed stops driving a call that will never end. *)
Abandon(c) ==
    /\ driver[c] # 0
    /\ driver' = [driver EXCEPT ![c] = 0]
    /\ UNCHANGED <<phase, tries, channels>>

(* Only an attempt that no longer drives its call gives its channel back. *)
Release(c, a) ==
    /\ <<c, a>> \in channels
    /\ driver[c] # a
    /\ channels' = channels \ {<<c, a>>}
    /\ UNCHANGED <<phase, tries, driver>>

ServiceNext ==
    \E c \in Calls :
        \/ Place(c) \/ Dial(c) \/ Ring(c) \/ Answer(c) \/ SendBack(c)
        \/ HandOver(c) \/ End(c) \/ Abandon(c)
        \/ \E a \in 1..MaxAttempts : Release(c, a)

ServiceSpec == ServiceInit /\ [][ServiceNext]_svars
=============================================================================
