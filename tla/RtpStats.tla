------------------------------ MODULE RtpStats ------------------------------
(***************************************************************************)
(* Loss and reorder accounting of the uplink: UplinkStats of               *)
(* src/src/sip/uplink.rs, fed by the receive task of src/src/sip/call.rs.  *)
(* A sequence number has M values on the wire; the sender's own, unwrapped *)
(* number of a packet, which the receiver never sees, is its ext.  The     *)
(* network loses, delays and duplicates packets.                           *)
(***************************************************************************)
EXTENDS Integers, FiniteSets

CONSTANTS
    M,              \* size of the sequence space (65536)
    Start,          \* wire number of the first packet that arrives
    Reach,          \* the farthest a packet arrives from the newest one
    MaxReceived     \* bound: packets that arrive

ASSUME RtpAssumption ==
    /\ M \in Nat \ {0} /\ M % 2 = 0
    /\ Start \in 0..(M - 1)
    /\ Reach \in Nat /\ 2 * Reach < M
    /\ MaxReceived \in Nat

VARIABLES
    cycles,         \* wraps of the newest number
    max16,          \* the newest number
    received,
    reordered,
    top,            \* history: ext of the newest packet, from Start on
    arrived         \* history: ext of every packet that arrived

rtpVars == <<cycles, max16, received, reordered, top, arrived>>

(* The first packet seeds the baseline. *)
RtpInit ==
    /\ cycles = 0 /\ max16 = Start
    /\ received = 1 /\ reordered = 0
    /\ top = Start /\ arrived = {Start}

(* What the wire shows of a number. *)
Wire(ext) == ext % M

(* seq.wrapping_sub(max16) *)
Forward(seq) == (seq - max16) % M

ObserveForwardAlways(seq) ==            \* mutant: no backward half
    /\ received' = received + 1
    /\ IF Forward(seq) = 0 THEN UNCHANGED <<cycles, max16, reordered>>
       ELSE /\ cycles' = cycles + (IF seq < max16 THEN 1 ELSE 0)
            /\ max16' = seq
            /\ UNCHANGED reordered

ObserveLateUncounted(seq) ==            \* mutant: a late packet is not received
    /\ received' = received + (IF Forward(seq) < M \div 2 THEN 1 ELSE 0)
    /\ IF Forward(seq) = 0 THEN UNCHANGED <<cycles, max16, reordered>>
       ELSE IF Forward(seq) < M \div 2
       THEN /\ cycles' = cycles + (IF seq < max16 THEN 1 ELSE 0)
            /\ max16' = seq
            /\ UNCHANGED reordered
       ELSE reordered' = reordered + 1 /\ UNCHANGED <<cycles, max16>>

(* UplinkStats::observe *)
Observe(seq) ==
    /\ received' = received + 1
    /\ IF Forward(seq) = 0 THEN UNCHANGED <<cycles, max16, reordered>>
       ELSE IF Forward(seq) < M \div 2
       THEN /\ cycles' = cycles + (IF seq < max16 THEN 1 ELSE 0)
            /\ max16' = seq
            /\ UNCHANGED reordered
       ELSE reordered' = reordered + 1 /\ UNCHANGED <<cycles, max16>>

(* UplinkStats::snapshot; span.saturating_sub(received) *)
MaxExt == cycles * M + max16
Span == MaxExt - Start + 1
Lost == IF Span > received THEN Span - received ELSE 0

(* A packet arrives: new, late or again. *)
Arrives(ext) ==
    /\ received < MaxReceived
    /\ ext >= 0 /\ ext >= top - Reach /\ ext <= top + Reach
    /\ Observe(Wire(ext))
    /\ top' = IF ext > top THEN ext ELSE top
    /\ arrived' = arrived \cup {ext}

RtpNext == \E ext \in (top - Reach)..(top + Reach) : Arrives(ext)

RtpSpec == RtpInit /\ [][RtpNext]_rtpVars

-----------------------------------------------------------------------------
RtpTypeOK ==
    /\ cycles \in Nat /\ max16 \in 0..(M - 1)
    /\ received \in Nat /\ reordered \in Nat
    /\ top \in Nat /\ arrived \subseteq Nat

(* The receiver's extended maximum is the sender's newest number, over any *)
(* number of wraps and any order of arrival within Reach.                  *)
MaxIsNewest == MaxExt = top

(* No packet older than the first one arrived, and none twice. *)
Plain == Cardinality(arrived) = received /\ \A ext \in arrived : ext >= Start

(* Without duplicates the loss reported is exactly the packets between the *)
(* first and the newest that have not arrived, late ones included in what  *)
(* has; with them it is never more than that.                              *)
LossIsExact ==
    LET missing == Cardinality((Start..top) \ arrived)
    IN  Lost <= missing /\ (Plain => Lost = missing)
=============================================================================
