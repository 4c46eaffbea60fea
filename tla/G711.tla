-------------------------------- MODULE G711 --------------------------------
(***************************************************************************)
(* The G.711 companding of src/src/bridge/g711.rs: one 16-bit sample to    *)
(* one byte and back, in either law.                                       *)
(***************************************************************************)
EXTENDS Integers, FiniteSetsExt

Laws == {"ulaw", "alaw"}
Bytes == 0..255
MinPcm == -32768
MaxPcm == 32767
Pcm16 == MinPcm..MaxPcm

Bias == 132
Clip == 8159

(* search: the first segment whose end is not below the value, or 8. *)
SegUEnd == [seg \in 0..7 |-> 2^(seg + 6) - 1]
SegAEnd == [seg \in 0..7 |-> 2^(seg + 5) - 1]
Segment(val, ends) == Min({seg \in 0..7 : val <= ends[seg]} \cup {8})

(* x ^ 0x55: every other bit is flipped. *)
EvenBitsFlipped(x) ==
    LET flip(k) == 2^k * (1 - 2 * ((x \div 2^k) % 2))
    IN  x + flip(0) + flip(2) + flip(4) + flip(6)

(* A byte below a mask of ones is complemented by it. *)
EncodeUlaw(pcm) ==
    LET val == pcm \div 4
        mask == IF val < 0 THEN 127 ELSE 255
        biased == Min({IF val < 0 THEN -val ELSE val, Clip}) + Bias \div 4
        seg == Segment(biased, SegUEnd)
    IN  mask - (IF seg >= 8 THEN 127 ELSE seg * 16 + ((biased \div 2^(seg + 1)) % 16))

DecodeUlaw(byte) ==
    LET u == 255 - byte
        t == ((u % 16) * 8 + Bias) * 2^((u \div 16) % 8)
    IN  IF u >= 128 THEN Bias - t ELSE t - Bias

EncodeAlaw(pcm) ==
    LET val == pcm \div 8
        magnitude == IF val >= 0 THEN val ELSE -val - 1
        seg == Segment(magnitude, SegAEnd)
        code == IF seg >= 8 THEN 127
                ELSE seg * 16 + ((magnitude \div (IF seg < 2 THEN 2 ELSE 2^seg)) % 16)
    IN  EvenBitsFlipped(code) + (IF val >= 0 THEN 128 ELSE 0)

DecodeAlawNoHalfStep(byte) ==           \* mutant: decodes to the edge of the step
    LET a == EvenBitsFlipped(byte)
        seg == (a \div 16) % 8
        t == (a % 16) * 16
        magnitude == CASE seg = 0 -> t
                       [] seg = 1 -> t + 256
                       [] OTHER -> (t + 256) * 2^(seg - 1)
    IN  IF a >= 128 THEN magnitude ELSE -magnitude

DecodeAlaw(byte) ==
    LET a == EvenBitsFlipped(byte)
        seg == (a \div 16) % 8
        t == (a % 16) * 16
        magnitude == CASE seg = 0 -> t + 8
                       [] seg = 1 -> t + 264
                       [] OTHER -> (t + 264) * 2^(seg - 1)
    IN  IF a >= 128 THEN magnitude ELSE -magnitude

Encode(law, pcm) == IF law = "ulaw" THEN EncodeUlaw(pcm) ELSE EncodeAlaw(pcm)
Decode(law, byte) == IF law = "ulaw" THEN DecodeUlaw(byte) ELSE DecodeAlaw(byte)
=============================================================================
