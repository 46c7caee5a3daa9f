----------------------------- MODULE Winternitz -----------------------------
(***************************************************************************)
(* The Winternitz encoding of LM-OTS: how a message hash becomes the list   *)
(* of chain positions a signature reveals (lms/src/ots/{modes,util}.rs).    *)
(* A mode is a record [N, W]: the hash length in bytes and the window.      *)
(* Bytes are the integers 0..255 and a u16 is an integer modulo 2^16.       *)
(***************************************************************************)
EXTENDS Integers, Sequences

Byte == 0 .. 255
U16  == 2 ^ 16

(* The shape constants of LmsOtsMode, computed from N and W.                *)
Ilog2(n) == CHOOSE k \in 0 .. n : 2 ^ k <= n /\ n < 2 ^ (k + 1)
Top(m)   == 2 ^ m.W - 1                       \* the largest coefficient
U(m)     == (8 * m.N + m.W - 1) \div m.W
V(m)     == Ilog2(Top(m) * U(m)) \div m.W + 1
P(m)     == U(m) + V(m)
LS(m)    == 16 - V(m) * m.W

(* The modes that compile: a window that coefs knows, and an LS that is a   *)
(* usize.                                                                   *)
ValidMode(m) ==
    m.N \in Nat \ {0} /\ m.W \in {1, 2, 4, 8} /\ V(m) * m.W <= 16

(* coefs(bytes, w): the w-bit fields of a byte string, high bits first.     *)
coefs(bytes, w) ==
    LET perByte == 8 \div w
    IN  [k \in 1 .. perByte * Len(bytes) |->
            LET i == (k - 1) % perByte
            IN  (bytes[(k - 1) \div perByte + 1] \div 2 ^ (8 - w - i * w)) % 2 ^ w]

(* mutant of ChunkSum: the chunks are added without being negated           *)
ChunkSum_NotNegated(m, chunks) ==
    LET sum[i \in 0 .. Len(chunks)] ==
            IF i = 0 THEN 0 ELSE (sum[i - 1] + chunks[i]) % U16
    IN  sum[Len(chunks)]

(* The u16 sum of the negated chunks, before and after the left shift.      *)
ChunkSum(m, chunks) ==
    LET sum[i \in 0 .. Len(chunks)] ==
            IF i = 0 THEN 0 ELSE (sum[i - 1] + Top(m) - chunks[i]) % U16
    IN  sum[Len(chunks)]

(* mutant of Checksum: the sum is not moved to the top of its two bytes     *)
Checksum_NotShifted(m, chunks) == ChunkSum(m, chunks)

Checksum(m, chunks) == (ChunkSum(m, chunks) * 2 ^ LS(m)) % U16

(* LmsOtsMode::expand: U chunks of the message, then V of the checksum.     *)
expand(m, message) ==
    LET chunks == SubSeq(coefs(message, m.W), 1, U(m))
        cksum  == Checksum(m, chunks)
    IN  chunks \o SubSeq(coefs(<<cksum \div 256, cksum % 256>>, m.W), 1, V(m))
=============================================================================
