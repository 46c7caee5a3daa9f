---------------------------- MODULE MCLmsSigner ----------------------------
(* Two objects, trees of four leaves, one-byte hashes in window 2.          *)
EXTENDS LmsSigner

CONSTANTS o1, o2

MCKeys == {o1, o2}

MCMode == [TC |-> 5, OtsTC |-> 2, M |-> 1, H |-> 2, N |-> 1, W |-> 2]

(* A one-byte hash that tells apart the messages.                           *)
MCDigest(input) ==
    <<((IF input[5] = "m1" THEN 27 ELSE 178) + 29 * input[2]) % 256>>
=============================================================================
