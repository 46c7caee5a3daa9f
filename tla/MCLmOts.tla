------------------------------ MODULE MCLmOts ------------------------------
(* First one hash is encoded, in any mode: every one-byte hash in all four  *)
(* windows, a grid of two-byte hashes, and patterns for the shipped 32-byte *)
(* modes (16 bytes in window 1, whose 256 chunks exceed TLC's recursion     *)
(* depth).  The behaviours that began with one hash of the keys' mode go on *)
(* with two keys over one-byte hashes in window 2 (six chains of length     *)
(* three).                                                                  *)
EXTENDS LmOts, WinternitzExpand

CONSTANTS o1, o2

MCMode == [N |-> 1, W |-> 2]
MCKeys == {o1, o2}

(* A one-byte hash that tells apart the messages and randomizers in use.    *)
MCDigest(input) ==
    LET n(f) == CASE f = "m1" -> 3 [] f = "m2" -> 178
                  [] f = "c1" -> 0 [] f = "c2" -> 90 [] OTHER -> 17
    IN  <<(n(input[5]) + n(input[4]) + 29 * input[2]) % 256>>
-----------------------------------------------------------------------------
ShippedWide == {m \in OtsModes : m.W > 1}

MCModes ==
    [N : {1, 2}, W : {1, 2, 4, 8}] \cup {[N |-> m.N, W |-> m.W] : m \in ShippedWide}
        \cup [N : {16}, W : {1}]

Edge == {0, 1, 127, 128, 254, 255}

(* Long hashes: constant strings, and those with a different last byte.     *)
Pattern(n, b, last) == [k \in 1 .. n |-> IF k = n THEN last ELSE b]

MCHashes(m) ==
    CASE m.N = 1 -> {<<b>> : b \in Byte}
      [] m.N = 2 -> {<<a, b>> : a, b \in Edge}
      [] OTHER   -> {Pattern(m.N, a, b) : a, b \in {0, 170, 254, 255}}

ChainsEncoded == mode = MCMode /\ message = <<0>> /\ arr # <<>>

MCInit == Init /\ ExpandInit

MCNext ==
    \/ Expand /\ UNCHANGED vars
    \/ ChainsEncoded /\ Next /\ UNCHANGED expandVars

MCSpec == MCInit /\ [][MCNext]_<<vars, expandVars>>
=============================================================================
