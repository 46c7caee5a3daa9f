------------------------------- MODULE MCDsa -------------------------------
(***************************************************************************)
(* Generated parameters of 6 and 4 bits and of 10 and 8 bits; given ones    *)
(* with a g of another order, of 1, of p and beyond, composite p and q, and *)
(* a q of nine bits.                                                        *)
(***************************************************************************)
EXTENDS DsaSession

MCSizes == {[l |-> 6, n |-> 4], [l |-> 10, n |-> 8]}

MCGiven == {<<23, 11, g>> : g \in {0, 1, 2, 5, 22, 23, 24}}
              \cup {<<1, 11, 1>>, <<23, 1, 2>>, <<5, 2, 2>>, <<31, 15, 9>>, <<21, 3, 4>>,
                    <<1543, 257, 64>>}

MCDrawn(q) == IF q <= 16 THEN 1 .. q - 1 ELSE {1, 77, q - 1}

(* Empty, of one byte and of more, whose other bytes count for nothing.     *)
MCHashes == {<<>>, <<0>>, <<200, 7>>, <<255, 255, 1>>}
=============================================================================
