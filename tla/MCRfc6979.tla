----------------------------- MODULE MCRfc6979 -----------------------------
(***************************************************************************)
(* Two-byte digests and values of q of one to three bytes: a candidate is a *)
(* part of a block, one block, or a block and a part of another; q of 7 and *)
(* 10 bits shift the candidate, q of 8, 16 and 24 bits do not.              *)
(***************************************************************************)
EXTENDS Rfc6979

(* The first two differ in the message, the third only in the extra data.   *)
(* The last two have the bytes of others, split elsewhere: the third's for  *)
(* a q of another width, the first's in lengths that differ.                *)
MCKCalls ==
    {[x |-> <<0, 7>>, q |-> <<3, 255>>, h |-> <<2, 0>>, data |-> <<>>],
     [x |-> <<0, 7>>, q |-> <<3, 255>>, h |-> <<1, 9>>, data |-> <<>>],
     [x |-> <<0, 7>>, q |-> <<3, 255>>, h |-> <<2, 0>>, data |-> <<9, 5>>],
     [x |-> <<7>>, q |-> <<100>>, h |-> <<2>>, data |-> <<>>],
     [x |-> <<0, 7, 2>>, q |-> <<255, 0, 255>>, h |-> <<0, 9, 5>>, data |-> <<>>],
     [x |-> <<0, 7, 2>>, q |-> <<3, 255>>, h |-> <<0>>, data |-> <<>>]}

(* Secret keys that fill the bytes of q.  Hashes longer and shorter than q, *)
(* and one that is larger.                                                  *)
MCDsaCalls ==
    {[q |-> 251, x |-> 200, hash |-> <<253, 9>>],
     [q |-> 65521, x |-> 40000, hash |-> <<1>>]}

(* A secret key with a leading zero byte.                                   *)
MCDsaShortKey == {[q |-> 65521, x |-> 40, hash |-> <<1, 1>>]}

(* Candidates of zero, of q, one off q, and between, for each of these q.   *)
MCBlocks == {<<0, 0>>, <<0, 64>>, <<255, 0>>, <<255, 255>>, <<199, 128>>}
=============================================================================
