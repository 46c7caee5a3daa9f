------------------------------ MODULE HmacDrbg ------------------------------
(***************************************************************************)
(* HmacDrbg (rfc6979/src/lib.rs:122-186) over symbolic HMACs.  An HMAC      *)
(* value is the term of its key and its input; the input is the sequence of *)
(* what update was called with: a chaining value is one item, bytes are one *)
(* item each.  A chaining value has the digest's fixed length, so nothing   *)
(* is lost by keeping it whole, while strings of bytes run together.        *)
(***************************************************************************)
EXTENDS Integers, Sequences

Mac(key, input) == [key |-> key, input |-> input]

ZEROS == [fixed |-> "00..00"]   \* the key of SimpleHmac::new(&Default::default())
ONES  == [fixed |-> "01..01"]   \* the first chaining value

(* A SimpleHmac object: its key and what it has absorbed since its reset.   *)
NewHmac(key)         == [key |-> key, absorbed |-> <<>>]
update(hmac, items)  == [hmac EXCEPT !.absorbed = @ \o items]
finalize(hmac)       == Mac(hmac.key, hmac.absorbed)
finalize_reset(hmac) == NewHmac(hmac.key)

(* HmacDrbg::new, round i of two.                                           *)
SeedRound(drbg, i, seed) ==
    LET k == NewHmac(finalize(update(drbg.k, <<drbg.v, i>> \o seed)))
    IN  [k |-> finalize_reset(k), v |-> finalize(update(k, <<drbg.v>>))]

(* fill_bytes: the next chaining value, whose bytes are copied out.         *)
NextBlock(drbg) ==
    LET k == update(drbg.k, <<drbg.v>>)
    IN  [k |-> finalize_reset(k), v |-> finalize(k)]

(* fill_bytes: the state left for the next call.                            *)
Rekey(drbg) ==
    LET k == NewHmac(finalize(update(drbg.k, <<drbg.v, 0>>)))
    IN  [k |-> finalize_reset(k), v |-> finalize(update(k, <<drbg.v>>))]
=============================================================================
