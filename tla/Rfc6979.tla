------------------------------ MODULE Rfc6979 ------------------------------
(***************************************************************************)
(* Deterministic nonces: the two loops that drive HmacDrbg, generate_k_mut  *)
(* of the rfc6979 crate (ECDSA) and secret_number_rfc6979 of the dsa crate, *)
(* called one after the other.  The bytes of an HMAC value are any, chosen  *)
(* the first time they are looked at and the same ever after.               *)
(***************************************************************************)
EXTENDS HmacDrbg, Octets, FiniteSets

CONSTANTS
    KCalls,    \* generate_k_mut(x, q, h, data): four byte strings
    DsaCalls,  \* secret_number_rfc6979: the integers q and x, the bytes hash
    HLEN,      \* the digest's output size
    Blocks,    \* the values an HMAC may have, sequences of HLEN bytes
    MaxCalls,  \* bound: calls made
    MaxTries,  \* bound: candidates found out of range in one call
    None       \* no call made yet

VARIABLES
    pc,        \* "idle", "seed", "fill" or "test"
    call,      \* the arguments of the current or the last call
    drbg,      \* HmacDrbg: its SimpleHmac k and its chaining value v
    round,     \* the loop variable of HmacDrbg::new
    k,         \* the part of the buffer k filled so far
    result,    \* the last nonce returned
    tries,     \* rejections so far in this call (history)
    calls,     \* calls answered (history)
    sampled,   \* the bytes of the HMAC values looked at
    drawn      \* the values drawn, each with its call, candidate and place
               \* (history)

vars == <<pc, call, drbg, round, k, result, tries, calls, sampled, drawn>>

-----------------------------------------------------------------------------
(* The byte-wise helpers of rfc6979/src/ct.rs on big-endian byte strings.   *)

(* u8::leading_zeros of the first byte only.                                *)
leading_zeros(n) == Cardinality({b \in 0 .. 7 : n[1] < 2 ^ b})

(* Each byte keeps its high bits; its low bits are carried into the next.   *)
rshift(n, shift) ==
    [i \in DOMAIN n |->
        n[i] \div 2 ^ shift
            + IF i = 1 THEN 0 ELSE (n[i - 1] % 2 ^ shift) * 2 ^ (8 - shift)]

is_zero(n) == \A i \in DOMAIN n : n[i] = 0

(* mutant of lt: the borrow is not handed to the next byte                  *)
lt_NoBorrow(a, b) == \E i \in DOMAIN a : a[i] < b[i]

(* Subtraction from the last byte to the first in wrapping u16 arithmetic;  *)
(* a borrow is 0 or 255, and its top bit is what the next byte takes.       *)
lt(a, b) ==
    LET borrow[i \in 1 .. Len(a) + 1] ==
            IF i > Len(a) THEN 0
            ELSE ((a[i] - (b[i] + borrow[i + 1] \div 128)) % 2 ^ 16) \div 2 ^ 8
    IN  borrow[1] # 0
-----------------------------------------------------------------------------
(* reduce_hash: the hash cut to the bytes of q, modulo q, padded.           *)
reduce_hash(q, hash) ==
    LET q_byte_len == BitLength(q) \div 8
    IN  Octets(Value(SubSeq(hash, 1, Min({q_byte_len, Len(hash)}))) % q, q_byte_len)

(* BigUint::to_bytes_be: no leading zero byte.                              *)
to_bytes_be(n) == Octets(n, (BitLength(n) + 7) \div 8)

(* The arguments each caller hands to HmacDrbg::new.                        *)
entropy_input(c) == IF c \in DsaCalls THEN to_bytes_be(c.x) ELSE c.x
nonce(c)         == IF c \in DsaCalls THEN reduce_hash(c.q, c.hash) ELSE c.h
personalization_string(c) == IF c \in DsaCalls THEN <<>> ELSE c.data

(* The size of the buffer to fill.                                          *)
k_size(c) == IF c \in DsaCalls THEN BitLength(c.q) \div 8 ELSE Len(c.q)

(* The asserts of generate_k_mut.                                           *)
Sized(c) == c \in KCalls => Len(c.x) = Len(c.q) /\ Len(c.h) = Len(c.q)

(* The candidate in a full buffer.                                          *)
Shifted(c) ==
    IF c \in KCalls /\ leading_zeros(c.q) # 0 THEN rshift(k, leading_zeros(c.q)) ELSE k

(* generate_k_mut compares bytes; dsa compares integers, after asking for   *)
(* an inverse modulo the prime q, which only multiples of q lack.           *)
Accepted(c) ==
    IF c \in KCalls
    THEN ~is_zero(Shifted(c)) /\ lt(Shifted(c), c.q)
    ELSE Value(k) % c.q # 0 /\ Value(k) > 0 /\ Value(k) < c.q
-----------------------------------------------------------------------------
Init ==
    /\ pc = "idle"
    /\ call = None
    /\ drbg = [k |-> NewHmac(ZEROS), v |-> ONES]
    /\ round = 0
    /\ k = <<>>
    /\ result = None
    /\ tries = 0
    /\ calls = 0
    /\ sampled = <<>>
    /\ drawn = {}

(* A call whose lengths differ panics before anything is hashed.            *)
CallPanics(c) ==
    /\ pc = "idle"
    /\ calls < MaxCalls
    /\ ~Sized(c)
    /\ calls' = calls + 1
    /\ UNCHANGED <<pc, call, drbg, round, k, result, tries, sampled, drawn>>

(* mutant of Call: the lengths are not compared                             *)
Call_AnyLength(c) ==
    /\ pc = "idle"
    /\ calls < MaxCalls
    /\ call' = c
    /\ drbg' = [k |-> NewHmac(ZEROS), v |-> ONES]
    /\ round' = 0
    /\ tries' = 0
    /\ pc' = "seed"
    /\ k' = <<>>
    /\ UNCHANGED <<result, calls, sampled, drawn>>

(* The call up to the loop of HmacDrbg::new.                                *)
Call(c) ==
    /\ pc = "idle"
    /\ calls < MaxCalls
    /\ Sized(c)
    /\ call' = c
    /\ drbg' = [k |-> NewHmac(ZEROS), v |-> ONES]
    /\ round' = 0
    /\ tries' = 0
    /\ pc' = "seed"
    /\ k' = <<>>
    /\ UNCHANGED <<result, calls, sampled, drawn>>

(* One round of HmacDrbg::new.                                              *)
SeedStep ==
    /\ pc = "seed"
    /\ drbg' = SeedRound(drbg, round,
                   entropy_input(call) \o nonce(call) \o personalization_string(call))
    /\ round' = round + 1
    /\ pc' = IF round = 1 THEN "fill" ELSE "seed"
    /\ UNCHANGED <<call, k, result, tries, calls, sampled, drawn>>

(* fill_bytes: one whole chunk of the buffer, or its remainder.             *)
Fill(block) ==
    /\ pc = "fill"
    /\ Len(k) < k_size(call)
    /\ drbg' = NextBlock(drbg)
    /\ drbg'.v \in DOMAIN sampled => block = sampled[drbg'.v]
    /\ sampled' = [t \in DOMAIN sampled \cup {drbg'.v} |->
                       IF t = drbg'.v THEN block ELSE sampled[t]]
    /\ k' = k \o SubSeq(block, 1, Min({HLEN, k_size(call) - Len(k)}))
    /\ drawn' = drawn \cup {[call |-> call, try |-> tries, from |-> Len(k), value |-> drbg'.v]}
    /\ UNCHANGED <<pc, call, round, result, tries, calls>>

(* fill_bytes once the buffer is full: key and chaining value move on.      *)
RekeyStep ==
    /\ pc = "fill"
    /\ Len(k) = k_size(call)
    /\ drbg' = Rekey(drbg)
    /\ pc' = "test"
    /\ UNCHANGED <<call, round, k, result, tries, calls, sampled, drawn>>

(* The candidate is returned.                                               *)
Return ==
    /\ pc = "test"
    /\ Accepted(call)
    /\ result' = Value(Shifted(call))
    /\ calls' = calls + 1
    /\ pc' = "idle"
    /\ UNCHANGED <<call, drbg, round, k, tries, sampled, drawn>>

(* The loop goes round.  The buffer is overwritten from its start.          *)
Retry ==
    /\ pc = "test"
    /\ ~Accepted(call)
    /\ tries < MaxTries
    /\ tries' = tries + 1
    /\ k' = <<>>
    /\ pc' = "fill"
    /\ UNCHANGED <<call, drbg, round, result, calls, sampled, drawn>>

Next ==
    \/ \E c \in KCalls \cup DsaCalls : Call(c) \/ CallPanics(c)
    \/ SeedStep
    \/ \E block \in Blocks : Fill(block)
    \/ RekeyStep
    \/ Return
    \/ Retry

Spec == Init /\ [][Next]_vars
-----------------------------------------------------------------------------
(* What the generator is seeded with.                                       *)
Seed(c) == <<entropy_input(c), nonce(c), personalization_string(c)>>

(* Two calls of one function for values of q of one width.                  *)
OneWidth(c, d) ==
    \/ c \in KCalls /\ d \in KCalls /\ Len(c.q) = Len(d.q)
    \/ c \in DsaCalls /\ d \in DsaCalls /\ BitLength(c.q) = BitLength(d.q)

(* No HMAC value is drawn twice but in the same place of two calls; and for *)
(* values of q of one width the calls then have the same secret key,        *)
(* message and extra data: two messages never get one nonce, two keys never *)
(* get related ones.  Rests on the asserts of rfc6979/src/lib.rs:94-96, on  *)
(* the rekeying at 179-184 and on the padding at                            *)
(* dsa/src/generate/secret_number.rs:26.  For values of q of two widths     *)
(* nothing is claimed: x, h and data are run together, and the same bytes   *)
(* may be split elsewhere.                                                  *)
NoncesUnshared ==
    \A d, e \in drawn :
        d.value = e.value =>
            /\ d.try = e.try /\ d.from = e.from
            /\ OneWidth(d.call, e.call) => Seed(d.call) = Seed(e.call)

(* What RFC 6979 is asked by a call: x and h1 in the octets of q.           *)
RfcRequest(c) ==
    IF c \in KCalls
    THEN [x |-> c.x, h |-> c.h, data |-> c.data, q |-> Value(c.q)]
    ELSE LET rlen == (BitLength(c.q) + 7) \div 8
             blen == 8 * Len(c.hash)
             h1   == Value(c.hash) \div 2 ^ (blen - Min({BitLength(c.q), blen}))
         IN  [x |-> Octets(c.x, rlen), h |-> Octets(h1 % c.q, rlen), data |-> <<>>, q |-> c.q]

(* Both loops compute the nonce of RFC 6979, section 3.2: "the method       *)
(* described in RFC 6979" (dsa/src/generate/secret_number.rs:33), values,   *)
(* order of draws, truncation to the bits of q and rejections included.     *)
Rfc == INSTANCE Rfc6979Steps WITH
           Requests <- {RfcRequest(c) : c \in {d \in KCalls \cup DsaCalls : Sized(d)}},
           NoNonce <- None,
           request <- IF pc = "idle" THEN None ELSE RfcRequest(call),
           drawn <- (Len(k) + HLEN - 1) \div HLEN,
           answer <- result

FollowsRfc == Rfc!Spec
=============================================================================
