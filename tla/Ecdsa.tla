------------------------------- MODULE Ecdsa -------------------------------
(***************************************************************************)
(* The operations of ecdsa/src/{hazmat,lib,recovery}.rs.  A Result is the   *)
(* set of its Ok value: empty when the code returns Err.                    *)
(*                                                                          *)
(* What they use of the elliptic_curve crate comes first, for a curve of    *)
(* prime order.  A point is its discrete logarithm, 0 .. n - 1; the curve C *)
(* is a record of its order n, the x coordinate and the parity of y of each *)
(* point but the identity, inverses modulo n, the size FB of field elements *)
(* and scalars in bytes, and the flag NORMALIZE_S.                          *)
(***************************************************************************)
EXTENDS Octets

Scalars(C)        == 1 .. C.n - 1     \* NonZeroScalar
Neg(C, a)         == (C.n - a) % C.n
Mul(C, a, b)      == (a * b) % C.n
is_high(C, a)     == a > C.n \div 2
reduce(C, bytes)  == Value(bytes) % C.n

(* What every curve of cofactor one has: inverses; two points with each x,   *)
(* negatives of each other, whose y differ in parity; an x below twice the  *)
(* order, by Hasse's theorem.  60 bytes keep DER's lengths below 128.       *)
IsCurve(C) ==
    /\ C.n \in Nat /\ C.n > 1
    /\ C.FB \in 1 .. 60 /\ C.n <= 2 ^ (8 * C.FB)
    /\ C.NORMALIZE_S \in BOOLEAN
    /\ \A a \in Scalars(C) : C.inv[a] \in Scalars(C) /\ Mul(C, a, C.inv[a]) = 1
    /\ \A P \in Scalars(C) :
           /\ C.x[P] \in Nat /\ C.x[P] < 2 ^ (8 * C.FB) /\ C.x[P] < 2 * C.n
           /\ C.y[P] \in Nat /\ C.y[P] < 2 ^ (8 * C.FB)
           /\ C.odd[P] = (C.y[P] % 2 = 1)
           /\ C.x[Neg(C, P)] = C.x[P] /\ C.odd[Neg(C, P)] # C.odd[P]
    /\ \A P, Q \in Scalars(C) : C.x[P] = C.x[Q] => Q \in {P, Neg(C, P)}

(* u1 times the generator plus u2 times P.                                  *)
lincomb(C, u1, u2, P) == (u1 + u2 * P) % C.n

(* The affine x coordinate; the identity has 0.                             *)
XCoord(C, P) == IF P = 0 THEN 0 ELSE C.x[P]

(* The points with an x coordinate and a parity of y: one or none.          *)
decompress(C, x, is_y_odd) == {P \in Scalars(C) : C.x[P] = x /\ C.odd[P] = is_y_odd}
-----------------------------------------------------------------------------
Zeros(len) == [i \in 1 .. len |-> 0]

(* mutant of pad: the bytes are copied to the start of the zeroed array     *)
pad_Right(C, bytes) == bytes \o Zeros(C.FB - Len(bytes))

(* Bytes copied to the end of a zeroed field element.                       *)
pad(C, bytes) == Zeros(C.FB - Len(bytes)) \o bytes

(* bits2field: padded on the left or truncated on the right.                *)
bits2field(C, bits) ==
    IF Len(bits) < C.FB \div 2 THEN {}
    ELSE {IF Len(bits) < C.FB THEN pad(C, bits) ELSE SubSeq(bits, 1, C.FB)}

(* mutant of from_scalars: zero is let through                              *)
from_scalars_Zero(C, r, s) == IF r < C.n /\ s < C.n THEN {[r |-> r, s |-> s]} ELSE {}

(* Signature::from_scalars.                                                 *)
from_scalars(C, r, s) ==
    IF r < C.n /\ s < C.n /\ r # 0 /\ s # 0 THEN {[r |-> r, s |-> s]} ELSE {}

(* mutant of normalize_s: the wrong half is negated                         *)
normalize_s_Low(C, sig) ==
    [sig EXCEPT !.s = IF is_high(C, sig.s) THEN sig.s ELSE Neg(C, sig.s)]

normalize_s(C, sig) ==
    [sig EXCEPT !.s = IF is_high(C, sig.s) THEN Neg(C, sig.s) ELSE sig.s]

(* RecoveryId: two bits.                                                    *)
RecoveryId(is_y_odd, is_x_reduced) ==
    (IF is_x_reduced THEN 2 ELSE 0) + (IF is_y_odd THEN 1 ELSE 0)
is_x_reduced(id) == id \div 2 = 1
is_y_odd(id)     == id % 2 = 1
FlipY(id)        == IF is_y_odd(id) THEN id - 1 ELSE id + 1

(* mutant of sign_prehashed: the recovery id does not follow the flip of s  *)
sign_prehashed_NoFlip(C, d, k, zbytes) ==
    LET z  == reduce(C, zbytes)
        R  == k
        r  == XCoord(C, R) % C.n
        s  == Mul(C, C.inv[k], z + r * d)
        id == RecoveryId(C.odd[R], r # XCoord(C, R))
    IN  {<<IF C.NORMALIZE_S THEN normalize_s(C, sig) ELSE sig, id>>
            : sig \in from_scalars(C, r, s)}

(* The signature and the recovery id of a nonce k.                          *)
sign_prehashed(C, d, k, zbytes) ==
    LET z  == reduce(C, zbytes)
        R  == k
        r  == XCoord(C, R) % C.n
        s  == Mul(C, C.inv[k], z + r * d)
        id == RecoveryId(C.odd[R], r # XCoord(C, R))
    IN  {IF C.NORMALIZE_S
         THEN <<normalize_s(C, sig), IF is_high(C, s) THEN FlipY(id) ELSE id>>
         ELSE <<sig, id>>
            : sig \in from_scalars(C, r, s)}

(* hazmat::verify_prehashed: is it Ok?                                      *)
verify_prehashed(C, Q, zbytes, sig) ==
    LET s_inv == C.inv[sig.s]
        R     == lincomb(C, Mul(C, reduce(C, zbytes), s_inv), Mul(C, sig.r, s_inv), Q)
    IN  sig.r = XCoord(C, R) % C.n

(* VerifyingKey::verify_prehash.                                            *)
verify_prehash(C, Q, prehash, sig) ==
    /\ ~(C.NORMALIZE_S /\ is_high(C, sig.s))
    /\ \E z \in bits2field(C, prehash) : verify_prehashed(C, Q, z, sig)

(* mutant of recover_from_prehash_noverify: a reduced x is not restored     *)
recover_from_prehash_noverify_NoOrder(C, prehash, sig, id) ==
    {pk \in {lincomb(C, Neg(C, Mul(C, C.inv[sig.r], reduce(C, z))), Mul(C, C.inv[sig.r], sig.s), R)
                : z \in bits2field(C, prehash), R \in decompress(C, sig.r, is_y_odd(id))} : pk # 0}

(* VerifyingKey::from_affine: the identity is no key.                       *)
from_affine(C, P) == {P} \ {0}

(* The key of a signature and an id.  A reduced x has the order added back, *)
(* in the width of a field element.                                         *)
recover_from_prehash_noverify(C, prehash, sig, id) ==
    LET x     == IF is_x_reduced(id) THEN sig.r + C.n ELSE sig.r
        Rs    == IF x >= 2 ^ (8 * C.FB) THEN {} ELSE decompress(C, x, is_y_odd(id))
        r_inv == C.inv[sig.r]
        pk(z, R) == lincomb(C, Neg(C, Mul(C, r_inv, reduce(C, z))), Mul(C, r_inv, sig.s), R)
    IN  UNION {from_affine(C, pk(z, R)) : z \in bits2field(C, prehash), R \in Rs}

recover_from_prehash(C, prehash, sig, id) ==
    {vk \in recover_from_prehash_noverify(C, prehash, sig, id) :
        \E z \in bits2field(C, prehash) : verify_prehashed(C, vk, z, sig)}

(* RecoveryId::trial_recovery_from_prehash: the first id that gives the key.*)
trial_recovery_from_prehash(C, Q, prehash, sig) ==
    LET ids == {id \in 0 .. 3 : Q \in recover_from_prehash_noverify(C, prehash, sig, id)}
    IN  IF \E z \in bits2field(C, prehash) : verify_prehashed(C, Q, z, sig)
        THEN {id \in ids : \A other \in ids : id <= other}
        ELSE {}
=============================================================================
