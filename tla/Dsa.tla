-------------------------------- MODULE Dsa --------------------------------
(***************************************************************************)
(* The operations of dsa/src on integers of a few bits.  A Result or an     *)
(* Option is the set of its Ok or Some value: empty for Err and None.  What *)
(* a random generator may give is the set of it.                            *)
(***************************************************************************)
EXTENDS Octets

modpow(base, exponent, m) ==
    LET pow[n \in Nat] ==
            IF n = 0 THEN 1 % m
            ELSE LET half == pow[n \div 2]
                     square == (half * half) % m
                 IN  IF n % 2 = 0 THEN square ELSE (square * (base % m)) % m
    IN  pow[exponent]

mod_inverse(a, m) == {i \in 1 .. m - 1 : (a * i) % m = 1}

probably_prime(n) == n > 1 /\ \A d \in 2 .. n \div 2 : n % d # 0

(* The leftmost bytes of a hash that fit q, by whole bytes.                 *)
ByteLen(q) == BitLength(q) \div 8
Leftmost(q, hash) ==
    Value(SubSeq(hash, 1, IF ByteLen(q) < Len(hash) THEN ByteLen(q) ELSE Len(hash)))
-----------------------------------------------------------------------------
(* The constructors of the four containers.                                 *)
Components_from(p, q, g) ==
    IF p < 2 \/ q < 2 \/ g = 0 \/ g > p THEN {} ELSE {[p |-> p, q |-> q, g |-> g]}

VerifyingKey_from(c, y) ==
    IF y < 2 \/ modpow(y, c.q, c.p) # 1 THEN {} ELSE {[components |-> c, y |-> y]}

(* mutant of SigningKey_from: a larger x is let through                     *)
SigningKey_from_AnyX(vk, x) == IF x = 0 THEN {} ELSE {[verifying_key |-> vk, x |-> x]}

SigningKey_from(vk, x) ==
    IF x = 0 \/ x > vk.components.q THEN {} ELSE {[verifying_key |-> vk, x |-> x]}

Signature_from(r, s) == IF r = 0 \/ s = 0 THEN {} ELSE {[r |-> r, s |-> s]}
-----------------------------------------------------------------------------
calculate_bounds(size) == [lower |-> 2 ^ (size - 1), upper |-> 2 ^ size]

(* The primes that a drawn m above the lower bound is moved down to.        *)
PrimesFor(q, l) ==
    LET b == calculate_bounds(l)
    IN  {p \in {m - (m % (2 * q)) + 1 : m \in b.lower + 1 .. b.upper - 1} : probably_prime(p)}

(* mutant of generator: the first h is taken, not the first g that is not 1 *)
generator_First(p, q) == {modpow(1, (p - 1) \div q, p)}

(* The power of the first h whose power is not one, if there is one.        *)
generator(p, q) ==
    LET e == (p - 1) \div q
        g(h) == modpow(h, e, p)
    IN  {g(h) : h \in {i \in 1 .. p : g(i) # 1 /\ \A j \in 1 .. i - 1 : g(j) = 1}}

(* generate::common: what it may return for a key size.                     *)
common(size) ==
    LET b  == calculate_bounds(size.n)
        qs == {q \in b.lower .. b.upper : probably_prime(q)}
    IN  UNION {UNION {{<<p, q, g>> : g \in generator(p, q)} : p \in PrimesFor(q, size.l)}
                  : q \in qs}

public(c, x) == modpow(c.g, x, c.p)

(* generate::keypair of a drawn x; the code panics when this is empty.      *)
keypair(c, x) == UNION {SigningKey_from(vk, x) : vk \in VerifyingKey_from(c, public(c, x))}
-----------------------------------------------------------------------------
(* The nonces that secret_number may return; it gives up when it draws only *)
(* others, 4096 times.                                                      *)
secret_number(q) == {k \in 1 .. q - 1 : mod_inverse(k, q) # {}}

(* The nonces that secret_number_rfc6979 may return: of the bytes that fit  *)
(* q; it does not return when there is none.                                *)
secret_number_rfc6979(q) ==
    {k \in 1 .. 2 ^ (8 * ByteLen(q)) - 1 : k < q /\ mod_inverse(k, q) # {}}

sign_prehashed(key, k, hash) ==
    LET c == key.verifying_key.components
        r == modpow(c.g, k, c.p) % c.q
        s(inv_k) == (inv_k * (Leftmost(c.q, hash) + key.x * r)) % c.q
    IN  UNION {Signature_from(r, s(inv_k)) : inv_k \in mod_inverse(k, c.q)}

(* mutant of verify_prehashed: s is not compared with q                     *)
verify_prehashed_AnyS(vk, hash, sig) ==
    LET c == vk.components
        u1(w) == (Leftmost(c.q, hash) * w) % c.q
        u2(w) == (sig.r * w) % c.q
        v(w)  == ((modpow(c.g, u1(w), c.p) * modpow(vk.y, u2(w), c.p)) % c.p) % c.q
    IN  sig.r < c.q /\ \E w \in mod_inverse(sig.s, c.q) : v(w) = sig.r

(* Is it Some(true)?  An s without inverse gives None.                      *)
verify_prehashed(vk, hash, sig) ==
    LET c == vk.components
        u1(w) == (Leftmost(c.q, hash) * w) % c.q
        u2(w) == (sig.r * w) % c.q
        v(w)  == ((modpow(c.g, u1(w), c.p) * modpow(vk.y, u2(w), c.p)) % c.p) % c.q
    IN  /\ sig.r < c.q /\ sig.s < c.q
        /\ \E w \in mod_inverse(sig.s, c.q) : v(w) = sig.r
-----------------------------------------------------------------------------
(* The digits of count INTEGERs in one SEQUENCE, as numbers.                *)
Numbers(bytes, count) ==
    {[i \in 1 .. count |-> Value(SubSeq(bytes, rs[i][1], rs[i][2]))]
        : rs \in DecodeSequence(bytes, count)}

signature_to_der(sig)     == EncodeSequence(<<sig.r, sig.s>>)
signature_from_der(bytes) == UNION {Signature_from(n[1], n[2]) : n \in Numbers(bytes, 2)}

components_to_der(c)       == EncodeSequence(<<c.p, c.q, c.g>>)
components_from_der(bytes) ==
    UNION {Components_from(n[1], n[2], n[3]) : n \in Numbers(bytes, 3)}

OID == "1.2.840.10040.4.1"
Absent == <<>>

(* The key documents: PrivateKeyInfo and SubjectPublicKeyInfo, of which the *)
(* structs are kept and the fields of this crate are bytes.                 *)
to_pkcs8_der(key) ==
    [oid |-> OID, parameters |-> components_to_der(key.verifying_key.components),
     private_key |-> EncodeUint(key.x), public_key |-> Absent]

to_public_key_der(vk) ==
    [oid |-> OID, parameters |-> components_to_der(vk.components), private_key |-> Absent,
     public_key |-> EncodeUint(vk.y)]

(* TryFrom<SubjectPublicKeyInfoRef> for VerifyingKey.                       *)
from_spki(doc) ==
    IF doc.oid # OID THEN {}
    ELSE UNION {UNION {VerifyingKey_from(c, y) : y \in UintFromDer(doc.public_key)}
                  : c \in components_from_der(doc.parameters)}

(* mutant of from_pkcs8: the public key is always computed                  *)
from_pkcs8_Recomputed(doc) ==
    IF doc.oid # OID THEN {}
    ELSE UNION {UNION {keypair(c, x) : x \in UintFromDer(doc.private_key)}
                  : c \in components_from_der(doc.parameters)}

(* TryFrom<PrivateKeyInfoRef> for SigningKey: the public key of the document*)
(* is taken as it is, and computed when there is none.                      *)
from_pkcs8(doc) ==
    LET ys(c, x) == IF doc.public_key = Absent THEN {public(c, x)}
                    ELSE UintFromDer(doc.public_key)
        key(c, x) == UNION {SigningKey_from(vk, x) :
                               vk \in UNION {VerifyingKey_from(c, y) : y \in ys(c, x)}}
    IN  IF doc.oid # OID THEN {}
        ELSE UNION {UNION {key(c, x) : x \in UintFromDer(doc.private_key)}
                      : c \in components_from_der(doc.parameters)}
=============================================================================
