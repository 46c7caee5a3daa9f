----------------------------- MODULE EcdsaKeys -----------------------------
(***************************************************************************)
(* Signing and verifying keys as bytes and documents (ecdsa/src/{signing,   *)
(* verifying}.rs).  A document is the record of the curve its OIDs name and *)
(* the bytes of the key.                                                    *)
(*                                                                          *)
(* Then signing and verifying whole messages, by the hash of a curve, by    *)
(* any other, or by the one an OID names (ecdsa/src/{lib,signing,verifying, *)
(* recovery}.rs).  An OID is the sequence of its arcs.                      *)
(***************************************************************************)
EXTENDS EcdsaDer

CONSTANT Hash    \* Hash[D][msg]: the bytes digest D makes of a message

(* SecretKey::from_slice of the elliptic_curve crate: a slice not shorter   *)
(* than MIN_SIZE is padded on the left; a scalar in range is read from it.  *)
SecretKey(C, slice) ==
    IF Len(slice) \notin C.MIN_SIZE .. C.FB THEN {}
    ELSE {Value(pad(C, slice))} \cap Scalars(C)

(* From<NonZeroScalar> for SigningKey, which keeps the verifying key along. *)
SigningKey(C, secret_scalar) ==
    [secret_scalar |-> secret_scalar, verifying_key |-> lincomb(C, secret_scalar, 0, 1)]

(* SigningKey::from_slice and to_bytes.                                     *)
SigningKey_from_slice(C, slice) == {SigningKey(C, d) : d \in SecretKey(C, slice)}
SigningKey_to_bytes(C, key)     == Octets(key.secret_scalar, C.FB)

(* The PKCS#8 document of a key: to_pkcs8_der, try_from.                    *)
to_pkcs8_der(C, key)     == [curve |-> C.name, bytes |-> SigningKey_to_bytes(C, key)]
from_pkcs8_der(C, doc) == IF doc.curve = C.name THEN SigningKey_from_slice(C, doc.bytes) ELSE {}
-----------------------------------------------------------------------------
(* The SEC1 bytes of a point but the identity, compressed or not, and the   *)
(* point of SEC1 bytes.                                                     *)
to_encoded_point(C, P, compress) ==
    IF compress THEN <<IF C.odd[P] THEN 3 ELSE 2>> \o Octets(C.x[P], C.FB)
    ELSE <<4>> \o Octets(C.x[P], C.FB) \o Octets(C.y[P], C.FB)

from_encoded_point(C, bytes) ==
    UNION {{P \in Scalars(C) : to_encoded_point(C, P, compress) = bytes} : compress \in BOOLEAN}

(* VerifyingKey::from_sec1_bytes; the SPKI document, either way.            *)
from_sec1_bytes(C, bytes) == UNION {from_affine(C, P) : P \in from_encoded_point(C, bytes)}
to_public_key_der(C, vk)   == [curve |-> C.name, bytes |-> to_encoded_point(C, vk, TRUE)]
from_public_key_der(C, doc) == IF doc.curve = C.name THEN from_sec1_bytes(C, doc.bytes) ELSE {}
-----------------------------------------------------------------------------
Digests == DOMAIN Hash

ECDSA_PREFIX  == <<1, 2, 840, 10045, 4, 3>>
ECDSA_OID(n)  == Append(ECDSA_PREFIX, n)
NIST_HASH(n)  == <<2, 16, 840, 1, 101, 3, 4, 2, n>>

(* AssociatedOid of the digests; SHA3-256 stands for those not in the table.*)
DigestOid(D) ==
    CASE D = "sha224" -> NIST_HASH(4) [] D = "sha256" -> NIST_HASH(1)
      [] D = "sha384" -> NIST_HASH(2) [] D = "sha512" -> NIST_HASH(3)
      [] D = "sha3"   -> NIST_HASH(8)

(* mutant of ecdsa_oid_for_digest: SHA-384 and SHA-512 in the order of the  *)
(* hash OIDs with SHA-224 first                                             *)
ecdsa_oid_for_digest_Swapped(oid) ==
    CASE oid = NIST_HASH(4) -> {ECDSA_OID(1)} [] oid = NIST_HASH(1) -> {ECDSA_OID(2)}
      [] oid = NIST_HASH(3) -> {ECDSA_OID(3)} [] oid = NIST_HASH(2) -> {ECDSA_OID(4)}
      [] OTHER -> {}

ecdsa_oid_for_digest(oid) ==
    CASE oid = NIST_HASH(4) -> {ECDSA_OID(1)} [] oid = NIST_HASH(1) -> {ECDSA_OID(2)}
      [] oid = NIST_HASH(2) -> {ECDSA_OID(3)} [] oid = NIST_HASH(3) -> {ECDSA_OID(4)}
      [] OTHER -> {}

(* SignatureWithOid::new: the arcs both have are compared, so that a prefix *)
(* of the prefix is let through too.                                        *)
WithOid(sig, oid) ==
    IF \A i \in DOMAIN ECDSA_PREFIX \cap DOMAIN oid : ECDSA_PREFIX[i] = oid[i]
    THEN {[signature |-> sig, oid |-> oid]} ELSE {}

(* SignatureWithOid::new_with_digest.                                       *)
WithDigest(sig, D) ==
    {[signature |-> sig, oid |-> oid] : oid \in ecdsa_oid_for_digest(DigestOid(D))}

(* TryFrom<&[u8]> for SignatureWithOid: the OID is that of the hash.        *)
try_from(C, bytes) == UNION {WithOid(sig, DigestOid(C.Digest)) : sig \in from_slice(C, bytes)}
-----------------------------------------------------------------------------
(* Signing with a nonce k, which the generator of RFC 6979 may make any     *)
(* scalar, with the bytes the randomised signers add to it or without; the  *)
(* results are pairs of a signature and its recovery id.                     *)
sign_prehash(C, key, prehash, k) ==
    UNION {sign_prehashed(C, key.secret_scalar, k, z) : z \in bits2field(C, prehash)}

try_sign_digest(C, key, D, msg, k) == sign_prehash(C, key, Hash[D][msg], k)

(* DigestSigner<D, SignatureWithOid>.                                       *)
try_sign_digest_with_oid(C, key, D, msg, k) ==
    UNION {UNION {{<<labelled, ok[2]>> : labelled \in WithOid(ok[1], oid)}
                     : oid \in ecdsa_oid_for_digest(DigestOid(D))}
              : ok \in try_sign_digest(C, key, D, msg, k)}
-----------------------------------------------------------------------------
verify_digest(C, vk, D, msg, sig) == verify_prehash(C, vk, Hash[D][msg], sig)

verify(C, vk, msg, sig) == verify_digest(C, vk, C.Digest, msg, sig)

(* Verifier<der::Signature>: back to fixed width first.                     *)
verify_der(C, vk, msg, der) == \E sig \in from_der(C, der) : verify(C, vk, msg, sig)

(* Verifier<SignatureWithOid>.                                              *)
verify_with_oid(C, vk, msg, labelled) ==
    LET by(D) == verify_digest(C, vk, D, msg, labelled.signature)
    IN  CASE labelled.oid = ECDSA_OID(1) -> by("sha224")
          [] labelled.oid = ECDSA_OID(2) -> by("sha256")
          [] labelled.oid = ECDSA_OID(3) -> by("sha384")
          [] labelled.oid = ECDSA_OID(4) -> by("sha512")
          [] OTHER -> FALSE

recover_from_digest(C, D, msg, sig, id) == recover_from_prehash(C, Hash[D][msg], sig, id)

recover_from_msg(C, msg, sig, id) == recover_from_digest(C, C.Digest, msg, sig, id)

trial_recovery_from_digest(C, vk, D, msg, sig) ==
    trial_recovery_from_prehash(C, vk, Hash[D][msg], sig)

trial_recovery_from_msg(C, vk, msg, sig) ==
    trial_recovery_from_digest(C, vk, C.Digest, msg, sig)
=============================================================================
