---------------------------- MODULE EdContainers ----------------------------
(***************************************************************************)
(* The containers of the ed25519 crate (ed25519/src/{lib,hex,serde,pkcs8}   *)
(* .rs): signatures, key pairs and public keys as bytes of a fixed size,    *)
(* which nothing compares with a curve.  ed448 repeats them in other sizes. *)
(* A Result or an Option is the set of its value: empty for Err and None.   *)
(***************************************************************************)
EXTENDS Octets

CONSTANTS
    COMPONENT_SIZE,    \* bytes of R and of s
    KEYPAIR_SIZE,      \* KeypairBytes::BYTE_SIZE
    PUBLIC_SIZE,       \* PublicKeyBytes::BYTE_SIZE
    SECRET_HEADER,     \* the two bytes before a secret key in PKCS#8
    ALGORITHM_OID

BYTE_SIZE == 2 * COMPONENT_SIZE

(* mutant of Exactly: a longer slice is cut off                             *)
Exactly_AtLeast(bytes, size) == IF Len(bytes) >= size THEN {SubSeq(bytes, 1, size)} ELSE {}

(* A slice as an array of a fixed size.                                     *)
Exactly(bytes, size) == IF Len(bytes) = size THEN {bytes} ELSE {}
-----------------------------------------------------------------------------
(* Signature::from_bytes, from_slice, from_components and to_bytes.         *)
from_components(R, s) == [R |-> R, s |-> s]

from_bytes(bytes) ==
    from_components(SubSeq(bytes, 1, COMPONENT_SIZE),
                    SubSeq(bytes, COMPONENT_SIZE + 1, BYTE_SIZE))

from_slice(bytes) == {from_bytes(array) : array \in Exactly(bytes, BYTE_SIZE)}

to_bytes(sig) == sig.R \o sig.s
-----------------------------------------------------------------------------
Plus == 43      \* the character, as its ASCII code

(* fmt::LowerHex and fmt::UpperHex; Display is the latter.                  *)
LowerHex(sig) == Hex(sig.R, 97) \o Hex(sig.s, 97)
UpperHex(sig) == Hex(sig.R, 65) \o Hex(sig.s, 65)

(* u8::from_str_radix(s, 16) of two characters: a sign may come first.      *)
from_str_radix(c, d) ==
    {(IF c = Plus THEN 0 ELSE 16 * v) + w :
        v \in IF c = Plus THEN {0} ELSE HexValue(c), w \in HexValue(d)}

(* mutant of UniformCase: only letters are looked at                        *)
UniformCase_Letters(text) ==
    LET used == {text[i] : i \in DOMAIN text} IN used \cap Upper = {} \/ used \cap Lower = {}

(* The loop of from_str over the characters.                                *)
UniformCase(text) ==
    LET used == {text[i] : i \in DOMAIN text}
    IN  /\ used \subseteq Digits \cup Upper \cup Lower
        /\ used \cap Upper = {} \/ used \cap Lower = {}

(* FromStr for Signature.                                                   *)
from_str(text) ==
    LET value(i) == from_str_radix(text[2 * i - 1], text[2 * i])
    IN  IF Len(text) # 2 * BYTE_SIZE \/ ~UniformCase(text) THEN {}
        ELSE IF \E i \in 1 .. BYTE_SIZE : value(i) = {} THEN {}
        ELSE from_slice([i \in 1 .. BYTE_SIZE |-> CHOOSE v \in value(i) : TRUE])
-----------------------------------------------------------------------------
(* Serialize: a tuple of BYTE_SIZE bytes.                                   *)
serialize(sig) == to_bytes(sig)

(* visit_seq: a missing element and one that is no u8 are errors; what      *)
(* follows is left to the deserializer (bincode leaves it unread).          *)
visit_seq(elements) ==
    IF Len(elements) < BYTE_SIZE \/ \E i \in 1 .. BYTE_SIZE : elements[i] \notin 0 .. 255
    THEN {}
    ELSE {from_bytes(SubSeq(elements, 1, BYTE_SIZE))}

(* visit_bytes, the form of serde_bytes.                                    *)
visit_bytes(bytes) == {from_bytes(array) : array \in Exactly(bytes, BYTE_SIZE)}
-----------------------------------------------------------------------------
(* KeypairBytes::from_bytes, of an array, and to_bytes.                     *)
Keypair_from_bytes(bytes) ==
    [secret_key |-> SubSeq(bytes, 1, KEYPAIR_SIZE \div 2),
     public_key |-> {SubSeq(bytes, KEYPAIR_SIZE \div 2 + 1, KEYPAIR_SIZE)}]

(* mutant of Keypair_to_bytes: the array stays zero without a public key    *)
Keypair_to_bytes_Zero(keypair) ==
    {keypair.secret_key \o
        (IF keypair.public_key = {} THEN [i \in 1 .. PUBLIC_SIZE |-> 0]
         ELSE CHOOSE pk \in keypair.public_key : TRUE)}

Keypair_to_bytes(keypair) == {keypair.secret_key \o pk : pk \in keypair.public_key}

(* A BIT STRING; as_bytes has no value when the last byte is partly unused. *)
BitString(bytes) == [unused |-> 0, bytes |-> bytes]
as_bytes(bits) == IF bits.unused = 0 THEN {bits.bytes} ELSE {}

(* EncodePrivateKey: the fields of a PrivateKeyInfo.                        *)
to_pkcs8_der(keypair) ==
    [oid |-> ALGORITHM_OID, parameters |-> FALSE,
     private_key |-> SECRET_HEADER \o keypair.secret_key,
     public_key |-> {BitString(pk) : pk \in keypair.public_key}]

SecretKey(private_key) ==
    IF Len(private_key) < 2 \/ SubSeq(private_key, 1, 2) # SECRET_HEADER THEN {}
    ELSE Exactly(SubSeq(private_key, 3, Len(private_key)), KEYPAIR_SIZE \div 2)

(* mutant of from_pkcs8_der: parameters are let through                     *)
from_pkcs8_der_Parameters(doc) ==
    LET given == UNION {as_bytes(bits) : bits \in doc.public_key}
        taken == UNION {Exactly(bytes, PUBLIC_SIZE) : bytes \in given}
    IN  IF doc.oid # ALGORITHM_OID \/ given # taken THEN {}
        ELSE {[secret_key |-> sk, public_key |-> taken] : sk \in SecretKey(doc.private_key)}

(* TryFrom<PrivateKeyInfoRef>: a public key of partly used bytes is         *)
(* dropped, one of another length refused, and none compared with the       *)
(* secret key.                                                              *)
from_pkcs8_der(doc) ==
    LET given == UNION {as_bytes(bits) : bits \in doc.public_key}
        taken == UNION {Exactly(bytes, PUBLIC_SIZE) : bytes \in given}
    IN  IF doc.oid # ALGORITHM_OID \/ doc.parameters \/ given # taken THEN {}
        ELSE {[secret_key |-> sk, public_key |-> taken] : sk \in SecretKey(doc.private_key)}

(* EncodePublicKey and TryFrom<SubjectPublicKeyInfoRef> of PublicKeyBytes.  *)
to_public_key_der(pk) ==
    [oid |-> ALGORITHM_OID, parameters |-> FALSE, subject_public_key |-> BitString(pk)]

from_public_key_der(doc) ==
    IF doc.oid # ALGORITHM_OID \/ doc.parameters THEN {}
    ELSE UNION {Exactly(bytes, PUBLIC_SIZE) : bytes \in as_bytes(doc.subject_public_key)}

(* TryFrom<&KeypairBytes> for PublicKeyBytes.                               *)
PublicKey_try_from(keypair) == keypair.public_key
=============================================================================
