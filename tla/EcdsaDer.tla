------------------------------ MODULE EcdsaDer ------------------------------
(***************************************************************************)
(* Signatures as bytes: fixed width (ecdsa/src/lib.rs) and DER              *)
(* (ecdsa/src/der.rs), and either in hexadecimal.                           *)
(***************************************************************************)
EXTENDS Ecdsa

(* The byte ranges of r and s.                                              *)
decode_der(bytes) == DecodeSequence(bytes, 2)

(* Signature::to_bytes and from_slice.                                      *)
to_bytes(C, sig) == Octets(sig.r, C.FB) \o Octets(sig.s, C.FB)

from_slice(C, bytes) ==
    IF Len(bytes) # 2 * C.FB THEN {}
    ELSE from_scalars(C, Value(SubSeq(bytes, 1, C.FB)), Value(SubSeq(bytes, C.FB + 1, 2 * C.FB)))

(* Signature::to_der.                                                       *)
to_der(sig) == EncodeSequence(<<sig.r, sig.s>>)

(* Signature::from_der: der::Signature::from_bytes, then its conversion to  *)
(* fixed width.                                                             *)
from_der(C, bytes) ==
    UNION {LET r == SubSeq(bytes, d[1][1], d[1][2])
               s == SubSeq(bytes, d[2][1], d[2][2])
           IN  IF Len(r) > C.FB \/ Len(s) > C.FB THEN {}
               ELSE from_slice(C, pad(C, r) \o pad(C, s))
              : d \in decode_der(bytes)}

(* The most bytes a der::Signature takes: nine more than the scalars.       *)
MaxSize(C) == 2 * C.FB + 9

(* Decode for der::Signature: as many bytes as the header announces, from a *)
(* longer input too, and what is left of it.                                *)
decode(C, bytes) ==
    IF Len(bytes) < 2 THEN {}
    ELSE LET end == 2 + bytes[2]
         IN  IF bytes[1] # SEQUENCE \/ bytes[2] >= 128 \/ end > MaxSize(C) \/ end > Len(bytes)
             THEN {}
             ELSE {<<sig, SubSeq(bytes, end + 1, Len(bytes))>> :
                      sig \in from_der(C, SubSeq(bytes, 1, end))}
-----------------------------------------------------------------------------
(* Display is upper case, as is the readable form of serde.                 *)
LowerHex(C, sig) == Hex(to_bytes(C, sig), 97)
UpperHex(C, sig) == Hex(to_bytes(C, sig), 65)

(* base16ct::mixed::decode: either case.                                    *)
mixed_decode(text) ==
    IF Len(text) % 2 = 1 \/ \E i \in DOMAIN text : HexValue(text[i]) = {} THEN {}
    ELSE LET value(i) == CHOOSE v \in HexValue(text[i]) : TRUE
         IN  {[i \in 1 .. Len(text) \div 2 |-> 16 * value(2 * i - 1) + value(2 * i)]}

(* FromStr for Signature: the scalars are parsed one by one.                *)
from_str(C, text) ==
    LET half(a, b) == {Value(bytes) : bytes \in mixed_decode(SubSeq(text, a, b))} \cap Scalars(C)
    IN  IF \/ Len(text) # 4 * C.FB
           \/ \E i \in DOMAIN text : text[i] \notin Digits \cup Upper \cup Lower
        THEN {}
        ELSE UNION {from_scalars(C, r, s) :
                       r \in half(1, 2 * C.FB), s \in half(2 * C.FB + 1, 4 * C.FB)}

(* Deserialize for either signature from readable text.                     *)
deserialize(C, text)     == UNION {from_slice(C, bytes) : bytes \in mixed_decode(text)}
deserialize_der(C, text) == UNION {from_der(C, bytes) : bytes \in mixed_decode(text)}
=============================================================================
