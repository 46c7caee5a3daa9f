------------------------------- MODULE Ed448 -------------------------------
(***************************************************************************)
(* The ed448-signature crate: the containers of EdContainers in its sizes,  *)
(* without from_components and without a public key taken from a key pair.  *)
(***************************************************************************)
EXTENDS Integers

LOCAL C == INSTANCE EdContainers WITH
    COMPONENT_SIZE <- 57, KEYPAIR_SIZE <- 114, PUBLIC_SIZE <- 57,
    SECRET_HEADER <- <<4, 57>>, ALGORITHM_OID <- "1.3.101.113"

(* ed448/src/lib.rs                                                         *)
from_bytes(bytes) == C!from_bytes(bytes)
from_slice(bytes) == C!from_slice(bytes)
to_bytes(sig)     == C!to_bytes(sig)

(* ed448/src/hex.rs                                                         *)
LowerHex(sig)  == C!LowerHex(sig)
UpperHex(sig)  == C!UpperHex(sig)
from_str(text) == C!from_str(text)

(* ed448/src/serde.rs                                                       *)
serialize(sig)      == C!serialize(sig)
visit_seq(elements) == C!visit_seq(elements)
visit_bytes(bytes)  == C!visit_bytes(bytes)

(* ed448/src/pkcs8.rs                                                       *)
Keypair_from_bytes(bytes) == C!Keypair_from_bytes(bytes)
Keypair_to_bytes(keypair) == C!Keypair_to_bytes(keypair)
to_pkcs8_der(keypair)     == C!to_pkcs8_der(keypair)
from_pkcs8_der(doc)       == C!from_pkcs8_der(doc)
to_public_key_der(pk)     == C!to_public_key_der(pk)
from_public_key_der(doc)  == C!from_public_key_der(doc)
=============================================================================
