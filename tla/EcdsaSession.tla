---------------------------- MODULE EcdsaSession ----------------------------
(***************************************************************************)
(* A signing key is loaded and its verifying key handed to the other side;  *)
(* the key signs a prehash or a message, or any r and s are taken for a     *)
(* signature; the signature may be normalised or get an OID, is sent in one *)
(* of its forms, may be changed on its way, and is read again.              *)
(***************************************************************************)
EXTENDS EcdsaKeys

CONSTANTS
    Curves,      \* the curve records, each with a name
    KeyForms,    \* the slices and documents keys are loaded from, by curve name
    Nonces,      \* the nonces k, by curve name
    Imports,     \* numbers that are tried as r and s, by curve name
    Prehashes,   \* byte strings
    Messages,    \* what Hash is defined for
    Said,        \* what is signed, as <<digest or None, text>>, by curve name
    Oids,        \* the OIDs a signature is given or read with
    Wired,       \* bound: the curves whose signatures are sent and labelled
    Wrong,       \* bytes that may overwrite or follow those on the wire
    WrongText,   \* the same for characters
    None

(* What is assumed of the curves, and that texts are bytes.                 *)
ASSUME CurvesAssumption == \A curve \in Curves : IsCurve(curve)

ASSUME ScalarsAssumption ==
    \A curve \in Curves :
        /\ Nonces[curve.name] \subseteq Scalars(curve)
        /\ Imports[curve.name] \subseteq Nat

ASSUME TextsAssumption ==
    /\ \A text \in Prehashes \cup {Hash[D][m] : D \in Digests, m \in Messages} : IsOctets(text)
    /\ \A curve \in Curves : Said[curve.name] \subseteq
           ({None} \X Prehashes) \cup (Digests \X Messages)

ASSUME DigestsAssumption ==
    /\ Digests \subseteq {"sha224", "sha256", "sha384", "sha512", "sha3"}
    /\ None \notin Digests
    /\ \A curve \in Curves : curve.Digest \in Digests

ASSUME WrongAssumption == Wrong \subseteq 0 .. 255 /\ WrongText \subseteq 0 .. 127

ASSUME NoneAssumption ==
    /\ None \notin {"fixed", "der", "hex", "derhex"} \X Seq(0 .. 255)
    /\ \A curve \in Curves : None \notin [r : Scalars(curve), s : Scalars(curve)]

VARIABLES
    C,           \* the curve in use
    key,         \* the signing key
    vk,          \* the verifying key, as the other side got it
    said,        \* what was signed
    sig, id,     \* the signature at hand, and its recovery id
    oid,         \* the OID it goes with
    under,       \* the digest that gave the OID, if any (history)
    origin,      \* where sig comes from: "none", "signed", "imported",
                 \* "normalized" or "received"; "refused" or "lost"
    wire,        \* what was sent, as <<form, bytes>>
    sent         \* the signature that was sent (history)

vars == <<C, key, vk, said, sig, id, oid, under, origin, wire, sent>>

Init ==
    /\ C \in Curves
    /\ key = None /\ vk = None
    /\ said = None /\ sig = None /\ id = None
    /\ oid = None /\ under = None
    /\ origin = "none"
    /\ wire = None /\ sent = None

(* SigningKey::from_slice, or from_pkcs8_der of a document.                 *)
Load(form, given) ==
    LET loaded == IF form = "slice" THEN SigningKey_from_slice(C, given) ELSE from_pkcs8_der(C, given)
    IN  /\ key = None /\ origin = "none"
        /\ \/ loaded = {} /\ origin' = "refused" /\ UNCHANGED key
           \/ key' \in loaded /\ UNCHANGED origin
        /\ UNCHANGED <<C, vk, said, sig, id, oid, under, wire, sent>>

(* The verifying key is written as a SEC1 point or as a document, and read. *)
Publish ==
    LET mine == key.verifying_key
    IN  /\ key # None /\ vk = None
        /\ vk' \in from_sec1_bytes(C, to_encoded_point(C, mine, TRUE))
                      \cup from_sec1_bytes(C, to_encoded_point(C, mine, FALSE))
                      \cup from_public_key_der(C, to_public_key_der(C, mine))
        /\ UNCHANGED <<C, key, said, sig, id, oid, under, origin, wire, sent>>

(* sign_prehash(_recoverable), or a message through one of its digests.     *)
Sign(what, k) ==
    LET result == IF what[1] = None THEN sign_prehash(C, key, what[2], k)
                  ELSE try_sign_digest(C, key, what[1], what[2], k)
    IN  /\ vk # None /\ origin = "none"
        /\ said' = what
        /\ \/ result = {} /\ origin' = "refused" /\ UNCHANGED <<sig, id>>
           \/ \E ok \in result : sig' = ok[1] /\ id' = ok[2] /\ origin' = "signed"
        /\ UNCHANGED <<C, key, vk, oid, under, wire, sent>>

(* The same for a signature with an OID.                                    *)
SignWithOid(what, k) ==
    LET result == try_sign_digest_with_oid(C, key, what[1], what[2], k)
    IN  /\ vk # None /\ origin = "none" /\ what[1] # None
        /\ said' = what
        /\ \/ result = {} /\ origin' = "refused" /\ UNCHANGED <<sig, id, oid, under>>
           \/ \E ok \in result :
                /\ sig' = ok[1].signature /\ oid' = ok[1].oid /\ id' = ok[2]
                /\ under' = what[1]
                /\ origin' = "signed"
        /\ UNCHANGED <<C, key, vk, wire, sent>>

(* Signature::from_scalars of any two numbers in field elements.            *)
Import(r, s) ==
    /\ vk # None /\ origin = "none"
    /\ \/ from_scalars(C, r, s) = {} /\ origin' = "refused" /\ UNCHANGED sig
       \/ sig' \in from_scalars(C, r, s) /\ origin' = "imported"
    /\ UNCHANGED <<C, key, vk, said, id, oid, under, wire, sent>>

Normalize ==
    /\ origin \in {"signed", "imported"}
    /\ sig' = normalize_s(C, sig)
    /\ origin' = "normalized"
    /\ UNCHANGED <<C, key, vk, said, id, oid, under, wire, sent>>

(* SignatureWithOid::new or new_with_digest of a plain signature.           *)
Label ==
    /\ C.name \in Wired /\ sig # None /\ oid = None /\ wire = None
    /\ \/ \E o \in Oids : oid' \in {l.oid : l \in WithOid(sig, o)} /\ under' = None
       \/ \E D \in Digests : oid' \in {l.oid : l \in WithDigest(sig, D)} /\ under' = D
    /\ UNCHANGED <<C, key, vk, said, sig, id, origin, wire, sent>>

(* The forms a signature is sent in.                                        *)
Written(s) ==
    {<<"fixed", to_bytes(C, s)>>, <<"der", to_der(s)>>, <<"hex", LowerHex(C, s)>>,
     <<"hex", UpperHex(C, s)>>, <<"derhex", Hex(to_der(s), 65)>>}

(* No form of a signature carries its OID.                                  *)
Send ==
    /\ C.name \in Wired
    /\ origin \in {"signed", "imported", "normalized"}
    /\ wire = None
    /\ wire' \in Written(sig)
    /\ sent' = sig
    /\ oid' = None /\ under' = None
    /\ UNCHANGED <<C, key, vk, said, sig, id, origin>>
-----------------------------------------------------------------------------
Undamaged == wire \in Written(sent)

(* One byte is changed, or bytes are cut off or added.                      *)
Damage ==
    LET wrong == IF wire[1] \in {"fixed", "der"} THEN Wrong ELSE WrongText
    IN  /\ sent # None /\ origin \notin {"received", "lost", "refused"} /\ Undamaged
        /\ \E bytes \in {[wire[2] EXCEPT ![i] = b] : i \in DOMAIN wire[2], b \in wrong}
                        \cup {SubSeq(wire[2], 1, i) : i \in 0 .. Len(wire[2]) - 1}
                        \cup {Append(wire[2], b) : b \in wrong} :
               wire' = <<wire[1], bytes>>
        /\ UNCHANGED <<C, key, vk, said, sig, id, oid, under, origin, sent>>

(* The readers of a form, for a plain signature.                            *)
Parsed(form, bytes) ==
    CASE form = "fixed"  -> from_slice(C, bytes)
      [] form = "der"    -> from_der(C, bytes)
      [] form = "hex"    -> from_str(C, bytes)
      [] form = "derhex" -> deserialize_der(C, bytes)

(* from_slice, from_der, from_str or deserialize.                           *)
Receive ==
    LET parsed == Parsed(wire[1], wire[2])
    IN  /\ wire # None /\ origin \notin {"received", "lost", "refused"}
        /\ \/ parsed = {} /\ origin' = "lost" /\ UNCHANGED sig
           \/ sig' \in parsed /\ origin' = "received"
        /\ UNCHANGED <<C, key, vk, said, id, oid, under, wire, sent>>

(* from_slice_with_digest, from_der_with_digest, from_der_with_oid or       *)
(* try_from of the bytes as they were sent, with the digest each went by.   *)
ReceiveWithOid ==
    LET parsed  == Parsed(wire[1], wire[2])
        by(D)   == (UNION {WithDigest(p, D) : p \in parsed}) \X {D}
        of(o)   == (UNION {WithOid(p, o) : p \in parsed}) \X {None}
        trait   == IF wire[1] = "fixed" THEN try_from(C, wire[2]) \X {C.Digest} ELSE {}
        results == (UNION {by(D) : D \in Digests}) \cup trait
                      \cup (IF wire[1] = "der" THEN UNION {of(o) : o \in Oids} ELSE {})
    IN  /\ wire # None /\ wire[1] \in {"fixed", "der"} /\ Undamaged
        /\ origin \notin {"received", "lost", "refused"}
        /\ \/ \E r \in results :
                 sig' = r[1].signature /\ oid' = r[1].oid /\ under' = r[2] /\ origin' = "received"
           \/ /\ wire[1] = "fixed" /\ trait = {}
              /\ origin' = "refused"
              /\ UNCHANGED <<sig, oid, under>>
        /\ UNCHANGED <<C, key, vk, said, id, wire, sent>>

Next ==
    \/ \E form \in KeyForms[C.name] : Load(form[1], form[2])
    \/ Publish
    \/ \E what \in Said[C.name], k \in Nonces[C.name] : Sign(what, k) \/ SignWithOid(what, k)
    \/ \E r, s \in Imports[C.name] : Import(r, s)
    \/ Normalize
    \/ Label
    \/ Send
    \/ Damage
    \/ Receive
    \/ ReceiveWithOid

Spec == Init /\ [][Next]_vars
-----------------------------------------------------------------------------
(* A signature in hand has both scalars in range, wherever it is from: the  *)
(* unwraps of Signature::r and s rely on it (ecdsa/src/lib.rs:309-316).     *)
TypeOK ==
    /\ sig # None => sig.r \in Scalars(C) /\ sig.s \in Scalars(C)
    /\ id \in 0 .. 3 \cup {None}
    /\ vk # None => vk = key.verifying_key
    /\ under \in Digests \cup {None}
    /\ origin \in {"none", "refused", "signed", "imported", "normalized", "received", "lost"}

(* The prehash of what was signed.                                          *)
Prehash == IF said[1] = None THEN said[2] ELSE Hash[said[1]][said[2]]

Labelled == [signature |-> sig, oid |-> oid]

(* What any entry point signs, the entry points for verifying and           *)
(* recovering accept: the prehash, the digest, the message hashed by the    *)
(* curve's own digest, DER, and the OID when there is one.  The recovery id *)
(* leads back to the signer's key, though s may have been negated and R.x   *)
(* reduced (hazmat.rs:139-156, recovery.rs:305-319, signing.rs:231-235).    *)
SignerRecovered ==
    origin = "signed" =>
        LET D == said[1]
            m == said[2]
        IN  /\ verify_prehash(C, vk, Prehash, sig)
            /\ recover_from_prehash(C, Prehash, sig, id) = {vk}
            /\ trial_recovery_from_prehash(C, vk, Prehash, sig) = {id}
            /\ D # None =>
                 /\ verify_digest(C, vk, D, m, sig)
                 /\ recover_from_digest(C, D, m, sig, id) = {vk}
                 /\ trial_recovery_from_digest(C, vk, D, m, sig) = {id}
            /\ D = C.Digest =>
                 /\ verify(C, vk, m, sig)
                 /\ verify_der(C, vk, m, to_der(sig))
                 /\ recover_from_msg(C, m, sig, id) = {vk}
                 /\ trial_recovery_from_msg(C, vk, m, sig) = {id}
            /\ D # None /\ under = D => verify_with_oid(C, vk, m, Labelled)

(* Verification and recovery, two computations, agree on every signature in *)
(* range: a key verifies it exactly when one of the four ids recovers it.   *)
VerifyIffRecoverable ==
    origin \in {"signed", "imported"} =>
        \A h \in Prehashes : \A z \in bits2field(C, h) :
            LET recovered == UNION {recover_from_prehash_noverify(C, h, sig, i) : i \in 0 .. 3}
            IN  \A Q \in {vk, Neg(C, vk)} \cup recovered :
                    verify_prehashed(C, Q, z, sig) <=> Q \in recovered

(* normalize_s gives a low s and changes no verdict of verify_prehashed, so *)
(* that on a curve with NORMALIZE_S verify_prehash accepts exactly one of s *)
(* and its negation (lib.rs:327-332, verifying.rs:163-173).                 *)
NormalizePreserves ==
    origin \in {"signed", "imported"} =>
        LET low == normalize_s(C, sig)
        IN  /\ ~is_high(C, low.s)
            /\ \A h \in Prehashes : \A z \in bits2field(C, h), Q \in {vk, Neg(C, vk)} :
                   /\ verify_prehashed(C, Q, z, low) = verify_prehashed(C, Q, z, sig)
                   /\ C.NORMALIZE_S =>
                        (verify_prehash(C, Q, h, sig)
                            <=> verify_prehashed(C, Q, z, sig) /\ sig = low)

(* What is read from the wire is written back to the same bytes, in every   *)
(* form but for the case of hexadecimal: each signature has one encoding,   *)
(* unchanged bytes give a signature, and a DER signature is also found at   *)
(* the start of longer input (der.rs:84-108, 208-220, 279-286,              *)
(* lib.rs:227-282, 433-458).                                                *)
WireCanonical ==
    /\ origin = "received" =>
         /\ wire[1] = "fixed" => wire[2] = to_bytes(C, sig)
         /\ wire[1] = "der" =>
              /\ wire[2] = to_der(sig)
              /\ \A b \in Wrong : decode(C, Append(wire[2], b)) = {<<sig, <<b>>>>}
         /\ wire[1] = "hex" =>
              /\ UpperHex(C, sig) = [i \in DOMAIN wire[2] |->
                    IF wire[2][i] \in Lower THEN wire[2][i] - 32 ELSE wire[2][i]]
              /\ deserialize(C, wire[2]) = {sig}
         /\ wire[1] = "derhex" => mixed_decode(wire[2]) = {to_der(sig)}
    /\ origin = "lost" => ~Undamaged

(* A digest and the OID it gives mean the same hash, in the table that      *)
(* labels and in the one that verifies: a signature labelled by a digest    *)
(* verifies what verify_digest accepts, and what was signed with it, when   *)
(* it was sent without the OID too (lib.rs:561-587, 764-772,                *)
(* verifying.rs:192-200).                                                   *)
OidNamesHash ==
    sig # None /\ under # None =>
        /\ \A m \in Messages :
              verify_with_oid(C, vk, m, Labelled) <=> verify_digest(C, vk, under, m, sig)
        /\ said # None /\ under = said[1] /\ (C.NORMALIZE_S => ~is_high(C, sig.s)) =>
              verify_with_oid(C, vk, said[2], Labelled)

(* TryFrom, said to assume the curve's default digest (lib.rs:730-734),     *)
(* makes of a signature's bytes what new_with_digest makes of the signature *)
(* and that digest.  It does not: its OID is that of the hash (lib.rs:745). *)
TraitAssumesDigest ==
    sig # None => try_from(C, to_bytes(C, sig)) = WithDigest(sig, C.Digest)
=============================================================================
