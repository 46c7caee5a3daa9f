----------------------------- MODULE EdSession -----------------------------
(***************************************************************************)
(* A program holds a signature, a key pair or a public key of one of the    *)
(* two Edwards curve crates, writes it in any of its forms, may find what   *)
(* it wrote altered, and reads it with either crate; what was read is held  *)
(* and written again, in whatever order.                                    *)
(***************************************************************************)
EXTENDS Integers, Sequences

CONSTANTS
    Objects,         \* what may be held at first: <<crate, object>>
    Positions,       \* the places of a byte string that may be overwritten
    Wrong,           \* bytes that may overwrite or follow those of a string
    NoByte,          \* an element of a tuple that is no u8
    WrongCharacters, \* ... and of a text
    ForeignKey,      \* ForeignKey[crate]: a public key of someone else
    MaxAlterations,  \* bound: alterations in a session
    None

Ed25519 == INSTANCE EdContainers WITH
    COMPONENT_SIZE <- 32, KEYPAIR_SIZE <- 64, PUBLIC_SIZE <- 32,
    SECRET_HEADER <- <<4, 32>>, ALGORITHM_OID <- "1.3.101.112"

Ed448 == INSTANCE Ed448

VARIABLES
    crate,       \* the crate whose type the object has
    held,        \* the object: [kind, value]
    medium,      \* what was written last: [form, content]
    phase,       \* "held", "written", "read" or "refused"
    alterations, \* how often a medium was altered
    first,       \* the object held at first (history)
    replaced     \* the parts altered in a medium; a signature read as the
                 \* other crate's counts as altered (history)

vars == <<crate, held, medium, phase, alterations, first, replaced>>

Crates == {"ed25519", "ed448"}

Init ==
    /\ \E object \in Objects :
           /\ crate = object[1]
           /\ held = object[2]
    /\ medium = None
    /\ phase = "held"
    /\ alterations = 0
    /\ first = held
    /\ replaced = {}
-----------------------------------------------------------------------------
(* The forms of each kind of object, and how each crate writes them; a form *)
(* without a value is one the crate or the object does not have.            *)
Forms == [signature |-> {"fixed", "components", "lower", "upper", "tuple", "bytes"},
          keypair   |-> {"pair", "pkcs8"},
          public    |-> {"spki"}]

Ed25519Writes(form, v) ==
    CASE form \in {"fixed", "bytes"} -> {Ed25519!to_bytes(v)}
      [] form = "components"         -> {<<v.R, v.s>>}
      [] form = "lower"              -> {Ed25519!LowerHex(v)}
      [] form = "upper"              -> {Ed25519!UpperHex(v)}
      [] form = "tuple"              -> {Ed25519!serialize(v)}
      [] form = "pair"               -> Ed25519!Keypair_to_bytes(v)
      [] form = "pkcs8"              -> {Ed25519!to_pkcs8_der(v)}
      [] form = "spki"               -> {Ed25519!to_public_key_der(v)}

Ed448Writes(form, v) ==
    CASE form \in {"fixed", "bytes"} -> {Ed448!to_bytes(v)}
      [] form = "components"         -> {}
      [] form = "lower"              -> {Ed448!LowerHex(v)}
      [] form = "upper"              -> {Ed448!UpperHex(v)}
      [] form = "tuple"              -> {Ed448!serialize(v)}
      [] form = "pair"               -> Ed448!Keypair_to_bytes(v)
      [] form = "pkcs8"              -> {Ed448!to_pkcs8_der(v)}
      [] form = "spki"               -> {Ed448!to_public_key_der(v)}

(* Reading; the arguments of from_components and KeypairBytes::from_bytes   *)
(* are arrays, so only those of the crate's sizes exist.                    *)
Ed25519Reads(form, c) ==
    CASE form = "fixed"             -> Ed25519!from_slice(c)
      [] form = "components"        -> {Ed25519!from_components(c[1], c[2])}
      [] form \in {"lower", "upper"} -> Ed25519!from_str(c)
      [] form = "tuple"             -> Ed25519!visit_seq(c)
      [] form = "bytes"             -> Ed25519!visit_bytes(c)
      [] form = "pair"              -> {Ed25519!Keypair_from_bytes(a) : a \in {c} \cap [1 .. 64 -> 0 .. 255]}
      [] form = "pkcs8"             -> Ed25519!from_pkcs8_der(c)
      [] form = "spki"              -> Ed25519!from_public_key_der(c)

Ed448Reads(form, c) ==
    CASE form = "fixed"             -> Ed448!from_slice(c)
      [] form = "components"        -> {}
      [] form \in {"lower", "upper"} -> Ed448!from_str(c)
      [] form = "tuple"             -> Ed448!visit_seq(c)
      [] form = "bytes"             -> Ed448!visit_bytes(c)
      [] form = "pair"              -> {Ed448!Keypair_from_bytes(a) : a \in {c} \cap [1 .. 114 -> 0 .. 255]}
      [] form = "pkcs8"             -> Ed448!from_pkcs8_der(c)
      [] form = "spki"              -> Ed448!from_public_key_der(c)

Writes(c, form, v) == IF c = "ed25519" THEN Ed25519Writes(form, v) ELSE Ed448Writes(form, v)
Reads(c, form, content) ==
    IF c = "ed25519" THEN Ed25519Reads(form, content) ELSE Ed448Reads(form, content)

Write ==
    /\ phase \in {"held", "read"}
    /\ \E form \in Forms[held.kind] : \E content \in Writes(crate, form, held.value) :
           medium' = [form |-> form, content |-> content]
    /\ phase' = "written"
    /\ UNCHANGED <<crate, held, alterations, first, replaced>>

Read(reader) ==
    LET parsed == Reads(reader, medium.form, medium.content)
    IN  /\ phase = "written"
        /\ \/ /\ parsed = {}
              /\ phase' = "refused"
              /\ UNCHANGED <<crate, held>>
           \/ \E v \in parsed :
                /\ held' = [kind |-> held.kind, value |-> v]
                /\ crate' = reader
                /\ phase' = "read"
        /\ replaced' = IF crate' = crate THEN replaced ELSE replaced \cup {"signature"}
        /\ UNCHANGED <<medium, alterations, first>>

(* TryFrom<KeypairBytes> for PublicKeyBytes: only ed25519 has it.           *)
TakePublicKey ==
    /\ phase \in {"held", "read"}
    /\ crate = "ed25519"
    /\ held.kind = "keypair"
    /\ \/ /\ Ed25519!PublicKey_try_from(held.value) = {}
          /\ phase' = "refused"
          /\ medium' = None
          /\ UNCHANGED held
       \/ /\ \E pk \in Ed25519!PublicKey_try_from(held.value) :
                 held' = [kind |-> "public", value |-> pk]
          /\ phase' = "held"
          /\ medium' = None
    /\ UNCHANGED <<crate, alterations, first, replaced>>
-----------------------------------------------------------------------------
(* A string with one element replaced, or one element shorter or longer.    *)
Altered(s, wrong) ==
    {[s EXCEPT ![i] = w] : i \in Positions \cap DOMAIN s, w \in wrong}
    \cup {SubSeq(s, 1, Len(s) - 1)}
    \cup {Append(s, w) : w \in wrong}

(* Documents: each field altered; a BIT STRING may leave bits unused.       *)
AlteredBits(bits) ==
    {[bits EXCEPT !.unused = 4]} \cup {[bits EXCEPT !.bytes = b] : b \in Altered(bits.bytes, Wrong)}

AlteredHead(doc) ==
    {[doc EXCEPT !.oid = oid] : oid \in {"1.3.101.112", "1.3.101.113"}}
    \cup {[doc EXCEPT !.parameters = TRUE]}

(* What an alteration makes of a medium, with the part it touches.          *)
Alterations(form, c) ==
    CASE form \in {"fixed", "bytes"} ->
            {<<"signature", a>> : a \in Altered(c, Wrong)}
      [] form = "tuple" ->
            {<<"signature", a>> : a \in Altered(c, Wrong \cup {NoByte})}
      [] form \in {"lower", "upper"} ->
            {<<"signature", a>> : a \in Altered(c, WrongCharacters)}
      [] form = "pkcs8" ->
            {<<"head", a>> : a \in AlteredHead(c)}
            \cup {<<"secret", [c EXCEPT !.private_key = a]>> : a \in Altered(c.private_key, Wrong)}
            \cup {<<"public", [c EXCEPT !.public_key = pk]>> :
                    pk \in {{}, {[unused |-> 0, bytes |-> ForeignKey[crate]]}}
                           \cup UNION {{{a} : a \in AlteredBits(bits)} : bits \in c.public_key}}
      [] form = "spki" ->
            {<<"head", a>> : a \in AlteredHead(c)}
            \cup {<<"public", [c EXCEPT !.subject_public_key = a]>> :
                    a \in AlteredBits(c.subject_public_key)}
      [] OTHER -> {}

Alter ==
    /\ phase = "written"
    /\ alterations < MaxAlterations
    /\ \E a \in Alterations(medium.form, medium.content) :
           /\ medium' = [medium EXCEPT !.content = a[2]]
           /\ replaced' = replaced \cup {a[1]}
    /\ alterations' = alterations + 1
    /\ UNCHANGED <<crate, held, phase, first>>

Next ==
    \/ Write
    \/ Alter
    \/ \E reader \in Crates : Read(reader)
    \/ TakePublicKey

Spec == Init /\ [][Next]_vars
-----------------------------------------------------------------------------
(* What reads as v in a form: what the crate writes for v; hexadecimal in   *)
(* either case, but one of them; a tuple with more elements than are taken; *)
(* a key document whose public key has unused bits and is dropped.          *)
Spellings(c, form, v) ==
    IF form \in {"lower", "upper"} THEN Writes(c, "lower", v) \cup Writes(c, "upper", v)
    ELSE IF form = "tuple" THEN {s \in {medium.content} : \E w \in Writes(c, form, v) :
                                    Len(s) >= Len(w) /\ SubSeq(s, 1, Len(w)) = w}
    ELSE IF form = "pkcs8" /\ v.public_key = {}
    THEN {d \in {medium.content} : \E w \in Writes(c, form, v) :
            /\ \A bits \in d.public_key : bits.unused # 0
            /\ [d EXCEPT !.public_key = {}] = w}
    ELSE Writes(c, form, v)

(* Only spellings of what is then held are read, so no two objects share   *)
(* one; and what was written and left alone reads back as the same object   *)
(* (hex.rs:53-86, lib.rs:319-323, serde.rs:38-95, pkcs8.rs:167-202).  For   *)
(* Ed448 these are the 114 bytes of Signature::BYTE_SIZE, as its tests have *)
(* them, and not the 64 that its comments and error texts say               *)
(* (ed448/src/lib.rs:136, ed448/src/serde.rs:29, 77).                       *)
ReadsOwnWritings ==
    /\ phase = "read" => medium.content \in Spellings(crate, medium.form, held.value)
    /\ phase = "written" /\ medium.content \in Writes(crate, medium.form, held.value) =>
           Reads(crate, medium.form, medium.content) = {held.value}

(* However often an object is written, read and converted, each part of it  *)
(* is the one held at first unless that very part was altered: a public key *)
(* is neither invented nor lost, although it is optional in three of the    *)
(* forms and never compared with the secret key (pkcs8.rs:87-112, 160-202). *)
PartsFollow ==
    CASE held.kind = "signature" -> "signature" \in replaced \/ held = first
      [] held.kind = "keypair" ->
            /\ "secret" \in replaced \/ held.value.secret_key = first.value.secret_key
            /\ "public" \in replaced \/ held.value.public_key = first.value.public_key
      [] held.kind = "public" ->
            \/ "public" \in replaced
            \/ IF first.kind = "keypair" THEN held.value \in first.value.public_key
               ELSE held = first

(* No crate reads what the other wrote, even with one field altered, except *)
(* that the shorter tuple is found at the start of the longer one           *)
(* (lib.rs:319-323, pkcs8.rs:164-182, 278-290, serde.rs:38-47).             *)
CratesApart == [][crate' # crate => medium.form = "tuple"]_vars
=============================================================================
