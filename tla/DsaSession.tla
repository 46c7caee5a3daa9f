----------------------------- MODULE DsaSession -----------------------------
(***************************************************************************)
(* Parameters are generated or given; a key over them is generated or       *)
(* given, signs a hash or is exported; signature and key document travel,   *)
(* may be changed on their way, and are read again.                         *)
(***************************************************************************)
EXTENDS Dsa, FiniteSets

CONSTANTS
    Sizes,       \* the key sizes [l, n] parameters are generated for
    Given,       \* the triples p, q, g that are tried as parameters
    GivenX,      \* the numbers tried as x in keys of given parameters
    GivenY,      \* and those tried as y besides the public component of x
    Drawn(_),    \* Drawn(q): the secrets and nonces drawn, of those possible
    Assembled,   \* the numbers tried as r and s
    Hashes,      \* the hashes signed
    SmallQ,      \* bound: up to this q all r and s are verified
    Wired,       \* bound: the values of p whose signatures and keys travel
    Wrong,       \* bytes that may overwrite or follow those that travel
    None

(* The sizes and the numbers given are numbers, and hashes are bytes.       *)
ASSUME NumbersAssumption ==
    /\ \A sz \in Sizes : sz.l \in Nat \ {0} /\ sz.n \in Nat \ {0}
    /\ Given \subseteq Nat \X Nat \X Nat
    /\ GivenX \subseteq Nat /\ GivenY \subseteq Nat /\ Assembled \subseteq Nat
    /\ \A h \in Hashes : IsOctets(h)

VARIABLES
    phase,       \* what was done last, or how a call ended
    size,        \* the key size the parameters were generated for, or None
    components,
    key,         \* the signing key
    hash, sig,   \* what was signed, and the signature or the two numbers
    wire,        \* the signature's bytes or the key's document
    clean,       \* whether it is as it was written (history)
    read         \* what was read from it

vars == <<phase, size, components, key, hash, sig, wire, clean, read>>

Init ==
    /\ phase = "start"
    /\ size = None
    /\ components = None
    /\ key = None
    /\ hash = None
    /\ sig = None
    /\ wire = None
    /\ clean = TRUE
    /\ read = None

(* The Ok value of a Result goes into var, and the phase to ok; an error    *)
(* leaves var as it is.                                                     *)
Outcome(result, var, next, ok, err) ==
    \/ result = {} /\ phase' = err /\ next = var
    \/ next \in result /\ phase' = ok

(* Components::generate.                                                    *)
Generate(sz) ==
    /\ phase = "start"
    /\ \E c \in common(sz) :
           Outcome(Components_from(c[1], c[2], c[3]), components, components',
                   "components", "panicked")
    /\ size' = sz
    /\ UNCHANGED <<key, hash, sig, wire, clean, read>>

(* Components::from_components.                                             *)
Give(t) ==
    /\ phase = "start"
    /\ Outcome(Components_from(t[1], t[2], t[3]), components, components',
               "components", "refused")
    /\ UNCHANGED <<size, key, hash, sig, wire, clean, read>>

(* SigningKey::generate: x from 1 up to but not including q.                *)
Keypair ==
    /\ phase = "components"
    /\ \E x \in Drawn(components.q) \cap 1 .. components.q - 1 :
           Outcome(keypair(components, x), key, key', "key", "panicked")
    /\ UNCHANGED <<size, components, hash, sig, wire, clean, read>>

(* VerifyingKey::from_components, then SigningKey::from_components.         *)
GiveKey(x) ==
    /\ phase = "components"
    /\ size = None
    /\ \E y \in GivenY \cup {public(components, x)} :
           Outcome(UNION {SigningKey_from(vk, x) : vk \in VerifyingKey_from(components, y)},
                   key, key', "key", "refused")
    /\ UNCHANGED <<size, components, hash, sig, wire, clean, read>>

SignWith(h, k) ==
    /\ Outcome(sign_prehashed(key, k, h), sig, sig', "signed", "refused")
    /\ hash' = h
    /\ UNCHANGED <<size, components, key, wire, clean, read>>

(* sign_prehash and try_sign_digest: with the nonce of RFC 6979.            *)
SignDeterministic(h) ==
    /\ phase = "key"
    /\ \E k \in Drawn(components.q) \cap secret_number_rfc6979(components.q) : SignWith(h, k)

(* Their loop finds no nonce to return.                                     *)
SignHangs ==
    /\ phase = "key"
    /\ secret_number_rfc6979(components.q) = {}
    /\ phase' = "hung"
    /\ UNCHANGED <<size, components, key, hash, sig, wire, clean, read>>

(* sign_prehash_with_rng and try_sign_digest_with_rng.                      *)
SignRandomized(h) ==
    /\ phase = "key"
    /\ \E k \in Drawn(components.q) \cap secret_number(components.q) : SignWith(h, k)

(* All the nonces tried were without inverse.                               *)
SignGivesUp ==
    /\ phase = "key"
    /\ secret_number(components.q) # 1 .. components.q - 1
    /\ phase' = "refused"
    /\ UNCHANGED <<size, components, key, hash, sig, wire, clean, read>>

(* Signature::from_components of any two numbers.                           *)
Assemble(r, s) ==
    /\ phase = "key"
    /\ Outcome(Signature_from(r, s), sig, sig', "assembled", "refused")
    /\ UNCHANGED <<size, components, key, hash, wire, clean, read>>

SendSignature ==
    /\ phase \in {"signed", "assembled"}
    /\ components.p \in Wired
    /\ phase' = "sent"
    /\ wire' = signature_to_der(sig)
    /\ UNCHANGED <<size, components, key, hash, sig, clean, read>>

(* One byte is changed, or bytes are cut off or added.                      *)
Damaged(bytes) ==
    {[bytes EXCEPT ![i] = b] : i \in DOMAIN bytes, b \in Wrong}
        \cup {SubSeq(bytes, 1, i) : i \in 0 .. Len(bytes) - 1}
        \cup {Append(bytes, b) : b \in Wrong}

DamageSignature ==
    /\ phase = "sent"
    /\ clean
    /\ wire' \in Damaged(wire)
    /\ clean' = (wire' = wire)
    /\ UNCHANGED <<phase, size, components, key, hash, sig, read>>

ReceiveSignature ==
    /\ phase = "sent"
    /\ Outcome(signature_from_der(wire), read, read', "received", "lost")
    /\ UNCHANGED <<size, components, key, hash, sig, wire, clean>>

(* The private or the public key is written.                                *)
Export ==
    /\ phase = "key"
    /\ components.p \in Wired
    /\ \/ phase' = "private" /\ wire' = to_pkcs8_der(key)
       \/ phase' = "public" /\ wire' = to_public_key_der(key.verifying_key)
    /\ UNCHANGED <<size, components, key, hash, sig, clean, read>>

(* Another program adds a public key to a private one, or one field is      *)
(* damaged.                                                                 *)
AlterDocument ==
    /\ phase \in {"private", "public"}
    /\ clean
    /\ \/ \E y \in GivenY \cup {key.verifying_key.y} :
              /\ phase = "private"
              /\ wire' = [wire EXCEPT !.public_key = EncodeUint(y)]
       \/ wire' = [wire EXCEPT !.oid = None]
       \/ \E f \in {"parameters", "private_key", "public_key"} :
              \E bytes \in Damaged(wire[f]) : wire' = [wire EXCEPT ![f] = bytes]
    /\ clean' = (wire' = wire)
    /\ UNCHANGED <<phase, size, components, key, hash, sig, read>>

ImportDocument ==
    /\ \/ /\ phase = "private"
          /\ Outcome(from_pkcs8(wire), read, read', "read private", "lost")
       \/ /\ phase = "public"
          /\ Outcome(from_spki(wire), read, read', "read public", "lost")
    /\ UNCHANGED <<size, components, key, hash, sig, wire, clean>>

Next ==
    \/ \E sz \in Sizes : Generate(sz)
    \/ \E t \in Given : Give(t)
    \/ Keypair
    \/ \E x \in GivenX : GiveKey(x)
    \/ \E h \in Hashes : SignDeterministic(h)
    \/ SignHangs
    \/ \E h \in Hashes : SignRandomized(h)
    \/ SignGivesUp
    \/ \E r, s \in Assembled : Assemble(r, s)
    \/ SendSignature
    \/ DamageSignature
    \/ ReceiveSignature
    \/ Export
    \/ AlterDocument
    \/ ImportDocument

Spec == Init /\ [][Next]_vars
-----------------------------------------------------------------------------
(* A key that belongs together: q prime, g of order q, y = g^x.             *)
Sound(k) ==
    LET c == k.verifying_key.components
    IN  /\ probably_prime(c.q)
        /\ c.g % c.p # 1 /\ modpow(c.g, c.q, c.p) = 1
        /\ k.verifying_key.y = public(c, k.x)

(* What the constructors let through: an x as large as q (signing_key.rs:44)*)
(* only with a y or a g that it does not fit; and a signature made by a key *)
(* has both numbers below q (signing_key.rs:105-111).                       *)
TypeOK ==
    /\ key # None => /\ key.x \in 1 .. components.q
                     /\ Sound(key) => key.x < components.q
                     /\ key.verifying_key.components = components
    /\ sig # None => sig.r > 0 /\ sig.s > 0
    /\ phase = "signed" => sig.r < components.q /\ sig.s < components.q
    /\ clean \in BOOLEAN

(* Parameters this crate generates are such that no call on them panics, as *)
(* the expects of components.rs:43 and keypair.rs:18 claim, and that every  *)
(* key generated on them is sound; p has the size asked for, except that    *)
(* moving it down to 1 modulo 2q may have taken it below (components.rs:45).*)
GenerationSound ==
    size # None =>
        /\ phase # "panicked"
        /\ phase = "hung" => size.n < 8
        /\ components # None =>
              /\ probably_prime(components.p) /\ probably_prime(components.q)
              /\ (components.p - 1) % components.q = 0
              /\ BitLength(components.q) = size.n
              /\ components.p < 2 ^ size.l
              /\ components.p > 2 ^ (size.l - 1) - 2 * components.q
        /\ key # None => Sound(key)

(* The signature's equation, with a nonce instead of inverses.              *)
Equation(k, h, s) ==
    LET c == k.verifying_key.components
    IN  /\ s.r < c.q /\ s.s < c.q
        /\ \E n \in 0 .. c.q - 1 :
              /\ (s.s * n) % c.q = (Leftmost(c.q, h) + k.x * s.r) % c.q
              /\ s.r = modpow(c.g, n, c.p) % c.q

(* A sound key's signatures verify, whichever nonce they were made with;    *)
(* and over all r and s exactly those are accepted that fulfil the equation *)
(* of the signer, for some nonce (signing_key.rs:85-112,                    *)
(* verifying_key.rs:51-76).                                                 *)
VerifyIffEquation ==
    key # None /\ Sound(key) =>
        /\ phase = "signed" => verify_prehashed(key.verifying_key, hash, sig)
        /\ phase = "key" /\ components.q <= SmallQ =>
              \A h \in Hashes, r, s \in 1 .. components.q + 2 :
                  LET t == [r |-> r, s |-> s]
                  IN  verify_prehashed(key.verifying_key, h, t) <=> Equation(key, h, t)

(* What is read from a signature's bytes is written back to the same bytes, *)
(* and unchanged bytes give the signature that was sent (lib.rs:112-139).   *)
(* A key document as this crate writes it gives the same key, with the      *)
(* public key that belongs to x in place of another; with a public key in   *)
(* it, that one is kept (signing_key.rs:175-223, verifying_key.rs:118-157). *)
Interchange ==
    /\ phase = "received" => signature_to_der(read) = wire /\ (clean => read = sig)
    /\ phase = "read public" =>
           /\ to_public_key_der(read) = [wire EXCEPT !.private_key = Absent]
           /\ clean => read = key.verifying_key
    /\ phase = "read private" =>
           /\ to_pkcs8_der(read) = [wire EXCEPT !.public_key = Absent]
           /\ IF wire.public_key = Absent
              THEN read.verifying_key.y = public(read.verifying_key.components, read.x)
              ELSE EncodeUint(read.verifying_key.y) = wire.public_key
           /\ clean /\ Sound(key) => read = key
    /\ phase = "lost" /\ clean => sig = None /\ ~Sound(key)
=============================================================================
