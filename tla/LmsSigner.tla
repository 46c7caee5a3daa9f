----------------------------- MODULE LmsSigner -----------------------------
(***************************************************************************)
(* LMS signing keys as objects of a program (lms/src/lms/private.rs): made  *)
(* from a seed, signing with one LM-OTS key per leaf in the order of q,     *)
(* turned into bytes, which consumes them, and read back from bytes.  The   *)
(* bytes are data: the program may keep and read them any number of times.  *)
(* A &mut borrow makes each call one step.                                  *)
(***************************************************************************)
EXTENDS OtsChains, LmsBytes

CONSTANTS
    Mode,          \* the LMS mode: [TC, OtsTC, M, H, N, W], M in words and N in
                   \* bytes; N and W are those of its LM-OTS mode
    Keys,          \* the signing key objects
    Ids,           \* the identifiers keys are made with, as names
    Seeds,         \* the seeds keys are made from, as names
    Randomizers,   \* the values of the message randomizer C
    Messages,      \* what may be signed
    NoKey,         \* an object not made yet
    Gone           \* an object that was turned into bytes

ASSUME ModeAssumption ==
    Mode.H \in Nat \ {0} /\ Mode.M \in Nat \ {0} /\ ValidMode(Mode)

LEAVES == 2 ^ Mode.H

(* The messages in use have hashes of the mode's length and no two of them  *)
(* collide under one leaf and randomizer.                                   *)
ASSUME DigestAssumption ==
    \A id \in Ids, q \in 0 .. LEAVES - 1, c \in Randomizers :
        /\ \A msg \in Messages : MessageHash(id, q, c, msg) \in [1 .. Mode.N -> Byte]
        /\ \A a, b \in Messages :
               MessageHash(id, q, c, a) = MessageHash(id, q, c, b) => a = b

VARIABLES
    key,       \* key[o]: the fields of object o, or NoKey, or Gone
    origin,    \* origin[o]: the <<id, seed>> o holds or held (history)
    derived,   \* the objects made by new or new_from_seed (history)
    vk,        \* vk[o]: the verifying key of o, taken when it was made
    images,    \* the byte strings objects were turned into
    sigs,      \* the signatures returned, with object and message (history)
    reply      \* what the last call returned

vars == <<key, origin, derived, vk, images, sigs, reply>>

IsKey(k) == k # NoKey /\ k # Gone
Live     == {o \in Keys : IsKey(key[o])}

(* The one-time key of leaf i, rebuilt from the seed whenever it is needed. *)
OtsKey(id, seed, i) == OtsNewFromSeed(Mode, i, id, seed)

(* The result of gen_pk_tree (see LmsTree): auth_tree[n] is the code's      *)
(* auth_tree[n - 1].                                                        *)
GenPkTree(id, seed) ==
    LET T[n \in 1 .. 2 * LEAVES - 1] ==
            IF n >= LEAVES
            THEN LeafHash(id, n, OtsPublic(Mode, OtsKey(id, seed, n - LEAVES)).k)
            ELSE NodeHash(id, n, T[2 * n], T[2 * n + 1])
    IN  T

(* SigningKey::public.                                                      *)
Public(k) == [id |-> k.id, k |-> k.auth_tree[1]]

MakeKey(id, seed, q) ==
    [id |-> id, seed |-> seed, auth_tree |-> GenPkTree(id, seed), q |-> q]

(* The fields of a key that is alive.                                       *)
KeyFields == [id : Ids, seed : Seeds, q : 0 .. LEAVES,
              auth_tree : {GenPkTree(id, seed) : id \in Ids, seed \in Seeds}]

ASSUME AbsentAssumption ==
    NoKey # Gone /\ NoKey \notin KeyFields /\ Gone \notin KeyFields

(* The bytes of a key, and the names of the fields read from bytes.         *)
Image(k) == LmsSkBytes(Mode, [q |-> k.q, id |-> Opaque(k.id, ID_LEN),
                              seed |-> Opaque(k.seed, Mode.M)])
Name(words) == words[1].tag

(* mutant of SignatureOf: the path holds the ancestors, not their siblings  *)
SignatureOf_OwnPath(k, c, msg) ==
    LET r == LEAVES + k.q
    IN  [q    |-> k.q,
         ots  |-> OtsSign(Mode, OtsKey(k.id, k.seed, k.q), c, msg),
         path |-> [l \in 0 .. Mode.H - 1 |-> k.auth_tree[r \div 2 ^ l]]]

(* mutant of SignatureOf: the index is read after it was incremented        *)
SignatureOf_Late(k, c, msg) ==
    LET r == LEAVES + k.q
    IN  [q    |-> k.q + 1,
         ots  |-> OtsSign(Mode, OtsKey(k.id, k.seed, k.q), c, msg),
         path |-> [l \in 0 .. Mode.H - 1 |-> k.auth_tree[Sibling(r \div 2 ^ l)]]]

(* The signature try_sign_with_rng returns for index k.q.                   *)
SignatureOf(k, c, msg) ==
    LET r == LEAVES + k.q
    IN  [q    |-> k.q,
         ots  |-> OtsSign(Mode, OtsKey(k.id, k.seed, k.q), c, msg),
         path |-> [l \in 0 .. Mode.H - 1 |-> k.auth_tree[Sibling(r \div 2 ^ l)]]]

(* Verifier::verify of an LMS verifying key (see LmsVerify for the loop).   *)
Verify(v, msg, sig) ==
    LET k == RecoverPubkey(Mode, sig.ots, v.id, sig.q, msg).k
        r == sig.q + LEAVES
        tmp[l \in 0 .. Mode.H] ==
            IF l = 0 THEN LeafHash(v.id, r, k)
            ELSE Parent(v.id, r \div 2 ^ (l - 1), tmp[l - 1], sig.path[l - 1])
    IN  tmp[Mode.H] = v.k
-----------------------------------------------------------------------------
Init ==
    /\ key = [o \in Keys |-> NoKey]
    /\ origin = [o \in Keys |-> NoKey]
    /\ derived = {}
    /\ vk = [o \in Keys |-> NoKey]
    /\ images = {}
    /\ sigs = {}
    /\ reply = "none"

(* SigningKey::new_from_seed; SigningKey::new is the same with the id and   *)
(* the seed drawn from the generator.                                       *)
NewFromSeed(o, id, seed) ==
    /\ key[o] = NoKey
    /\ key' = [key EXCEPT ![o] = MakeKey(id, seed, 0)]
    /\ origin' = [origin EXCEPT ![o] = <<id, seed>>]
    /\ vk' = [vk EXCEPT ![o] = Public(key'[o])]
    /\ derived' = derived \cup {o}
    /\ reply' = "none"
    /\ UNCHANGED <<images, sigs>>

(* mutant of Sign: the index is not advanced                                *)
Sign_NoAdvance(o, c, msg) ==
    /\ o \in Live
    /\ key[o].q < LEAVES
    /\ sigs' = sigs \cup {[obj |-> o, msg |-> msg, sig |-> SignatureOf(key[o], c, msg)]}
    /\ reply' = "signed"
    /\ UNCHANGED <<key, origin, derived, vk, images>>

(* try_sign_with_rng with an index left.                                    *)
Sign(o, c, msg) ==
    /\ o \in Live
    /\ key[o].q < LEAVES
    /\ sigs' = sigs \cup {[obj |-> o, msg |-> msg, sig |-> SignatureOf(key[o], c, msg)]}
    /\ key' = [key EXCEPT ![o].q = @ + 1]
    /\ reply' = "signed"
    /\ UNCHANGED <<origin, derived, vk, images>>

(* mutant of SignRefused: the last index is refused too                     *)
SignRefused_OneEarly(o) ==
    /\ o \in Live
    /\ key[o].q >= LEAVES - 1
    /\ reply' = "refused"
    /\ UNCHANGED <<key, origin, derived, vk, images, sigs>>

(* try_sign_with_rng with no index left: LmsOutOfPrivateKeys.               *)
SignRefused(o) ==
    /\ o \in Live
    /\ key[o].q >= LEAVES
    /\ reply' = "refused"
    /\ UNCHANGED <<key, origin, derived, vk, images, sigs>>

(* mutant of SignInterrupted: q is incremented before the generator is used *)
SignInterrupted_Counted(o) ==
    /\ o \in Live
    /\ key[o].q < LEAVES
    /\ key' = [key EXCEPT ![o].q = @ + 1]
    /\ reply' = "failed"
    /\ UNCHANGED <<origin, derived, vk, images, sigs>>

(* The caller's generator panics inside the one-time signature, before q is *)
(* incremented; the caller survives and keeps the key.                      *)
SignInterrupted(o) ==
    /\ o \in Live
    /\ key[o].q < LEAVES
    /\ reply' = "failed"
    /\ UNCHANGED <<key, origin, derived, vk, images, sigs>>

(* From<SigningKey> for Array: the key is moved into its bytes.             *)
Save(o) ==
    /\ o \in Live
    /\ images' = images \cup {Image(key[o])}
    /\ key' = [key EXCEPT ![o] = Gone]
    /\ reply' = "none"
    /\ UNCHANGED <<origin, derived, vk, sigs>>

(* TryFrom<&[u8]> for SigningKey on kept bytes: the key, or no key.         *)
Load(o, image) ==
    LET parsed == ParseLmsSk(Mode, image)
    IN  /\ key[o] = NoKey
        /\ IF parsed[1] = "ok"
           THEN LET id   == Name(parsed[2].id)
                    seed == Name(parsed[2].seed)
                IN  /\ key' = [key EXCEPT ![o] = MakeKey(id, seed, parsed[2].q)]
                    /\ origin' = [origin EXCEPT ![o] = <<id, seed>>]
                    /\ vk' = [vk EXCEPT ![o] = Public(key'[o])]
                    /\ reply' = "none"
           ELSE /\ reply' = "failed"
                /\ UNCHANGED <<key, origin, vk>>
        /\ UNCHANGED <<derived, images, sigs>>

Next ==
    \E o \in Keys :
        \/ \E id \in Ids, seed \in Seeds : NewFromSeed(o, id, seed)
        \/ \E c \in Randomizers, msg \in Messages : Sign(o, c, msg)
        \/ SignRefused(o)
        \/ SignInterrupted(o)
        \/ Save(o)
        \/ \E image \in images : Load(o, image)

Spec == Init /\ [][Next]_vars
-----------------------------------------------------------------------------
SignedBy(o) == {s \in sigs : s.obj = o}

TypeOK ==
    /\ key \in [Keys -> KeyFields \cup {NoKey, Gone}]
    /\ origin \in [Keys -> (Ids \X Seeds) \cup {NoKey}]
    /\ \A o \in Live : <<key[o].id, key[o].seed>> = origin[o]
    /\ derived \subseteq Keys
    /\ \A s \in sigs : s.obj \in Keys /\ s.msg \in Messages /\ s.sig.q \in 0 .. LEAVES - 1
    /\ reply \in {"none", "signed", "refused", "failed"}

(* A key has signed with exactly the indices below its counter: none is     *)
(* skipped by a failed call, none is left ahead of the counter              *)
(* (private.rs:113-131).                                                    *)
CounterMatchesSignatures ==
    \A o \in Live \cap derived :
        {s.sig.q : s \in SignedBy(o)} = 0 .. key[o].q - 1

(* Within one object no one-time key ever signs two messages: two           *)
(* signatures under one id, seed and q are the same signature, as long as   *)
(* one object only has had that id and seed (private.rs:108-133;            *)
(* ots/private.rs:16-17).  Nothing is claimed of two objects of one id and  *)
(* seed, whether made twice or read from kept bytes: that is left to the    *)
(* program (lms/README.md:57-61).                                           *)
OneTimeUse ==
    \A s, t \in sigs :
        /\ origin[s.obj] = origin[t.obj]
        /\ s.sig.q = t.sig.q
        /\ \A o \in Keys : origin[o] = origin[s.obj] => o = s.obj
        => s = t

(* Every signature verifies, under the verifying keys of the keys with its  *)
(* id and seed and no others, and on its own message alone: the one-time    *)
(* key, the leaf and the path of a signature belong to the same index.      *)
SignaturesVerify ==
    \A s \in sigs, o \in Keys, msg \in Messages :
        vk[o] # NoKey =>
            (Verify(vk[o], msg, s.sig) <=> msg = s.msg /\ origin[o] = origin[s.obj])

(* An LMS key is a pool of 2^H one-time indices.                            *)
Pool == INSTANCE OneTimePool WITH
            Capacity <- LEAVES,
            spent <- [o \in Keys |-> {<<s.sig.q, s.msg>> : s \in SignedBy(o)}]

ImplementsPool == Pool!Spec
=============================================================================
