------------------------------- MODULE LmOts -------------------------------
(***************************************************************************)
(* LM-OTS signing keys as objects: each is made once, may hand out its      *)
(* verifying key at any time, and signs until it has signed                 *)
(* (lms/src/ots/private.rs).  A &mut borrow makes each call one step.       *)
(***************************************************************************)
EXTENDS OtsChains, FiniteSets

CONSTANTS
    Mode,          \* the LM-OTS mode, a [N, W] record
    Keys,          \* the signing key objects
    Indices,       \* the values of q keys are made with
    Ids,           \* the identifiers keys are made with
    Seeds,         \* the seeds keys are made from
    Randomizers,   \* the values of the message randomizer C
    Messages,      \* what may be signed
    NoKey          \* an object not made yet

ASSUME ModeAssumption == ValidMode(Mode)

(* The messages in use have hashes of the mode's length and no two of them  *)
(* collide under one key and randomizer.                                    *)
ASSUME DigestAssumption ==
    \A id \in Ids, q \in Indices, c \in Randomizers :
        /\ \A msg \in Messages : MessageHash(id, q, c, msg) \in [1 .. Mode.N -> Byte]
        /\ \A a, b \in Messages :
               MessageHash(id, q, c, a) = MessageHash(id, q, c, b) => a = b

VARIABLES
    key,       \* key[o]: the fields of object o, or NoKey
    origin,    \* origin[o]: the <<q, id, seed>> o was made from (history)
    pubs,      \* the verifying keys handed out, each with its object and
               \* whether the object could still sign (history)
    sigs,      \* the signatures returned, with object and message (history)
    reply      \* what the last call returned

vars == <<key, origin, pubs, sigs, reply>>

Made == {o \in Keys : key[o] # NoKey}

Init ==
    /\ key = [o \in Keys |-> NoKey]
    /\ origin = [o \in Keys |-> NoKey]
    /\ pubs = {}
    /\ sigs = {}
    /\ reply = "none"

(* SigningKey::new_from_seed; SigningKey::new is the same with a seed drawn *)
(* from the generator.                                                      *)
NewFromSeed(o, q, id, seed) ==
    /\ key[o] = NoKey
    /\ key' = [key EXCEPT ![o] = OtsNewFromSeed(Mode, q, id, seed)]
    /\ origin' = [origin EXCEPT ![o] = <<q, id, seed>>]
    /\ reply' = "none"
    /\ UNCHANGED <<pubs, sigs>>

(* SigningKey::public (and Keypair::verifying_key): computed from whatever  *)
(* the fields hold now.                                                     *)
Public(o) ==
    /\ o \in Made
    /\ pubs' = pubs \cup {[obj |-> o, pk |-> OtsPublic(Mode, key[o]),
                           valid |-> key[o].valid]}
    /\ reply' = "none"
    /\ UNCHANGED <<key, origin, sigs>>

(* mutant of Sign: the validity of the key is not looked at                 *)
Sign_Unchecked(o, c, msg) ==
    /\ o \in Made
    /\ sigs' = sigs \cup {[obj |-> o, msg |-> msg, sig |-> OtsSign(Mode, key[o], c, msg)]}
    /\ key' = [key EXCEPT ![o] = OtsSpent(Mode, key[o])]
    /\ reply' = "signed"
    /\ UNCHANGED <<origin, pubs>>

(* try_sign_with_rng on a valid key: sign, then zero the key.               *)
Sign(o, c, msg) ==
    /\ o \in Made
    /\ key[o].valid
    /\ sigs' = sigs \cup {[obj |-> o, msg |-> msg, sig |-> OtsSign(Mode, key[o], c, msg)]}
    /\ key' = [key EXCEPT ![o] = OtsSpent(Mode, key[o])]
    /\ reply' = "signed"
    /\ UNCHANGED <<origin, pubs>>

(* try_sign_with_rng on a used key: LmsOtsInvalidPrivateKey.                *)
SignRefused(o) ==
    /\ o \in Made
    /\ ~key[o].valid
    /\ reply' = "refused"
    /\ UNCHANGED <<key, origin, pubs, sigs>>

(* The caller's generator panics in fill_bytes, after the validity check    *)
(* and before the key is touched; the caller survives and keeps the key.    *)
SignInterrupted(o) ==
    /\ o \in Made
    /\ key[o].valid
    /\ reply' = "failed"
    /\ UNCHANGED <<key, origin, pubs, sigs>>

Next ==
    \E o \in Keys :
        \/ \E q \in Indices, id \in Ids, seed \in Seeds : NewFromSeed(o, q, id, seed)
        \/ Public(o)
        \/ \E c \in Randomizers, msg \in Messages : Sign(o, c, msg)
        \/ SignRefused(o)
        \/ SignInterrupted(o)

Spec == Init /\ [][Next]_vars
-----------------------------------------------------------------------------
(* The chain secrets a key can hold, and its fields.                        *)
Secrets ==
    {OtsNewFromSeed(Mode, q, id, seed).x : q \in Indices, id \in Ids, seed \in Seeds}
        \cup {[i \in 1 .. P(Mode) |-> ZeroHash]}

KeyRecord == [q : Indices \cup {0}, id : Ids \cup {ZeroId}, valid : BOOLEAN, x : Secrets]

ASSUME AbsentAssumption ==
    NoKey \notin KeyRecord /\ NoKey \notin Indices \X Ids \X Seeds

(* Every object is unmade or a key of its origin, whole or zeroed.          *)
TypeOK ==
    /\ key \in [Keys -> KeyRecord \cup {NoKey}]
    /\ origin \in [Keys -> (Indices \X Ids \X Seeds) \cup {NoKey}]
    /\ \A o \in Keys : key[o] = NoKey <=> origin[o] = NoKey
    /\ \A p \in pubs : p.obj \in Made
    /\ \A s \in sigs : s.obj \in Made /\ s.msg \in Messages
    /\ reply \in {"none", "signed", "refused", "failed"}

(* A key signs at most one message, and once it has, nothing in its memory  *)
(* tells which key it was: a signed-with key is the same all-zero record    *)
(* whatever it was made from (ots/private.rs:140-144).                      *)
OneTimeUse ==
    \A o \in Made :
        LET mine == {s \in sigs : s.obj = o}
        IN  /\ Cardinality(mine) = IF key[o].valid THEN 0 ELSE 1
            /\ mine # {} => key[o] = [q |-> 0, id |-> ZeroId, valid |-> FALSE,
                                      x |-> [i \in 1 .. P(Mode) |-> ZeroHash]]

(* A verifying key taken before signing accepts exactly the signatures of   *)
(* the keys made from the same q, id and seed, each on its own message:     *)
(* what try_sign leaves of each chain and what recover_pubkey walks meet.   *)
PublishedKeyVerifies ==
    \A p \in {r \in pubs : r.valid}, s \in sigs, msg \in Messages :
        OtsVerify(Mode, p.pk, msg, s.sig)
            <=> msg = s.msg /\ origin[p.obj] = origin[s.obj]

(* An LM-OTS key is a pool of one one-time index.                           *)
Pool == INSTANCE OneTimePool WITH
            Capacity <- 1,
            spent <- [o \in Keys |-> {<<0, s.msg>> : s \in {t \in sigs : t.obj = o}}]

ImplementsPool == Pool!Spec
=============================================================================
