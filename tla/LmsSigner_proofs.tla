-------------------------- MODULE LmsSigner_proofs --------------------------
(***************************************************************************)
(* Proofs about LmsSigner, for every mode, set of objects, identifiers,     *)
(* seeds and messages.  TypeOK alone says nothing of the signatures, and    *)
(* OneTimeUse is not inductive: a step of Sign keeps it only because no     *)
(* signature has the index q yet.  IInv adds that the indices used are      *)
(* those below q, and that reading kept bytes never yields a key, so every  *)
(* key starts at q = 0.  VInv, for SignaturesVerify, adds that a live key's *)
(* tree and a published root are those gen_pk_tree computes, and that every *)
(* signature was made from its object's own id and seed: folding its path   *)
(* from the leaf then meets the root, and a root met from another leaf,     *)
(* message or key would be a hash that collides.                            *)
(***************************************************************************)
EXTENDS LmsSigner, OtsChains_proofs

(* The kept bytes are those of keys.                                        *)
ImagesOfKeys == \A image \in images : \E k \in KeyFields : image = Image(k)

(* Every object in use, alive or not, was derived from a seed.              *)
AllDerived == \A o \in Keys : key[o] # NoKey => o \in derived

(* Only an object that was made has signed, and only with indices it left.  *)
SignedBehind ==
    \A s \in sigs : /\ key[s.obj] # NoKey
                    /\ s.obj \in Live => s.sig.q < key[s.obj].q

(* An object never signs twice with one index.                              *)
OncePerObject ==
    \A s, t \in sigs : s.obj = t.obj /\ s.sig.q = t.sig.q => s = t

(* A live key has used all the indices behind its counter.                  *)
NoneSkipped ==
    \A o \in Live : {s.sig.q : s \in SignedBy(o)} = 0 .. key[o].q - 1

IInv ==
    /\ TypeOK
    /\ ImagesOfKeys
    /\ AllDerived
    /\ SignedBehind
    /\ OncePerObject
    /\ NoneSkipped

(* There is at least one leaf.                                             *)
LEMMA LeavesNat == LEAVES \in Nat /\ LEAVES >= 1
  BY ModeAssumption, PowerIsNat DEF LEAVES

(* A live key is a record with a counter in range.                          *)
LEMMA LiveFields ==
    ASSUME TypeOK, NEW o \in Live
    PROVE  /\ o \in Keys /\ key[o] \in KeyFields /\ key[o].q \in 0 .. LEAVES
           /\ key[o].id \in Ids /\ key[o].seed \in Seeds
           /\ key[o].auth_tree \in {GenPkTree(id, seed) : id \in Ids, seed \in Seeds}
  BY DEF Live, IsKey, TypeOK, KeyFields

(* Joining, cutting and measuring byte strings.                             *)
LEMMA ConcatIsSeq ==
    ASSUME NEW S, NEW s \in Seq(S), NEW t \in Seq(S)
    PROVE  s \o t \in Seq(S)
  OBVIOUS

(* The length of two strings put together.                                 *)
LEMMA ConcatLen ==
    ASSUME NEW S, NEW s \in Seq(S), NEW t \in Seq(S)
    PROVE  Len(s \o t) = Len(s) + Len(t)
  OBVIOUS

(* The first word of two strings put together.                             *)
LEMMA ConcatHead ==
    ASSUME NEW S, NEW s \in Seq(S), NEW t \in Seq(S), Len(s) >= 1
    PROVE  (s \o t)[1] = s[1]
  OBVIOUS

(* What follows a cut is a string.                                         *)
LEMMA DropIsSeq ==
    ASSUME NEW S, NEW s \in Seq(S), NEW n \in 0 .. Len(s)
    PROVE  Drop(s, n) \in Seq(S) 
  BY DEF Drop

(* The length of what follows a cut.                                       *)
LEMMA DropLen ==
    ASSUME NEW S, NEW s \in Seq(S), NEW n \in 0 .. Len(s)
    PROVE  Len(Drop(s, n)) = Len(s) - n
  BY DEF Drop

(* The length of what precedes a cut.                                      *)
LEMMA TakeLen ==
    ASSUME NEW S, NEW s \in Seq(S), NEW n \in 0 .. Len(s)
    PROVE  Len(Take(s, n)) = n
  BY DEF Take

(* The parser of signing keys takes four words for the LM-OTS typecode of   *)
(* any string put together in the right mode.                               *)
LEMMA WideTypecodePanics ==
    ASSUME NEW S, NEW head \in Seq(S), NEW id \in Seq(S), NEW seed \in Seq(S),
           Len(head) = 3, Len(id) = 4, Len(seed) = Mode.M, ReadU32(head[1]) = Mode.TC
    PROVE  ParseLmsSk(Mode, head \o id \o seed) = Panic
  <1> DEFINE front == head \o id
             bytes == front \o seed
  <1>1. front \in Seq(S)
    BY ConcatIsSeq, Zenon
  <1>2. Len(front) = Len(head) + Len(id) 
    BY ConcatLen, Zenon
  <1>3. front[1] = head[1]
    <2>1. Len(head) >= 1
      OBVIOUS
    <2> QED BY <2>1, ConcatHead, Zenon
  <1>4. Len(front) >= 1 /\ Len(seed) \in Nat
    BY <1>2
  <1> HIDE DEF front
  <1>5. bytes \in Seq(S)
    BY <1>1, ConcatIsSeq, Zenon
  <1>6. Len(bytes) = Len(front) + Len(seed)
    BY <1>1, ConcatLen, Zenon
  <1>7. bytes[1] = front[1]
    BY <1>1, <1>4, ConcatHead, Zenon
  <1> HIDE DEF bytes
  <1>8. 1 \in 0 .. Len(bytes)
    BY <1>4, <1>6, <1>2
  <1>9. Drop(bytes, 1) \in Seq(S)
    BY <1>5, <1>8, DropIsSeq, Zenon
  <1>10. Len(Drop(bytes, 1)) = Len(bytes) - 1
    BY <1>5, <1>8, DropLen, Zenon
  <1>11. ID_LEN \in 0 .. Len(Drop(bytes, 1))
    BY <1>2, <1>4, <1>6, <1>10 DEF ID_LEN
  <1>12. Len(Take(Drop(bytes, 1), ID_LEN)) = ID_LEN
    BY <1>9, <1>11, TakeLen, Zenon
  <1>13. Len(bytes) >= 1 /\ ReadU32(bytes[1]) = Mode.TC
    BY <1>2, <1>3, <1>4, <1>6, <1>7
  <1>14. ID_LEN = 4 /\ Mode.M \in Nat
    BY ModeAssumption DEF ID_LEN
  <1>15. Len(Drop(bytes, 1)) = Mode.M + ID_LEN + 2
    <2>1. Len(bytes) - 1 = Mode.M + ID_LEN + 2
      BY <1>2, <1>6, <1>14
    <2> QED  BY <2>1, <1>10
  <1>16. Len(Take(Drop(bytes, 1), ID_LEN)) # 1
    <2>1. ID_LEN # 1
      BY DEF ID_LEN
    <2> QED  BY <1>12, <2>1, Zenon
  <1>17. ParseLmsSk(Mode, bytes) = Panic
    BY <1>13, <1>14, <1>15, <1>16 DEF ParseLmsSk, Sized
  <1> QED  BY <1>17 DEF bytes, front

(* A string of opaque bytes is a sequence of its length.                    *)
LEMMA OpaqueSeq ==
    ASSUME NEW S, NEW s, NEW n \in Nat, \A k \in Nat : [tag |-> s, n |-> k] \in S
    PROVE  Opaque(s, n) \in Seq(S) /\ Len(Opaque(s, n)) = n
  BY DEF Opaque

(* The parser panics on the bytes of every key in the right mode: what it   *)
(* takes for the LM-OTS typecode is ID_LEN bytes long.                      *)
LEMMA ParsePanics ==
    ASSUME NEW k
    PROVE  ParseLmsSk(Mode, Image(k)) = Panic
  <1> DEFINE id    == Opaque(k.id, ID_LEN)
             seed  == Opaque(k.seed, Mode.M)
             head  == <<U32(Mode.TC), U32(Mode.OtsTC), U32(k.q)>>
             bytes == head \o id \o seed
             S     == {U32(Mode.TC), U32(Mode.OtsTC), U32(k.q)}
                        \cup {[tag |-> k.id, n |-> j] : j \in Nat}
                        \cup {[tag |-> k.seed, n |-> j] : j \in Nat}
  <1>1. Image(k) = bytes
    BY DEF Image, LmsSkBytes
  <1>2. ID_LEN = 4 /\ Mode.M \in Nat
    BY ModeAssumption DEF ID_LEN
  <1>3. /\ \A j \in Nat : [tag |-> k.id, n |-> j] \in S
        /\ \A j \in Nat : [tag |-> k.seed, n |-> j] \in S
        /\ U32(Mode.TC) \in S /\ U32(Mode.OtsTC) \in S /\ U32(k.q) \in S
    OBVIOUS
  <1> HIDE DEF S
  <1>4. id \in Seq(S) /\ Len(id) = 4
    BY <1>2, <1>3, OpaqueSeq
  <1>5. seed \in Seq(S) /\ Len(seed) = Mode.M
    BY <1>2, <1>3, OpaqueSeq
  <1>6. head \in Seq(S) /\ Len(head) = 3 /\ head[1] = U32(Mode.TC)
    BY <1>3
  <1>7. ReadU32(head[1]) = Mode.TC
    BY <1>6 DEF ReadU32, U32
  <1> HIDE DEF id, seed, head
  <1>8. ParseLmsSk(Mode, bytes) = Panic
    BY <1>4, <1>5, <1>6, <1>7, WideTypecodePanics, Zenon
  <1> QED  BY <1>1, <1>8
-----------------------------------------------------------------------------
(* What the steps do to the fields, away from the EXCEPTs.                  *)
LEMMA MadeKey ==
    ASSUME NEW id \in Ids, NEW seed \in Seeds, NEW q \in 0 .. LEAVES
    PROVE  /\ MakeKey(id, seed, q) \in KeyFields
           /\ IsKey(MakeKey(id, seed, q))
           /\ MakeKey(id, seed, q).id = id
           /\ MakeKey(id, seed, q).seed = seed
           /\ MakeKey(id, seed, q).q = q
  <1>1. MakeKey(id, seed, q) \in KeyFields
    BY DEF MakeKey, KeyFields
  <1>2. IsKey(MakeKey(id, seed, q))
    BY <1>1, AbsentAssumption DEF IsKey
  <1> QED  BY <1>1, <1>2 DEF MakeKey

(* Counting one signature changes nothing but the counter.                 *)
LEMMA AdvancedKey ==
    ASSUME NEW k \in KeyFields, k.q < LEAVES
    PROVE  /\ [k EXCEPT !.q = @ + 1] \in KeyFields
           /\ IsKey([k EXCEPT !.q = @ + 1])
           /\ [k EXCEPT !.q = @ + 1].q = k.q + 1
           /\ [k EXCEPT !.q = @ + 1].id = k.id
           /\ [k EXCEPT !.q = @ + 1].seed = k.seed
  <1>1. [k EXCEPT !.q = @ + 1] \in KeyFields
    BY LeavesNat DEF KeyFields
  <1>2. IsKey([k EXCEPT !.q = @ + 1])
    BY <1>1, AbsentAssumption DEF IsKey
  <1> QED  BY <1>1, <1>2 DEF KeyFields

(* The invariant holds before any key is made.                             *)
LEMMA InitIInv == Init => IInv
  <1> SUFFICES ASSUME Init PROVE IInv
    OBVIOUS
  <1>1. Live = {}
    BY DEF Init, Live, IsKey
  <1>2. TypeOK
    BY <1>1 DEF Init, TypeOK
  <1> QED
    BY <1>1, <1>2 DEF Init, IInv, ImagesOfKeys, AllDerived, SignedBehind,
                      OncePerObject, NoneSkipped

(* Making a key changes one object that had no key, and so no signature.    *)
LEMMA NewFromSeedStep ==
    ASSUME IInv, NEW o \in Keys, NEW id \in Ids, NEW seed \in Seeds,
           NewFromSeed(o, id, seed)
    PROVE  IInv'
  <1> DEFINE k == MakeKey(id, seed, 0)
  <1>1. k \in KeyFields /\ IsKey(k) /\ k.id = id /\ k.seed = seed /\ k.q = 0
    BY MadeKey, LeavesNat
  <1> HIDE DEF k
  <1>2. /\ key[o] = NoKey
        /\ key' = [key EXCEPT ![o] = k]
        /\ origin' = [origin EXCEPT ![o] = <<id, seed>>]
        /\ derived' = derived \cup {o}
        /\ reply' = "none" /\ images' = images /\ sigs' = sigs
    BY DEF NewFromSeed, k
  <1>3. key'[o] = k /\ origin'[o] = <<id, seed>>
    BY <1>2 DEF IInv, TypeOK
  <1>4. \A p \in Keys : p # o => key'[p] = key[p] /\ origin'[p] = origin[p]
    BY <1>2 DEF IInv, TypeOK
  <1>5. Live' = Live \cup {o} /\ o \notin Live
    BY <1>1, <1>2, <1>3, <1>4 DEF Live, IsKey
  <1>6. TypeOK'
    <2>1. key' \in [Keys -> KeyFields \cup {NoKey, Gone}]
      BY <1>1, <1>2 DEF IInv, TypeOK
    <2>2. origin' \in [Keys -> (Ids \X Seeds) \cup {NoKey}]
      BY <1>2 DEF IInv, TypeOK
    <2>3. \A p \in Live' : <<key'[p].id, key'[p].seed>> = origin'[p]
      BY <1>1, <1>3, <1>4, <1>5 DEF IInv, TypeOK, Live
    <2> QED  BY <1>2, <2>1, <2>2, <2>3 DEF IInv, TypeOK
  <1>7. \A s \in sigs : s.obj # o
    BY <1>2 DEF IInv, SignedBehind
  <1>8. SignedBehind'
    BY <1>2, <1>4, <1>5, <1>7 DEF IInv, SignedBehind, TypeOK
  <1>9. NoneSkipped'
    <2>1. {s.sig.q : s \in SignedBy(o)'} = {}
      BY <1>2, <1>7 DEF SignedBy
    <2>2. 0 .. key'[o].q - 1 = {}
      BY <1>1, <1>3
    <2>3. \A p \in Live : {s.sig.q : s \in SignedBy(p)'} = 0 .. key'[p].q - 1
      BY <1>2, <1>4, <1>5 DEF IInv, NoneSkipped, SignedBy, Live
    <2> QED  BY <1>5, <2>1, <2>2, <2>3 DEF NoneSkipped
  <1>10. AllDerived' /\ ImagesOfKeys' /\ OncePerObject'
    BY <1>2, <1>4 DEF IInv, AllDerived, ImagesOfKeys, OncePerObject
  <1> QED  BY <1>6, <1>8, <1>9, <1>10 DEF IInv

(* A signature takes the index q, which no signature of the object has, and *)
(* leaves it behind.                                                        *)
LEMMA SignStep ==
    ASSUME IInv, NEW o \in Keys, NEW c \in Randomizers, NEW msg \in Messages,
           Sign(o, c, msg)
    PROVE  IInv'
  <1> DEFINE k   == [key[o] EXCEPT !.q = @ + 1]
             new == [obj |-> o, msg |-> msg, sig |-> SignatureOf(key[o], c, msg)]
  <1>1. /\ o \in Live /\ key[o].q < LEAVES /\ key' = [key EXCEPT ![o] = k]
        /\ sigs' = sigs \cup {new} /\ reply' = "signed"
        /\ origin' = origin /\ derived' = derived /\ images' = images
    BY DEF Sign
  <1>2. key[o] \in KeyFields /\ key[o].q \in Nat /\ key[o].q \in 0 .. LEAVES - 1
    BY <1>1, LiveFields, LeavesNat DEF IInv
  <1>3. /\ k \in KeyFields /\ IsKey(k) /\ k.q = key[o].q + 1
        /\ k.id = key[o].id /\ k.seed = key[o].seed
    BY <1>1, <1>2, AdvancedKey
  <1>4. new.obj = o /\ new.msg = msg /\ new.sig.q = key[o].q
    BY DEF SignatureOf
  <1> HIDE DEF k, new
  <1>5. key'[o] = k /\ \A p \in Keys : p # o => key'[p] = key[p]
    BY <1>1 DEF IInv, TypeOK
  <1>6. Live' = Live
    BY <1>1, <1>3, <1>5 DEF Live
  <1>7. TypeOK'
    <2>1. key' \in [Keys -> KeyFields \cup {NoKey, Gone}]
      BY <1>1, <1>3 DEF IInv, TypeOK
    <2>2. \A p \in Live' : <<key'[p].id, key'[p].seed>> = origin'[p]
      BY <1>1, <1>3, <1>5, <1>6 DEF IInv, TypeOK, Live
    <2>3. \A s \in sigs' : s.obj \in Keys /\ s.msg \in Messages /\ s.sig.q \in 0 .. LEAVES - 1
      BY <1>1, <1>2, <1>4 DEF IInv, TypeOK
    <2> QED  BY <1>1, <2>1, <2>2, <2>3 DEF IInv, TypeOK
  <1>8. \A s \in sigs : s.obj = o => s.sig.q < key[o].q
    BY <1>1 DEF IInv, SignedBehind
  <1>9. \A s \in sigs : s.sig.q \in Int
    BY LeavesNat DEF IInv, TypeOK
  <1>10. SignedBehind'
    <2>1. key'[o] # NoKey
      BY <1>3, <1>5 DEF IsKey
    <2>2. \A s \in sigs' : key'[s.obj] # NoKey
      BY <1>1, <1>4, <1>5, <2>1 DEF IInv, SignedBehind, TypeOK
    <2>3. \A s \in sigs' : s.obj = o => s.sig.q < k.q
      BY <1>1, <1>2, <1>3, <1>4, <1>8, <1>9
    <2>4. \A s \in sigs' : s.obj # o /\ s.obj \in Live => s.sig.q < key'[s.obj].q
      BY <1>1, <1>4, <1>5 DEF IInv, SignedBehind, Live
    <2> QED  BY <1>5, <1>6, <2>2, <2>3, <2>4 DEF SignedBehind
  <1>11. OncePerObject'
    <2>1. \A s \in sigs : s.obj = o => s.sig.q # new.sig.q
      BY <1>2, <1>4, <1>8, <1>9
    <2> QED  BY <1>1, <1>4, <2>1 DEF IInv, OncePerObject
  <1>12. NoneSkipped'
    <2>1. SignedBy(o)' = SignedBy(o) \cup {new}
      BY <1>1, <1>4 DEF SignedBy
    <2>2. {s.sig.q : s \in SignedBy(o)'} = {s.sig.q : s \in SignedBy(o)} \cup {key[o].q}
      BY <1>4, <2>1
    <2>3. {s.sig.q : s \in SignedBy(o)} = 0 .. key[o].q - 1
      BY <1>1 DEF IInv, NoneSkipped
    <2>4. (0 .. key[o].q - 1) \cup {key[o].q} = 0 .. k.q - 1
      BY <1>2, <1>3
    <2>5. {s.sig.q : s \in SignedBy(o)'} = 0 .. key'[o].q - 1
      BY <1>5, <2>2, <2>3, <2>4
    <2>6. ASSUME NEW p \in Live, p # o
          PROVE  {s.sig.q : s \in SignedBy(p)'} = 0 .. key'[p].q - 1
      <3>1. SignedBy(p)' = SignedBy(p)
        BY <1>1, <1>4, <2>6 DEF SignedBy
      <3>2. key'[p] = key[p]
        BY <1>5, <2>6 DEF Live
      <3> QED  BY <3>1, <3>2 DEF IInv, NoneSkipped
    <2> QED  BY <1>6, <2>5, <2>6 DEF NoneSkipped
  <1>13. AllDerived' /\ ImagesOfKeys'
    <2>1. key[o] # NoKey
      BY <1>1 DEF Live, IsKey
    <2> QED  BY <1>1, <1>5, <2>1 DEF IInv, AllDerived, ImagesOfKeys
  <1> QED  BY <1>7, <1>10, <1>11, <1>12, <1>13 DEF IInv

(* Calls that end without a signature change nothing but the reply.         *)
LEMMA RefusedStep ==
    ASSUME IInv, NEW o \in Keys, SignRefused(o) \/ SignInterrupted(o)
    PROVE  IInv'
  <1>1. /\ key' = key /\ origin' = origin /\ derived' = derived
        /\ images' = images /\ sigs' = sigs /\ reply' \in {"refused", "failed"}
    BY DEF SignRefused, SignInterrupted
  <1> QED  BY <1>1 DEF IInv, TypeOK, ImagesOfKeys, AllDerived, SignedBehind,
                       OncePerObject, NoneSkipped, SignedBy, Live

(* Turning a key into bytes takes the object out of use.                    *)
LEMMA SaveStep ==
    ASSUME IInv, NEW o \in Keys, Save(o)
    PROVE  IInv'
  <1>1. /\ o \in Live /\ key' = [key EXCEPT ![o] = Gone]
        /\ images' = images \cup {Image(key[o])}
        /\ origin' = origin /\ derived' = derived /\ sigs' = sigs /\ reply' = "none"
    BY DEF Save
  <1>2. key'[o] = Gone /\ \A p \in Keys : p # o => key'[p] = key[p]
    BY <1>1 DEF IInv, TypeOK
  <1>3. Live' = Live \ {o}
    BY <1>1, <1>2 DEF Live, IsKey
  <1>4. key[o] \in KeyFields /\ key[o] # NoKey
    BY <1>1, LiveFields DEF IInv, Live, IsKey
  <1>5. TypeOK'
    <2>1. key' \in [Keys -> KeyFields \cup {NoKey, Gone}]
      BY <1>1 DEF IInv, TypeOK
    <2>2. \A p \in Live' : <<key'[p].id, key'[p].seed>> = origin'[p]
      BY <1>1, <1>2, <1>3 DEF IInv, TypeOK, Live
    <2> QED  BY <1>1, <2>1, <2>2 DEF IInv, TypeOK
  <1>6. SignedBehind'
    BY <1>1, <1>2, <1>3, AbsentAssumption DEF IInv, SignedBehind, TypeOK
  <1>7. NoneSkipped'
    <2>1. \A p \in Live' : key'[p] = key[p] /\ SignedBy(p)' = SignedBy(p)
      BY <1>1, <1>2, <1>3 DEF SignedBy, Live
    <2> QED  BY <1>3, <2>1 DEF IInv, NoneSkipped
  <1>8. AllDerived' /\ ImagesOfKeys' /\ OncePerObject'
    BY <1>1, <1>2, <1>4 DEF IInv, AllDerived, ImagesOfKeys, OncePerObject
  <1> QED  BY <1>5, <1>6, <1>7, <1>8 DEF IInv

(* Reading kept bytes gives no key.                                         *)
LEMMA LoadStep ==
    ASSUME IInv, NEW o \in Keys, NEW image \in images, Load(o, image)
    PROVE  IInv'
  <1>1. ParseLmsSk(Mode, image) = Panic
    BY ParsePanics DEF IInv, ImagesOfKeys
  <1>2. Panic[1] # "ok"
    BY DEF Panic
  <1>3. /\ key' = key /\ origin' = origin /\ derived' = derived
        /\ images' = images /\ sigs' = sigs /\ reply' = "failed"
    BY <1>1, <1>2 DEF Load
  <1> QED  BY <1>3 DEF IInv, TypeOK, ImagesOfKeys, AllDerived, SignedBehind,
                       OncePerObject, NoneSkipped, SignedBy, Live

(* The invariant reads nothing but the variables.                          *)
LEMMA StutterStep == IInv /\ UNCHANGED vars => IInv'
  BY DEF vars, IInv, TypeOK, ImagesOfKeys, AllDerived, SignedBehind,
         OncePerObject, NoneSkipped, SignedBy, Live

(* Every call keeps the invariant.                                         *)
LEMMA NextIInv == IInv /\ [Next]_vars => IInv'
  <1>1. ASSUME IInv, Next PROVE IInv'
    BY <1>1, NewFromSeedStep, SignStep, RefusedStep, SaveStep, LoadStep DEF Next
  <1> QED  BY <1>1, StutterStep

(* IInv holds in every state of every behaviour.                            *)
THEOREM Inductive == Spec => []IInv
  BY InitIInv, NextIInv, PTL DEF Spec

(* The fields, histories and replies are of the declared kinds.             *)
THEOREM TypeCorrect == Spec => []TypeOK
  BY Inductive, PTL DEF IInv

(* A live key has signed with exactly the indices below its counter: no     *)
(* call skips one and none is handed out ahead (private.rs:113-131).        *)
THEOREM CounterCorrect == Spec => []CounterMatchesSignatures
  <1>1. IInv => CounterMatchesSignatures
    BY DEF IInv, NoneSkipped, CounterMatchesSignatures
  <1> QED  BY <1>1, Inductive, PTL

(* No one-time key signs two messages, as long as one object only has had   *)
(* its id and seed: refused and failing calls do not make it sign again.    *)
THEOREM OneTimeUseCorrect == Spec => []OneTimeUse
  <1>1. IInv => OneTimeUse
    <2> SUFFICES ASSUME IInv, NEW s \in sigs, NEW t \in sigs,
                        origin[s.obj] = origin[t.obj], s.sig.q = t.sig.q,
                        \A o \in Keys : origin[o] = origin[s.obj] => o = s.obj
                 PROVE  s = t
      BY DEF OneTimeUse
    <2>1. t.obj \in Keys
      BY DEF IInv, TypeOK
    <2>2. s.obj = t.obj
      BY <2>1
    <2> QED  BY <2>2 DEF IInv, OncePerObject
  <1> QED  BY <1>1, Inductive, PTL
-----------------------------------------------------------------------------
(* The refinement: an LMS key is a pool of 2^H one-time indices.            *)
Spent == [o \in Keys |-> {<<s.sig.q, s.msg>> : s \in SignedBy(o)}]

(* The indices a pool has used are those of its object's signatures.       *)
LEMMA UsedIndices ==
    ASSUME NEW o \in Keys
    PROVE  Pool!Used(o) = {s.sig.q : s \in SignedBy(o)}
  <1> DEFINE pairs == {<<s.sig.q, s.msg>> : s \in SignedBy(o)}
  <1>1. Pool!Used(o) = {p[1] : p \in pairs}
    BY DEF Pool!Used
  <1>2. ASSUME NEW s \in SignedBy(o)
        PROVE  s.sig.q \in {p[1] : p \in pairs}
    <2>1. <<s.sig.q, s.msg>> \in pairs /\ <<s.sig.q, s.msg>>[1] = s.sig.q
      OBVIOUS
    <2> HIDE DEF pairs
    <2> QED  BY <2>1
  <1>3. ASSUME NEW p \in pairs
        PROVE  p[1] \in {s.sig.q : s \in SignedBy(o)}
    OBVIOUS
  <1> HIDE DEF pairs
  <1> QED  BY <1>1, <1>2, <1>3

(* The pool starts with nothing answered.                                  *)
LEMMA PoolInit == Init => Pool!Init
  BY DEF Init, Pool!Init, SignedBy

(* A signature spends an index that the object has not used.                *)
LEMMA SignIssues ==
    ASSUME IInv, NEW o \in Keys, NEW c \in Randomizers, NEW msg \in Messages,
           Sign(o, c, msg)
    PROVE  Pool!Issue(o, key[o].q, msg) /\ key[o].q \in Pool!Index
  <1> DEFINE new == [obj |-> o, msg |-> msg, sig |-> SignatureOf(key[o], c, msg)]
  <1>1. o \in Live /\ key[o].q < LEAVES /\ sigs' = sigs \cup {new} /\ reply' = "signed"
    BY DEF Sign
  <1>2. key[o].q \in 0 .. LEAVES - 1
    BY <1>1, LiveFields, LeavesNat DEF IInv
  <1>3. new.obj = o /\ new.msg = msg /\ new.sig.q = key[o].q
    BY DEF SignatureOf
  <1> HIDE DEF new
  <1>4. key[o].q \notin Pool!Used(o)
    <2>1. Pool!Used(o) = 0 .. key[o].q - 1
      BY <1>1, UsedIndices DEF IInv, NoneSkipped
    <2> QED  BY <1>2, <2>1
  <1>5. SignedBy(o)' = SignedBy(o) \cup {new}
    BY <1>1, <1>3 DEF SignedBy
  <1>6. \A p \in Keys : p # o => SignedBy(p)' = SignedBy(p)
    BY <1>1, <1>3 DEF SignedBy
  <1>7. Spent' = [Spent EXCEPT ![o] = @ \cup {<<key[o].q, msg>>}]
    <2>1. Spent'[o] = Spent[o] \cup {<<key[o].q, msg>>}
      BY <1>3, <1>5 DEF Spent
    <2>2. \A p \in Keys : p # o => Spent'[p] = Spent[p]
      BY <1>6 DEF Spent
    <2> QED  BY <2>1, <2>2 DEF Spent
  <1> QED  BY <1>1, <1>2, <1>4, <1>7 DEF Pool!Issue, Pool!Index, Spent

(* A refusal is given to a key that has spent everything.                   *)
LEMMA RefusalRefuses ==
    ASSUME IInv, NEW o \in Keys, SignRefused(o)
    PROVE  Pool!Refuse(o)
  <1>1. o \in Live /\ key[o].q >= LEAVES /\ reply' = "refused" /\ sigs' = sigs
    BY DEF SignRefused
  <1>2. key[o].q = LEAVES
    BY <1>1, LiveFields, LeavesNat DEF IInv
  <1>3. Pool!Used(o) = Pool!Index
    BY <1>1, <1>2, UsedIndices DEF IInv, NoneSkipped, Pool!Index
  <1>4. Spent' = Spent
    BY <1>1 DEF Spent, SignedBy
  <1> QED  BY <1>1, <1>3, <1>4 DEF Pool!Refuse, Spent

(* Every other call leaves the pool alone.                                  *)
LEMMA OthersKeepPool ==
    ASSUME IInv, NEW o \in Keys,
           \/ \E id \in Ids, seed \in Seeds : NewFromSeed(o, id, seed)
           \/ SignInterrupted(o)
           \/ Save(o)
           \/ \E image \in images : Load(o, image)
    PROVE  Pool!Fail \/ Pool!Other
  <1>1. sigs' = sigs /\ reply' \in {"none", "failed"}
    BY DEF NewFromSeed, SignInterrupted, Save, Load
  <1>2. Spent' = Spent
    BY <1>1 DEF Spent, SignedBy
  <1> QED  BY <1>1, <1>2 DEF Pool!Fail, Pool!Other, Spent

(* Every call is a call of the pool or leaves it alone.                    *)
LEMMA PoolNext == IInv /\ [Next]_vars => [Pool!Next]_(Pool!vars)
  <1>1. ASSUME IInv, Next PROVE Pool!Next
    <2>1. PICK o \in Keys :
              \/ \E id \in Ids, seed \in Seeds : NewFromSeed(o, id, seed)
              \/ \E c \in Randomizers, msg \in Messages : Sign(o, c, msg)
              \/ SignRefused(o)
              \/ SignInterrupted(o)
              \/ Save(o)
              \/ \E image \in images : Load(o, image)
      BY <1>1 DEF Next
    <2>2. ASSUME NEW c \in Randomizers, NEW msg \in Messages, Sign(o, c, msg)
          PROVE  Pool!Next
      BY <1>1, <2>2, SignIssues DEF Pool!Next
    <2>3. ASSUME SignRefused(o) PROVE Pool!Next
      BY <1>1, <2>3, RefusalRefuses DEF Pool!Next
    <2>4. Pool!Fail \/ Pool!Other => Pool!Next
      BY DEF Pool!Next
    <2> QED  BY <1>1, <2>1, <2>2, <2>3, <2>4, OthersKeepPool
  <1>2. UNCHANGED vars => UNCHANGED Pool!vars
    BY DEF vars, Pool!vars, SignedBy
  <1> QED  BY <1>1, <1>2

(* LMS implements the pool of one-time indices: each index is spent at most *)
(* once per object and a request is refused only when all 2^H are spent.    *)
THEOREM PoolRefinement == Spec => ImplementsPool
  <1>1. Spec => Pool!Init /\ [][Pool!Next]_(Pool!vars)
    BY PoolInit, PoolNext, Inductive, PTL DEF Spec
  <1> QED  BY <1>1 DEF ImplementsPool, Pool!Spec
-----------------------------------------------------------------------------
(* Verification.  The tree of a key: the recursion of GenPkTree ...         *)
LeafKey(id, seed, q) == OtsPublic(Mode, OtsKey(id, seed, q)).k

IsPkTree(T, id, seed, from) ==
    T = [n \in from .. 2 * LEAVES - 1 |->
            IF n >= LEAVES THEN LeafHash(id, n, LeafKey(id, seed, n - LEAVES))
                           ELSE NodeHash(id, n, T[2 * n], T[2 * n + 1])]

(* ... has a solution, found from the last leaf to the root ...             *)
LEMMA TreeExists ==
    ASSUME NEW id, NEW seed
    PROVE  \E T : IsPkTree(T, id, seed, 1)
  <1> DEFINE top == 2 * LEAVES - 1
             leaf(n) == LeafHash(id, n, LeafKey(id, seed, n - LEAVES))
             S == {m \in 1 .. top : \E T : IsPkTree(T, id, seed, m)}
  <1>1. /\ top \in Nat /\ 1 <= top /\ LEAVES \in Nat /\ top >= LEAVES /\ top = 2 * LEAVES - 1
        /\ LEAVES >= 1
    BY LeavesNat
  <1>2. \A T, m : IsPkTree(T, id, seed, m)
                    <=> T = [n \in m .. top |-> IF n >= LEAVES THEN leaf(n)
                                                ELSE NodeHash(id, n, T[2 * n], T[2 * n + 1])]
    BY Zenon DEF IsPkTree
  <1> HIDE DEF top, leaf
  <1>3. top \in S
    <2> DEFINE T == [n \in top .. top |-> leaf(n)]
    <2>1. \A n \in top .. top : n >= LEAVES
      BY <1>1
    <2>2. T = [n \in top .. top |-> IF n >= LEAVES THEN leaf(n)
                                    ELSE NodeHash(id, n, T[2 * n], T[2 * n + 1])]
      BY <2>1
    <2>3. top \in 1 .. top
      BY <1>1
    <2> HIDE DEF T
    <2> QED  BY <1>2, <2>2, <2>3
  <1>4. ASSUME NEW m \in 2 .. top, m \in S
        PROVE  m - 1 \in S
    <2>1. PICK T : T = [n \in m .. top |-> IF n >= LEAVES THEN leaf(n)
                                           ELSE NodeHash(id, n, T[2 * n], T[2 * n + 1])]
      BY <1>2, <1>4
    <2>2. m - 1 \in 1 .. top /\ m \in Nat
      BY <1>1
    <2> DEFINE W == [n \in m - 1 .. top |->
                        IF n >= m THEN T[n]
                        ELSE IF n >= LEAVES THEN leaf(n)
                        ELSE NodeHash(id, n, T[2 * n], T[2 * n + 1])]
    <2>3. ASSUME NEW n \in m - 1 .. top, ~(n >= LEAVES)
          PROVE  2 * n \in m .. top /\ 2 * n + 1 \in m .. top
      BY <1>1, <2>2, <2>3
    <2>4. \A n \in m .. top : W[n] = T[n]
      BY <2>2
    <2>5. \A n \in m .. top : T[n] = IF n >= LEAVES THEN leaf(n)
                                     ELSE NodeHash(id, n, T[2 * n], T[2 * n + 1])
      BY <2>1
    <2>6. \A n \in m - 1 .. top : W[n] = IF n >= LEAVES THEN leaf(n)
                                         ELSE NodeHash(id, n, T[2 * n], T[2 * n + 1])
      <3>1. \A n \in m - 1 .. top : n >= m => n \in m .. top
        BY <2>2
      <3> QED  BY <2>5, <3>1
    <2>7. W = [n \in m - 1 .. top |-> W[n]]
      OBVIOUS
    <2> HIDE DEF W
    <2>8. \A n \in m - 1 .. top : W[n] = IF n >= LEAVES THEN leaf(n)
                                         ELSE NodeHash(id, n, W[2 * n], W[2 * n + 1])
      BY <2>3, <2>4, <2>6
    <2>9. W = [n \in m - 1 .. top |-> IF n >= LEAVES THEN leaf(n)
                                      ELSE NodeHash(id, n, W[2 * n], W[2 * n + 1])]
      BY <2>7, <2>8
    <2> QED  BY <1>2, <2>2, <2>9
  <1>5. 1 .. top \subseteq S
    <2>1. 1 \in Int /\ top \in Int /\ \A m \in 1 + 1 .. top : m \in S => m - 1 \in S
      BY <1>1, <1>4
    <2> HIDE DEF S
    <2> QED  BY <1>3, <2>1, DownwardInduction
  <1>6. 1 \in 1 .. top
    BY <1>1
  <1> QED  BY <1>5, <1>6

(* ... whose leaves are the hashed one-time keys.                           *)
IsMerkle(T, id, seed) ==
    /\ \A q \in 0 .. LEAVES - 1 : T[q + LEAVES] = LeafHash(id, q + LEAVES, LeafKey(id, seed, q))
    /\ \A n \in 1 .. LEAVES - 1 : T[n] = NodeHash(id, n, T[2 * n], T[2 * n + 1])

(* The tree of a key has its leaves hashed and its inner nodes combined    *)
(* from their children: what gen_pk_tree computes.                         *)
LEMMA TreeNodes ==
    ASSUME NEW id, NEW seed
    PROVE  IsMerkle(GenPkTree(id, seed), id, seed)
  <1>1. PICK T : T = GenPkTree(id, seed)
    OBVIOUS
  <1>2. T = CHOOSE R : IsPkTree(R, id, seed, 1)
    BY <1>1, Zenon DEF GenPkTree, IsPkTree, LeafKey
  <1>3. IsPkTree(T, id, seed, 1)
    BY <1>2, TreeExists
  <1>4. PICK L : L = LEAVES
    OBVIOUS
  <1>5. L \in Nat /\ L >= 1
    BY <1>4, LeavesNat
  <1>6. \A n \in 1 .. 2 * L - 1 :
           T[n] = IF n >= L THEN LeafHash(id, n, LeafKey(id, seed, n - L))
                            ELSE NodeHash(id, n, T[2 * n], T[2 * n + 1])
    BY <1>3, <1>4 DEF IsPkTree
  <1>7. \A q \in 0 .. L - 1 : T[q + L] = LeafHash(id, q + L, LeafKey(id, seed, q))
    <2> SUFFICES ASSUME NEW q \in 0 .. L - 1
                 PROVE  T[q + L] = LeafHash(id, q + L, LeafKey(id, seed, q))
      OBVIOUS
    <2>1. q + L \in 1 .. 2 * L - 1 /\ q + L >= L /\ (q + L) - L = q
      BY <1>5
    <2> QED  BY <1>6, <2>1
  <1>8. \A n \in 1 .. L - 1 : T[n] = NodeHash(id, n, T[2 * n], T[2 * n + 1])
    <2>1. \A n \in 1 .. L - 1 : n \in 1 .. 2 * L - 1 /\ ~(n >= L)
      BY <1>5
    <2> QED  BY <1>6, <2>1
  <1> QED  BY <1>1, <1>4, <1>7, <1>8, Zenon DEF IsMerkle

(* The recursion of Verify up to level h.                                   *)
IsClimb(f, id, r, k, path, h) ==
    f = [l \in 0 .. h |->
            IF l = 0 THEN LeafHash(id, r, k)
            ELSE Parent(id, r \div 2 ^ (l - 1), f[l - 1], path[l - 1])]

Climb(id, r, k, path, h) == CHOOSE f : IsClimb(f, id, r, k, path, h)

(* The recursion that folds a path has a solution for every height.        *)
LEMMA ClimbExists ==
    ASSUME NEW id, NEW r, NEW k, NEW path, NEW h \in Nat
    PROVE  \E f : IsClimb(f, id, r, k, path, h)
  <1> DEFINE S == {j \in 0 .. h : \E f : IsClimb(f, id, r, k, path, j)}
             up(l, x) == Parent(id, r \div 2 ^ (l - 1), x, path[l - 1])
             leaf == LeafHash(id, r, k)
  <1>1. \A f, j : IsClimb(f, id, r, k, path, j)
                    <=> f = [l \in 0 .. j |-> IF l = 0 THEN leaf ELSE up(l, f[l - 1])]
    BY Zenon DEF IsClimb
  <1> HIDE DEF up, leaf
  <1>2. 0 \in S
    <2> DEFINE f == [l \in 0 .. 0 |-> leaf]
    <2>1. f = [l \in 0 .. 0 |-> IF l = 0 THEN leaf ELSE up(l, f[l - 1])]
      OBVIOUS
    <2> HIDE DEF f
    <2>2. IsClimb(f, id, r, k, path, 0)
      BY <1>1, <2>1, Zenon
    <2>3. 0 \in 0 .. h
      OBVIOUS
    <2> QED  BY <2>2, <2>3
  <1>3. ASSUME NEW j \in 0 .. h - 1, j \in S
        PROVE  j + 1 \in S
    <2>1. PICK f : f = [l \in 0 .. j |-> IF l = 0 THEN leaf ELSE up(l, f[l - 1])]
      BY <1>1, <1>3
    <2> DEFINE g == [l \in 0 .. j + 1 |-> IF l <= j THEN f[l] ELSE up(j + 1, f[j])]
    <2>2. \A l \in 0 .. j : g[l] = f[l]
      OBVIOUS
    <2>3. g[j + 1] = up(j + 1, f[j])
      OBVIOUS
    <2>4. g = [l \in 0 .. j + 1 |-> g[l]]
      OBVIOUS
    <2> HIDE DEF g
    <2>5. ASSUME NEW l \in 0 .. j + 1
          PROVE  g[l] = IF l = 0 THEN leaf ELSE up(l, g[l - 1])
      <3>1. CASE l \in 0 .. j
        <4>1. f[l] = IF l = 0 THEN leaf ELSE up(l, f[l - 1])
          BY <2>1, <3>1
        <4>2. l # 0 => l - 1 \in 0 .. j
          BY <3>1
        <4> QED  BY <2>2, <3>1, <4>1, <4>2
      <3>2. CASE l = j + 1
        <4>1. l # 0 /\ l - 1 = j /\ j \in 0 .. j
          BY <3>2
        <4> QED  BY <2>2, <2>3, <3>2, <4>1
      <3> QED  BY <3>1, <3>2
    <2>6. g = [l \in 0 .. j + 1 |-> IF l = 0 THEN leaf ELSE up(l, g[l - 1])]
      BY <2>4, <2>5
    <2> QED  BY <1>1, <2>6
  <1>4. 0 .. h \subseteq S
    <2> HIDE DEF S
    <2> QED  BY <1>2, <1>3, IntervalInduction
  <1>5. h \in S
    BY <1>4
  <1> QED  BY <1>5

(* A node below the root is its parent doubled, or doubled plus one, by its *)
(* parity; its sibling is the other child.                                  *)
LEMMA ParentAndSibling ==
    ASSUME NEW n \in Nat, n >= 2
    PROVE  /\ n \div 2 \in Nat /\ 1 <= n \div 2
           /\ n % 2 = 1 => n = 2 * (n \div 2) + 1 /\ Sibling(n) = 2 * (n \div 2)
           /\ n % 2 # 1 => n = 2 * (n \div 2) /\ Sibling(n) = 2 * (n \div 2) + 1
  BY DEF Sibling

(* One level of the climb: the parent is right exactly when the node and    *)
(* the path entry beside it are.                                            *)
LEMMA ClimbStep ==
    ASSUME NEW T, NEW id, NEW seed, IsMerkle(T, id, seed),
           NEW r \in LEAVES .. 2 * LEAVES - 1, NEW k, NEW path,
           NEW f, IsClimb(f, id, r, k, path, Mode.H), NEW l \in 0 .. Mode.H - 1
    PROVE  f[l + 1] = T[r \div 2 ^ (l + 1)]
              <=> f[l] = T[r \div 2 ^ l] /\ path[l] = T[Sibling(r \div 2 ^ l)]
  <1>1. PICK h, L : h = Mode.H /\ L = LEAVES
    OBVIOUS
  <1>2. h \in Nat \ {0} /\ L \in Nat /\ L = 2 ^ h /\ l \in 0 .. h /\ l \in Nat /\ r \in Nat
    BY <1>1, ModeAssumption, LeavesNat DEF LEAVES
  <1>3. PICK n, p : n = r \div 2 ^ l /\ p = r \div 2 ^ (l + 1)
    OBVIOUS
  <1>4. n \in Nat /\ p = n \div 2
    BY <1>2, <1>3, ShiftIsNat, ShiftStep
  <1>5. 2 <= n /\ n < 2 * L
    <2>1. 2 ^ h <= r /\ r < 2 * 2 ^ h
      BY <1>1, <1>2
    <2>2. 2 ^ (h - l) <= n /\ n < 2 * 2 ^ (h - l)
      BY <1>2, <1>3, <2>1, ShiftedBits
    <2>3. h - l \in Nat /\ 1 <= h - l /\ h - l <= h
      BY <1>1, <1>2
    <2>4. 2 <= 2 ^ (h - l) /\ 2 ^ (h - l) <= 2 ^ h
      <3>1. 2 ^ 1 = 2
        OBVIOUS
      <3>2. 2 ^ 1 <= 2 ^ (h - l)
        BY <2>3, PowerMonotone
      <3>3. 2 ^ (h - l) <= 2 ^ h
        BY <1>2, <2>3, PowerMonotone
      <3> QED  BY <3>1, <3>2, <3>3
    <2>5. 2 ^ (h - l) \in Nat
      BY <2>3, PowerIsNat
    <2> QED  BY <1>2, <1>4, <2>2, <2>4, <2>5
  <1>6. p \in 1 .. L - 1
    BY <1>2, <1>4, <1>5
  <1>7. T[p] = NodeHash(id, p, T[2 * p], T[2 * p + 1])
    BY <1>1, <1>6 DEF IsMerkle
  <1>8. f[l + 1] = Parent(id, n, f[l], path[l])
    <2>1. l + 1 \in 0 .. Mode.H /\ l + 1 # 0 /\ (l + 1) - 1 = l
      BY <1>1, <1>2
    <2> QED  BY <1>3, <2>1 DEF IsClimb
  <1>9. \A a, b, c, d : NodeHash(id, p, a, b) = NodeHash(id, p, c, d) <=> a = c /\ b = d
    BY DEF NodeHash, H
  <1>10. CASE n % 2 = 1
    <2>1. n = 2 * p + 1 /\ Sibling(n) = 2 * p
      BY <1>4, <1>5, <1>10, ParentAndSibling
    <2>2. f[l + 1] = NodeHash(id, p, path[l], f[l])
      BY <1>4, <1>8, <1>10 DEF Parent
    <2> QED  BY <1>3, <1>7, <1>9, <2>1, <2>2
  <1>11. CASE n % 2 # 1
    <2>1. n = 2 * p /\ Sibling(n) = 2 * p + 1
      BY <1>4, <1>5, <1>11, ParentAndSibling
    <2>2. f[l + 1] = NodeHash(id, p, f[l], path[l])
      BY <1>4, <1>8, <1>11 DEF Parent
    <2> QED  BY <1>3, <1>7, <1>9, <2>1, <2>2
  <1> QED  BY <1>10, <1>11

(* The whole climb: only the right leaf leads to the root, and it does with *)
(* the right path.                                                          *)
LEMMA ClimbMeetsRoot ==
    ASSUME NEW T, NEW id, NEW seed, IsMerkle(T, id, seed),
           NEW r \in LEAVES .. 2 * LEAVES - 1, NEW k, NEW path,
           NEW f, IsClimb(f, id, r, k, path, Mode.H)
    PROVE  /\ f[0] = LeafHash(id, r, k)
           /\ f[Mode.H] = T[1] => f[0] = T[r]
           /\ f[0] = T[r] /\ (\A l \in 0 .. Mode.H - 1 : path[l] = T[Sibling(r \div 2 ^ l)])
                 => f[Mode.H] = T[1]
  <1>1. PICK h : h = Mode.H
    OBVIOUS
  <1>2. h \in Nat /\ 0 \in 0 .. h /\ h \in 0 .. h /\ r \in Nat
    BY <1>1, ModeAssumption, LeavesNat
  <1>3. f[0] = LeafHash(id, r, k)
    BY <1>1, <1>2 DEF IsClimb
  <1>4. r \div 2 ^ 0 = r
    BY <1>2, ShiftIsNat
  <1>5. r \div 2 ^ h = 1
    <2>1. 2 ^ h <= r /\ r < 2 * 2 ^ h
      BY <1>1, LeavesNat DEF LEAVES
    <2>2. 2 ^ (h - h) <= r \div 2 ^ h /\ r \div 2 ^ h < 2 * 2 ^ (h - h)
      BY <1>2, <2>1, ShiftedBits
    <2>3. 2 ^ (h - h) = 1
      <3>1. h - h = 0 /\ 2 ^ 0 = 1
        BY <1>2
      <3> QED  BY <3>1
    <2>4. r \div 2 ^ h \in Nat
      BY <1>2, ShiftIsNat
    <2> QED  BY <2>2, <2>3, <2>4
  <1> DEFINE S == {l \in 0 .. h : f[l] = T[r \div 2 ^ l]}
  <1>6. ASSUME f[h] = T[1]
        PROVE  f[0] = T[r]
    <2>1. h \in S
      BY <1>2, <1>5, <1>6
    <2>2. ASSUME NEW n \in 0 + 1 .. h, n \in S
          PROVE  n - 1 \in S
      <3>1. n - 1 \in 0 .. h - 1 /\ (n - 1) + 1 = n /\ n - 1 \in 0 .. h
        BY <1>2
      <3>2. f[(n - 1) + 1] = T[r \div 2 ^ ((n - 1) + 1)]
        BY <2>2, <3>1
      <3>3. f[n - 1] = T[r \div 2 ^ (n - 1)]
        BY <1>1, <3>1, <3>2, ClimbStep
      <3> QED  BY <3>1, <3>3
    <2> HIDE DEF S
    <2>3. 0 .. h \subseteq S
      BY <1>2, <2>1, <2>2, DownwardInduction
    <2>4. 0 \in S
      BY <1>2, <2>3
    <2> QED  BY <1>4, <2>4 DEF S
  <1>7. ASSUME f[0] = T[r], \A l \in 0 .. h - 1 : path[l] = T[Sibling(r \div 2 ^ l)]
        PROVE  f[h] = T[1]
    <2>1. 0 \in S
      BY <1>2, <1>4, <1>7
    <2>2. ASSUME NEW l \in 0 .. h - 1, l \in S
          PROVE  l + 1 \in S
      <3>1. l + 1 \in 0 .. h
        BY <1>2
      <3>2. f[l] = T[r \div 2 ^ l] /\ path[l] = T[Sibling(r \div 2 ^ l)]
        BY <1>7, <2>2
      <3>3. f[l + 1] = T[r \div 2 ^ (l + 1)]
        BY <1>1, <3>2, ClimbStep
      <3> QED  BY <3>1, <3>3
    <2> HIDE DEF S
    <2>3. 0 .. h \subseteq S
      BY <1>2, <2>1, <2>2, IntervalInduction
    <2>4. h \in S
      BY <1>2, <2>3
    <2> QED  BY <1>5, <2>4 DEF S
  <1> QED  BY <1>1, <1>3, <1>6, <1>7

(* A signature made from one key verifies under the root of another exactly *)
(* when the keys and the messages are the same.                             *)
LEMMA VerifyMade ==
    ASSUME NEW id \in Ids, NEW seed \in Seeds, NEW id2 \in Ids, NEW seed2 \in Seeds,
           NEW q \in 0 .. LEAVES - 1, NEW c \in Randomizers,
           NEW msg \in Messages, NEW msg2 \in Messages, NEW v, NEW sig,
           v = [id |-> id, k |-> GenPkTree(id, seed)[1]],
           sig = SignatureOf(MakeKey(id2, seed2, q), c, msg2)
    PROVE  Verify(v, msg, sig) <=> msg = msg2 /\ id = id2 /\ seed = seed2
  <1>1. PICK T, R, h, L : T = GenPkTree(id, seed) /\ R = GenPkTree(id2, seed2)
                          /\ h = Mode.H /\ L = LEAVES
    OBVIOUS
  <1>2. IsMerkle(T, id, seed)
    BY <1>1, TreeNodes
  <1>3. h \in Nat /\ L \in Nat /\ q + L \in L .. 2 * L - 1 /\ q + L = L + q
    BY <1>1, LeavesNat, ModeAssumption
  <1>4. PICK r, path, k : /\ r = q + L /\ path = [l \in 0 .. h - 1 |-> R[Sibling(r \div 2 ^ l)]]
                          /\ k = RecoverPubkey(Mode, OtsSign(Mode, OtsKey(id2, seed2, q), c, msg2),
                                               id, q, msg).k
    OBVIOUS
  <1>5. sig.q = q /\ sig.ots = OtsSign(Mode, OtsKey(id2, seed2, q), c, msg2) /\ sig.path = path
    <2>1. PICK key2 : key2 = MakeKey(id2, seed2, q)
      OBVIOUS
    <2>2. key2.id = id2 /\ key2.seed = seed2 /\ key2.q = q /\ key2.auth_tree = R
      BY <1>1, <2>1 DEF MakeKey
    <2>3. r = LEAVES + q
      BY <1>1, <1>3, <1>4
    <2>4. sig = SignatureOf(key2, c, msg2)
      BY <2>1
    <2> QED  BY <1>1, <1>4, <2>2, <2>3, <2>4 DEF SignatureOf
  <1>6. PICK f : f = Climb(id, r, k, path, h)
    OBVIOUS
  <1>7. IsClimb(f, id, r, k, path, h)
    BY <1>3, <1>6, ClimbExists DEF Climb
  <1>8. Verify(v, msg, sig) <=> f[h] = T[1]
    <2>1. v.id = id /\ v.k = T[1]
      BY <1>1
    <2>2. Verify(v, msg, sig)
            <=> Climb(v.id, sig.q + LEAVES, RecoverPubkey(Mode, sig.ots, v.id, sig.q, msg).k,
                      sig.path, Mode.H)[Mode.H] = v.k
      BY Zenon DEF Verify, Climb, IsClimb
    <2>3. RecoverPubkey(Mode, sig.ots, v.id, sig.q, msg).k = k
      BY <1>4, <1>5, <2>1, Zenon
    <2>4. sig.q + LEAVES = r
      BY <1>1, <1>4, <1>5, Zenon
    <2> QED  BY <1>1, <1>5, <1>6, <2>1, <2>2, <2>3, <2>4, Zenon
  <1>9. r \in LEAVES .. 2 * LEAVES - 1 /\ T[r] = LeafHash(id, r, LeafKey(id, seed, q))
    BY <1>1, <1>2, <1>3, <1>4 DEF IsMerkle
  <1>10. /\ f[0] = LeafHash(id, r, k)
         /\ f[h] = T[1] => f[0] = T[r]
         /\ f[0] = T[r] /\ (\A l \in 0 .. h - 1 : path[l] = T[Sibling(r \div 2 ^ l)])
               => f[h] = T[1]
    BY <1>1, <1>2, <1>7, <1>9, ClimbMeetsRoot
  <1>11. f[0] = T[r] <=> k = LeafKey(id, seed, q)
    BY <1>9, <1>10 DEF LeafHash, H
  <1>12. k = LeafKey(id, seed, q) <=> msg = msg2 /\ id = id2 /\ seed = seed2
    <2>1. IsHash(Mode, MessageHash(id, q, c, msg)) /\ IsHash(Mode, MessageHash(id2, q, c, msg2))
      <3>1. /\ MessageHash(id, q, c, msg) \in [1 .. Mode.N -> Byte]
            /\ MessageHash(id2, q, c, msg2) \in [1 .. Mode.N -> Byte]
        BY DigestAssumption
      <3>2. Mode.N \in Nat
        BY ModeAssumption DEF ValidMode
      <3> QED  BY <3>1, <3>2, Z3 DEF IsHash
    <2>2. k = LeafKey(id, seed, q)
            <=> /\ id = id2 /\ q = q /\ seed = seed2
                /\ MessageHash(id, q, c, msg) = MessageHash(id2, q, c, msg2)
      <3>1. RecoverPubkey(Mode, OtsSign(Mode, OtsNewFromSeed(Mode, q, id2, seed2), c, msg2),
                          id, q, msg).k
               = OtsPublic(Mode, OtsNewFromSeed(Mode, q, id, seed)).k
            <=> /\ id = id2 /\ q = q /\ seed = seed2
                /\ MessageHash(id, q, c, msg) = MessageHash(id2, q, c, msg2)
        BY <2>1, KeyRecovered, ModeAssumption
      <3> QED  BY <1>4, <3>1, Zenon DEF LeafKey, OtsKey
    <2>3. MessageHash(id, q, c, msg) = MessageHash(id, q, c, msg2) => msg = msg2
      BY DigestAssumption
    <2> QED  BY <2>2, <2>3, Zenon
  <1>13. id = id2 /\ seed = seed2 => \A l \in 0 .. h - 1 : path[l] = T[Sibling(r \div 2 ^ l)]
    BY <1>1, <1>4
  <1> QED  BY <1>8, <1>10, <1>11, <1>12, <1>13, Zenon

(* The tree, the verifying key and the signatures of an object are those of *)
(* the id and the seed it was made with.                                    *)
TreesAsMade ==
    \A o \in Live : key[o].auth_tree = GenPkTree(key[o].id, key[o].seed)

RootOf(w) == [id |-> w[1], k |-> GenPkTree(w[1], w[2])[1]]

RootsAsMade ==
    /\ vk = [o \in Keys |-> vk[o]]
    /\ \A o \in Keys : vk[o] # NoKey =>
          origin[o] \in Ids \X Seeds /\ vk[o] = RootOf(origin[o])

SignedAs(s, w) ==
    \E c \in Randomizers : s.sig = SignatureOf(MakeKey(w[1], w[2], s.sig.q), c, s.msg)

SigsAsMade ==
    \A s \in sigs : origin[s.obj] \in Ids \X Seeds /\ SignedAs(s, origin[s.obj])

(* The invariant behind SignaturesVerify.                                   *)
VInv == IInv /\ TreesAsMade /\ RootsAsMade /\ SigsAsMade

(* The strengthened invariant holds before any key is made.                *)
LEMMA InitVInv == Init => VInv
  BY InitIInv DEF Init, VInv, TreesAsMade, RootsAsMade, SigsAsMade, Live, IsKey

(* The verifying key of a new key is the root of its tree.                  *)
LEMMA NewFromSeedMakes ==
    ASSUME VInv, NEW o \in Keys, NEW id \in Ids, NEW seed \in Seeds,
           NewFromSeed(o, id, seed)
    PROVE  TreesAsMade' /\ RootsAsMade' /\ SigsAsMade'
  <1>1. PICK k, w : k = MakeKey(id, seed, 0) /\ w = <<id, seed>>
    OBVIOUS
  <1>2. /\ k.id = id /\ k.seed = seed /\ k.auth_tree = GenPkTree(id, seed)
        /\ w \in Ids \X Seeds /\ w[1] = id /\ w[2] = seed
    BY <1>1 DEF MakeKey
  <1>3. /\ key[o] = NoKey /\ key' = [key EXCEPT ![o] = k] /\ origin' = [origin EXCEPT ![o] = w]
        /\ vk' = [vk EXCEPT ![o] = Public(key'[o])] /\ sigs' = sigs
    BY <1>1 DEF NewFromSeed
  <1>4. /\ key'[o] = k /\ origin'[o] = w
        /\ \A p \in Keys : p # o => key'[p] = key[p] /\ origin'[p] = origin[p]
    BY <1>3 DEF VInv, IInv, TypeOK
  <1>5. Public(k) = RootOf(w)
    BY <1>2 DEF Public, RootOf
  <1>6. /\ vk'[o] = RootOf(w) /\ vk' = [p \in Keys |-> vk'[p]]
        /\ \A p \in Keys : p # o => vk'[p] = vk[p]
    BY <1>3, <1>4, <1>5 DEF VInv, RootsAsMade
  <1>7. TreesAsMade'
    BY <1>2, <1>4 DEF VInv, TreesAsMade, Live
  <1>8. RootsAsMade'
    BY <1>2, <1>4, <1>6 DEF VInv, RootsAsMade
  <1>9. \A s \in sigs : s.obj \in Keys /\ s.obj # o
    BY <1>3 DEF VInv, IInv, TypeOK, SignedBehind
  <1>10. SigsAsMade'
    BY <1>3, <1>4, <1>9 DEF VInv, SigsAsMade, SignedAs
  <1> QED  BY <1>7, <1>8, <1>10

(* A signature is made with the tree and the seed its object was made with. *)
LEMMA SignMakes ==
    ASSUME VInv, NEW o \in Keys, NEW c \in Randomizers, NEW msg \in Messages,
           Sign(o, c, msg)
    PROVE  TreesAsMade' /\ RootsAsMade' /\ SigsAsMade'
  <1>1. PICK k, l, w, new : /\ k = key[o] /\ l = [k EXCEPT !.q = @ + 1] /\ w = origin[o]
                            /\ new = [obj |-> o, msg |-> msg, sig |-> SignatureOf(k, c, msg)]
    OBVIOUS
  <1>2. /\ o \in Live /\ key' = [key EXCEPT ![o] = l] /\ sigs' = sigs \cup {new}
        /\ origin' = origin /\ vk' = vk
    BY <1>1 DEF Sign
  <1>3. k \in KeyFields /\ k.auth_tree = GenPkTree(k.id, k.seed)
    BY <1>1, <1>2, LiveFields DEF VInv, IInv, TreesAsMade
  <1>4. l.id = k.id /\ l.seed = k.seed /\ l.auth_tree = k.auth_tree
    BY <1>1, <1>3 DEF KeyFields
  <1>5. key'[o] = l /\ \A p \in Keys : p # o => key'[p] = key[p]
    BY <1>2 DEF VInv, IInv, TypeOK
  <1>6. TreesAsMade'
    BY <1>3, <1>4, <1>5 DEF VInv, TreesAsMade, Live
  <1>7. RootsAsMade'
    BY <1>2 DEF VInv, RootsAsMade
  <1>8. w = <<k.id, k.seed>> /\ w \in Ids \X Seeds /\ w[1] = k.id /\ w[2] = k.seed
    <2>1. k.id \in Ids /\ k.seed \in Seeds
      BY <1>3 DEF KeyFields
    <2>2. <<k.id, k.seed>> = w
      BY <1>1, <1>2 DEF VInv, IInv, TypeOK
    <2> QED  BY <2>1, <2>2
  <1>9. SignedAs(new, w)
    <2>1. new.msg = msg /\ new.sig = SignatureOf(k, c, msg) /\ new.sig.q = k.q
      BY <1>1 DEF SignatureOf
    <2>2. PICK y : y = MakeKey(w[1], w[2], k.q)
      OBVIOUS
    <2>3. y.id = k.id /\ y.seed = k.seed /\ y.q = k.q /\ y.auth_tree = k.auth_tree
      BY <1>3, <1>8, <2>2 DEF MakeKey
    <2>4. SignatureOf(y, c, msg) = SignatureOf(k, c, msg)
      BY <2>3 DEF SignatureOf
    <2> QED  BY <2>1, <2>2, <2>4, Zenon DEF SignedAs
  <1>10. SigsAsMade'
    <2>1. new.obj = o
      BY <1>1
    <2>2. origin[new.obj] \in Ids \X Seeds /\ SignedAs(new, origin[new.obj])
      BY <1>1, <1>8, <1>9, <2>1, Zenon
    <2>3. \A s \in sigs' : origin[s.obj] \in Ids \X Seeds /\ SignedAs(s, origin[s.obj])
      BY <1>2, <2>2 DEF VInv, SigsAsMade
    <2> QED  BY <1>2, <2>3 DEF SigsAsMade, SignedAs
  <1> QED  BY <1>6, <1>7, <1>10

(* No other call makes a key or a signature.                                *)
LEMMA OthersMake ==
    ASSUME VInv, NEW o \in Keys,
           \/ SignRefused(o) \/ SignInterrupted(o) \/ Save(o)
           \/ \E image \in images : Load(o, image)
    PROVE  TreesAsMade' /\ RootsAsMade' /\ SigsAsMade'
  <1>1. vk' = vk /\ sigs' = sigs /\ origin' = origin /\ (key' = key \/ key' = [key EXCEPT ![o] = Gone])
    <2>1. ASSUME NEW image \in images, Load(o, image)
          PROVE  vk' = vk /\ sigs' = sigs /\ origin' = origin /\ key' = key
      <3>1. ParseLmsSk(Mode, image) = Panic
        BY ParsePanics DEF VInv, IInv, ImagesOfKeys
      <3>2. Panic[1] # "ok"
        BY DEF Panic
      <3> QED  BY <2>1, <3>1, <3>2 DEF Load
    <2> QED  BY <2>1 DEF SignRefused, SignInterrupted, Save
  <1>2. \A p \in Live' : p \in Live /\ key'[p] = key[p]
    BY <1>1 DEF VInv, IInv, TypeOK, Live, IsKey
  <1>3. TreesAsMade'
    BY <1>2 DEF VInv, TreesAsMade
  <1>4. RootsAsMade'
    BY <1>1 DEF VInv, RootsAsMade
  <1>5. SigsAsMade'
    BY <1>1 DEF VInv, SigsAsMade, SignedAs
  <1> QED  BY <1>3, <1>4, <1>5

(* VInv holds in every state of every behaviour.                            *)
THEOREM MadeInductive == Spec => []VInv
  <1>1. VInv /\ [Next]_vars => VInv'
    <2>1. ASSUME VInv, [Next]_vars PROVE IInv'
      BY <2>1, NextIInv DEF VInv
    <2>2. ASSUME VInv, Next PROVE TreesAsMade' /\ RootsAsMade' /\ SigsAsMade'
      BY <2>2, NewFromSeedMakes, SignMakes, OthersMake DEF Next
    <2>3. ASSUME VInv, UNCHANGED vars PROVE TreesAsMade' /\ RootsAsMade' /\ SigsAsMade'
      BY <2>3 DEF vars, VInv, TreesAsMade, RootsAsMade, SigsAsMade, SignedAs, Live
    <2> QED  BY <2>1, <2>2, <2>3 DEF VInv
  <1> QED  BY <1>1, InitVInv, PTL DEF Spec

(* SignaturesVerify of LmsSigner: a verifying key accepts a signature       *)
(* exactly on the signed message and exactly when the signing key has its   *)
(* id and seed, for trees of every height.                                  *)
THEOREM SignaturesVerifyCorrect == Spec => []SignaturesVerify
  <1>1. VInv => SignaturesVerify
    <2> SUFFICES ASSUME VInv, NEW s \in sigs, NEW o \in Keys, NEW msg \in Messages,
                        vk[o] # NoKey
                 PROVE  Verify(vk[o], msg, s.sig)
                           <=> msg = s.msg /\ origin[o] = origin[s.obj]
      BY DEF SignaturesVerify
    <2>1. PICK id \in Ids, seed \in Seeds :
             origin[o] = <<id, seed>> /\ vk[o] = [id |-> id, k |-> GenPkTree(id, seed)[1]]
      <3>1. PICK w \in Ids \X Seeds : w = origin[o] /\ vk[o] = RootOf(w)
        BY DEF VInv, RootsAsMade
      <3>2. PICK id \in Ids, seed \in Seeds : w = <<id, seed>>
        OBVIOUS
      <3> QED  BY <3>1, <3>2 DEF RootOf
    <2>2. PICK id2 \in Ids, seed2 \in Seeds, c \in Randomizers :
             /\ origin[s.obj] = <<id2, seed2>>
             /\ s.sig = SignatureOf(MakeKey(id2, seed2, s.sig.q), c, s.msg)
      <3>1. PICK w \in Ids \X Seeds : w = origin[s.obj] /\ SignedAs(s, w)
        BY DEF VInv, SigsAsMade
      <3>2. PICK id2 \in Ids, seed2 \in Seeds : w = <<id2, seed2>>
        OBVIOUS
      <3> QED  BY <3>1, <3>2 DEF SignedAs
    <2>3. s.msg \in Messages /\ s.sig.q \in 0 .. LEAVES - 1
      BY DEF VInv, IInv, TypeOK
    <2>4. Verify(vk[o], msg, s.sig) <=> msg = s.msg /\ id = id2 /\ seed = seed2
      BY <2>1, <2>2, <2>3, VerifyMade
    <2> QED  BY <2>1, <2>2, <2>4
  <1> QED  BY <1>1, MadeInductive, PTL
=============================================================================
