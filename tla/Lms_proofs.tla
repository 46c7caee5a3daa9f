----------------------------- MODULE Lms_proofs -----------------------------
(***************************************************************************)
(* Proofs about the wire formats (LmsCodec), about verification (LmsVerify) *)
(* and about key generation followed by verification (LmsKeyLife).          *)
(*                                                                          *)
(* Wire formats, for every set of modes whose typecodes tell them apart:    *)
(* what is written is read back, and bytes that were cut, extended or       *)
(* written in another mode are refused.  The proofs go by layout: where     *)
(* each field stands in the bytes of a type, what each parser answers to    *)
(* any bytes, case by case, and what both say of bytes that agree with      *)
(* written ones as far as they go.                                          *)
(*                                                                          *)
(* Verification, for every height, every tree of the right shape and every  *)
(* sequence of signatures: the inductive invariant VerifyInv ties the loop  *)
(* variables to the level reached.  node_num is the ancestor of the signed  *)
(* leaf at level i, 2^(Height - i) bounds it, and RunningHash holds.        *)
(*                                                                          *)
(* Key generation: gen_pk_tree fills the tree RFC 8554 defines in one pass. *)
(* FilledCorrectly is not inductive: a climb must find both children        *)
(* filled.  GenInv says which nodes are: at level l, the ones up to the     *)
(* ancestor of the last leaf done, unless leaves of it are still to come.   *)
(***************************************************************************)
EXTENDS LmsCodec, LmsKeyLife, BasicFacts

(* Cutting a string where it was put together.                              *)
LEMMA TakeConcat ==
    ASSUME NEW S, NEW s \in Seq(S), NEW t \in Seq(S), NEW n, n = Len(s)
    PROVE  Take(s \o t, n) = s /\ Drop(s \o t, n) = t
  <1>1. PICK u : u = s \o t
    OBVIOUS
  <1>2. /\ u \in Seq(S) /\ Len(u) = Len(s) + Len(t) /\ n \in Nat /\ Len(t) \in Nat
        /\ \A at \in 1 .. Len(s) + Len(t) : u[at] = IF at <= Len(s) THEN s[at] ELSE t[at - Len(s)]
    BY <1>1, ConcatProperties
  <1>3. Take(u, n) = s
    <2>1. PICK v : v = SubSeq(u, 1, n)
      OBVIOUS
    <2>2. v \in Seq(S) /\ Len(v) = Len(s) /\ \A at \in 1 .. Len(s) : v[at] = s[at]
      BY <1>2, <2>1
    <2>3. v = s
      BY <2>2, SeqEqual
    <2> QED  BY <2>1, <2>3 DEF Take
  <1>4. Drop(u, n) = t
    <2>1. PICK v : v = SubSeq(u, n + 1, Len(u))
      OBVIOUS
    <2>2. v \in Seq(S) /\ Len(v) = Len(t) /\ \A at \in 1 .. Len(t) : v[at] = u[n + at]
      BY <1>2, <2>1
    <2>3. \A at \in 1 .. Len(t) : u[n + at] = t[at]
      <3>1. \A at \in 1 .. Len(t) : n + at \in 1 .. Len(s) + Len(t) /\ ~(n + at <= Len(s))
                                     /\ (n + at) - Len(s) = at
        BY <1>2
      <3> QED  BY <1>2, <3>1
    <2>4. v = t
      BY <2>2, <2>3, SeqEqual
    <2> QED  BY <2>1, <2>4 DEF Drop
  <1> QED  BY <1>1, <1>3, <1>4

(* What is left after cutting.                                              *)
LEMMA DropShape ==
    ASSUME NEW S, NEW s \in Seq(S), NEW n \in 0 .. Len(s)
    PROVE  /\ Drop(s, n) \in Seq(S) /\ Len(Drop(s, n)) = Len(s) - n
           /\ \A at \in 1 .. Len(s) - n : Drop(s, n)[at] = s[n + at]
           /\ Take(s, n) \in Seq(S) /\ Len(Take(s, n)) = n
           /\ \A at \in 1 .. n : Take(s, n)[at] = s[at]
  BY DEF Drop, Take

(* A part of a string: v stands in b after its first a words.               *)
HoldsAt(b, a, v) ==
    /\ a \in Nat /\ Len(v) \in Nat /\ a + Len(v) <= Len(b)
    /\ \A at \in 1 .. Len(v) : b[a + at] = v[at]

(* What cutting off the first words gives.                                  *)
LEMMA DropAt ==
    ASSUME NEW S, NEW b \in Seq(S), NEW a \in 0 .. Len(b)
    PROVE  IsCut(Drop(b, a), b, a, Len(b) - a, S)
  <1>1. Len(b) - a \in Nat /\ a + (Len(b) - a) = Len(b) /\ a \in Nat
    OBVIOUS
  <1>2. IsCut(SubSeq(b, a + 1, a + (Len(b) - a)), b, a, Len(b) - a, S)
    BY <1>1, CutOut
  <1> QED  BY <1>1, <1>2, Zenon DEF Drop

(* n strings of one length.                                                 *)
AreStrings(c, S, len, n) ==
    c = [k \in 1 .. n |-> c[k]] /\ Len(c) = n /\ AreChunks(c, S, len, n)

(* Joined strings are cut into the same strings again.                      *)
LEMMA ChunksOfJoin ==
    ASSUME NEW S, NEW len \in Nat, NEW n \in Nat, NEW c, AreStrings(c, S, len, n)
    PROVE  /\ Join(c) \in Seq(S) /\ Len(Join(c)) = n * len
           /\ Chunks(Join(c), len, n) = c
  <1>0. c = [k \in 1 .. n |-> c[k]] /\ Len(c) = n /\ AreChunks(c, S, len, n)
    BY Zenon DEF AreStrings
  <1>1. PICK u : u = JoinOf(c, n)[n]
    OBVIOUS
  <1>2. Join(c) = u
    <2>1. Join(c) = JoinOf(c, Len(c))[Len(c)]
      BY Zenon DEF Join, JoinOf, IsJoined
    <2> QED  BY <1>0, <1>1, <2>1, Zenon
  <1>3. HoldsChunks(u, c, S, len, n)
    BY <1>0, <1>1, JoinHolds
  <1>4. u \in Seq(S) /\ Len(u) = n * len
    BY <1>3 DEF HoldsChunks
  <1>5. ASSUME NEW k \in 1 .. n
        PROVE  SubSeq(u, (k - 1) * len + 1, k * len) = c[k]
    <2>1. PICK a, b, v : a = (k - 1) * len /\ b = k * len /\ v = SubSeq(u, a + 1, b)
      OBVIOUS
    <2>2. a \in Nat /\ b = a + len /\ b <= n * len
      <3>1. (k - 1) * len \in Nat
        OBVIOUS
      <3>2. (k - 1) * len + len = k * len
        OBVIOUS
      <3>3. k * len <= n * len
        OBVIOUS
      <3> QED  BY <2>1, <3>1, <3>2, <3>3, Zenon
    <2>3. v \in Seq(S) /\ Len(v) = len /\ \A at \in 1 .. len : v[at] = u[a + at]
      <3>1. a + len <= Len(u)
        BY <1>4, <2>2
      <3>2. IsCut(SubSeq(u, a + 1, a + len), u, a, len, S)
        BY <1>4, <2>2, <3>1, CutOut
      <3> QED  BY <2>1, <2>2, <3>2, Zenon DEF IsCut
    <2>4. \A at \in 1 .. len : u[a + at] = c[k][at]
      BY <1>3, <2>1 DEF HoldsChunks
    <2>5. c[k] \in Seq(S) /\ Len(c[k]) = len
      BY <1>0 DEF AreChunks
    <2>6. v = c[k]
      <3>1. Len(v) = Len(c[k]) /\ \A at \in 1 .. Len(v) : v[at] = c[k][at]
        BY <2>3, <2>4, <2>5
      <3> QED  BY <2>3, <2>5, <3>1, SeqEqual
    <2> QED  BY <2>1, <2>6, Zenon
  <1>6. Chunks(u, len, n) = [k \in 1 .. n |-> c[k]]
    BY <1>5, Zenon DEF Chunks
  <1> QED  BY <1>0, <1>2, <1>4, <1>6, Zenon

(* Cutting twice.                                                           *)
LEMMA DropDrop ==
    ASSUME NEW S, NEW b \in Seq(S), NEW a \in Nat, NEW c \in Nat, a + c <= Len(b)
    PROVE  Drop(Drop(b, a), c) = Drop(b, a + c)
  <1>1. PICK d, e, f : d = Drop(b, a) /\ e = Drop(d, c) /\ f = Drop(b, a + c)
    OBVIOUS
  <1>2. Len(b) \in Nat /\ a \in 0 .. Len(b) /\ a + c \in 0 .. Len(b)
    OBVIOUS
  <1>3. d \in Seq(S) /\ Len(d) = Len(b) - a /\ \A at \in 1 .. Len(b) - a : d[at] = b[a + at]
    <2>1. IsCut(Drop(b, a), b, a, Len(b) - a, S)
      BY <1>2, DropAt
    <2> QED  BY <1>1, <2>1, Zenon DEF IsCut
  <1>4. c \in 0 .. Len(d)
    BY <1>2, <1>3
  <1>5. e \in Seq(S) /\ Len(e) = Len(d) - c /\ \A at \in 1 .. Len(d) - c : e[at] = d[c + at]
    <2>1. d \in Seq(S)
      BY <1>3
    <2>2. IsCut(Drop(d, c), d, c, Len(d) - c, S)
      BY <1>4, <2>1, DropAt
    <2> QED  BY <1>1, <2>2, Zenon DEF IsCut
  <1>6. f \in Seq(S) /\ Len(f) = Len(b) - (a + c)
        /\ \A at \in 1 .. Len(b) - (a + c) : f[at] = b[(a + c) + at]
    <2>1. IsCut(Drop(b, a + c), b, a + c, Len(b) - (a + c), S)
      BY <1>2, DropAt
    <2> QED  BY <1>1, <2>1, Zenon DEF IsCut
  <1>7. Len(e) = Len(f) /\ \A at \in 1 .. Len(e) : e[at] = f[at]
    <2>1. Len(e) = Len(f)
      BY <1>2, <1>3, <1>5, <1>6
    <2>2. ASSUME NEW at \in 1 .. Len(e)
          PROVE  e[at] = f[at]
      <3>1. at \in 1 .. Len(d) - c /\ c + at \in 1 .. Len(b) - a /\ at \in 1 .. Len(b) - (a + c)
            /\ a + (c + at) = (a + c) + at
        BY <1>2, <1>3, <1>5
      <3> QED  BY <1>3, <1>5, <1>6, <3>1
    <2> QED  BY <2>1, <2>2
  <1>8. e = f
    BY <1>5, <1>6, <1>7, SeqEqual
  <1> QED  BY <1>1, <1>8, Zenon

(* A part is read back where it stands.                                     *)
LEMMA PartRead ==
    ASSUME NEW S, NEW b \in Seq(S), NEW v \in Seq(S), NEW a, HoldsAt(b, a, v)
    PROVE  /\ SubSeq(b, a + 1, a + Len(v)) = v
           /\ Take(Drop(b, a), Len(v)) = v
           /\ a + Len(v) = Len(b) => Drop(b, a) = v
  <1>0. /\ a \in Nat /\ Len(v) \in Nat /\ a + Len(v) <= Len(b)
        /\ \A at \in 1 .. Len(v) : b[a + at] = v[at]
    BY Zenon DEF HoldsAt
  <1>1. /\ a \in Nat /\ Len(v) \in Nat /\ Len(b) \in Nat /\ a + Len(v) <= Len(b)
        /\ a \in 0 .. Len(b)
        /\ \A at \in 1 .. Len(v) : b[a + at] = v[at]
    BY <1>0
  <1>2. SubSeq(b, a + 1, a + Len(v)) = v
    <2>1. PICK w : w = SubSeq(b, a + 1, a + Len(v))
      OBVIOUS
    <2>2. w \in Seq(S) /\ Len(w) = Len(v) /\ \A at \in 1 .. Len(v) : w[at] = b[a + at]
      <3>1. IsCut(SubSeq(b, a + 1, a + Len(v)), b, a, Len(v), S)
        BY <1>1, CutOut
      <3> QED  BY <2>1, <3>1, Zenon DEF IsCut
    <2>3. w = v
      BY <1>1, <2>2, SeqEqual
    <2> QED  BY <2>1, <2>3, Zenon
  <1>3. PICK d : d = Drop(b, a)
    OBVIOUS
  <1>4. d \in Seq(S) /\ Len(d) = Len(b) - a /\ \A at \in 1 .. Len(b) - a : d[at] = b[a + at]
    <2>1. IsCut(Drop(b, a), b, a, Len(b) - a, S)
      BY <1>1, DropAt
    <2> QED  BY <1>3, <2>1, Zenon DEF IsCut
  <1>5. Take(d, Len(v)) = v
    <2>1. PICK w : w = SubSeq(d, 1, Len(v))
      OBVIOUS
    <2>2. w \in Seq(S) /\ Len(w) = Len(v) /\ \A at \in 1 .. Len(v) : w[at] = d[at]
      <3>1. d \in Seq(S) /\ Len(v) <= Len(d)
        BY <1>1, <1>4
      <3> QED  BY <1>1, <2>1, <3>1
    <2>3. \A at \in 1 .. Len(v) : d[at] = v[at]
      BY <1>1, <1>4
    <2>4. w = v
      BY <1>1, <2>2, <2>3, SeqEqual
    <2> QED  BY <2>1, <2>4, Zenon DEF Take
  <1>6. a + Len(v) = Len(b) => d = v
    <2> SUFFICES ASSUME a + Len(v) = Len(b)  PROVE d = v
      OBVIOUS
    <2>1. Len(d) = Len(v)
      BY <1>1, <1>4
    <2>2. \A at \in 1 .. Len(d) : d[at] = v[at]
      <3>1. 1 .. Len(d) = 1 .. Len(b) - a
        BY <1>4
      <3> QED  BY <1>1, <1>4, <2>1, <3>1, Zenon
    <2> QED  BY <1>4, <2>1, <2>2, SeqEqual
  <1> QED  BY <1>2, <1>3, <1>5, <1>6, Zenon

(* Parts stay where they are when more is appended.                         *)
AreParts(u, s, t, S) ==
    /\ u \in Seq(S) /\ Len(u) = Len(s) + Len(t)
    /\ HoldsAt(u, 0, s) /\ HoldsAt(u, Len(s), t)
    /\ \A a, v : HoldsAt(s, a, v) => HoldsAt(u, a, v)

(* Parts keep their places when a string is appended.                       *)
LEMMA PartsOfConcat ==
    ASSUME NEW S, NEW s \in Seq(S), NEW t \in Seq(S)
    PROVE  AreParts(s \o t, s, t, S)
  <1> DEFINE u == s \o t
  <1>1. IsConcat(u, s, t, S)
    BY ConcatShape
  <1> HIDE DEF u
  <1>2. /\ u \in Seq(S) /\ Len(u) = Len(s) + Len(t) /\ Len(s) \in Nat /\ Len(t) \in Nat
        /\ \A at \in 1 .. Len(s) : u[at] = s[at]
        /\ \A at \in 1 .. Len(t) : u[Len(s) + at] = t[at]
    BY <1>1, Zenon DEF IsConcat
  <1>3. HoldsAt(u, 0, s) /\ HoldsAt(u, Len(s), t)
    BY <1>2 DEF HoldsAt
  <1>4. ASSUME NEW a, NEW v, HoldsAt(s, a, v)
        PROVE  HoldsAt(u, a, v)
    <2>1. \A at \in 1 .. Len(v) : a + at \in 1 .. Len(s)
      BY <1>2, <1>4 DEF HoldsAt
    <2> QED  BY <1>2, <1>4, <2>1 DEF HoldsAt
  <1>5. AreParts(u, s, t, S)
    BY <1>2, <1>3, <1>4, Zenon DEF AreParts
  <1> QED  BY <1>5 DEF u

(* Three strings put together, and four.                                    *)
AreParts3(b, s, t, u, S) ==
    /\ b \in Seq(S) /\ Len(b) = Len(s) + Len(t) + Len(u)
    /\ HoldsAt(b, 0, s) /\ HoldsAt(b, Len(s), t) /\ HoldsAt(b, Len(s) + Len(t), u)

AreParts4(b, s, t, u, w, S) ==
    /\ b \in Seq(S) /\ Len(b) = Len(s) + Len(t) + Len(u) + Len(w)
    /\ HoldsAt(b, 0, s) /\ HoldsAt(b, Len(s), t) /\ HoldsAt(b, Len(s) + Len(t), u)
    /\ HoldsAt(b, Len(s) + Len(t) + Len(u), w)

(* Where the parts of three joined strings stand.                           *)
LEMMA ThreeParts ==
    ASSUME NEW S, NEW s \in Seq(S), NEW t \in Seq(S), NEW u \in Seq(S)
    PROVE  AreParts3(s \o t \o u, s, t, u, S)
  <1>1. PICK a, b : a = s \o t /\ b = a \o u
    OBVIOUS
  <1>2. AreParts(a, s, t, S)
    <2>1. AreParts(s \o t, s, t, S)
      BY PartsOfConcat
    <2> QED  BY <1>1, <2>1, Zenon
  <1>3. /\ a \in Seq(S) /\ Len(a) = Len(s) + Len(t)
        /\ HoldsAt(a, 0, s) /\ HoldsAt(a, Len(s), t)
    BY <1>2, Zenon DEF AreParts
  <1>4. AreParts(b, a, u, S)
    <2>1. a \in Seq(S)
      BY <1>3
    <2>2. AreParts(a \o u, a, u, S)
      BY <2>1, PartsOfConcat
    <2> QED  BY <1>1, <2>2, Zenon
  <1>5. /\ b \in Seq(S) /\ Len(b) = Len(a) + Len(u)
        /\ HoldsAt(b, Len(a), u)
        /\ \A n, v : HoldsAt(a, n, v) => HoldsAt(b, n, v)
    BY <1>4, Zenon DEF AreParts
  <1>6. AreParts3(b, s, t, u, S)
    BY <1>3, <1>5, Zenon DEF AreParts3
  <1> QED  BY <1>1, <1>6, Zenon

(* Where the parts of four joined strings stand.                            *)
LEMMA FourParts ==
    ASSUME NEW S, NEW s \in Seq(S), NEW t \in Seq(S), NEW u \in Seq(S), NEW w \in Seq(S)
    PROVE  AreParts4(s \o t \o u \o w, s, t, u, w, S)
  <1>1. PICK a, b : a = s \o t \o u /\ b = a \o w
    OBVIOUS
  <1>2. AreParts3(a, s, t, u, S)
    <2>1. AreParts3(s \o t \o u, s, t, u, S)
      BY ThreeParts
    <2> QED  BY <1>1, <2>1, Zenon
  <1>3. /\ a \in Seq(S) /\ Len(a) = Len(s) + Len(t) + Len(u)
        /\ HoldsAt(a, 0, s) /\ HoldsAt(a, Len(s), t) /\ HoldsAt(a, Len(s) + Len(t), u)
    BY <1>2, Zenon DEF AreParts3
  <1>4. AreParts(b, a, w, S)
    <2>1. a \in Seq(S)
      BY <1>3
    <2>2. AreParts(a \o w, a, w, S)
      BY <2>1, PartsOfConcat
    <2> QED  BY <1>1, <2>2, Zenon
  <1>5. /\ b \in Seq(S) /\ Len(b) = Len(a) + Len(w)
        /\ HoldsAt(b, Len(a), w)
        /\ \A n, v : HoldsAt(a, n, v) => HoldsAt(b, n, v)
    BY <1>4, Zenon DEF AreParts
  <1>6. AreParts4(b, s, t, u, w, S)
    BY <1>3, <1>5, Zenon DEF AreParts4
  <1> QED  BY <1>1, <1>6, Zenon

(* The words of encodings: numbers, and the words of the opaque fields.     *)
Tags == {"u32", "id", "c", "k", "seed"} \cup {<<"y", at>> : at \in Nat}
                                        \cup {<<"path", at>> : at \in Nat}

Word == [tag : Tags, n : Nat]

(* Numbers are words, and read back as they were written; any word reads as *)
(* a number.                                                                *)
LEMMA U32IsWord ==
    ASSUME NEW n \in Nat
    PROVE  U32(n) \in Word /\ ReadU32(U32(n)) = n
  BY DEF U32, ReadU32, Word, Tags

(* Any word reads as a number.                                              *)
LEMMA ReadIsNat ==
    ASSUME NEW w \in Word
    PROVE  ReadU32(w) \in Nat
  <1>1. 2 ^ 30 \in Nat
    BY PowerIsNat
  <1>2. w.n \in Nat
    BY DEF Word
  <1> QED  BY <1>1, <1>2 DEF ReadU32

(* Opaque fields are strings of words of their length.                      *)
LEMMA OpaqueIsString ==
    ASSUME NEW t \in Tags, NEW len \in Nat
    PROVE  Opaque(t, len) \in Seq(Word) /\ Len(Opaque(t, len)) = len
  <1>1. PICK f : f = Opaque(t, len)
    OBVIOUS
  <1>2. f = [n \in 1 .. len |-> [tag |-> t, n |-> n]]
    BY <1>1 DEF Opaque
  <1>3. \A n \in 1 .. len : [tag |-> t, n |-> n] \in Word
    BY DEF Word
  <1>4. f \in [1 .. len -> Word]
    BY <1>2, <1>3
  <1>5. f \in Seq(Word) /\ Len(f) = len
    BY <1>2, <1>4
  <1> QED  BY <1>1, <1>5

(* A number read where it was written.                                      *)
LEMMA NumberRead ==
    ASSUME NEW b, NEW a \in Nat, NEW n \in Nat, HoldsAt(b, a, <<U32(n)>>)
    PROVE  b[a + 1] = U32(n) /\ ReadU32(b[a + 1]) = n
  <1>1. PICK x : x = U32(n)
    OBVIOUS
  <1>2. HoldsAt(b, a, <<x>>)
    BY <1>1
  <1>3. Len(<<x>>) = 1 /\ <<x>>[1] = x /\ 1 \in 1 .. 1
    OBVIOUS
  <1>4. b[a + 1] = x
    BY <1>2, <1>3, Zenon DEF HoldsAt
  <1> QED  BY <1>1, <1>4, U32IsWord

(* The values of each type.                                                 *)
IsField(s, len) == s \in Seq(Word) /\ Len(s) = len

AreFields(c, len, n) == AreStrings(c, Word, len, n)

IsOtsVk(m, v) ==
    /\ v = [id |-> v.id, q |-> v.q, k |-> v.k]
    /\ IsField(v.id, ID_LEN) /\ v.q \in Nat /\ IsField(v.k, m.N)

IsOtsSig(m, v) ==
    /\ v = [c |-> v.c, y |-> v.y]
    /\ IsField(v.c, m.N) /\ AreFields(v.y, m.N, m.P)

IsLmsVk(m, v) ==
    /\ v = [id |-> v.id, k |-> v.k]
    /\ IsField(v.id, ID_LEN) /\ IsField(v.k, m.M)

IsLmsSig(m, v) ==
    /\ v = [q |-> v.q, ots |-> v.ots, path |-> v.path]
    /\ v.q \in Nat /\ v.q < 2 ^ m.H /\ IsOtsSig(m, v.ots) /\ AreFields(v.path, m.M, m.H)

IsLmsSk(m, v) ==
    v.q \in Nat /\ IsField(v.id, ID_LEN) /\ IsField(v.seed, m.M)

(* The fields of a value of each type are strings of words.                 *)
LEMMA OpaqueFields ==
    ASSUME NEW name \in {"y", "path"}, NEW len \in Nat, NEW n \in Nat
    PROVE  AreFields([at \in 1 .. n |-> Opaque(<<name, at>>, len)], len, n)
  <1>1. PICK f : f = [at \in 1 .. n |-> Opaque(<<name, at>>, len)]
    OBVIOUS
  <1>2. f = [at \in 1 .. n |-> f[at]] /\ Len(f) = n
    BY <1>1
  <1>3. ASSUME NEW at \in 1 .. n
        PROVE  f[at] \in Seq(Word) /\ Len(f[at]) = len
    <2>1. <<name, at>> \in Tags
      BY DEF Tags
    <2>2. PICK o : o = Opaque(<<name, at>>, len)
      OBVIOUS
    <2>3. o \in Seq(Word) /\ Len(o) = len
      BY <2>1, <2>2, OpaqueIsString
    <2>4. f[at] = o
      BY <1>1, <2>2, Zenon
    <2> QED  BY <2>3, <2>4, Zenon
  <1>4. AreFields(f, len, n)
    BY <1>2, <1>3, Zenon DEF AreFields, AreStrings, AreChunks
  <1> QED  BY <1>1, <1>4, Zenon

(* The constants of a mode.                                                 *)
LEMMA ModeNumbers ==
    ASSUME NEW m \in Modes
    PROVE  /\ m.TC \in Nat /\ m.OtsTC \in Nat /\ m.M \in Nat /\ m.N \in Nat
           /\ m.H \in Nat \ {0} /\ m.P \in Nat \ {0} /\ 2 ^ m.H \in Nat
  <1>1. m \in [TC : Nat, H : Nat \ {0}, M : Nat \ {0}, OtsTC : Nat, P : Nat \ {0}, N : Nat \ {0}]
    BY ModesAssumption
  <1>2. 2 ^ m.H \in Nat
    BY <1>1, PowerIsNat
  <1> QED  BY <1>1, <1>2

IsValue(m, k, v) ==
    /\ k = "OtsVk"  => IsOtsVk(m, v)
    /\ k = "OtsSig" => IsOtsSig(m, v)
    /\ k = "LmsVk"  => IsLmsVk(m, v)
    /\ k = "LmsSig" => IsLmsSig(m, v)
    /\ k = "LmsSk"  => IsLmsSk(m, v)

(* Every value a run starts from has the shape of its type.                 *)
LEMMA ValuesShape ==
    ASSUME NEW m \in Modes, NEW k \in Kinds, NEW v \in Values(m, k)
    PROVE  IsValue(m, k, v)
  <1> DEFINE id   == Opaque("id", ID_LEN)
             c    == Opaque("c", m.N)
             y    == [at \in 1 .. m.P |-> Opaque(<<"y", at>>, m.N)]
             ots  == [c |-> c, y |-> y]
             path == [at \in 1 .. m.H |-> Opaque(<<"path", at>>, m.M)]
             kn   == Opaque("k", m.N)
             km   == Opaque("k", m.M)
             seed == Opaque("seed", m.M)
  <1>1. /\ k = "OtsVk"  => \E q \in Nat : v = [id |-> id, q |-> q, k |-> kn]
        /\ k = "OtsSig" => v = ots
        /\ k = "LmsVk"  => v = [id |-> id, k |-> km]
        /\ k = "LmsSig" => \E q \in Nat : q \in 0 .. 2 ^ m.H - 1 /\ v = [q |-> q, ots |-> ots, path |-> path]
        /\ k = "LmsSk"  => \E q \in Nat : v = [q |-> q, id |-> id, seed |-> seed]
    BY QsAssumption DEF Values, Kinds
  <1>2. /\ IsField(id, ID_LEN) /\ IsField(c, m.N) /\ IsField(kn, m.N) /\ IsField(km, m.M)
        /\ IsField(seed, m.M)
    <2>1. ID_LEN \in Nat /\ m.N \in Nat /\ m.M \in Nat
      BY ModeNumbers DEF ID_LEN
    <2>2. "id" \in Tags /\ "c" \in Tags /\ "k" \in Tags /\ "seed" \in Tags
      BY DEF Tags
    <2> QED  BY <2>1, <2>2, OpaqueIsString DEF IsField
  <1>3. AreFields(y, m.N, m.P) /\ AreFields(path, m.M, m.H)
    BY OpaqueFields, ModeNumbers
  <1> HIDE DEF id, c, y, path, kn, km, seed
  <1>4. IsOtsSig(m, ots)
    BY <1>2, <1>3, Zenon DEF IsOtsSig
  <1>5. CASE k = "OtsVk"
    <2>1. PICK q \in Nat : v = [id |-> id, q |-> q, k |-> kn]
      BY <1>1, <1>5
    <2>2. v.id = id /\ v.q = q /\ v.k = kn /\ v = [id |-> v.id, q |-> v.q, k |-> v.k]
      BY <2>1
    <2>3. IsOtsVk(m, v)
      BY <1>2, <2>2, Zenon DEF IsOtsVk
    <2> QED  BY <1>5, <2>3 DEF IsValue
  <1>6. CASE k = "OtsSig"
    BY <1>1, <1>4, <1>6 DEF IsValue
  <1>7. CASE k = "LmsVk"
    <2>1. v = [id |-> id, k |-> km]
      BY <1>1, <1>7
    <2>2. v.id = id /\ v.k = km /\ v = [id |-> v.id, k |-> v.k]
      BY <2>1
    <2>3. IsLmsVk(m, v)
      BY <1>2, <2>2, Zenon DEF IsLmsVk
    <2> QED  BY <1>7, <2>3 DEF IsValue
  <1>8. CASE k = "LmsSig"
    <2> HIDE DEF ots
    <2>1. PICK q \in Nat : q \in 0 .. 2 ^ m.H - 1 /\ v = [q |-> q, ots |-> ots, path |-> path]
      BY <1>1, <1>8
    <2>2. /\ v.q = q /\ v.ots = ots /\ v.path = path
          /\ v = [q |-> v.q, ots |-> v.ots, path |-> v.path]
      BY <2>1
    <2>3. q < 2 ^ m.H
      BY <2>1, ModeNumbers
    <2>4. IsLmsSig(m, v)
      BY <1>3, <1>4, <2>2, <2>3, Zenon DEF IsLmsSig
    <2> QED  BY <1>8, <2>4 DEF IsValue
  <1>9. CASE k = "LmsSk"
    <2>1. PICK q \in Nat : v = [q |-> q, id |-> id, seed |-> seed]
      BY <1>1, <1>9
    <2>2. v.q = q /\ v.id = id /\ v.seed = seed
      BY <2>1
    <2>3. IsLmsSk(m, v)
      BY <1>2, <2>2, Zenon DEF IsLmsSk
    <2> QED  BY <1>9, <2>3 DEF IsValue
  <1> QED  BY <1>5, <1>6, <1>7, <1>8, <1>9 DEF Kinds

(* The words of one number.                                                 *)
LEMMA OneNumber ==
    ASSUME NEW n \in Nat
    PROVE  <<U32(n)>> \in Seq(Word) /\ Len(<<U32(n)>>) = 1
  <1>1. U32(n) \in Word
    BY U32IsWord
  <1> QED  BY <1>1

(* The test of the length, case by case.                                    *)
LEMMA SizedCases ==
    ASSUME NEW b, NEW e \in Nat, NEW x, Len(b) \in Nat
    PROVE  /\ Len(b) < e => Sized(b, e, x) = Err("TooShort")
           /\ Len(b) > e => Sized(b, e, x) = Err("TooLong")
           /\ Len(b) = e => Sized(b, e, x) = x
  BY DEF Sized

(* Where the fields of each type stand.                                     *)
OtsVkLaid(m, v, b) ==
    /\ b \in Seq(Word) /\ Len(b) = m.N + ID_LEN + 2
    /\ HoldsAt(b, 0, <<U32(m.OtsTC)>>) /\ HoldsAt(b, 1, v.id)
    /\ HoldsAt(b, 1 + ID_LEN, <<U32(v.q)>>) /\ HoldsAt(b, 2 + ID_LEN, v.k)

OtsSigLaid(m, v, b) ==
    /\ b \in Seq(Word) /\ Len(b) = OtsSigLen(m)
    /\ HoldsAt(b, 0, <<U32(m.OtsTC)>>) /\ HoldsAt(b, 1, v.c)
    /\ HoldsAt(b, 1 + m.N, Join(v.y))

LmsVkLaid(m, v, b) ==
    /\ b \in Seq(Word) /\ Len(b) = m.M + ID_LEN + 2
    /\ HoldsAt(b, 0, <<U32(m.TC), U32(m.OtsTC)>>) /\ HoldsAt(b, 2, v.id)
    /\ HoldsAt(b, 2 + ID_LEN, v.k)

LmsSigLaid(m, v, b) ==
    /\ b \in Seq(Word) /\ Len(b) = LmsSigLen(m)
    /\ HoldsAt(b, 0, <<U32(v.q)>>) /\ HoldsAt(b, 1, OtsSigBytes(m, v.ots))
    /\ HoldsAt(b, 1 + OtsSigLen(m), <<U32(m.TC)>>)
    /\ HoldsAt(b, 2 + OtsSigLen(m), Join(v.path))

LmsSkLaid(m, v, b) ==
    /\ b \in Seq(Word) /\ Len(b) = m.M + ID_LEN + 3
    /\ HoldsAt(b, 0, <<U32(m.TC), U32(m.OtsTC), U32(v.q)>>)

(* Where the fields of a written one-time verifying key stand.              *)
LEMMA OtsVkLayout ==
    ASSUME NEW m \in Modes, NEW v, IsOtsVk(m, v)
    PROVE  OtsVkLaid(m, v, OtsVkBytes(m, v))
  <1>1. PICK s, t, u, w : s = <<U32(m.OtsTC)>> /\ t = v.id /\ u = <<U32(v.q)>> /\ w = v.k
    OBVIOUS
  <1>2. s \in Seq(Word) /\ Len(s) = 1 /\ u \in Seq(Word) /\ Len(u) = 1
    <2>1. m.OtsTC \in Nat /\ v.q \in Nat
      BY ModeNumbers DEF IsOtsVk
    <2> QED  BY <1>1, <2>1, OneNumber
  <1>3. t \in Seq(Word) /\ Len(t) = ID_LEN /\ w \in Seq(Word) /\ Len(w) = m.N
    BY <1>1 DEF IsOtsVk, IsField
  <1>4. PICK b : b = s \o t \o u \o w
    OBVIOUS
  <1>5. AreParts4(b, s, t, u, w, Word)
    <2>1. s \in Seq(Word) /\ t \in Seq(Word) /\ u \in Seq(Word) /\ w \in Seq(Word)
      BY <1>2, <1>3
    <2>2. AreParts4(s \o t \o u \o w, s, t, u, w, Word)
      BY <2>1, FourParts
    <2> QED  BY <1>4, <2>2, Zenon
  <1>6. /\ b \in Seq(Word) /\ Len(b) = Len(s) + Len(t) + Len(u) + Len(w)
        /\ HoldsAt(b, 0, s) /\ HoldsAt(b, Len(s), t) /\ HoldsAt(b, Len(s) + Len(t), u)
        /\ HoldsAt(b, Len(s) + Len(t) + Len(u), w)
    BY <1>5, Zenon DEF AreParts4
  <1>7. /\ Len(b) = m.N + ID_LEN + 2 /\ Len(s) + Len(t) = 1 + ID_LEN
        /\ Len(s) + Len(t) + Len(u) = 2 + ID_LEN
    <2>1. m.N \in Nat /\ ID_LEN \in Nat
      BY ModeNumbers DEF ID_LEN
    <2>2. Len(b) = 1 + ID_LEN + 1 + m.N /\ Len(s) + Len(t) = 1 + ID_LEN
          /\ Len(s) + Len(t) + Len(u) = 1 + ID_LEN + 1
      BY <1>2, <1>3, <1>6, Zenon
    <2>3. 1 + ID_LEN + 1 + m.N = m.N + ID_LEN + 2 /\ 1 + ID_LEN + 1 = 2 + ID_LEN
      BY <2>1
    <2> QED  BY <2>2, <2>3, Zenon
  <1>8. /\ HoldsAt(b, 0, s) /\ HoldsAt(b, 1, t) /\ HoldsAt(b, 1 + ID_LEN, u)
        /\ HoldsAt(b, 2 + ID_LEN, w)
    BY <1>2, <1>6, <1>7, Zenon
  <1>9. OtsVkLaid(m, v, b)
    BY <1>1, <1>6, <1>7, <1>8, Zenon DEF OtsVkLaid
  <1>10. OtsVkBytes(m, v) = b
    BY <1>1, <1>4, Zenon DEF OtsVkBytes
  <1> QED  BY <1>9, <1>10, Zenon

(* The elements of a signature are joined and cut again.                    *)
LEMMA FieldsJoined ==
    ASSUME NEW c, NEW len \in Nat, NEW n \in Nat, AreFields(c, len, n)
    PROVE  /\ Join(c) \in Seq(Word) /\ Len(Join(c)) = n * len
           /\ Chunks(Join(c), len, n) = c
  <1>1. AreStrings(c, Word, len, n)
    BY Zenon DEF AreFields
  <1> QED  BY <1>1, ChunksOfJoin

(* Where the fields of a written one-time signature stand.                  *)
LEMMA OtsSigLayout ==
    ASSUME NEW m \in Modes, NEW v, IsOtsSig(m, v)
    PROVE  OtsSigLaid(m, v, OtsSigBytes(m, v))
  <1>1. PICK s, t, u : s = <<U32(m.OtsTC)>> /\ t = v.c /\ u = Join(v.y)
    OBVIOUS
  <1>2. s \in Seq(Word) /\ Len(s) = 1
    BY <1>1, ModeNumbers, OneNumber
  <1>3. t \in Seq(Word) /\ Len(t) = m.N
    BY <1>1 DEF IsOtsSig, IsField
  <1>4. u \in Seq(Word) /\ Len(u) = m.P * m.N
    <2>1. AreFields(v.y, m.N, m.P) /\ m.N \in Nat /\ m.P \in Nat
      BY ModeNumbers DEF IsOtsSig
    <2>2. Join(v.y) \in Seq(Word) /\ Len(Join(v.y)) = m.P * m.N
      BY <2>1, FieldsJoined
    <2> QED  BY <1>1, <2>2, Zenon
  <1>5. PICK b : b = s \o t \o u
    OBVIOUS
  <1>6. AreParts3(b, s, t, u, Word)
    <2>1. s \in Seq(Word) /\ t \in Seq(Word) /\ u \in Seq(Word)
      BY <1>2, <1>3, <1>4
    <2>2. AreParts3(s \o t \o u, s, t, u, Word)
      BY <2>1, ThreeParts
    <2> QED  BY <1>5, <2>2, Zenon
  <1>7. /\ b \in Seq(Word) /\ Len(b) = Len(s) + Len(t) + Len(u)
        /\ HoldsAt(b, 0, s) /\ HoldsAt(b, Len(s), t) /\ HoldsAt(b, Len(s) + Len(t), u)
    BY <1>6, Zenon DEF AreParts3
  <1>8. Len(b) = OtsSigLen(m) /\ Len(s) + Len(t) = 1 + m.N
    <2>1. m.N \in Nat /\ m.P \in Nat
      BY ModeNumbers
    <2>2. \A n, p \in Nat : n * (p + 1) = n + p * n
      OBVIOUS
    <2>3. Len(b) = 1 + m.N + m.P * m.N /\ Len(s) + Len(t) = 1 + m.N
      BY <1>2, <1>3, <1>4, <1>7, Zenon
    <2>4. PICK x, y : x = m.N * (m.P + 1) /\ y = m.P * m.N
      OBVIOUS
    <2>5. x = m.N + y /\ y \in Nat
      BY <2>1, <2>2, <2>4
    <2>6. 1 + m.N + y = 1 + x
      BY <2>1, <2>5
    <2> QED  BY <2>3, <2>4, <2>6, Zenon DEF OtsSigLen
  <1>9. HoldsAt(b, 1, t) /\ HoldsAt(b, 1 + m.N, u)
    BY <1>2, <1>7, <1>8, Zenon
  <1>10. OtsSigLaid(m, v, b)
    BY <1>1, <1>7, <1>8, <1>9, Zenon DEF OtsSigLaid
  <1>11. OtsSigBytes(m, v) = b
    BY <1>1, <1>5, Zenon DEF OtsSigBytes
  <1> QED  BY <1>10, <1>11, Zenon

(* Where the fields of a written LMS verifying key stand.                   *)
LEMMA LmsVkLayout ==
    ASSUME NEW m \in Modes, NEW v, IsLmsVk(m, v)
    PROVE  LmsVkLaid(m, v, LmsVkBytes(m, v))
  <1>1. PICK s, t, u : s = <<U32(m.TC), U32(m.OtsTC)>> /\ t = v.id /\ u = v.k
    OBVIOUS
  <1>2. s \in Seq(Word) /\ Len(s) = 2
    <2>1. U32(m.TC) \in Word /\ U32(m.OtsTC) \in Word
      BY ModeNumbers, U32IsWord
    <2> QED  BY <1>1, <2>1
  <1>3. t \in Seq(Word) /\ Len(t) = ID_LEN /\ u \in Seq(Word) /\ Len(u) = m.M
    BY <1>1 DEF IsLmsVk, IsField
  <1>5. PICK b : b = s \o t \o u
    OBVIOUS
  <1>6. AreParts3(b, s, t, u, Word)
    <2>1. s \in Seq(Word) /\ t \in Seq(Word) /\ u \in Seq(Word)
      BY <1>2, <1>3
    <2>2. AreParts3(s \o t \o u, s, t, u, Word)
      BY <2>1, ThreeParts
    <2> QED  BY <1>5, <2>2, Zenon
  <1>7. /\ b \in Seq(Word) /\ Len(b) = Len(s) + Len(t) + Len(u)
        /\ HoldsAt(b, 0, s) /\ HoldsAt(b, Len(s), t) /\ HoldsAt(b, Len(s) + Len(t), u)
    BY <1>6, Zenon DEF AreParts3
  <1>8. Len(b) = m.M + ID_LEN + 2 /\ Len(s) + Len(t) = 2 + ID_LEN
    <2>1. m.M \in Nat /\ ID_LEN \in Nat
      BY ModeNumbers DEF ID_LEN
    <2>2. Len(b) = 2 + ID_LEN + m.M /\ Len(s) + Len(t) = 2 + ID_LEN
      BY <1>2, <1>3, <1>7, Zenon
    <2>3. 2 + ID_LEN + m.M = m.M + ID_LEN + 2
      BY <2>1
    <2> QED  BY <2>2, <2>3, Zenon
  <1>9. HoldsAt(b, 2, t) /\ HoldsAt(b, 2 + ID_LEN, u)
    BY <1>2, <1>7, <1>8, Zenon
  <1>10. LmsVkLaid(m, v, b)
    BY <1>1, <1>7, <1>8, <1>9, Zenon DEF LmsVkLaid
  <1>11. LmsVkBytes(m, v) = b
    BY <1>1, <1>5, Zenon DEF LmsVkBytes
  <1> QED  BY <1>10, <1>11, Zenon

(* Where the fields of a written LMS signature stand.                       *)
LEMMA LmsSigLayout ==
    ASSUME NEW m \in Modes, NEW v, IsLmsSig(m, v)
    PROVE  LmsSigLaid(m, v, LmsSigBytes(m, v))
  <1>1. PICK s, t, u, w : /\ s = <<U32(v.q)>> /\ t = OtsSigBytes(m, v.ots)
                          /\ u = <<U32(m.TC)>> /\ w = Join(v.path)
    OBVIOUS
  <1>2. s \in Seq(Word) /\ Len(s) = 1 /\ u \in Seq(Word) /\ Len(u) = 1
    <2>1. m.TC \in Nat /\ v.q \in Nat
      BY ModeNumbers DEF IsLmsSig
    <2> QED  BY <1>1, <2>1, OneNumber
  <1>3. t \in Seq(Word) /\ Len(t) = OtsSigLen(m)
    <2>1. OtsSigLaid(m, v.ots, OtsSigBytes(m, v.ots))
      BY OtsSigLayout DEF IsLmsSig
    <2> QED  BY <1>1, <2>1, Zenon DEF OtsSigLaid
  <1>4. w \in Seq(Word) /\ Len(w) = m.H * m.M
    <2>1. AreFields(v.path, m.M, m.H) /\ m.M \in Nat /\ m.H \in Nat
      BY ModeNumbers DEF IsLmsSig
    <2>2. Join(v.path) \in Seq(Word) /\ Len(Join(v.path)) = m.H * m.M
      BY <2>1, FieldsJoined
    <2> QED  BY <1>1, <2>2, Zenon
  <1>5. PICK b : b = s \o t \o u \o w
    OBVIOUS
  <1>6. AreParts4(b, s, t, u, w, Word)
    <2>1. s \in Seq(Word) /\ t \in Seq(Word) /\ u \in Seq(Word) /\ w \in Seq(Word)
      BY <1>2, <1>3, <1>4
    <2>2. AreParts4(s \o t \o u \o w, s, t, u, w, Word)
      BY <2>1, FourParts
    <2> QED  BY <1>5, <2>2, Zenon
  <1>7. /\ b \in Seq(Word) /\ Len(b) = Len(s) + Len(t) + Len(u) + Len(w)
        /\ HoldsAt(b, 0, s) /\ HoldsAt(b, Len(s), t) /\ HoldsAt(b, Len(s) + Len(t), u)
        /\ HoldsAt(b, Len(s) + Len(t) + Len(u), w)
    BY <1>6, Zenon DEF AreParts4
  <1>8. /\ Len(b) = LmsSigLen(m) /\ Len(s) + Len(t) = 1 + OtsSigLen(m)
        /\ Len(s) + Len(t) + Len(u) = 2 + OtsSigLen(m)
    <2>1. PICK l, width : l = OtsSigLen(m) /\ width = m.M * m.H
      OBVIOUS
    <2>2. l \in Nat
      BY <1>3, <2>1
    <2>3. m.H * m.M = width /\ width \in Nat
      BY <2>1, ModeNumbers
    <2>4. Len(b) = 2 + l + width /\ Len(s) + Len(t) = 1 + l /\ Len(s) + Len(t) + Len(u) = 2 + l
      BY <1>2, <1>3, <1>4, <1>7, <2>1, <2>2, <2>3
    <2> QED  BY <2>1, <2>4, Zenon DEF LmsSigLen
  <1>9. HoldsAt(b, 1, t) /\ HoldsAt(b, 1 + OtsSigLen(m), u) /\ HoldsAt(b, 2 + OtsSigLen(m), w)
    BY <1>2, <1>7, <1>8, Zenon
  <1>10. LmsSigLaid(m, v, b)
    BY <1>1, <1>7, <1>8, <1>9, Zenon DEF LmsSigLaid
  <1>11. LmsSigBytes(m, v) = b
    BY <1>1, <1>5, Zenon DEF LmsSigBytes
  <1> QED  BY <1>10, <1>11, Zenon

(* Where the fields of a written LMS signing key stand.                     *)
LEMMA LmsSkLayout ==
    ASSUME NEW m \in Modes, NEW v, IsLmsSk(m, v)
    PROVE  LmsSkLaid(m, v, LmsSkBytes(m, v))
  <1>1. PICK s, t, u : s = <<U32(m.TC), U32(m.OtsTC), U32(v.q)>> /\ t = v.id /\ u = v.seed
    OBVIOUS
  <1>2. s \in Seq(Word) /\ Len(s) = 3
    <2>1. U32(m.TC) \in Word /\ U32(m.OtsTC) \in Word /\ U32(v.q) \in Word
      BY ModeNumbers, U32IsWord DEF IsLmsSk
    <2> QED  BY <1>1, <2>1
  <1>3. t \in Seq(Word) /\ Len(t) = ID_LEN /\ u \in Seq(Word) /\ Len(u) = m.M
    BY <1>1 DEF IsLmsSk, IsField
  <1>5. PICK b : b = s \o t \o u
    OBVIOUS
  <1>6. AreParts3(b, s, t, u, Word)
    <2>1. s \in Seq(Word) /\ t \in Seq(Word) /\ u \in Seq(Word)
      BY <1>2, <1>3
    <2>2. AreParts3(s \o t \o u, s, t, u, Word)
      BY <2>1, ThreeParts
    <2> QED  BY <1>5, <2>2, Zenon
  <1>7. /\ b \in Seq(Word) /\ Len(b) = Len(s) + Len(t) + Len(u)
        /\ HoldsAt(b, 0, s)
    BY <1>6, Zenon DEF AreParts3
  <1>8. Len(b) = m.M + ID_LEN + 3
    <2>1. m.M \in Nat /\ ID_LEN \in Nat
      BY ModeNumbers DEF ID_LEN
    <2>2. Len(b) = 3 + ID_LEN + m.M
      BY <1>2, <1>3, <1>7, Zenon
    <2>3. 3 + ID_LEN + m.M = m.M + ID_LEN + 3
      BY <2>1
    <2> QED  BY <2>2, <2>3, Zenon
  <1>10. LmsSkLaid(m, v, b)
    BY <1>1, <1>7, <1>8, Zenon DEF LmsSkLaid
  <1>11. LmsSkBytes(m, v) = b
    BY <1>1, <1>5, Zenon DEF LmsSkBytes
  <1> QED  BY <1>10, <1>11, Zenon

Errs == {Err(e) : e \in Errors}

(* What the parsers that look at the typecode first answer; x is what they  *)
(* make of bytes of the right typecode and length.                          *)
TypedFirst(o, b, tc, L, x) ==
    /\ Len(b) < 1 => o = Err("NoAlgorithm")
    /\ Len(b) >= 1 /\ ReadU32(b[1]) # tc => o = Err("WrongAlgorithm")
    /\ Len(b) >= 1 /\ ReadU32(b[1]) = tc =>
           /\ Len(b) < L => o = Err("TooShort")
           /\ Len(b) > L => o = Err("TooLong")
           /\ Len(b) = L => o = x

(* What the parsers that look at the length first answer.                   *)
SizedFirst(o, b, L) ==
    /\ Len(b) < L => o = Err("TooShort")
    /\ Len(b) > L => o = Err("TooLong")

(* What a parser that reads a typecode and then a length answers.           *)
LEMMA TypedParser ==
    ASSUME NEW b \in Seq(Word), NEW tc, NEW L \in Nat, NEW x, NEW o,
           o = IF Len(b) < 1 THEN Err("NoAlgorithm")
               ELSE IF ReadU32(b[1]) # tc THEN Err("WrongAlgorithm")
               ELSE Sized(Drop(b, 1), L, x)
    PROVE  TypedFirst(o, b, tc, L + 1, x)
  <1>1. Len(b) \in Nat
    OBVIOUS
  <1>2. CASE Len(b) < 1
    BY <1>1, <1>2 DEF TypedFirst
  <1>3. CASE Len(b) >= 1
    <2>1. PICK d : d = Drop(b, 1)
      OBVIOUS
    <2>2. Len(d) = Len(b) - 1
      <3>1. 1 \in 0 .. Len(b)
        BY <1>1, <1>3
      <3>2. IsCut(Drop(b, 1), b, 1, Len(b) - 1, Word)
        BY <3>1, DropAt
      <3> QED  BY <2>1, <3>2, Zenon DEF IsCut
    <2>3. PICK y : y = Sized(d, L, x)
      OBVIOUS
    <2>4. Len(d) \in Nat
      BY <1>1, <1>3, <2>2
    <2>5. /\ Len(d) < L => y = Err("TooShort")
          /\ Len(d) > L => y = Err("TooLong")
          /\ Len(d) = L => y = x
      BY <2>3, <2>4, SizedCases
    <2>6. o = IF ReadU32(b[1]) # tc THEN Err("WrongAlgorithm") ELSE y
      <3>1. ~(Len(b) < 1)
        BY <1>1, <1>3
      <3> QED  BY <2>1, <2>3, <3>1, Zenon
    <2>7. /\ Len(b) < L + 1 => Len(d) < L
          /\ Len(b) > L + 1 => Len(d) > L
          /\ Len(b) = L + 1 => Len(d) = L
          /\ ~(Len(b) < 1)
      BY <1>1, <1>3, <2>2
    <2> QED  BY <2>5, <2>6, <2>7, Zenon DEF TypedFirst
  <1> QED  BY <1>1, <1>2, <1>3

(* What the one-time verifying key parser answers to any bytes.             *)
LEMMA OtsVkCases ==
    ASSUME NEW m \in Modes, NEW b \in Seq(Word)
    PROVE  \E res : TypedFirst(ParseOtsVk(m, b), b, m.OtsTC, m.N + ID_LEN + 1 + 1, Ok(res))
  <1>1. PICK res : res = [id |-> Take(Drop(b, 1), ID_LEN),
                      q |-> ReadU32(Drop(Drop(b, 1), ID_LEN)[1]),
                      k |-> Drop(Drop(Drop(b, 1), ID_LEN), 1)]
    OBVIOUS
  <1>2. PICK x, o : x = Ok(res) /\ o = ParseOtsVk(m, b)
    OBVIOUS
  <1>3. o = IF Len(b) < 1 THEN Err("NoAlgorithm")
            ELSE IF ReadU32(b[1]) # m.OtsTC THEN Err("WrongAlgorithm")
            ELSE Sized(Drop(b, 1), m.N + ID_LEN + 1, x)
    BY <1>1, <1>2, Zenon DEF ParseOtsVk
  <1>4. m.N + ID_LEN + 1 \in Nat
    BY ModeNumbers DEF ID_LEN
  <1>5. TypedFirst(o, b, m.OtsTC, m.N + ID_LEN + 1 + 1, x)
    BY <1>3, <1>4, TypedParser
  <1> QED  BY <1>2, <1>5, Zenon

(* What the one-time signature parser answers to any bytes.                 *)
LEMMA OtsSigCases ==
    ASSUME NEW m \in Modes, NEW b \in Seq(Word)
    PROVE  \E res : TypedFirst(ParseOtsSig(m, b), b, m.OtsTC, m.N * (m.P + 1) + 1, Ok(res))
  <1>1. PICK res : res = [c |-> Take(Drop(b, 1), m.N),
                      y |-> Chunks(Drop(Drop(b, 1), m.N), m.N, m.P)]
    OBVIOUS
  <1>2. PICK x, o : x = Ok(res) /\ o = ParseOtsSig(m, b)
    OBVIOUS
  <1>3. o = IF Len(b) < 1 THEN Err("NoAlgorithm")
            ELSE IF ReadU32(b[1]) # m.OtsTC THEN Err("WrongAlgorithm")
            ELSE Sized(Drop(b, 1), m.N * (m.P + 1), x)
    BY <1>1, <1>2, Zenon DEF ParseOtsSig
  <1>4. m.N * (m.P + 1) \in Nat
    <2>1. m.N \in Nat /\ m.P \in Nat
      BY ModeNumbers
    <2>2. \A n, p \in Nat : n * (p + 1) \in Nat
      OBVIOUS
    <2> QED  BY <2>1, <2>2
  <1>5. TypedFirst(o, b, m.OtsTC, m.N * (m.P + 1) + 1, x)
    BY <1>3, <1>4, TypedParser
  <1> QED  BY <1>2, <1>5, Zenon

(* What the signing key parser answers to any bytes.                        *)
LEMMA LmsSkCases ==
    ASSUME NEW m \in Modes, NEW b \in Seq(Word)
    PROVE  TypedFirst(ParseLmsSk(m, b), b, m.TC, m.M + ID_LEN + 2 + 1, Panic)
  <1>1. PICK d, e, f : d = Drop(b, 1) /\ e = Take(d, ID_LEN) /\ f = Drop(Drop(d, ID_LEN), 1)
    OBVIOUS
  <1>2. PICK res : res = [q |-> ReadU32(Drop(d, ID_LEN)[1]), id |-> Take(f, ID_LEN),
                      seed |-> Drop(f, ID_LEN)]
    OBVIOUS
  <1>3. PICK x, o : /\ x = IF Len(e) # 1 THEN Panic
                           ELSE IF ReadU32(e[1]) # m.OtsTC THEN Err("WrongAlgorithm")
                           ELSE Ok(res)
                    /\ o = ParseLmsSk(m, b)
    OBVIOUS
  <1>4. o = IF Len(b) < 1 THEN Err("NoAlgorithm")
            ELSE IF ReadU32(b[1]) # m.TC THEN Err("WrongAlgorithm")
            ELSE Sized(d, m.M + ID_LEN + 2, x)
    BY <1>1, <1>2, <1>3, Zenon DEF ParseLmsSk
  <1>5. PICK L : L = m.M + ID_LEN + 2
    OBVIOUS
  <1>6. L \in Nat /\ L >= ID_LEN /\ ID_LEN \in Nat /\ ID_LEN # 1
    BY <1>5, ModeNumbers DEF ID_LEN
  <1>7. CASE Len(b) >= 1 /\ Len(d) = L
    <2>1. d \in Seq(Word)
      <3>1. 1 \in 0 .. Len(b)
        BY <1>7
      <3>2. IsCut(Drop(b, 1), b, 1, Len(b) - 1, Word)
        BY <3>1, DropAt
      <3> QED  BY <1>1, <3>2, Zenon DEF IsCut
    <2>2. Len(SubSeq(d, 1, ID_LEN)) = ID_LEN
      BY <1>6, <1>7, <2>1
    <2>3. x = Panic
      BY <1>1, <1>3, <1>6, <2>2, Zenon DEF Take
    <2>4. TypedFirst(o, b, m.TC, L + 1, Panic)
      BY <1>1, <1>4, <1>5, <1>6, <2>3, TypedParser
    <2> QED  BY <1>3, <1>5, <2>4, Zenon
  <1>8. CASE ~(Len(b) >= 1 /\ Len(d) = L)
    <2>1. PICK z : z = IF Len(b) < 1 THEN Err("NoAlgorithm")
                       ELSE IF ReadU32(b[1]) # m.TC THEN Err("WrongAlgorithm")
                       ELSE Sized(d, L, Panic)
      OBVIOUS
    <2>2. TypedFirst(z, b, m.TC, L + 1, Panic)
      BY <1>1, <1>6, <2>1, TypedParser
    <2>3. Len(b) >= 1 => Sized(d, L, x) = Sized(d, L, Panic)
      <3>1. CASE Len(b) >= 1
        <4>1. Len(d) \in Nat
          <5>1. 1 \in 0 .. Len(b) /\ Len(b) - 1 \in Nat
            BY <3>1
          <5>2. IsCut(Drop(b, 1), b, 1, Len(b) - 1, Word)
            BY <5>1, DropAt
          <5> QED  BY <1>1, <5>1, <5>2, Zenon DEF IsCut
        <4>2. Len(d) < L \/ Len(d) > L
          BY <1>6, <1>8, <3>1, <4>1
        <4> QED  BY <1>6, <4>1, <4>2, SizedCases
      <3> QED  BY <3>1
    <2>4. Len(b) < 1 \/ Len(b) >= 1
      OBVIOUS
    <2>5. z = o
      BY <1>4, <1>5, <2>1, <2>3, <2>4, Zenon
    <2> QED  BY <1>3, <1>5, <2>2, <2>5, Zenon
  <1> QED  BY <1>7, <1>8

(* What the LMS verifying key parser answers to any bytes.                  *)
LEMMA LmsVkCases ==
    ASSUME NEW m \in Modes, NEW b \in Seq(Word), NEW o, o = ParseLmsVk(m, b),
           NEW L, L = m.M + ID_LEN + 2
    PROVE  /\ SizedFirst(o, b, L)
           /\ Len(b) = L => \/ o = Err("WrongAlgorithm")
                            \/ /\ ReadU32(b[1]) = m.TC /\ ReadU32(b[2]) = m.OtsTC
                               /\ \E res : o = Ok(res)
  <1>1. PICK res : res = [id |-> Take(Drop(b, 2), ID_LEN), k |-> Drop(Drop(b, 2), ID_LEN)]
    OBVIOUS
  <1>2. PICK x : x = IF ReadU32(b[1]) # m.TC THEN Err("WrongAlgorithm")
                     ELSE IF ReadU32(b[2]) # m.OtsTC THEN Err("WrongAlgorithm")
                     ELSE Ok(res)
    OBVIOUS
  <1>3. o = Sized(b, L, x)
    BY <1>1, <1>2, Zenon DEF ParseLmsVk
  <1>4. L \in Nat /\ Len(b) \in Nat
    BY ModeNumbers DEF ID_LEN
  <1>5. /\ Len(b) < L => o = Err("TooShort")
        /\ Len(b) > L => o = Err("TooLong")
        /\ Len(b) = L => o = x
    BY <1>3, <1>4, SizedCases
  <1> QED  BY <1>2, <1>5, Zenon DEF SizedFirst

(* The parts of an LMS signature.                                           *)
OtsPart(m, b) == SubSeq(b, 2, OtsSigLen(m) + 1)

(* What the LMS signature parser answers to any bytes.                      *)
LEMMA LmsSigCases ==
    ASSUME NEW m \in Modes, NEW b \in Seq(Word), NEW o, o = ParseLmsSig(m, b)
    PROVE  /\ SizedFirst(o, b, LmsSigLen(m))
           /\ Len(b) = LmsSigLen(m) =>
                 \/ o = Err("InvalidQ")
                 \/ /\ ParseOtsSig(m, OtsPart(m, b))[1] # "ok"
                    /\ o = ParseOtsSig(m, OtsPart(m, b))
                 \/ o = Err("WrongAlgorithm")
                 \/ /\ ~(ReadU32(b[1]) >= 2 ^ m.H)
                    /\ ParseOtsSig(m, OtsPart(m, b))[1] = "ok"
                    /\ ReadU32(Drop(b, OtsSigLen(m) + 1)[1]) = m.TC
                    /\ o = Ok([q |-> ReadU32(b[1]), ots |-> ParseOtsSig(m, OtsPart(m, b))[2],
                               path |-> Chunks(Drop(Drop(b, OtsSigLen(m) + 1), 1), m.M, m.H)])
  <1>1. PICK p, rest, q : /\ p = ParseOtsSig(m, OtsPart(m, b))
                          /\ rest = Drop(b, OtsSigLen(m) + 1)
                          /\ q = ReadU32(b[1])
    OBVIOUS
  <1>2. PICK res : res = [q |-> q, ots |-> p[2], path |-> Chunks(Drop(rest, 1), m.M, m.H)]
    OBVIOUS
  <1>3. PICK x : x = IF q >= 2 ^ m.H THEN Err("InvalidQ")
                     ELSE IF p[1] # "ok" THEN p
                     ELSE IF ReadU32(rest[1]) # m.TC THEN Err("WrongAlgorithm")
                     ELSE Ok(res)
    OBVIOUS
  <1>4. o = Sized(b, LmsSigLen(m), x)
    BY <1>1, <1>2, <1>3, Zenon DEF ParseLmsSig, OtsPart
  <1>5. PICK L : L = LmsSigLen(m)
    OBVIOUS
  <1>6. L \in Nat /\ Len(b) \in Nat
    <2>1. PICK y, z : y = m.N * (m.P + 1) /\ z = m.M * m.H
      OBVIOUS
    <2>2. y \in Nat /\ z \in Nat
      <3>1. m.N \in Nat /\ m.P \in Nat /\ m.M \in Nat /\ m.H \in Nat
        BY ModeNumbers
      <3>2. (\A k, l \in Nat : k * l \in Nat) /\ m.P + 1 \in Nat
        BY <3>1
      <3> QED  BY <2>1, <3>1, <3>2, Zenon
    <2>3. L = 2 + (1 + y) + z
      BY <1>5, <2>1, Zenon DEF LmsSigLen, OtsSigLen
    <2> QED  BY <2>2, <2>3
  <1>7. /\ Len(b) < L => o = Err("TooShort")
        /\ Len(b) > L => o = Err("TooLong")
        /\ Len(b) = L => o = x
    BY <1>4, <1>5, <1>6, SizedCases
  <1>8. /\ SizedFirst(o, b, L)
        /\ Len(b) = L =>
                 \/ o = Err("InvalidQ")
                 \/ p[1] # "ok" /\ o = p
                 \/ o = Err("WrongAlgorithm")
                 \/ ~(q >= 2 ^ m.H) /\ p[1] = "ok" /\ ReadU32(rest[1]) = m.TC /\ o = Ok(res)
    BY <1>3, <1>7, Zenon DEF SizedFirst
  <1> QED  BY <1>1, <1>2, <1>5, <1>8, Zenon

(* A parser given what its writer laid out returns the value written.       *)
LEMMA OtsVkRead ==
    ASSUME NEW m \in Modes, NEW v, IsOtsVk(m, v), NEW b, OtsVkLaid(m, v, b)
    PROVE  ParseOtsVk(m, b) = Ok(v)
  <1>1. /\ b \in Seq(Word) /\ Len(b) = m.N + ID_LEN + 2
        /\ HoldsAt(b, 0, <<U32(m.OtsTC)>>) /\ HoldsAt(b, 1, v.id)
        /\ HoldsAt(b, 1 + ID_LEN, <<U32(v.q)>>) /\ HoldsAt(b, 2 + ID_LEN, v.k)
    BY Zenon DEF OtsVkLaid
  <1>2. /\ v = [id |-> v.id, q |-> v.q, k |-> v.k] /\ v.q \in Nat
        /\ v.id \in Seq(Word) /\ Len(v.id) = ID_LEN /\ v.k \in Seq(Word) /\ Len(v.k) = m.N
    BY Zenon DEF IsOtsVk, IsField
  <1>3. m.N \in Nat /\ m.OtsTC \in Nat /\ ID_LEN \in Nat
    BY ModeNumbers DEF ID_LEN
  <1>4. /\ ~(Len(b) < 1) /\ 1 + ID_LEN <= Len(b) /\ 1 + ID_LEN + 1 <= Len(b)
        /\ 1 + ID_LEN + 1 = 2 + ID_LEN /\ 2 + ID_LEN + m.N = Len(b)
        /\ 1 \in 0 .. Len(b) /\ 1 + ID_LEN \in 0 .. Len(b) /\ 1 + ID_LEN \in Nat
        /\ Len(b) - 1 = m.N + ID_LEN + 1 /\ 1 \in 1 .. Len(b) - (1 + ID_LEN)
        /\ m.N + ID_LEN + 1 \in Nat
    <2>1. PICK k, at, n : k = Len(b) /\ at = ID_LEN /\ n = m.N
      OBVIOUS
    <2>2. at \in Nat /\ n \in Nat /\ k = n + at + 2
      BY <1>1, <1>3, <2>1, Zenon
    <2>3. /\ ~(k < 1) /\ 1 + at <= k /\ 1 + at + 1 <= k
          /\ 1 + at + 1 = 2 + at /\ 2 + at + n = k
          /\ 1 \in 0 .. k /\ 1 + at \in 0 .. k /\ 1 + at \in Nat
          /\ k - 1 = n + at + 1 /\ 1 \in 1 .. k - (1 + at)
          /\ n + at + 1 \in Nat
      BY <2>2
    <2> QED  BY <2>1, <2>3, Zenon
  <1>5. ReadU32(b[1]) = m.OtsTC
    <2>1. 0 + 1 = 1 /\ 0 \in Nat
      OBVIOUS
    <2>2. ReadU32(b[0 + 1]) = m.OtsTC
      BY <1>1, <1>3, <2>1, NumberRead
    <2> QED  BY <2>1, <2>2, Zenon
  <1>6. PICK d, e : d = Drop(b, 1) /\ e = Drop(d, ID_LEN)
    OBVIOUS
  <1>7. Len(d) = m.N + ID_LEN + 1
    <2>1. IsCut(Drop(b, 1), b, 1, Len(b) - 1, Word)
      BY <1>1, <1>4, DropAt
    <2> QED  BY <1>4, <1>6, <2>1, Zenon DEF IsCut
  <1>8. Take(d, ID_LEN) = v.id
    <2>1. Take(Drop(b, 1), Len(v.id)) = v.id
      BY <1>1, <1>2, PartRead
    <2> QED  BY <1>2, <1>6, <2>1, Zenon
  <1>9. e = Drop(b, 1 + ID_LEN) /\ Drop(e, 1) = Drop(b, 2 + ID_LEN)
    <2>1. Drop(Drop(b, 1), ID_LEN) = Drop(b, 1 + ID_LEN)
      BY <1>1, <1>3, <1>4, DropDrop
    <2>2. Drop(Drop(b, 1 + ID_LEN), 1) = Drop(b, 1 + ID_LEN + 1)
      BY <1>1, <1>4, DropDrop
    <2> QED  BY <1>4, <1>6, <2>1, <2>2, Zenon
  <1>10. ReadU32(e[1]) = v.q
    <2>1. IsCut(Drop(b, 1 + ID_LEN), b, 1 + ID_LEN, Len(b) - (1 + ID_LEN), Word)
      BY <1>1, <1>4, DropAt
    <2>2. e[1] = b[1 + ID_LEN + 1]
      BY <1>4, <1>9, <2>1, Zenon DEF IsCut
    <2>3. ReadU32(b[1 + ID_LEN + 1]) = v.q
      BY <1>1, <1>2, <1>4, NumberRead
    <2> QED  BY <2>2, <2>3, Zenon
  <1>11. Drop(e, 1) = v.k
    <2>1. 2 + ID_LEN + Len(v.k) = Len(b)
      BY <1>2, <1>4, Zenon
    <2>2. Drop(b, 2 + ID_LEN) = v.k
      BY <1>1, <1>2, <2>1, PartRead
    <2> QED  BY <1>9, <2>2, Zenon
  <1>12. PICK x : x = Ok(v)
    OBVIOUS
  <1>13. x = Ok([id |-> Take(d, ID_LEN), q |-> ReadU32(e[1]), k |-> Drop(e, 1)])
    BY <1>2, <1>8, <1>10, <1>11, <1>12, Zenon
  <1>14. Sized(d, m.N + ID_LEN + 1, x) = x
    BY <1>4, <1>7, SizedCases
  <1>15. ParseOtsVk(m, b) = Sized(d, m.N + ID_LEN + 1, x)
    BY <1>4, <1>5, <1>6, <1>13, Zenon DEF ParseOtsVk
  <1> QED  BY <1>12, <1>14, <1>15, Zenon

(* A written one-time signature is read back.                               *)
LEMMA OtsSigRead ==
    ASSUME NEW m \in Modes, NEW v, IsOtsSig(m, v), NEW b, OtsSigLaid(m, v, b)
    PROVE  ParseOtsSig(m, b) = Ok(v)
  <1>1. /\ b \in Seq(Word) /\ Len(b) = OtsSigLen(m)
        /\ HoldsAt(b, 0, <<U32(m.OtsTC)>>) /\ HoldsAt(b, 1, v.c)
        /\ HoldsAt(b, 1 + m.N, Join(v.y))
    BY Zenon DEF OtsSigLaid
  <1>2. /\ v = [c |-> v.c, y |-> v.y] /\ v.c \in Seq(Word) /\ Len(v.c) = m.N
        /\ AreFields(v.y, m.N, m.P)
    BY Zenon DEF IsOtsSig, IsField
  <1>3. m.N \in Nat /\ m.P \in Nat /\ m.OtsTC \in Nat
    BY ModeNumbers
  <1>4. /\ Join(v.y) \in Seq(Word) /\ Len(Join(v.y)) = m.P * m.N
        /\ Chunks(Join(v.y), m.N, m.P) = v.y
    BY <1>2, <1>3, FieldsJoined
  <1>5. PICK y, z : y = m.N * (m.P + 1) /\ z = m.P * m.N
    OBVIOUS
  <1>6. y = m.N + z /\ y \in Nat /\ z \in Nat
    <2>1. \A n, p \in Nat : n * (p + 1) = n + p * n /\ p * n \in Nat
      OBVIOUS
    <2>2. y = m.N + z /\ z \in Nat
      BY <1>3, <1>5, <2>1, Zenon
    <2> QED  BY <1>3, <2>2
  <1>7. Len(b) = 1 + y
    BY <1>1, <1>5, Zenon DEF OtsSigLen
  <1>8. /\ ~(Len(b) < 1) /\ 1 + m.N <= Len(b) /\ 1 + m.N + z = Len(b)
        /\ 1 \in 0 .. Len(b) /\ Len(b) - 1 = y
    BY <1>3, <1>6, <1>7
  <1>9. ReadU32(b[1]) = m.OtsTC
    <2>1. 0 + 1 = 1 /\ 0 \in Nat
      OBVIOUS
    <2>2. ReadU32(b[0 + 1]) = m.OtsTC
      BY <1>1, <1>3, <2>1, NumberRead
    <2> QED  BY <2>1, <2>2, Zenon
  <1>10. PICK d : d = Drop(b, 1)
    OBVIOUS
  <1>11. Len(d) = y
    <2>1. IsCut(Drop(b, 1), b, 1, Len(b) - 1, Word)
      BY <1>1, <1>8, DropAt
    <2> QED  BY <1>8, <1>10, <2>1, Zenon DEF IsCut
  <1>12. Take(d, m.N) = v.c
    <2>1. Take(Drop(b, 1), Len(v.c)) = v.c
      BY <1>1, <1>2, PartRead
    <2> QED  BY <1>2, <1>10, <2>1, Zenon
  <1>13. Drop(d, m.N) = Join(v.y)
    <2>1. Drop(Drop(b, 1), m.N) = Drop(b, 1 + m.N)
      BY <1>1, <1>3, <1>8, DropDrop
    <2>2. 1 + m.N + Len(Join(v.y)) = Len(b)
      BY <1>4, <1>5, <1>8, Zenon
    <2>3. PICK joined : joined = Join(v.y)
      OBVIOUS
    <2>4. joined \in Seq(Word) /\ HoldsAt(b, 1 + m.N, joined) /\ 1 + m.N + Len(joined) = Len(b)
      BY <1>1, <1>4, <2>2, <2>3, Zenon
    <2>5. Drop(b, 1 + m.N) = joined
      BY <1>1, <2>4, PartRead
    <2> QED  BY <1>10, <2>1, <2>3, <2>5, Zenon
  <1>14. PICK x : x = Ok(v)
    OBVIOUS
  <1>15. x = Ok([c |-> Take(d, m.N), y |-> Chunks(Drop(d, m.N), m.N, m.P)])
    BY <1>2, <1>4, <1>12, <1>13, <1>14, Zenon
  <1>16. Sized(d, y, x) = x
    BY <1>6, <1>11, SizedCases
  <1>17. ParseOtsSig(m, b) = Sized(d, y, x)
    BY <1>5, <1>8, <1>9, <1>10, <1>15, Zenon DEF ParseOtsSig
  <1> QED  BY <1>14, <1>16, <1>17, Zenon

(* The two typecodes of an LMS verifying key.                               *)
LEMMA LmsVkCodes ==
    ASSUME NEW m \in Modes, NEW v, NEW b, LmsVkLaid(m, v, b)
    PROVE  b[1] = U32(m.TC) /\ b[2] = U32(m.OtsTC)
  <1>1. PICK x, y : x = U32(m.TC) /\ y = U32(m.OtsTC)
    OBVIOUS
  <1>2. HoldsAt(b, 0, <<x, y>>)
    BY <1>1, Zenon DEF LmsVkLaid
  <1>3. /\ Len(<<x, y>>) = 2 /\ <<x, y>>[1] = x /\ <<x, y>>[2] = y
        /\ 1 \in 1 .. 2 /\ 2 \in 1 .. 2 /\ 0 + 1 = 1 /\ 0 + 2 = 2
    OBVIOUS
  <1>4. b[0 + 1] = x /\ b[0 + 2] = y
    BY <1>2, <1>3, Zenon DEF HoldsAt
  <1> QED  BY <1>1, <1>3, <1>4, Zenon

(* A written LMS verifying key is read back.                                *)
LEMMA LmsVkRead ==
    ASSUME NEW m \in Modes, NEW v, IsLmsVk(m, v), NEW b, LmsVkLaid(m, v, b)
    PROVE  ParseLmsVk(m, b) = Ok(v)
  <1>1. /\ b \in Seq(Word) /\ Len(b) = m.M + ID_LEN + 2
        /\ HoldsAt(b, 2, v.id) /\ HoldsAt(b, 2 + ID_LEN, v.k)
    BY Zenon DEF LmsVkLaid
  <1>2. /\ v = [id |-> v.id, k |-> v.k]
        /\ v.id \in Seq(Word) /\ Len(v.id) = ID_LEN /\ v.k \in Seq(Word) /\ Len(v.k) = m.M
    BY Zenon DEF IsLmsVk, IsField
  <1>3. m.M \in Nat /\ m.TC \in Nat /\ m.OtsTC \in Nat /\ ID_LEN \in Nat
    BY ModeNumbers DEF ID_LEN
  <1>4. 2 + ID_LEN + m.M = Len(b) /\ 2 + ID_LEN <= Len(b) /\ m.M + ID_LEN + 2 \in Nat
    BY <1>1, <1>3
  <1>5. ReadU32(b[1]) = m.TC /\ ReadU32(b[2]) = m.OtsTC
    BY <1>3, LmsVkCodes, U32IsWord
  <1>6. PICK d : d = Drop(b, 2)
    OBVIOUS
  <1>7. Take(d, ID_LEN) = v.id
    <2>1. Take(Drop(b, 2), Len(v.id)) = v.id
      BY <1>1, <1>2, PartRead
    <2> QED  BY <1>2, <1>6, <2>1, Zenon
  <1>8. Drop(d, ID_LEN) = v.k
    <2>1. Drop(Drop(b, 2), ID_LEN) = Drop(b, 2 + ID_LEN)
      BY <1>1, <1>3, <1>4, DropDrop
    <2>2. Drop(b, 2 + ID_LEN) = v.k
      BY <1>1, <1>2, <1>4, PartRead
    <2> QED  BY <1>6, <2>1, <2>2, Zenon
  <1>9. PICK x : x = Ok(v)
    OBVIOUS
  <1>10. x = Ok([id |-> Take(d, ID_LEN), k |-> Drop(d, ID_LEN)])
    BY <1>2, <1>7, <1>8, <1>9, Zenon
  <1>11. Sized(b, m.M + ID_LEN + 2, x) = x
    BY <1>1, <1>4, SizedCases
  <1>12. ParseLmsVk(m, b) = Sized(b, m.M + ID_LEN + 2, x)
    BY <1>5, <1>6, <1>10, Zenon DEF ParseLmsVk
  <1> QED  BY <1>9, <1>11, <1>12, Zenon

(* The length of a one-time signature, in words.                            *)
LEMMA OtsLenNat ==
    ASSUME NEW m \in Modes
    PROVE  OtsSigLen(m) \in Nat /\ OtsSigLen(m) >= 1 /\ m.M * m.H \in Nat
  <1>1. PICK y : y = m.N * (m.P + 1)
    OBVIOUS
  <1>2. m.N \in Nat /\ m.P \in Nat /\ m.M \in Nat /\ m.H \in Nat
    BY ModeNumbers
  <1>3. (\A k, l \in Nat : k * l \in Nat) /\ m.P + 1 \in Nat
    BY <1>2
  <1>4. y \in Nat /\ m.M * m.H \in Nat
    BY <1>1, <1>2, <1>3, Zenon
  <1>5. OtsSigLen(m) = 1 + y
    BY <1>1, Zenon DEF OtsSigLen
  <1> QED  BY <1>4, <1>5

(* A written LMS signature is read back.                                    *)
LEMMA LmsSigRead ==
    ASSUME NEW m \in Modes, NEW v, IsLmsSig(m, v), NEW b, LmsSigLaid(m, v, b)
    PROVE  ParseLmsSig(m, b) = Ok(v)
  <1>1. PICK l : l = OtsSigLen(m)
    OBVIOUS
  <1>2. PICK t, u : t = OtsSigBytes(m, v.ots) /\ u = Join(v.path)
    OBVIOUS
  <1>3. /\ b \in Seq(Word) /\ Len(b) = LmsSigLen(m)
        /\ HoldsAt(b, 0, <<U32(v.q)>>) /\ HoldsAt(b, 1, t)
        /\ HoldsAt(b, 1 + l, <<U32(m.TC)>>) /\ HoldsAt(b, 2 + l, u)
    BY <1>1, <1>2, Zenon DEF LmsSigLaid
  <1>4. /\ v = [q |-> v.q, ots |-> v.ots, path |-> v.path]
        /\ v.q \in Nat /\ v.q < 2 ^ m.H /\ IsOtsSig(m, v.ots) /\ AreFields(v.path, m.M, m.H)
    BY Zenon DEF IsLmsSig
  <1>5. /\ m.M \in Nat /\ m.H \in Nat /\ m.TC \in Nat /\ l \in Nat /\ l >= 1
        /\ m.M * m.H \in Nat /\ 2 ^ m.H \in Nat
    BY <1>1, ModeNumbers, OtsLenNat
  <1>6. OtsSigLaid(m, v.ots, t)
    BY <1>2, <1>4, OtsSigLayout
  <1>7. t \in Seq(Word) /\ Len(t) = l
    BY <1>1, <1>6, Zenon DEF OtsSigLaid
  <1>8. u \in Seq(Word) /\ Len(u) = m.M * m.H /\ Chunks(u, m.M, m.H) = v.path
    <2>1. /\ Join(v.path) \in Seq(Word) /\ Len(Join(v.path)) = m.H * m.M
          /\ Chunks(Join(v.path), m.M, m.H) = v.path
      BY <1>4, <1>5, FieldsJoined
    <2>2. m.H * m.M = m.M * m.H
      BY <1>5
    <2> QED  BY <1>2, <2>1, <2>2, Zenon
  <1>9. PICK width : width = m.M * m.H
    OBVIOUS
  <1>10. Len(b) = 2 + l + width
    BY <1>1, <1>3, <1>9, Zenon DEF LmsSigLen
  <1>11. /\ l + 1 = 1 + l /\ 1 + l \in 0 .. Len(b) /\ 1 + l + 1 = 2 + l /\ 1 + l \in Nat
         /\ 1 + l + 1 <= Len(b) /\ 2 + l + width = Len(b) /\ 1 \in 1 .. Len(b) - (1 + l)
    BY <1>5, <1>9, <1>10
  <1>12. ReadU32(b[1]) = v.q
    <2>1. 0 + 1 = 1 /\ 0 \in Nat
      OBVIOUS
    <2>2. ReadU32(b[0 + 1]) = v.q
      BY <1>3, <1>4, <2>1, NumberRead
    <2> QED  BY <2>1, <2>2, Zenon
  <1>13. OtsPart(m, b) = t
    <2>1. SubSeq(b, 1 + 1, 1 + Len(t)) = t
      BY <1>3, <1>7, PartRead, SMTT(40)
    <2>2. 1 + 1 = 2
      OBVIOUS
    <2> QED  BY <1>1, <1>7, <1>11, <2>1, <2>2, Zenon DEF OtsPart
  <1>14. ParseOtsSig(m, OtsPart(m, b)) = Ok(v.ots)
    <2>1. ParseOtsSig(m, t) = Ok(v.ots)
      BY <1>4, <1>6, OtsSigRead
    <2> QED  BY <1>13, <2>1, Zenon
  <1>15. Ok(v.ots)[1] = "ok" /\ Ok(v.ots)[2] = v.ots
    BY DEF Ok
  <1>16. PICK rest : rest = Drop(b, OtsSigLen(m) + 1)
    OBVIOUS
  <1>17. rest = Drop(b, 1 + l)
    BY <1>1, <1>11, <1>16, Zenon
  <1>18. ReadU32(rest[1]) = m.TC
    <2>1. IsCut(Drop(b, 1 + l), b, 1 + l, Len(b) - (1 + l), Word)
      BY <1>3, <1>11, DropAt
    <2>2. rest[1] = b[1 + l + 1]
      BY <1>11, <1>17, <2>1, Zenon DEF IsCut
    <2>3. ReadU32(b[1 + l + 1]) = m.TC
      BY <1>3, <1>5, <1>11, NumberRead
    <2> QED  BY <2>2, <2>3, Zenon
  <1>19. Drop(rest, 1) = u
    <2>1. Drop(Drop(b, 1 + l), 1) = Drop(b, 1 + l + 1)
      BY <1>3, <1>11, DropDrop
    <2>2. 2 + l + Len(u) = Len(b)
      BY <1>8, <1>9, <1>11, Zenon
    <2>3. Drop(b, 2 + l) = u
      BY <1>3, <1>8, <2>2, PartRead
    <2> QED  BY <1>11, <1>17, <2>1, <2>3, Zenon
  <1>20. PICK o : o = ParseLmsSig(m, b)
    OBVIOUS
  <1>21. PICK x : x = Ok(v)
    OBVIOUS
  <1>22. x = Ok([q |-> ReadU32(b[1]), ots |-> ParseOtsSig(m, OtsPart(m, b))[2],
                 path |-> Chunks(Drop(rest, 1), m.M, m.H)])
    BY <1>4, <1>8, <1>12, <1>14, <1>15, <1>19, <1>21, Zenon
  <1>23. ~(ReadU32(b[1]) >= 2 ^ m.H)
    <2>1. ~(v.q >= 2 ^ m.H)
      BY <1>4, <1>5
    <2> QED  BY <1>12, <2>1, Zenon
  <1>24. ParseLmsSig(m, b) = Sized(b, LmsSigLen(m), x)
    BY <1>14, <1>15, <1>16, <1>18, <1>22, <1>23, Zenon DEF ParseLmsSig, OtsPart
  <1>25. Sized(b, LmsSigLen(m), x) = x
    <2>1. Len(b) \in Nat
      BY <1>3
    <2>2. Sized(b, Len(b), x) = x
      BY <2>1, SizedCases
    <2> QED  BY <1>3, <2>2, Zenon
  <1> QED  BY <1>21, <1>24, <1>25, Zenon

(* b repeats E as far as both go.                                           *)
Agrees(b, E) == \A at \in 1 .. Len(b) : at <= Len(E) => b[at] = E[at]

(* What a parser answers to bytes that are not as long as they were; same   *)
(* says that they were written in a mode like the parser's.                 *)
Judged(same, b, E, o) ==
    /\ Len(b) < Len(E) => o \in Errs /\ (same => o \in {Err("NoAlgorithm"), Err("TooShort")})
    /\ Len(b) > Len(E) => o \in Errs /\ (same => o = Err("TooLong"))
    /\ o[1] = "ok" => same

(* Answers of different kinds differ.                                       *)
LEMMA ErrorsApart ==
    /\ \A e \in Errors : Err(e) \in Errs /\ Err(e)[1] = "err"
    /\ \A res : Ok(res)[1] = "ok" /\ Ok(res)[2] = res
    /\ Panic[1] = "panic"
    /\ {"NoAlgorithm", "WrongAlgorithm", "TooShort", "TooLong", "InvalidQ"} \subseteq Errors
  BY DEF Err, Ok, Panic, Errs, Errors

(* A parser that tests typecode and length refuses cut, extended and        *)
(* foreign bytes.                                                           *)
LEMMA TypedVerdict ==
    ASSUME NEW b \in Seq(Word), NEW E \in Seq(Word), NEW o, NEW tc \in Nat, NEW te \in Nat,
           NEW L, NEW x, TypedFirst(o, b, tc, L, x), Len(E) >= 1, E[1] = U32(te), Agrees(b, E),
           tc = te => L = Len(E)
    PROVE  Judged(tc = te, b, E, o)
  <1>1. Len(b) \in Nat /\ Len(E) \in Nat
    OBVIOUS
  <1>2. Len(b) >= 1 => ReadU32(b[1]) = te
    <2> SUFFICES ASSUME Len(b) >= 1  PROVE ReadU32(b[1]) = te
      OBVIOUS
    <2>1. 1 \in 1 .. Len(b) /\ 1 <= Len(E)
      BY <1>1
    <2>2. b[1] = U32(te)
      BY <2>1, Zenon DEF Agrees
    <2> QED  BY <2>2, U32IsWord
  <1>3. CASE Len(b) < 1
    <2>1. o = Err("NoAlgorithm")
      BY <1>3, Zenon DEF TypedFirst
    <2>2. Len(b) < Len(E) /\ ~(Len(b) > Len(E))
      BY <1>1, <1>3
    <2> QED  BY <2>1, <2>2, ErrorsApart DEF Judged
  <1>4. CASE Len(b) >= 1 /\ tc # te
    <2>1. o = Err("WrongAlgorithm")
      BY <1>2, <1>4, Zenon DEF TypedFirst
    <2> QED  BY <1>4, <2>1, ErrorsApart DEF Judged
  <1>5. CASE Len(b) >= 1 /\ tc = te
    <2>1. /\ Len(b) < Len(E) => o = Err("TooShort")
          /\ Len(b) > Len(E) => o = Err("TooLong")
      BY <1>2, <1>5, Zenon DEF TypedFirst
    <2> QED  BY <1>5, <2>1, ErrorsApart DEF Judged
  <1> QED  BY <1>1, <1>3, <1>4, <1>5

(* A parser that tests the length first refuses cut and extended bytes.     *)
LEMMA SizedVerdict ==
    ASSUME NEW b, NEW E, Len(b) \in Nat, Len(E) \in Nat, NEW o, NEW L \in Nat, NEW same \in BOOLEAN,
           SizedFirst(o, b, L),
           Len(b) = L => o \in Errs \/ same,
           same => L = Len(E)
    PROVE  Judged(same, b, E, o)
  <1>1. CASE Len(b) < L
    <2>1. o = Err("TooShort")
      BY <1>1, Zenon DEF SizedFirst
    <2>2. same => ~(Len(b) > Len(E))
      BY <1>1
    <2> QED  BY <2>1, <2>2, ErrorsApart DEF Judged
  <1>2. CASE Len(b) > L
    <2>1. o = Err("TooLong")
      BY <1>2, Zenon DEF SizedFirst
    <2>2. same => ~(Len(b) < Len(E))
      BY <1>2
    <2> QED  BY <2>1, <2>2, ErrorsApart DEF Judged
  <1>3. CASE Len(b) = L
    <2>1. same => ~(Len(b) > Len(E)) /\ ~(Len(b) < Len(E))
      BY <1>3
    <2>2. o \in Errs => o[1] # "ok"
      BY ErrorsApart DEF Errs
    <2> QED  BY <1>3, <2>1, <2>2 DEF Judged
  <1> QED  BY <1>1, <1>2, <1>3

(* Typecodes determine constants.                                           *)
LEMMA SameCodes ==
    ASSUME NEW m \in Modes, NEW n \in Modes
    PROVE  /\ m.TC = n.TC => m.M = n.M /\ m.H = n.H
           /\ m.OtsTC = n.OtsTC => m.N = n.N /\ m.P = n.P
           /\ m.TC = n.TC /\ m.OtsTC = n.OtsTC => m = n
  <1>1. /\ m.TC = n.TC => m.M = n.M /\ m.H = n.H
        /\ m.OtsTC = n.OtsTC => m.N = n.N /\ m.P = n.P
    BY ModesAssumption
  <1>2. m.TC = n.TC /\ m.OtsTC = n.OtsTC => m = n
    <2>1. /\ m \in [TC : Nat, H : Nat \ {0}, M : Nat \ {0}, OtsTC : Nat, P : Nat \ {0}, N : Nat \ {0}]
          /\ n \in [TC : Nat, H : Nat \ {0}, M : Nat \ {0}, OtsTC : Nat, P : Nat \ {0}, N : Nat \ {0}]
      BY ModesAssumption
    <2> QED  BY <1>1, <2>1
  <1> QED  BY <1>1, <1>2

(* The one-time verifying key parser on damaged or foreign bytes.           *)
LEMMA OtsVkJudged ==
    ASSUME NEW m \in Modes, NEW n \in Modes, NEW v, IsOtsVk(n, v), NEW b \in Seq(Word),
           Agrees(b, OtsVkBytes(n, v))
    PROVE  Judged(m.OtsTC = n.OtsTC, b, OtsVkBytes(n, v), ParseOtsVk(m, b))
  <1>1. PICK E, o : E = OtsVkBytes(n, v) /\ o = ParseOtsVk(m, b)
    OBVIOUS
  <1>2. OtsVkLaid(n, v, E)
    BY <1>1, OtsVkLayout
  <1>3. E \in Seq(Word) /\ Len(E) = n.N + ID_LEN + 2 /\ HoldsAt(E, 0, <<U32(n.OtsTC)>>)
    BY <1>2, Zenon DEF OtsVkLaid
  <1>4. m.OtsTC \in Nat /\ n.OtsTC \in Nat /\ m.N \in Nat /\ n.N \in Nat /\ ID_LEN \in Nat
    BY ModeNumbers DEF ID_LEN
  <1>5. E[1] = U32(n.OtsTC)
    <2>1. 0 + 1 = 1 /\ 0 \in Nat
      OBVIOUS
    <2>2. E[0 + 1] = U32(n.OtsTC)
      BY <1>3, <1>4, <2>1, NumberRead
    <2> QED  BY <2>1, <2>2, Zenon
  <1>6. PICK L : L = m.N + ID_LEN + 1 + 1
    OBVIOUS
  <1>7. PICK res : TypedFirst(o, b, m.OtsTC, L, Ok(res))
    BY <1>1, <1>6, OtsVkCases
  <1>8. Len(E) >= 1 /\ (m.OtsTC = n.OtsTC => L = Len(E))
    <2>1. m.OtsTC = n.OtsTC => m.N = n.N
      BY SameCodes
    <2>2. PICK x, y : x = m.N /\ y = n.N
      OBVIOUS
    <2>3. x \in Nat /\ y \in Nat /\ Len(E) = y + ID_LEN + 2 /\ L = x + ID_LEN + 1 + 1
      BY <1>3, <1>4, <1>6, <2>2, Zenon
    <2> QED  BY <1>4, <2>1, <2>2, <2>3
  <1>9. Agrees(b, E)
    BY <1>1, Zenon
  <1>10. Judged(m.OtsTC = n.OtsTC, b, E, o)
    BY <1>3, <1>4, <1>5, <1>7, <1>8, <1>9, TypedVerdict
  <1> QED  BY <1>1, <1>10, Zenon

(* The one-time signature parser on damaged or foreign bytes.               *)
LEMMA OtsSigJudged ==
    ASSUME NEW m \in Modes, NEW n \in Modes, NEW v, IsOtsSig(n, v), NEW b \in Seq(Word),
           Agrees(b, OtsSigBytes(n, v))
    PROVE  Judged(m.OtsTC = n.OtsTC, b, OtsSigBytes(n, v), ParseOtsSig(m, b))
  <1>1. PICK E, o : E = OtsSigBytes(n, v) /\ o = ParseOtsSig(m, b)
    OBVIOUS
  <1>2. OtsSigLaid(n, v, E)
    BY <1>1, OtsSigLayout
  <1>3. E \in Seq(Word) /\ Len(E) = OtsSigLen(n) /\ HoldsAt(E, 0, <<U32(n.OtsTC)>>)
    BY <1>2, Zenon DEF OtsSigLaid
  <1>4. m.OtsTC \in Nat /\ n.OtsTC \in Nat
    BY ModeNumbers
  <1>5. E[1] = U32(n.OtsTC)
    <2>1. 0 + 1 = 1 /\ 0 \in Nat
      OBVIOUS
    <2>2. E[0 + 1] = U32(n.OtsTC)
      BY <1>3, <1>4, <2>1, NumberRead
    <2> QED  BY <2>1, <2>2, Zenon
  <1>6. PICK L : L = m.N * (m.P + 1) + 1
    OBVIOUS
  <1>7. PICK res : TypedFirst(o, b, m.OtsTC, L, Ok(res))
    BY <1>1, <1>6, OtsSigCases
  <1>8. m.OtsTC = n.OtsTC => L = Len(E)
    <2> SUFFICES ASSUME m.OtsTC = n.OtsTC  PROVE L = Len(E)
      OBVIOUS
    <2>1. m.N = n.N /\ m.P = n.P
      BY SameCodes
    <2>2. PICK y : y = m.N * (m.P + 1)
      OBVIOUS
    <2>3. L = y + 1 /\ Len(E) = 1 + y
      BY <1>3, <1>6, <2>1, <2>2, Zenon DEF OtsSigLen
    <2>4. y \in Nat
      <3>1. m.N \in Nat /\ m.P \in Nat
        BY ModeNumbers
      <3>2. (\A k, l \in Nat : k * l \in Nat) /\ m.P + 1 \in Nat
        BY <3>1
      <3> QED  BY <2>2, <3>1, <3>2, Zenon
    <2> QED  BY <2>3, <2>4
  <1>9. Agrees(b, E) /\ Len(E) >= 1
    BY <1>1, <1>3, OtsLenNat
  <1>10. Judged(m.OtsTC = n.OtsTC, b, E, o)
    BY <1>3, <1>4, <1>5, <1>7, <1>8, <1>9, TypedVerdict
  <1> QED  BY <1>1, <1>10, Zenon

(* The signing key parser on damaged or foreign bytes.                      *)
LEMMA LmsSkJudged ==
    ASSUME NEW m \in Modes, NEW n \in Modes, NEW v, IsLmsSk(n, v), NEW b \in Seq(Word),
           Agrees(b, LmsSkBytes(n, v))
    PROVE  Judged(m.TC = n.TC, b, LmsSkBytes(n, v), ParseLmsSk(m, b))
  <1>1. PICK E, o : E = LmsSkBytes(n, v) /\ o = ParseLmsSk(m, b)
    OBVIOUS
  <1>2. LmsSkLaid(n, v, E)
    BY <1>1, LmsSkLayout
  <1>3. E \in Seq(Word) /\ Len(E) = n.M + ID_LEN + 3
        /\ HoldsAt(E, 0, <<U32(n.TC), U32(n.OtsTC), U32(v.q)>>)
    BY <1>2, Zenon DEF LmsSkLaid
  <1>4. m.TC \in Nat /\ n.TC \in Nat /\ m.M \in Nat /\ n.M \in Nat /\ ID_LEN \in Nat
    BY ModeNumbers DEF ID_LEN
  <1>5. E[1] = U32(n.TC)
    <2>1. PICK x, y, z : x = U32(n.TC) /\ y = U32(n.OtsTC) /\ z = U32(v.q)
      OBVIOUS
    <2>2. HoldsAt(E, 0, <<x, y, z>>)
      BY <1>3, <2>1, Zenon
    <2>3. Len(<<x, y, z>>) = 3 /\ <<x, y, z>>[1] = x /\ 1 \in 1 .. 3 /\ 0 + 1 = 1
      OBVIOUS
    <2>4. E[0 + 1] = x
      BY <2>2, <2>3, Zenon DEF HoldsAt
    <2> QED  BY <2>1, <2>3, <2>4, Zenon
  <1>6. PICK L : L = m.M + ID_LEN + 2 + 1
    OBVIOUS
  <1>7. TypedFirst(o, b, m.TC, L, Panic)
    BY <1>1, <1>6, LmsSkCases
  <1>8. Len(E) >= 1 /\ (m.TC = n.TC => L = Len(E))
    <2>1. PICK e, at, k, l : e = Len(E) /\ at = ID_LEN /\ k = n.M /\ l = m.M
      OBVIOUS
    <2>2. /\ e = k + at + 3 /\ L = l + at + 2 + 1
          /\ k \in Nat /\ at \in Nat /\ l \in Nat
      BY <1>3, <1>4, <1>6, <2>1, Zenon
    <2>3. e >= 1 /\ (l = k => L = e)
      BY <2>2
    <2>4. m.TC = n.TC => l = k
      BY <2>1, SameCodes, Zenon
    <2> QED  BY <2>1, <2>3, <2>4, Zenon
  <1>9. Agrees(b, E)
    BY <1>1, Zenon
  <1>10. Judged(m.TC = n.TC, b, E, o)
    BY <1>3, <1>4, <1>5, <1>7, <1>8, <1>9, TypedVerdict
  <1> QED  BY <1>1, <1>10, Zenon

(* The LMS verifying key parser on damaged or foreign bytes.                *)
LEMMA LmsVkJudged ==
    ASSUME NEW m \in Modes, NEW n \in Modes, NEW v, IsLmsVk(n, v), NEW b \in Seq(Word),
           Agrees(b, LmsVkBytes(n, v))
    PROVE  Judged(m = n, b, LmsVkBytes(n, v), ParseLmsVk(m, b))
  <1>1. PICK E, o : E = LmsVkBytes(n, v) /\ o = ParseLmsVk(m, b)
    OBVIOUS
  <1>2. LmsVkLaid(n, v, E)
    BY <1>1, LmsVkLayout
  <1>3. E \in Seq(Word) /\ Len(E) = n.M + ID_LEN + 2
    BY <1>2, Zenon DEF LmsVkLaid
  <1>4. /\ m.M \in Nat /\ n.M \in Nat /\ ID_LEN \in Nat
        /\ m.TC \in Nat /\ n.TC \in Nat /\ m.OtsTC \in Nat /\ n.OtsTC \in Nat
    BY ModeNumbers DEF ID_LEN
  <1>5. PICK L : L = m.M + ID_LEN + 2
    OBVIOUS
  <1>6. /\ SizedFirst(o, b, L)
        /\ Len(b) = L => \/ o = Err("WrongAlgorithm")
                         \/ ReadU32(b[1]) = m.TC /\ ReadU32(b[2]) = m.OtsTC
    BY <1>1, <1>5, LmsVkCases
  <1>7. E[1] = U32(n.TC) /\ E[2] = U32(n.OtsTC)
    BY <1>2, LmsVkCodes
  <1>8. Len(b) = L => o \in Errs \/ m = n
    <2> SUFFICES ASSUME Len(b) = L  PROVE o \in Errs \/ m = n
      OBVIOUS
    <2>1. CASE o = Err("WrongAlgorithm")
      BY <2>1, ErrorsApart
    <2>2. CASE ReadU32(b[1]) = m.TC /\ ReadU32(b[2]) = m.OtsTC
      <3>1. 1 \in 1 .. Len(b) /\ 2 \in 1 .. Len(b) /\ 1 <= Len(E) /\ 2 <= Len(E)
        BY <1>3, <1>4, <1>5, Z3
      <3>2. b[1] = U32(n.TC) /\ b[2] = U32(n.OtsTC)
        BY <1>1, <1>7, <3>1, Zenon DEF Agrees
      <3>3. m.TC = n.TC /\ m.OtsTC = n.OtsTC
        BY <1>4, <2>2, <3>2, U32IsWord
      <3> QED  BY <3>3, SameCodes
    <2> QED  BY <1>6, <2>1, <2>2
  <1>9. L \in Nat /\ Len(b) \in Nat /\ Len(E) \in Nat /\ (m = n => L = Len(E))
    <2>1. m = n => L = Len(E)
      BY <1>3, <1>5, Zenon
    <2>2. m.M + ID_LEN + 2 \in Nat
      BY <1>4
    <2> QED  BY <1>3, <1>5, <2>1, <2>2
  <1>10. Judged(m = n, b, E, o)
    BY <1>6, <1>8, <1>9, SizedVerdict
  <1> QED  BY <1>1, <1>10, Zenon

(* The numbers an LMS signature has at its fixed places.                    *)
LEMMA LmsSigCodes ==
    ASSUME NEW n \in Modes, NEW v, IsLmsSig(n, v), NEW E, LmsSigLaid(n, v, E)
    PROVE  E[2] = U32(n.OtsTC) /\ E[2 + OtsSigLen(n)] = U32(n.TC)
  <1>1. PICK t, l : t = OtsSigBytes(n, v.ots) /\ l = OtsSigLen(n)
    OBVIOUS
  <1>2. HoldsAt(E, 1, t) /\ HoldsAt(E, 1 + l, <<U32(n.TC)>>)
    BY <1>1, Zenon DEF LmsSigLaid
  <1>3. OtsSigLaid(n, v.ots, t)
    BY <1>1, OtsSigLayout DEF IsLmsSig
  <1>4. l \in Nat /\ l >= 1 /\ n.TC \in Nat /\ n.OtsTC \in Nat
    BY <1>1, OtsLenNat, ModeNumbers
  <1>5. Len(t) = l /\ HoldsAt(t, 0, <<U32(n.OtsTC)>>)
    BY <1>1, <1>3, Zenon DEF OtsSigLaid
  <1>6. 0 \in Nat /\ 0 + 1 = 1 /\ 1 + 1 = 2 /\ 1 \in 1 .. l /\ 1 + l \in Nat /\ 1 + l + 1 = 2 + l
    BY <1>4
  <1>7. t[0 + 1] = U32(n.OtsTC)
    BY <1>4, <1>5, <1>6, NumberRead
  <1>8. E[1 + 1] = t[1]
    BY <1>2, <1>5, <1>6, Zenon DEF HoldsAt
  <1>9. E[1 + l + 1] = U32(n.TC)
    BY <1>2, <1>4, <1>6, NumberRead
  <1> QED  BY <1>1, <1>6, <1>7, <1>8, <1>9, Zenon

(* The one-time signature inside an LMS signature: what its parser answers. *)
LEMMA OtsPartCases ==
    ASSUME NEW m \in Modes, NEW b \in Seq(Word), Len(b) = LmsSigLen(m),
           NEW p, p = ParseOtsSig(m, OtsPart(m, b))
    PROVE  p \in Errs \/ (p[1] = "ok" /\ ReadU32(b[2]) = m.OtsTC)
  <1>1. PICK s, l, width : s = OtsPart(m, b) /\ l = OtsSigLen(m) /\ width = m.M * m.H
    OBVIOUS
  <1>2. l \in Nat /\ l >= 1 /\ width \in Nat /\ Len(b) = 2 + l + width
    <2>1. l \in Nat /\ l >= 1 /\ width \in Nat
      BY <1>1, OtsLenNat
    <2> QED  BY <1>1, <2>1, Zenon DEF LmsSigLen
  <1>3. s \in Seq(Word) /\ Len(s) = l /\ s[1] = b[2]
    <2>1. 1 + l <= Len(b) /\ 1 + 1 = 2 /\ 1 + l = l + 1 /\ 1 \in 1 .. l /\ 1 \in Nat
      BY <1>2
    <2>2. IsCut(SubSeq(b, 1 + 1, 1 + l), b, 1, l, Word)
      BY <1>2, <2>1, CutOut
    <2>3. SubSeq(b, 1 + 1, 1 + l) = s
      BY <1>1, <2>1, Zenon DEF OtsPart
    <2> QED  BY <2>1, <2>2, <2>3, Zenon DEF IsCut
  <1>4. PICK L : L = m.N * (m.P + 1) + 1
    OBVIOUS
  <1>5. PICK x : TypedFirst(p, s, m.OtsTC, L, Ok(x))
    BY <1>1, <1>3, <1>4, OtsSigCases
  <1>6. L = l
    <2>1. PICK y : y = m.N * (m.P + 1)
      OBVIOUS
    <2>2. L = y + 1 /\ l = 1 + y
      BY <1>1, <1>4, <2>1, Zenon DEF OtsSigLen
    <2>3. y \in Nat
      <3>1. m.N \in Nat /\ m.P \in Nat
        BY ModeNumbers
      <3>2. (\A x1, x2 \in Nat : x1 * x2 \in Nat) /\ m.P + 1 \in Nat
        BY <3>1
      <3> QED  BY <2>1, <3>1, <3>2, Zenon
    <2> QED  BY <2>2, <2>3
  <1>7. Len(s) >= 1 /\ Len(s) = L
    BY <1>2, <1>3, <1>6
  <1>8. CASE ReadU32(s[1]) # m.OtsTC
    <2>1. p = Err("WrongAlgorithm")
      BY <1>5, <1>7, <1>8, Zenon DEF TypedFirst
    <2> QED  BY <2>1, ErrorsApart
  <1>9. CASE ReadU32(s[1]) = m.OtsTC
    <2>1. p = Ok(x)
      BY <1>5, <1>7, <1>9, Zenon DEF TypedFirst
    <2> QED  BY <1>3, <1>9, <2>1, ErrorsApart
  <1> QED  BY <1>8, <1>9

(* The answers of the LMS signature parser, and what each takes.            *)
LEMMA LmsSigAnswers ==
    ASSUME NEW m \in Modes, NEW b \in Seq(Word), NEW o, o = ParseLmsSig(m, b),
           Len(b) = LmsSigLen(m)
    PROVE  \/ o \in Errs
           \/ /\ ReadU32(b[2]) = m.OtsTC /\ ReadU32(b[2 + OtsSigLen(m)]) = m.TC
              /\ ~(ReadU32(b[1]) >= 2 ^ m.H)
              /\ o[2].q = ReadU32(b[1])
  <1>1. PICK p, rest, l : /\ p = ParseOtsSig(m, OtsPart(m, b))
                          /\ rest = Drop(b, OtsSigLen(m) + 1) /\ l = OtsSigLen(m)
    OBVIOUS
  <1>2. PICK c : c = Chunks(Drop(Drop(b, OtsSigLen(m) + 1), 1), m.M, m.H)
    OBVIOUS
  <1>3. \/ o = Err("InvalidQ")
        \/ p[1] # "ok" /\ o = p
        \/ o = Err("WrongAlgorithm")
        \/ /\ ~(ReadU32(b[1]) >= 2 ^ m.H) /\ p[1] = "ok" /\ ReadU32(rest[1]) = m.TC
           /\ o = Ok([q |-> ReadU32(b[1]), ots |-> p[2], path |-> c])
    BY <1>1, <1>2, LmsSigCases, Zenon
  <1>4. p \in Errs \/ (p[1] = "ok" /\ ReadU32(b[2]) = m.OtsTC)
    BY <1>1, OtsPartCases
  <1>5. \A e \in Errs : e[1] # "ok"
    BY ErrorsApart DEF Errs
  <1>6. CASE o = Err("InvalidQ") \/ o = Err("WrongAlgorithm")
    BY <1>6, ErrorsApart
  <1>7. CASE p[1] # "ok" /\ o = p
    BY <1>4, <1>7
  <1>8. CASE /\ ~(ReadU32(b[1]) >= 2 ^ m.H) /\ p[1] = "ok" /\ ReadU32(rest[1]) = m.TC
             /\ o = Ok([q |-> ReadU32(b[1]), ots |-> p[2], path |-> c])
    <2>1. rest[1] = b[2 + l]
      <3>1. PICK width : width = m.M * m.H
        OBVIOUS
      <3>2. l \in Nat /\ l >= 1 /\ width \in Nat
        BY <1>1, <3>1, OtsLenNat
      <3>3. Len(b) = 2 + l + width
        BY <1>1, <3>1, Zenon DEF LmsSigLen
      <3>4. l + 1 \in 0 .. Len(b) /\ 1 \in 1 .. Len(b) - (l + 1) /\ l + 1 + 1 = 2 + l
        BY <3>2, <3>3
      <3>5. IsCut(Drop(b, l + 1), b, l + 1, Len(b) - (l + 1), Word)
        BY <3>4, DropAt
      <3> QED  BY <1>1, <3>4, <3>5, Zenon DEF IsCut
    <2>2. ReadU32(b[2]) = m.OtsTC
      BY <1>4, <1>5, <1>8
    <2>3. PICK q : q = ReadU32(b[1])
      OBVIOUS
    <2>4. o = Ok([q |-> q, ots |-> p[2], path |-> c])
      BY <1>8, <2>3, Zenon
    <2>5. o[2].q = q
      BY <2>4 DEF Ok
    <2> QED  BY <1>1, <1>8, <2>1, <2>2, <2>3, <2>5, Zenon
  <1> QED  BY <1>3, <1>6, <1>7, <1>8

(* The length of an LMS signature, in words.                                *)
LEMMA LmsSigLenNat ==
    ASSUME NEW m \in Modes
    PROVE  /\ LmsSigLen(m) \in Nat /\ 2 <= LmsSigLen(m) /\ 2 + OtsSigLen(m) <= LmsSigLen(m)
           /\ OtsSigLen(m) \in Nat
  <1>1. PICK l, width : l = OtsSigLen(m) /\ width = m.M * m.H
    OBVIOUS
  <1>2. l \in Nat /\ width \in Nat
    BY <1>1, OtsLenNat
  <1>3. LmsSigLen(m) = 2 + l + width
    BY <1>1, Zenon DEF LmsSigLen
  <1> QED  BY <1>1, <1>2, <1>3

(* The LMS signature parser on damaged or foreign bytes.                    *)
LEMMA LmsSigJudged ==
    ASSUME NEW m \in Modes, NEW n \in Modes, NEW v, IsLmsSig(n, v), NEW b \in Seq(Word),
           Agrees(b, LmsSigBytes(n, v))
    PROVE  Judged(m = n, b, LmsSigBytes(n, v), ParseLmsSig(m, b))
  <1>1. PICK E, o, L : E = LmsSigBytes(n, v) /\ o = ParseLmsSig(m, b) /\ L = LmsSigLen(m)
    OBVIOUS
  <1>2. LmsSigLaid(n, v, E)
    BY <1>1, LmsSigLayout
  <1>3. E \in Seq(Word) /\ Len(E) = LmsSigLen(n)
    BY <1>2, Zenon DEF LmsSigLaid
  <1>4. E[2] = U32(n.OtsTC) /\ E[2 + OtsSigLen(n)] = U32(n.TC)
    BY <1>2, LmsSigCodes
  <1>5. SizedFirst(o, b, L)
    BY <1>1, LmsSigCases
  <1>6. m.TC \in Nat /\ n.TC \in Nat /\ m.OtsTC \in Nat /\ n.OtsTC \in Nat
    BY ModeNumbers
  <1>7. Len(b) = L => o \in Errs \/ m = n
    <2> SUFFICES ASSUME Len(b) = L, o \notin Errs  PROVE m = n
      OBVIOUS
    <2>1. ReadU32(b[2]) = m.OtsTC /\ ReadU32(b[2 + OtsSigLen(m)]) = m.TC
      BY <1>1, LmsSigAnswers
    <2>2. 2 \in 1 .. Len(b) /\ 2 <= Len(E)
      BY <1>1, <1>3, LmsSigLenNat
    <2>3. b[2] = U32(n.OtsTC)
      BY <1>1, <1>4, <2>2, Zenon DEF Agrees
    <2>4. m.OtsTC = n.OtsTC
      BY <1>6, <2>1, <2>3, U32IsWord
    <2>5. OtsSigLen(m) = OtsSigLen(n)
      <3>1. m.N = n.N /\ m.P = n.P
        BY <2>4, SameCodes
      <3> QED  BY <3>1, Zenon DEF OtsSigLen
    <2>6. PICK at : at = 2 + OtsSigLen(m)
      OBVIOUS
    <2>7. at \in 1 .. Len(b)
      BY <1>1, <2>6, LmsSigLenNat
    <2>8. at <= Len(E)
      BY <1>3, <2>5, <2>6, LmsSigLenNat
    <2>9. b[at] = U32(n.TC)
      BY <1>1, <1>4, <2>5, <2>6, <2>7, <2>8, Zenon DEF Agrees
    <2>10. m.TC = n.TC
      BY <1>6, <2>1, <2>6, <2>9, U32IsWord
    <2> QED  BY <2>4, <2>10, SameCodes
  <1>8. L \in Nat /\ Len(b) \in Nat /\ Len(E) \in Nat /\ (m = n => L = Len(E))
    <2>1. m = n => L = Len(E)
      BY <1>1, <1>3, Zenon
    <2> QED  BY <1>1, <1>3, <2>1, LmsSigLenNat
  <1>9. Judged(m = n, b, E, o)
    BY <1>5, <1>7, <1>8, SizedVerdict
  <1> QED  BY <1>1, <1>9, Zenon

(* An accepted signature's index.                                           *)
LEMMA LmsSigIndex ==
    ASSUME NEW m \in Modes, NEW b \in Seq(Word), ParseLmsSig(m, b)[1] = "ok"
    PROVE  ParseLmsSig(m, b)[2].q \in 0 .. 2 ^ m.H - 1
  <1>1. PICK o : o = ParseLmsSig(m, b)
    OBVIOUS
  <1>2. o \notin Errs
    BY <1>1, ErrorsApart DEF Errs
  <1>3. SizedFirst(o, b, LmsSigLen(m))
    BY <1>1, LmsSigCases
  <1>4. Len(b) \in Nat /\ LmsSigLen(m) \in Nat /\ 2 <= LmsSigLen(m)
    BY LmsSigLenNat
  <1>5. Len(b) = LmsSigLen(m)
    <2>1. o # Err("TooShort") /\ o # Err("TooLong")
      BY <1>2, ErrorsApart
    <2>2. ~(Len(b) < LmsSigLen(m)) /\ ~(Len(b) > LmsSigLen(m))
      BY <1>3, <2>1, Zenon DEF SizedFirst
    <2> QED  BY <1>4, <2>2
  <1>6. o[2].q = ReadU32(b[1]) /\ ~(ReadU32(b[1]) >= 2 ^ m.H)
    BY <1>1, <1>2, <1>5, LmsSigAnswers
  <1>7. ReadU32(b[1]) \in Nat
    <2>1. b[1] \in Word
      BY <1>4, <1>5
    <2> QED  BY <2>1, ReadIsNat
  <1>8. 2 ^ m.H \in Nat
    BY ModeNumbers
  <1> QED  BY <1>1, <1>6, <1>7, <1>8

(* No bytes are read as a signing key (the finding of the run on it).       *)
LEMMA LmsSkNever ==
    ASSUME NEW m \in Modes, NEW b \in Seq(Word)
    PROVE  ParseLmsSk(m, b)[1] # "ok"
  <1>1. PICK o, L : o = ParseLmsSk(m, b) /\ L = m.M + ID_LEN + 2 + 1
    OBVIOUS
  <1>2. TypedFirst(o, b, m.TC, L, Panic)
    BY <1>1, LmsSkCases
  <1>3. L \in Nat /\ Len(b) \in Nat
    BY <1>1, ModeNumbers DEF ID_LEN
  <1>4. /\ Len(b) < 1 \/ Len(b) >= 1
        /\ Len(b) < L \/ Len(b) > L \/ Len(b) = L
    BY <1>3
  <1>5. \/ o = Err("NoAlgorithm") \/ o = Err("WrongAlgorithm")
        \/ o = Err("TooShort") \/ o = Err("TooLong") \/ o = Panic
    BY <1>2, <1>4, Zenon DEF TypedFirst
  <1>6. o[1] # "ok"
    BY <1>5, ErrorsApart
  <1> QED  BY <1>1, <1>6, Zenon

(* Every writer writes words.                                               *)
LEMMA EncodeShape ==
    ASSUME NEW n \in Modes, NEW k \in Kinds, NEW v, IsValue(n, k, v)
    PROVE  Encode(n, k, v) \in Seq(Word)
  <1>1. CASE k = "OtsVk"
    BY <1>1, OtsVkLayout DEF Encode, IsValue, OtsVkLaid
  <1>2. CASE k = "OtsSig"
    BY <1>2, OtsSigLayout DEF Encode, IsValue, OtsSigLaid
  <1>3. CASE k = "LmsVk"
    BY <1>3, LmsVkLayout DEF Encode, IsValue, LmsVkLaid
  <1>4. CASE k = "LmsSig"
    BY <1>4, LmsSigLayout DEF Encode, IsValue, LmsSigLaid
  <1>5. CASE k = "LmsSk"
    BY <1>5, LmsSkLayout DEF Encode, IsValue, LmsSkLaid
  <1> QED  BY <1>1, <1>2, <1>3, <1>4, <1>5 DEF Kinds

(* The five parsers on bytes that were cut or extended.                     *)
LEMMA DecodeJudged ==
    ASSUME NEW m \in Modes, NEW n \in Modes, NEW k \in Kinds, NEW v, IsValue(n, k, v),
           NEW b \in Seq(Word), Agrees(b, Encode(n, k, v))
    PROVE  Judged(SameModes(m, n, k), b, Encode(n, k, v), Decode(m, k, b))
  <1>1. CASE k = "OtsVk"
    <2>1. /\ Encode(n, k, v) = OtsVkBytes(n, v) /\ Decode(m, k, b) = ParseOtsVk(m, b)
          /\ SameModes(m, n, k) = (m.OtsTC = n.OtsTC) /\ IsOtsVk(n, v)
      BY <1>1 DEF Encode, Decode, SameModes, IsValue
    <2> QED  BY <2>1, OtsVkJudged
  <1>2. CASE k = "OtsSig"
    <2>1. /\ Encode(n, k, v) = OtsSigBytes(n, v) /\ Decode(m, k, b) = ParseOtsSig(m, b)
          /\ SameModes(m, n, k) = (m.OtsTC = n.OtsTC) /\ IsOtsSig(n, v)
      BY <1>2 DEF Encode, Decode, SameModes, IsValue
    <2> QED  BY <2>1, OtsSigJudged
  <1>3. CASE k = "LmsVk"
    <2>1. /\ Encode(n, k, v) = LmsVkBytes(n, v) /\ Decode(m, k, b) = ParseLmsVk(m, b)
          /\ SameModes(m, n, k) = (m = n) /\ IsLmsVk(n, v)
      BY <1>3 DEF Encode, Decode, SameModes, IsValue
    <2> QED  BY <2>1, LmsVkJudged
  <1>4. CASE k = "LmsSig"
    <2>1. /\ Encode(n, k, v) = LmsSigBytes(n, v) /\ Decode(m, k, b) = ParseLmsSig(m, b)
          /\ SameModes(m, n, k) = (m = n) /\ IsLmsSig(n, v)
      BY <1>4 DEF Encode, Decode, SameModes, IsValue
    <2> QED  BY <2>1, LmsSigJudged
  <1>5. CASE k = "LmsSk"
    <2>1. /\ Encode(n, k, v) = LmsSkBytes(n, v) /\ Decode(m, k, b) = ParseLmsSk(m, b)
          /\ SameModes(m, n, k) = (m = n) /\ IsLmsSk(n, v)
      BY <1>5 DEF Encode, Decode, SameModes, IsValue
    <2>2. Judged(m.TC = n.TC, b, LmsSkBytes(n, v), ParseLmsSk(m, b))
      BY <2>1, LmsSkJudged
    <2>3. Judged(m = n, b, LmsSkBytes(n, v), ParseLmsSk(m, b))
      BY <2>2, LmsSkNever DEF Judged
    <2> QED  BY <2>1, <2>3
  <1> QED  BY <1>1, <1>2, <1>3, <1>4, <1>5 DEF Kinds

(* The four parsers that work give the value back.                          *)
LEMMA DecodeEncode ==
    ASSUME NEW m \in Modes, NEW k \in Kinds, k # "LmsSk", NEW v, IsValue(m, k, v)
    PROVE  Decode(m, k, Encode(m, k, v)) = Ok(v)
  <1>1. CASE k = "OtsVk"
    <2>1. IsOtsVk(m, v) /\ OtsVkLaid(m, v, OtsVkBytes(m, v))
      BY <1>1, OtsVkLayout DEF IsValue
    <2>2. ParseOtsVk(m, OtsVkBytes(m, v)) = Ok(v)
      BY <2>1, OtsVkRead
    <2> QED  BY <1>1, <2>2 DEF Encode, Decode
  <1>2. CASE k = "OtsSig"
    <2>1. IsOtsSig(m, v) /\ OtsSigLaid(m, v, OtsSigBytes(m, v))
      BY <1>2, OtsSigLayout DEF IsValue
    <2>2. ParseOtsSig(m, OtsSigBytes(m, v)) = Ok(v)
      BY <2>1, OtsSigRead
    <2> QED  BY <1>2, <2>2 DEF Encode, Decode
  <1>3. CASE k = "LmsVk"
    <2>1. IsLmsVk(m, v) /\ LmsVkLaid(m, v, LmsVkBytes(m, v))
      BY <1>3, LmsVkLayout DEF IsValue
    <2>2. ParseLmsVk(m, LmsVkBytes(m, v)) = Ok(v)
      BY <2>1, LmsVkRead
    <2> QED  BY <1>3, <2>2 DEF Encode, Decode
  <1>4. CASE k = "LmsSig"
    <2>1. IsLmsSig(m, v) /\ LmsSigLaid(m, v, LmsSigBytes(m, v))
      BY <1>4, LmsSigLayout DEF IsValue
    <2>2. ParseLmsSig(m, LmsSigBytes(m, v)) = Ok(v)
      BY <2>1, LmsSigRead
    <2> QED  BY <1>4, <2>2 DEF Encode, Decode
  <1> QED  BY <1>1, <1>2, <1>3, <1>4 DEF Kinds
-----------------------------------------------------------------------------
Written == Encode(mode, kind, value)

(* What the damage says of the bytes.                                       *)
BytesAsDamaged ==
    /\ bytes \in Seq(Word)
    /\ damage = "none"    => bytes = Written
    /\ damage # "word"    => Agrees(bytes, Written)
    /\ damage = "shorter" => Len(bytes) < Len(Written)
    /\ damage = "longer"  => Len(bytes) > Len(Written)

IInv ==
    /\ mode \in Modes /\ kind \in Kinds /\ IsValue(mode, kind, value)
    /\ BytesAsDamaged
    /\ result = <<>> \/ \E m \in Modes : result = <<m, Decode(m, kind, bytes)>>

(* A value is written and not damaged yet.                                  *)
LEMMA InitIInv == Init => IInv
  <1> SUFFICES ASSUME Init  PROVE IInv
    OBVIOUS
  <1>1. mode \in Modes /\ kind \in Kinds /\ bytes = Written /\ damage = "none" /\ result = <<>>
    BY DEF Init, Written
  <1>2. IsValue(mode, kind, value)
    BY ValuesShape DEF Init
  <1>3. bytes \in Seq(Word)
    BY <1>1, <1>2, EncodeShape DEF Written
  <1>4. Agrees(bytes, Written)
    BY <1>1 DEF Agrees
  <1>5. BytesAsDamaged
    BY <1>1, <1>3, <1>4 DEF BytesAsDamaged
  <1> QED  BY <1>1, <1>2, <1>5 DEF IInv

(* Damage does what it says, and a parser is run on the bytes once.         *)
LEMMA NextIInv == IInv /\ [Next]_vars => IInv'
  <1> SUFFICES ASSUME IInv, [Next]_vars  PROVE IInv'
    OBVIOUS
  <1>1. /\ mode \in Modes /\ kind \in Kinds /\ IsValue(mode, kind, value) /\ BytesAsDamaged
        /\ result = <<>> \/ \E m \in Modes : result = <<m, Decode(m, kind, bytes)>>
    BY DEF IInv
  <1>2. bytes \in Seq(Word) /\ Len(bytes) \in Nat
    BY <1>1 DEF BytesAsDamaged
  <1>3. ASSUME damage = "none", result' = <<>>, bytes' \in Seq(Word), damage' # "none",
               UNCHANGED <<mode, kind, value>>,
               damage' # "word" => Agrees(bytes', bytes),
               damage' = "shorter" => Len(bytes') < Len(bytes),
               damage' = "longer" => Len(bytes') > Len(bytes)
        PROVE  IInv'
    <2>1. bytes = Written /\ Written' = Written
      BY <1>1, <1>3 DEF BytesAsDamaged, Written
    <2>2. BytesAsDamaged'
      BY <1>3, <2>1 DEF BytesAsDamaged
    <2>3. IsValue(mode, kind, value)'
      BY <1>1, <1>3
    <2> QED  BY <1>1, <1>3, <2>2, <2>3 DEF IInv
  <1>4. CASE Truncate
    <2>1. PICK n \in 0 .. Len(bytes) - 1 : bytes' = Take(bytes, n)
      BY <1>4 DEF Truncate
    <2>2. IsCut(SubSeq(bytes, 0 + 1, 0 + n), bytes, 0, n, Word)
      <3>1. 0 + n <= Len(bytes) /\ n \in Nat /\ 0 \in Nat
        BY <1>2
      <3> QED  BY <1>2, <3>1, CutOut
    <2>3. IsCut(bytes', bytes, 0, n, Word)
      <3>1. 0 + 1 = 1 /\ 0 + n = n
        OBVIOUS
      <3> QED  BY <2>1, <2>2, <3>1, Zenon DEF Take
    <2>4. bytes' \in Seq(Word) /\ Len(bytes') = n /\ \A at \in 1 .. n : bytes'[at] = bytes[0 + at]
      BY <2>3, Zenon DEF IsCut
    <2>5. \A at \in 1 .. n : 0 + at = at
      OBVIOUS
    <2>6. Agrees(bytes', bytes)
      BY <2>4, <2>5, Zenon DEF Agrees
    <2>7. Len(bytes') < Len(bytes)
      BY <1>2, <2>4
    <2>8. /\ damage = "none" /\ result' = <<>> /\ UNCHANGED <<mode, kind, value>>
          /\ damage' = "shorter"
      BY <1>4 DEF Truncate, Intact
    <2> QED  BY <1>3, <2>4, <2>6, <2>7, <2>8
  <1>5. CASE Extend
    <2>1. PICK q \in Qs : bytes' = Append(bytes, U32(q))
      BY <1>5 DEF Extend
    <2>2. U32(q) \in Word
      BY QsAssumption, U32IsWord
    <2>3. bytes' \in Seq(Word) /\ Len(bytes') = Len(bytes) + 1
      BY <1>2, <2>1, <2>2
    <2>4. \A at \in 1 .. Len(bytes) : bytes'[at] = bytes[at]
      BY <1>2, <2>1, <2>2
    <2>5. Agrees(bytes', bytes)
      <3>1. \A at \in 1 .. Len(bytes') : at <= Len(bytes) => at \in 1 .. Len(bytes)
        BY <1>2
      <3> QED  BY <2>4, <3>1, Zenon DEF Agrees
    <2>6. Len(bytes') > Len(bytes)
      BY <1>2, <2>3
    <2>7. /\ damage = "none" /\ result' = <<>> /\ UNCHANGED <<mode, kind, value>>
          /\ damage' = "longer"
      BY <1>5 DEF Extend, Intact
    <2> QED  BY <1>3, <2>3, <2>5, <2>6, <2>7
  <1>6. CASE Overwrite
    <2>1. PICK n \in 1 .. Len(bytes), q \in Qs : bytes' = [bytes EXCEPT ![n] = U32(q)]
      BY <1>6 DEF Overwrite
    <2>2. U32(q) \in Word
      BY QsAssumption, U32IsWord
    <2>3. bytes' \in Seq(Word)
      BY <1>2, <2>1, <2>2
    <2>4. /\ damage = "none" /\ result' = <<>> /\ UNCHANGED <<mode, kind, value>>
          /\ damage' = "word"
      BY <1>6 DEF Overwrite, Intact
    <2> QED  BY <1>3, <2>3, <2>4
  <1>7. CASE \E m \in Modes : Parse(m)
    <2>1. PICK m \in Modes : Parse(m)
      BY <1>7
    <2>2. UNCHANGED <<mode, kind, value, bytes, damage>> /\ result' = <<m, Decode(m, kind, bytes)>>
      BY <2>1 DEF Parse
    <2>3. BytesAsDamaged'
      BY <1>1, <2>2 DEF BytesAsDamaged, Written
    <2>4. (mode \in Modes /\ kind \in Kinds /\ IsValue(mode, kind, value))'
      BY <1>1, <2>2
    <2>5. (\E n \in Modes : result = <<n, Decode(n, kind, bytes)>>)'
      BY <2>2
    <2> QED  BY <2>3, <2>4, <2>5 DEF IInv
  <1>8. CASE UNCHANGED vars
    <2>1. UNCHANGED <<mode, kind, value, bytes, damage, result>>
      BY <1>8 DEF vars
    <2>2. BytesAsDamaged'
      BY <1>1, <2>1 DEF BytesAsDamaged, Written
    <2>3. (mode \in Modes /\ kind \in Kinds /\ IsValue(mode, kind, value))'
      BY <1>1, <2>1
    <2>4. (result = <<>> \/ \E m \in Modes : result = <<m, Decode(m, kind, bytes)>>)'
      BY <1>1, <2>1
    <2> QED  BY <2>2, <2>3, <2>4 DEF IInv
  <1> QED  BY <1>4, <1>5, <1>6, <1>7, <1>8 DEF Next

(* IInv holds in every state of every behaviour.                            *)
THEOREM Inductive == Spec => []IInv
  BY InitIInv, NextIInv, PTL DEF Spec

(* What a parser's answer is, once there is one.                            *)
LEMMA AnswerKnown ==
    ASSUME IInv, Parsed
    PROVE  /\ Under \in Modes /\ Outcome = Decode(Under, kind, bytes)
           /\ bytes \in Seq(Word) /\ mode \in Modes /\ kind \in Kinds
           /\ IsValue(mode, kind, value)
           /\ damage # "word" => Judged(SameModes(Under, mode, kind), bytes, Written, Outcome)
  <1>1. /\ mode \in Modes /\ kind \in Kinds /\ IsValue(mode, kind, value) /\ BytesAsDamaged
        /\ \E m \in Modes : result = <<m, Decode(m, kind, bytes)>>
    BY DEF IInv, Parsed
  <1>2. PICK m \in Modes : result = <<m, Decode(m, kind, bytes)>>
    BY <1>1
  <1>3. Under = m /\ Outcome = Decode(m, kind, bytes)
    BY <1>2 DEF Under, Outcome
  <1>4. bytes \in Seq(Word)
    BY <1>1 DEF BytesAsDamaged
  <1>5. damage # "word" => Judged(SameModes(m, mode, kind), bytes, Written, Decode(m, kind, bytes))
    <2> SUFFICES ASSUME damage # "word"
                 PROVE  Judged(SameModes(m, mode, kind), bytes, Written, Decode(m, kind, bytes))
      OBVIOUS
    <2>1. Agrees(bytes, Encode(mode, kind, value))
      BY <1>1 DEF BytesAsDamaged, Written
    <2>2. Judged(SameModes(m, mode, kind), bytes, Encode(mode, kind, value), Decode(m, kind, bytes))
      BY <1>1, <1>4, <2>1, DecodeJudged
    <2> QED  BY <2>2 DEF Written
  <1> QED  BY <1>1, <1>3, <1>4, <1>5, Zenon

(* The four types that can be read are, for every mode and every value.     *)
THEOREM RoundTripCorrect == Spec => []RoundTrip
  <1>1. IInv => RoundTrip
    <2> SUFFICES ASSUME IInv, Parsed, damage = "none", Under = mode, kind # "LmsSk"
                 PROVE  Outcome = Ok(value)
      BY DEF RoundTrip
    <2>1. /\ Outcome = Decode(mode, kind, bytes) /\ mode \in Modes /\ kind \in Kinds
          /\ IsValue(mode, kind, value)
      BY AnswerKnown
    <2>2. bytes = Encode(mode, kind, value)
      BY DEF IInv, BytesAsDamaged, Written
    <2>3. Decode(mode, kind, Encode(mode, kind, value)) = Ok(value)
      BY <2>1, DecodeEncode
    <2> QED  BY <2>1, <2>2, <2>3, Zenon
  <1> QED  BY <1>1, Inductive, PTL

(* Bytes that were cut or extended are refused, in whatever mode they are   *)
(* read, and in their own with the error that says so.                      *)
THEOREM ResizedCorrect == Spec => []ResizedRefused
  <1>1. IInv => ResizedRefused
    <2> SUFFICES ASSUME IInv, Parsed  PROVE ResizedRefused
      BY DEF ResizedRefused
    <2>1. Under = mode => SameModes(Under, mode, kind)
      BY DEF SameModes
    <2>2. CASE damage = "shorter"
      <3>1. Len(bytes) < Len(Written) /\ damage # "word" /\ damage # "longer"
        BY <2>2 DEF IInv, BytesAsDamaged
      <3>2. /\ Outcome \in Errs
            /\ Under = mode => Outcome \in {Err("NoAlgorithm"), Err("TooShort")}
        BY <2>1, <3>1, AnswerKnown, Zenon DEF Judged
      <3> QED  BY <2>2, <3>1, <3>2 DEF ResizedRefused, Errs
    <2>3. CASE damage = "longer"
      <3>1. Len(bytes) > Len(Written) /\ damage # "word" /\ damage # "shorter"
        BY <2>3 DEF IInv, BytesAsDamaged
      <3>2. Outcome \in Errs /\ (Under = mode => Outcome = Err("TooLong"))
        BY <2>1, <3>1, AnswerKnown, Zenon DEF Judged
      <3> QED  BY <2>3, <3>1, <3>2 DEF ResizedRefused, Errs
    <2> QED  BY <2>2, <2>3 DEF ResizedRefused
  <1> QED  BY <1>1, Inductive, PTL

(* Only bytes of the parser's own mode are accepted, cut and extended ones  *)
(* included.                                                                *)
THEOREM OtherModeCorrect == Spec => []OtherModeRefused
  <1>1. IInv => OtherModeRefused
    BY AnswerKnown DEF OtherModeRefused, Judged
  <1> QED  BY <1>1, Inductive, PTL

(* An accepted signature's index is a leaf's, whatever was done to it.      *)
THEOREM IndexCorrect == Spec => []AcceptedIndexInTree
  <1>1. IInv => AcceptedIndexInTree
    <2> SUFFICES ASSUME IInv, Parsed, kind = "LmsSig", Outcome[1] = "ok"
                 PROVE  Outcome[2].q \in 0 .. 2 ^ Under.H - 1
      BY DEF AcceptedIndexInTree
    <2>1. Under \in Modes /\ Outcome = Decode(Under, kind, bytes) /\ bytes \in Seq(Word)
      BY AnswerKnown
    <2>2. Outcome = ParseLmsSig(Under, bytes)
      BY <2>1 DEF Decode
    <2> QED  BY <2>1, <2>2, LmsSigIndex
  <1> QED  BY <1>1, Inductive, PTL
-----------------------------------------------------------------------------
(* Verification.  The powers of two that count the nodes below a level.     *)
LEMMA PowersOfTwo ==
    /\ LEAVES \in Nat
    /\ \A l \in 0 .. Height : 2 ^ l \in Nat \ {0} /\ 2 ^ (l + 1) = 2 * 2 ^ l
  BY PowerIsNat, PowerStep, HeightAssumption DEF LEAVES

(* A node is its parent doubled, or doubled plus one, by its parity; its    *)
(* sibling is the other child.                                              *)
LEMMA ParentAndSibling ==
    ASSUME NEW n \in Nat, n >= 2
    PROVE  /\ n \div 2 \in Nat /\ 1 <= n \div 2
           /\ n % 2 = 1 => n = 2 * (n \div 2) + 1 /\ Sibling(n) = 2 * (n \div 2)
           /\ n % 2 # 1 => n = 2 * (n \div 2) /\ Sibling(n) = 2 * (n \div 2) + 1
  BY DEF Sibling

(* Hashing an inner node is injective in the children.                      *)
LEMMA NodeHashInjective ==
    ASSUME NEW n, NEW a, NEW b, NEW c, NEW d
    PROVE  NodeHash(Id, n, a, b) = NodeHash(Id, n, c, d) <=> a = c /\ b = d
  BY DEF NodeHash, H

(* Two one-time keys under one leaf number have two leaf hashes.           *)
LEMMA LeafHashInjective ==
    ASSUME NEW n, NEW a, NEW b
    PROVE  LeafHash(Id, n, a) = LeafHash(Id, n, b) <=> a = b
  BY DEF LeafHash, H

(* Where the loop of a call stands after i iterations.                      *)
Position ==
    /\ sig.q \in Leaves
    /\ i \in 0 .. Height
    /\ node_num \in Nat
    /\ node_num = (sig.q + LEAVES) \div 2 ^ i
    /\ 2 ^ (Height - i) <= node_num
    /\ node_num < 2 * 2 ^ (Height - i)

Matched == (tmp = tree[node_num]) <=> MatchesUpTo(sig, i)

Verdict ==
    /\ verdict \in {"idle", "pending", "ok", "error"}
    /\ verdict \in {"ok", "error"} => i = Height /\ (verdict = "ok" <=> tree[1] = tmp)

VerifyInv ==
    /\ IsTree
    /\ Verdict
    /\ verdict = "idle" => i = 0
    /\ verdict # "idle" => Position /\ Matched

(* The head of the loop, whatever was verified before.                      *)
LEMMA BeginPosition ==
    ASSUME IsTree, NEW s, s.q \in Leaves, Begin(s)
    PROVE  Position' /\ Matched'
  <1>1. s.q \in 0 .. LEAVES - 1
    BY DEF Leaves
  <1>2. /\ sig' = s /\ i' = 0 /\ node_num' = s.q + LEAVES /\ tree' = tree
        /\ tmp' = LeafHash(Id, s.q + LEAVES, s.k)
    BY DEF Begin
  <1>3. LEAVES \in Nat /\ 2 ^ 0 = 1 /\ LEAVES = 2 ^ Height /\ Height - 0 = Height
    BY PowersOfTwo, HeightAssumption DEF LEAVES
  <1>4. i' \in 0 .. Height
    BY <1>2, HeightAssumption
  <1>5. s.q + LEAVES \in Nat /\ LEAVES <= s.q + LEAVES /\ s.q + LEAVES < 2 * LEAVES
    BY <1>1, <1>3
  <1>6. node_num' = (sig'.q + LEAVES) \div 2 ^ i'
    <2>1. s.q + LEAVES = (s.q + LEAVES) \div 1
      BY <1>5
    <2> QED  BY <2>1, <1>2, <1>3
  <1>7. Position'
    BY <1>2, <1>3, <1>4, <1>5, <1>6 DEF Position
  <1>8. Matched'
    <2>1. tree[s.q + LEAVES] = LeafHash(Id, s.q + LEAVES, OtsPubHash[s.q])
      BY DEF IsTree
    <2>2. MatchesUpTo(sig, i)' <=> s.k = OtsPubHash[s.q]
      BY <1>2 DEF MatchesUpTo
    <2> QED  BY <2>1, <2>2, <1>2, LeafHashInjective DEF Matched
  <1> QED  BY <1>7, <1>8

(* What one iteration does to the position: the parent, one level up.       *)
LEMMA FoldPosition ==
    ASSUME Position, Fold
    PROVE  /\ node_num >= 2 /\ node_num < 2 * LEAVES
           /\ Position'
  <1>1. sig' = sig /\ tree' = tree /\ i' = i + 1 /\ node_num' = node_num \div 2 /\ i < Height
    BY DEF Fold
  <1>2. i \in 0 .. Height /\ i' \in 0 .. Height /\ Height \in Nat
    BY <1>1, HeightAssumption DEF Position
  <1> DEFINE p == 2 ^ (Height - i')
  <1>3. p \in Nat \ {0} /\ 2 ^ (Height - i) = 2 * p
    <2>1. Height - i' \in 0 .. Height /\ Height - i = (Height - i') + 1
      BY <1>1, <1>2
    <2> HIDE DEF p
    <2>2. \A l \in 0 .. Height : 2 ^ l \in Nat \ {0} /\ 2 ^ (l + 1) = 2 * 2 ^ l
      BY PowersOfTwo
    <2> QED  BY <2>1, <2>2 DEF p
  <1>4. node_num \in Nat /\ 2 * p <= node_num /\ node_num < 2 * (2 * p)
    BY <1>3 DEF Position
  <1>5. node_num >= 2
    <2> HIDE DEF p
    <2> QED  BY <1>3, <1>4
  <1>6. node_num' \in Nat /\ p <= node_num' /\ node_num' < 2 * p
    <2> HIDE DEF p
    <2> QED  BY <1>1, <1>3, <1>4
  <1>7. node_num' = (sig'.q + LEAVES) \div 2 ^ i'
    <2>1. sig.q + LEAVES \in Nat /\ i \in Nat
      BY <1>2, PowersOfTwo DEF Position, Leaves
    <2>2. (sig.q + LEAVES) \div 2 ^ (i + 1) = ((sig.q + LEAVES) \div 2 ^ i) \div 2
      BY <2>1, ShiftStep
    <2> QED  BY <1>1, <2>2 DEF Position
  <1>8. node_num < 2 * LEAVES
    <2>1. sig.q + LEAVES \in Nat /\ sig.q + LEAVES < 2 * LEAVES
      BY PowersOfTwo DEF Position, Leaves
    <2>2. 2 ^ i \in Nat \ {0}
      BY <1>2, PowersOfTwo
    <2>3. \A n \in Nat, d \in Nat \ {0} : n \div d <= n
      OBVIOUS
    <2> QED  BY <2>1, <2>2, <2>3, PowersOfTwo DEF Position
  <1> QED  BY <1>1, <1>2, <1>5, <1>6, <1>7, <1>8 DEF Position

(* ... and to the running hash: a match at the parent needs a match at the  *)
(* child and the right sibling.                                             *)
LEMMA FoldRunningHash ==
    ASSUME IsTree, Position, Matched, Fold
    PROVE  Matched'
  <1> DEFINE n == node_num
             p == node_num \div 2
  <1>1. /\ n \in Nat /\ n >= 2 /\ n < 2 * LEAVES
        /\ i \in 0 .. Height /\ Height \in Nat /\ LEAVES \in Nat
    BY FoldPosition, HeightAssumption, PowersOfTwo DEF Position
  <1>2. /\ sig' = sig /\ tree' = tree /\ i' = i + 1 /\ node_num' = p /\ i < Height
        /\ tmp' = IF n % 2 = 1 THEN NodeHash(Id, p, sig.path[i], tmp)
                               ELSE NodeHash(Id, p, tmp, sig.path[i])
    BY DEF Fold, Parent
  <1>3. p \in 1 .. LEAVES - 1
    <2> HIDE DEF p
    <2>1. p \in Nat /\ 1 <= p /\ (n = 2 * p \/ n = 2 * p + 1)
      BY <1>1, ParentAndSibling DEF p
    <2> QED  BY <1>1, <2>1
  <1>4. tree[p] = NodeHash(Id, p, tree[2 * p], tree[2 * p + 1])
    BY <1>3 DEF IsTree
  <1>5. AuthPath(sig.q)[i] = tree[Sibling(n)]
    BY <1>1, <1>2 DEF AuthPath, Position
  <1>6. tmp' = tree[p] <=> tmp = tree[n] /\ sig.path[i] = tree[Sibling(n)]
    <2>1. CASE n % 2 = 1
      <3>1. n = 2 * p + 1 /\ Sibling(n) = 2 * p
        BY <1>1, <2>1, ParentAndSibling
      <3>2. tmp' = NodeHash(Id, p, sig.path[i], tmp)
        BY <1>2, <2>1
      <3> QED  BY <3>1, <3>2, <1>4, NodeHashInjective
    <2>2. CASE n % 2 # 1
      <3>1. n = 2 * p /\ Sibling(n) = 2 * p + 1
        BY <1>1, <2>2, ParentAndSibling
      <3>2. tmp' = NodeHash(Id, p, tmp, sig.path[i])
        BY <1>2, <2>2
      <3> QED  BY <3>1, <3>2, <1>4, NodeHashInjective
    <2> QED  BY <2>1, <2>2
  <1>7. MatchesUpTo(sig, i)'
            <=> MatchesUpTo(sig, i) /\ sig.path[i] = AuthPath(sig.q)[i]
    <2>1. 0 .. (i + 1) - 1 = (0 .. i - 1) \cup {i}
      BY <1>1
    <2> QED  BY <2>1, <1>2, ZenonT(40) DEF MatchesUpTo, AuthPath
  <1> QED  BY <1>2, <1>5, <1>6, <1>7 DEF Matched

(* A step that leaves the loop where it is keeps what was said of it.       *)
LEMMA LoopUnchanged ==
    ASSUME UNCHANGED <<tree, sig, i, node_num, tmp>>
    PROVE  (IsTree => IsTree') /\ (Position => Position') /\ (Matched => Matched')
  <1>1. IsTree => IsTree'
    BY DEF IsTree
  <1>2. Position => Position'
    BY DEF Position
  <1>3. Matched => Matched'
    <2>1. \A q, l : (AuthPath(q)[l])' = AuthPath(q)[l]
      BY DEF AuthPath
    <2>2. MatchesUpTo(sig, i)' <=> MatchesUpTo(sig, i)
      BY <2>1 DEF MatchesUpTo
    <2> QED  BY <2>2 DEF Matched
  <1> QED  BY <1>1, <1>2, <1>3

(* VerifyInv holds at first, and every step keeps it.                            *)
LEMMA InitVerifyInv == VerifyInit => VerifyInv
  BY DEF VerifyInit, Idle, VerifyInv, Verdict

(* Every step of verify keeps the invariant.                               *)
LEMMA NextVerifyInv == VerifyInv /\ [VerifyNext]_verifyVars => VerifyInv'
  <1> SUFFICES ASSUME VerifyInv, [VerifyNext]_verifyVars
               PROVE  VerifyInv'
    OBVIOUS
  <1> USE DEF VerifyInv
  <1>1. CASE Call
    <2>1. PICK p \in Presented : Begin(SignatureOf(p))
      BY <1>1 DEF Call
    <2>2. PICK s : s = SignatureOf(p)
      OBVIOUS
    <2>3. s.q \in Leaves /\ Begin(s)
      BY <2>1, <2>2, PresentedAssumption DEF SignatureOf
    <2>4. Position' /\ Matched'
      BY <2>3, BeginPosition
    <2>5. IsTree' /\ verdict' = "pending"
      BY <2>1 DEF Begin, IsTree
    <2> QED  BY <2>4, <2>5 DEF Verdict
  <1>2. CASE Fold
    <2>1. verdict = "pending" /\ verdict' = "pending" /\ tree' = tree
      BY <1>2 DEF Fold
    <2>2. Position' /\ Matched'
      BY <1>2, <2>1, FoldPosition, FoldRunningHash
    <2> QED  BY <2>1, <2>2 DEF Verdict, IsTree
  <1>3. CASE Compare
    <2>1. /\ verdict = "pending" /\ verdict' \in {"ok", "error"}
          /\ UNCHANGED <<tree, sig, i, node_num, tmp>>
      BY <1>3 DEF Compare
    <2>2. Position' /\ Matched' /\ IsTree'
      BY <2>1, LoopUnchanged
    <2>3. Verdict'
      BY <1>3 DEF Compare, Verdict
    <2> QED  BY <2>1, <2>2, <2>3
  <1>4. CASE UNCHANGED verifyVars
    BY <1>4, LoopUnchanged DEF verifyVars, Verdict
  <1> QED  BY <1>1, <1>2, <1>3, <1>4 DEF VerifyNext

(* What VerifyInv says of the properties.                                        *)
LEMMA RunningHashByInv == VerifyInv => RunningHash
  BY DEF VerifyInv, RunningHash, Matched

(* At the root the running hash is the tree's exactly when the whole path  *)
(* matched.                                                                *)
LEMMA VerdictByInv == VerifyInv => AcceptsExactlySigned
  <1> SUFFICES ASSUME VerifyInv, verdict \in {"ok", "error"}
               PROVE  verdict = "ok" <=> MatchesUpTo(sig, Height)
    BY DEF AcceptsExactlySigned
  <1>1. i = Height /\ (verdict = "ok" <=> tree[1] = tmp)
    BY DEF VerifyInv, Verdict
  <1>2. 2 ^ (Height - i) = 1
    BY <1>1, HeightAssumption
  <1>3. node_num = 1
    BY <1>2 DEF VerifyInv, Position
  <1> QED  BY <1>1, <1>3 DEF VerifyInv, Matched

(* The node number that verify computes stays in the tree.                 *)
LEMMA TypesByInv == VerifyInv => TypeOK
  <1>1. ASSUME Position
        PROVE  node_num \in Nodes
    <2> DEFINE e == 2 ^ (Height - i)
    <2>1. e \in Nat \ {0} /\ node_num \in Nat /\ e <= node_num
      BY PowersOfTwo, HeightAssumption, <1>1 DEF Position
    <2>2. node_num <= sig.q + LEAVES
      <3>1. sig.q + LEAVES \in Nat /\ 2 ^ i \in Nat \ {0}
        BY PowersOfTwo, <1>1 DEF Position, Leaves
      <3>2. \A n \in Nat, d \in Nat \ {0} : n \div d <= n
        OBVIOUS
      <3> QED  BY <3>1, <3>2, <1>1 DEF Position
    <2>3. sig.q \in 0 .. LEAVES - 1 /\ LEAVES \in Nat
      BY PowersOfTwo, <1>1 DEF Position, Leaves
    <2> HIDE DEF e
    <2> QED  BY <2>1, <2>2, <2>3 DEF Nodes
  <1>2. 0 \in 0 .. Height
    BY HeightAssumption
  <1> QED  BY <1>1, <1>2 DEF VerifyInv, Position, Verdict, TypeOK
-----------------------------------------------------------------------------
(* VerifyInv holds in every reachable state.                                     *)
THEOREM VerifyInductive == VerifySpec => []VerifyInv
  BY InitVerifyInv, NextVerifyInv, PTL DEF VerifySpec

(* The running hash agrees with the tree exactly while the signature does,  *)
(* for every height.                                                        *)
THEOREM RunningHashHolds == VerifySpec => []RunningHash
  BY RunningHashByInv, VerifyInductive, PTL

(* verify accepts exactly the one-time key and the path of the leaf that    *)
(* the signature names, for every height, tree and signature: complete for  *)
(* what try_sign_with_rng returns, and sound for everything else.           *)
THEOREM VerifyCorrect == VerifySpec => []AcceptsExactlySigned
  BY VerdictByInv, VerifyInductive, PTL

(* The loop variables stay in range: node_num never leaves the tree, so no  *)
(* shift or index is out of bounds.                                         *)
THEOREM TypeCorrect == VerifySpec => []TypeOK
  BY TypesByInv, VerifyInductive, PTL
-----------------------------------------------------------------------------
(* Key generation.  In T, the nodes of level l below number k have their    *)
(* reference values.                                                        *)
Complete(T, l, k) ==
    \A n \in Nodes : 2 ^ (Height - l) <= n /\ n < k => T[n] = Keygen!Reference[n]

(* After c climbs from a leaf: r is its ancestor at level c, the last leaf  *)
(* of its subtree, as every ancestor below.                                 *)
Climbing(c) ==
    LET x == leaf + LEAVES
    IN  /\ r = x \div 2 ^ c
        /\ j = r - 2 ^ (Height - c)
        /\ \A l \in 0 .. c : /\ (x + 1) \div 2 ^ l = x \div 2 ^ l + 1
                             /\ Complete(tree, l, (x + 1) \div 2 ^ l)
        /\ \A l \in c + 1 .. Height : Complete(tree, l, x \div 2 ^ l)

GenInv ==
    /\ leaf \in 0 .. LEAVES
    /\ tree = [n \in Nodes |-> tree[n]]
    /\ \A n \in Nodes : tree[n] \in {Zero, Keygen!Reference[n]}
    /\ pc \in {"leaf", "climb", "done"}
    /\ pc = "leaf" => \A l \in 0 .. Height : Complete(tree, l, (leaf + LEAVES) \div 2 ^ l)
    /\ pc = "climb" => leaf < LEAVES /\ \E c \in 0 .. Height : Climbing(c)
    /\ pc = "done" => tree = Keygen!Reference

(* There is at least one leaf.                                             *)
LEMMA LeavesNat == Height \in Nat /\ LEAVES \in Nat /\ 1 <= LEAVES /\ LEAVES = 2 ^ Height
  BY HeightAssumption, PowerIsNat DEF LEAVES

(* Key generation and verification number the same nodes.                  *)
LEMMA KeygenNames == Keygen!LEAVES = LEAVES /\ Keygen!Nodes = Nodes
  BY DEF Keygen!LEAVES, Keygen!Nodes, LEAVES, Nodes
-----------------------------------------------------------------------------
(* The recursion that defines the reference tree has a solution: from the   *)
(* last node down, each node needs only later ones.                         *)
LEMMA ReferenceExists ==
    \E T : T = [n \in Nodes |->
                  IF n >= LEAVES THEN LeafHash(Id, n, OtsPubHash[n - LEAVES])
                                 ELSE NodeHash(Id, n, T[2 * n], T[2 * n + 1])]
  <1> DEFINE top == 2 * LEAVES - 1
             IsPart(T, m) ==
                T = [n \in m .. top |->
                        IF n >= LEAVES THEN LeafHash(Id, n, OtsPubHash[n - LEAVES])
                                       ELSE NodeHash(Id, n, T[2 * n], T[2 * n + 1])]
             S == {m \in 1 .. top : \E T : IsPart(T, m)}
  <1>1. top \in Nat /\ 1 <= top /\ LEAVES \in Nat /\ top >= LEAVES /\ top = 2 * LEAVES - 1
    BY LeavesNat
  <1> HIDE DEF top
  <1>2. top \in S
    <2> DEFINE T == [n \in top .. top |-> LeafHash(Id, n, OtsPubHash[n - LEAVES])]
    <2>1. \A n \in top .. top : n >= LEAVES
      BY <1>1
    <2>2. IsPart(T, top)
      BY <2>1
    <2>3. top \in 1 .. top
      BY <1>1
    <2> HIDE DEF T, IsPart
    <2> QED  BY <2>2, <2>3
  <1>3. ASSUME NEW m \in 2 .. top, m \in S
        PROVE  m - 1 \in S
    <2>1. PICK T : IsPart(T, m)
      BY <1>3
    <2>2. m - 1 \in 1 .. top /\ m \in Nat
      BY <1>1
    <2> DEFINE W == [n \in m - 1 .. top |->
                        IF n >= m THEN T[n]
                        ELSE IF n >= LEAVES THEN LeafHash(Id, n, OtsPubHash[n - LEAVES])
                        ELSE NodeHash(Id, n, T[2 * n], T[2 * n + 1])]
    <2>3. ASSUME NEW n \in m - 1 .. top, n < LEAVES
          PROVE  2 * n \in m .. top /\ 2 * n + 1 \in m .. top
      BY <1>1, <2>2, <2>3
    <2>4. \A n \in m .. top : W[n] = T[n]
      BY <2>2
    <2>5. ASSUME NEW n \in m - 1 .. top
          PROVE  W[n] = IF n >= LEAVES THEN LeafHash(Id, n, OtsPubHash[n - LEAVES])
                                       ELSE NodeHash(Id, n, W[2 * n], W[2 * n + 1])
      <3>1. W[n] = IF n >= LEAVES THEN LeafHash(Id, n, OtsPubHash[n - LEAVES])
                                  ELSE NodeHash(Id, n, T[2 * n], T[2 * n + 1])
        <4>1. CASE n >= m
          <5>1. n \in m .. top
            BY <2>2, <4>1
          <5> HIDE DEF W
          <5>2. T[n] = IF n >= LEAVES THEN LeafHash(Id, n, OtsPubHash[n - LEAVES])
                                      ELSE NodeHash(Id, n, T[2 * n], T[2 * n + 1])
            BY <2>1, <5>1
          <5> QED  BY <2>4, <5>1, <5>2
        <4>2. CASE ~(n >= m)
          BY <4>2
        <4> QED  BY <4>1, <4>2
      <3> HIDE DEF W
      <3>2. CASE n >= LEAVES
        BY <3>1, <3>2
      <3>3. CASE ~(n >= LEAVES)
        <4>1. n < LEAVES
          BY <1>1, <2>2, <3>3
        <4>2. W[2 * n] = T[2 * n] /\ W[2 * n + 1] = T[2 * n + 1]
          BY <4>1, <2>3, <2>4
        <4> QED  BY <3>1, <3>3, <4>2
      <3> QED  BY <3>2, <3>3
    <2>6. W = [n \in m - 1 .. top |-> W[n]]
      OBVIOUS
    <2> HIDE DEF W
    <2>7. IsPart(W, m - 1)
      BY <2>5, <2>6
    <2> QED  BY <2>2, <2>7
  <1>4. 1 .. top \subseteq S
    <2> HIDE DEF S
    <2>1. 1 \in Int /\ top \in Int /\ 1 + 1 = 2
      BY <1>1
    <2> QED  BY <1>2, <1>3, <2>1, DownwardInduction
  <1>5. PICK T : IsPart(T, 1)
    <2>1. 1 \in S
      <3> HIDE DEF S
      <3> QED  BY <1>1, <1>4
    <2> HIDE DEF IsPart
    <2> QED  BY <2>1
  <1>6. Nodes = 1 .. top
    BY DEF Nodes, top
  <1> QED  BY <1>5, <1>6

(* ... so the reference tree is what its definition says, node by node.     *)
LEMMA ReferenceNode ==
    /\ Keygen!Reference = [n \in Nodes |-> Keygen!Reference[n]]
    /\ \A n \in Nodes :
          Keygen!Reference[n] =
             IF n >= LEAVES THEN LeafHash(Id, n, OtsPubHash[n - LEAVES])
             ELSE NodeHash(Id, n, Keygen!Reference[2 * n], Keygen!Reference[2 * n + 1])
  <1> DEFINE R == Keygen!Reference
             F(T) == [n \in Nodes |->
                        IF n >= LEAVES THEN LeafHash(Id, n, OtsPubHash[n - LEAVES])
                                       ELSE NodeHash(Id, n, T[2 * n], T[2 * n + 1])]
             G(T) == [n \in Keygen!Nodes |->
                        IF n >= Keygen!LEAVES
                        THEN Keygen!LeafHash(Id, n, OtsPubHash[n - Keygen!LEAVES])
                        ELSE Keygen!NodeHash(Id, n, T[2 * n], T[2 * n + 1])]
  <1>1. R = CHOOSE T : T = G(T)
    BY Zenon DEF Keygen!Reference
  <1>2. \A T : F(T) = G(T)
    <2>1. \A n, k : LeafHash(Id, n, k) = Keygen!LeafHash(Id, n, k)
      BY DEF LeafHash, H, D_LEAF, Keygen!LeafHash, Keygen!H, Keygen!D_LEAF
    <2>2. \A n, k, l : NodeHash(Id, n, k, l) = Keygen!NodeHash(Id, n, k, l)
      BY DEF NodeHash, H, D_INTR, Keygen!NodeHash, Keygen!H, Keygen!D_INTR
    <2> QED  BY <2>1, <2>2, KeygenNames
  <1>3. R = F(R)
    <2>1. \E T : T = F(T)
      BY ReferenceExists
    <2> HIDE DEF F, G, R
    <2> QED  BY <1>1, <1>2, <2>1
  <1> HIDE DEF R
  <1> QED  BY <1>3 DEF R
-----------------------------------------------------------------------------
(* Writing a node's reference value loses nothing.                          *)
LEMMA WriteKeeps ==
    ASSUME GenInv, NEW k \in Nodes,
           tree' = [tree EXCEPT ![k] = Keygen!Reference[k]]
    PROVE  /\ tree' = [n \in Nodes |-> tree'[n]]
           /\ \A n \in Nodes : tree'[n] \in {Zero, Keygen!Reference[n]}
           /\ tree'[k] = Keygen!Reference[k]
           /\ \A n \in Nodes : tree[n] = Keygen!Reference[n]
                                  => tree'[n] = Keygen!Reference[n]
           /\ \A l, m : Complete(tree, l, m) => Complete(tree', l, m)
  <1>1. tree = [n \in Nodes |-> tree[n]] /\ \A n \in Nodes : tree[n] \in {Zero, Keygen!Reference[n]}
    BY DEF GenInv
  <1>2. tree'[k] = Keygen!Reference[k] /\ tree' = [n \in Nodes |-> tree'[n]]
        /\ \A n \in Nodes : n # k => tree'[n] = tree[n]
    BY <1>1
  <1>3. \A n \in Nodes : tree[n] = Keygen!Reference[n] => tree'[n] = Keygen!Reference[n]
    BY <1>2
  <1>4. \A l, m : Complete(tree, l, m) => Complete(tree', l, m)
    BY <1>3 DEF Complete
  <1> QED  BY <1>1, <1>2, <1>3, <1>4

(* Where a leaf's ancestors are.                                            *)
LEMMA AncestorAt ==
    ASSUME NEW x \in LEAVES .. 2 * LEAVES - 1, NEW l \in 0 .. Height
    PROVE  /\ x \div 2 ^ l \in Nodes
           /\ 2 ^ (Height - l) \in Nat \ {0}
           /\ 2 ^ (Height - l) <= x \div 2 ^ l
           /\ x \div 2 ^ l < 2 * 2 ^ (Height - l)
  <1>1. x \in Nat /\ l \in Nat /\ Height \in Nat /\ 2 ^ Height <= x /\ x < 2 * 2 ^ Height
    BY LeavesNat
  <1>2. 2 ^ (Height - l) <= x \div 2 ^ l /\ x \div 2 ^ l < 2 * 2 ^ (Height - l)
    BY <1>1, ShiftedBits
  <1>3. x \div 2 ^ l \in Nat /\ x \div 2 ^ l <= x
    BY <1>1, ShiftIsNat
  <1>4. 2 ^ (Height - l) \in Nat \ {0}
    <2>1. Height - l \in Nat
      BY <1>1
    <2> QED  BY <2>1, PowerIsNat
  <1>5. x \div 2 ^ l \in 1 .. 2 * LEAVES - 1
    <2> DEFINE y == x \div 2 ^ l
               e == 2 ^ (Height - l)
    <2>1. y \in Nat /\ y <= x /\ e \in Nat \ {0} /\ e <= y
      BY <1>2, <1>3, <1>4
    <2> HIDE DEF y, e
    <2>2. y \in 1 .. 2 * LEAVES - 1
      BY <2>1, LeavesNat
    <2> QED  BY <2>2 DEF y
  <1> QED  BY <1>2, <1>4, <1>5 DEF Nodes

(* The head of the for loop and the leaf of a new iteration.                *)
LEMMA LeafStep ==
    ASSUME GenInv, Keygen!Leaf
    PROVE  GenInv'
  <1>1. PICK x : x = leaf + LEAVES
    OBVIOUS
  <1>2. /\ pc = "leaf" /\ leaf < LEAVES /\ r' = x /\ j' = leaf /\ pc' = "climb" /\ leaf' = leaf
        /\ tree' = [tree EXCEPT ![x] = LeafHash(Id, x, OtsPubHash[leaf])]
    BY <1>1, KeygenNames
       DEF Keygen!Leaf, LeafHash, H, D_LEAF, Keygen!LeafHash, Keygen!H, Keygen!D_LEAF
  <1>3. leaf \in Nat /\ x \in LEAVES .. 2 * LEAVES - 1 /\ x \in Nodes /\ x \in Nat
    BY <1>1, <1>2, LeavesNat DEF GenInv, Nodes
  <1>4. tree' = [tree EXCEPT ![x] = Keygen!Reference[x]]
    <2>1. x >= LEAVES /\ x - LEAVES = leaf
      BY <1>1, <1>3, LeavesNat
    <2> QED  BY <1>2, <1>3, <2>1, ReferenceNode
  <1>5. \A l \in 0 .. Height : Complete(tree', l, x \div 2 ^ l)
    BY <1>1, <1>2, <1>3, <1>4, WriteKeeps DEF GenInv
  <1>6. 0 \in 0 .. Height /\ x \div 2 ^ 0 = x /\ (x + 1) \div 2 ^ 0 = x + 1
    BY <1>3, LeavesNat, ShiftIsNat
  <1>7. Complete(tree', 0, x + 1)
    <2>1. Complete(tree', 0, x)
      <3>1. Complete(tree', 0, x \div 2 ^ 0)
        BY <1>5, <1>6
      <3> QED  BY <1>6, <3>1, Zenon
    <2>2. tree'[x] = Keygen!Reference[x]
      BY <1>3, <1>4, WriteKeeps
    <2>3. \A n \in Nodes : n < x + 1 => n < x \/ n = x
      BY <1>3 DEF Nodes
    <2> QED  BY <2>1, <2>2, <2>3, Zenon DEF Complete
  <1>8. Climbing(0)'
    <2>1. Height - 0 = Height /\ leaf = x - 2 ^ Height /\ leaf' + LEAVES = x
      BY <1>1, <1>2, <1>3, LeavesNat
    <2>2. r' = x \div 2 ^ 0 /\ j' = r' - 2 ^ (Height - 0)
      BY <1>2, <1>6, <2>1
    <2>3. \A l \in 0 .. 0 : /\ (x + 1) \div 2 ^ l = x \div 2 ^ l + 1
                            /\ Complete(tree', l, (x + 1) \div 2 ^ l)
      <3>1. 0 .. 0 = {0}
        OBVIOUS
      <3>2. (x + 1) \div 2 ^ 0 = x \div 2 ^ 0 + 1 /\ Complete(tree', 0, (x + 1) \div 2 ^ 0)
        BY <1>6, <1>7
      <3> QED  BY <3>1, <3>2
    <2>4. \A l \in 0 + 1 .. Height : Complete(tree', l, x \div 2 ^ l)
      BY <1>5, <1>6
    <2> QED  BY <2>1, <2>2, <2>3, <2>4 DEF Climbing
  <1>9. tree' = [n \in Nodes |-> tree'[n]] /\ \A n \in Nodes : tree'[n] \in {Zero, Keygen!Reference[n]}
    BY <1>3, <1>4, WriteKeeps
  <1> QED  BY <1>2, <1>6, <1>8, <1>9 DEF GenInv

(* One climb: both children of the parent are done, and with them its       *)
(* subtree.                                                                 *)
LEMMA ClimbStep ==
    ASSUME GenInv, Keygen!Climb
    PROVE  GenInv'
  <1>1. PICK x : x = leaf + LEAVES
    OBVIOUS
  <1>2. PICK p : p = (r - 1) \div 2
    OBVIOUS
  <1>3. /\ pc = "climb" /\ j % 2 = 1 /\ r' = p /\ j' = (j - 1) \div 2 /\ pc' = "climb" /\ leaf' = leaf
        /\ tree' = [tree EXCEPT ![p] = NodeHash(Id, p, tree[2 * p], tree[2 * p + 1])]
    BY <1>2 DEF Keygen!Climb, NodeHash, H, D_INTR, Keygen!NodeHash, Keygen!H, Keygen!D_INTR
  <1>4. leaf < LEAVES /\ leaf \in Nat /\ x \in LEAVES .. 2 * LEAVES - 1 /\ x \in Nat
    BY <1>1, <1>3, LeavesNat DEF GenInv
  <1>5. PICK c \in 0 .. Height : Climbing(c)
    BY <1>3 DEF GenInv
  <1>6. /\ r = x \div 2 ^ c /\ j = r - 2 ^ (Height - c)
        /\ \A l \in 0 .. c : (x + 1) \div 2 ^ l = x \div 2 ^ l + 1
        /\ \A l \in 0 .. c : Complete(tree, l, (x + 1) \div 2 ^ l)
        /\ \A l \in c + 1 .. Height : Complete(tree, l, x \div 2 ^ l)
    BY <1>1, <1>5 DEF Climbing
  <1>7. c < Height
    <2> SUFFICES ASSUME c = Height  PROVE FALSE
      BY LeavesNat
    <2>1. Height - c = 0 /\ 2 ^ 0 = 1
      BY LeavesNat
    <2>2. r \in Nodes /\ 2 ^ 0 <= r /\ r < 2 * 2 ^ 0 /\ j = r - 2 ^ 0
      BY <1>4, <1>6, <2>1, AncestorAt
    <2>3. r \in Nat /\ r = 1 /\ j = 0
      BY <2>1, <2>2 DEF Nodes
    <2> QED  BY <1>3, <2>3
  <1>8. PICK e : e = 2 ^ (Height - (c + 1))
    OBVIOUS
  <1>9. /\ e \in Nat \ {0} /\ 2 ^ (Height - c) = 2 * e /\ c + 1 \in 0 .. Height /\ c \in Nat
    <2>1. Height - (c + 1) \in Nat /\ Height - c = (Height - (c + 1)) + 1
      BY <1>7, LeavesNat
    <2> QED  BY <1>7, <1>8, <2>1, LeavesNat, PowerIsNat, PowerStep
  <1>10. r \in Nodes /\ r \in Nat /\ 2 * e <= r /\ r < 2 * (2 * e) /\ j = r - 2 * e
    BY <1>4, <1>6, <1>9, AncestorAt DEF Nodes
  <1>11. r = 2 * p + 1 /\ p \in Nat /\ e <= p /\ p < 2 * e /\ j' = p - e /\ p = r \div 2
    BY <1>2, <1>3, <1>9, <1>10
  <1>12. p \in Nodes /\ 2 * p \in Nodes /\ 2 * p + 1 \in Nodes /\ p < LEAVES
    BY <1>9, <1>10, <1>11, LeavesNat DEF Nodes
  <1>13. (x + 1) \div 2 ^ c = r + 1
    BY <1>6
  <1>14. tree[2 * p] = Keygen!Reference[2 * p] /\ tree[2 * p + 1] = Keygen!Reference[2 * p + 1]
    <2>1. Complete(tree, c, r + 1)
      <3>1. Complete(tree, c, (x + 1) \div 2 ^ c)
        BY <1>6
      <3> QED  BY <1>13, <3>1, Zenon
    <2>2. 2 * e <= 2 * p /\ 2 * p < r + 1 /\ 2 * e <= 2 * p + 1 /\ 2 * p + 1 < r + 1
      BY <1>9, <1>10, <1>11
    <2>3. \A n \in Nodes : 2 * e <= n /\ n < r + 1 => tree[n] = Keygen!Reference[n]
      BY <1>9, <2>1, Zenon DEF Complete
    <2> QED  BY <1>12, <2>2, <2>3
  <1>15. tree' = [tree EXCEPT ![p] = Keygen!Reference[p]]
    <2>1. Keygen!Reference[p] = NodeHash(Id, p, Keygen!Reference[2 * p], Keygen!Reference[2 * p + 1])
      <3>1. ~(p >= LEAVES)
        BY <1>11, <1>12, LeavesNat
      <3> QED  BY <1>12, <3>1, ReferenceNode
    <2> QED  BY <1>3, <1>14, <2>1
  <1>16. /\ \A l \in 0 .. c : Complete(tree', l, (x + 1) \div 2 ^ l)
         /\ \A l \in c + 1 .. Height : Complete(tree', l, x \div 2 ^ l)
         /\ tree'[p] = Keygen!Reference[p]
         /\ tree' = [n \in Nodes |-> tree'[n]]
         /\ \A n \in Nodes : tree'[n] \in {Zero, Keygen!Reference[n]}
    <2>1. \A l, m : Complete(tree, l, m) => Complete(tree', l, m)
      BY <1>12, <1>15, WriteKeeps
    <2>2. /\ \A l \in 0 .. c : Complete(tree', l, (x + 1) \div 2 ^ l)
          /\ \A l \in c + 1 .. Height : Complete(tree', l, x \div 2 ^ l)
      BY <1>6, <2>1
    <2> QED  BY <1>12, <1>15, <2>2, WriteKeeps
  <1>17. x \div 2 ^ (c + 1) = p /\ (x + 1) \div 2 ^ (c + 1) = p + 1
    <2>1. x \div 2 ^ (c + 1) = r \div 2
      BY <1>4, <1>6, <1>9, ShiftStep
    <2>2. (x + 1) \div 2 ^ (c + 1) = ((x + 1) \div 2 ^ c) \div 2
      <3>1. x + 1 \in Nat
        BY <1>4
      <3> QED  BY <1>9, <3>1, ShiftStep
    <2>3. (r + 1) \div 2 = p + 1
      BY <1>11
    <2> QED  BY <1>11, <1>13, <2>1, <2>2, <2>3
  <1>18. Complete(tree', c + 1, p + 1)
    <2>1. Complete(tree', c + 1, p)
      <3>1. Complete(tree', c + 1, x \div 2 ^ (c + 1))
        BY <1>9, <1>16
      <3> QED  BY <1>17, <3>1, Zenon
    <2>2. \A n \in Nodes : n < p + 1 => n < p \/ n = p
      BY <1>11 DEF Nodes
    <2> QED  BY <1>16, <2>1, <2>2, Zenon DEF Complete
  <1>19. Climbing(c + 1)'
    <2>1. leaf' + LEAVES = x
      BY <1>1, <1>3
    <2>2. r' = x \div 2 ^ (c + 1) /\ j' = r' - 2 ^ (Height - (c + 1))
      BY <1>3, <1>8, <1>11, <1>17
    <2>3. \A l \in 0 .. c + 1 : /\ (x + 1) \div 2 ^ l = x \div 2 ^ l + 1
                                /\ Complete(tree', l, (x + 1) \div 2 ^ l)
      <3>1. \A l \in 0 .. c + 1 : l \in 0 .. c \/ l = c + 1
        BY <1>9
      <3>2. /\ (x + 1) \div 2 ^ (c + 1) = x \div 2 ^ (c + 1) + 1
            /\ Complete(tree', c + 1, (x + 1) \div 2 ^ (c + 1))
        BY <1>17, <1>18, Zenon
      <3> QED  BY <1>6, <1>16, <3>1, <3>2, Zenon
    <2>4. \A l \in (c + 1) + 1 .. Height : Complete(tree', l, x \div 2 ^ l)
      <3>1. \A l \in (c + 1) + 1 .. Height : l \in c + 1 .. Height
        BY <1>9, LeavesNat
      <3> QED  BY <1>16, <3>1
    <2> QED  BY <2>1, <2>2, <2>3, <2>4 DEF Climbing
  <1> QED  BY <1>3, <1>4, <1>9, <1>16, <1>19 DEF GenInv

(* The last climb from a leaf ends at a left child or at the root, so no    *)
(* subtree above was completed.                                             *)
LEMMA NextLeafStep ==
    ASSUME GenInv, Keygen!NextLeaf
    PROVE  GenInv'
  <1>1. PICK x : x = leaf + LEAVES
    OBVIOUS
  <1>2. /\ pc = "climb" /\ j % 2 = 0 /\ leaf' = leaf + 1 /\ pc' = "leaf" /\ tree' = tree
    BY DEF Keygen!NextLeaf
  <1>3. /\ leaf < LEAVES /\ leaf \in Nat /\ x \in LEAVES .. 2 * LEAVES - 1 /\ x \in Nat
        /\ leaf' \in 0 .. LEAVES /\ leaf' + LEAVES = x + 1
    BY <1>1, <1>2, LeavesNat DEF GenInv
  <1>4. PICK c \in 0 .. Height : Climbing(c)
    BY <1>2 DEF GenInv
  <1>5. /\ r = x \div 2 ^ c /\ j = r - 2 ^ (Height - c)
        /\ \A l \in 0 .. c : (x + 1) \div 2 ^ l = x \div 2 ^ l + 1
        /\ \A l \in 0 .. c : Complete(tree, l, (x + 1) \div 2 ^ l)
        /\ \A l \in c + 1 .. Height : Complete(tree, l, x \div 2 ^ l)
    BY <1>1, <1>4 DEF Climbing
  <1> DEFINE S == {l \in c + 1 .. Height : (x + 1) \div 2 ^ l = x \div 2 ^ l}
  <1>6. c + 1 .. Height \subseteq S
    <2> SUFFICES ASSUME c < Height  PROVE c + 1 .. Height \subseteq S
      BY LeavesNat
    <2>1. c + 1 \in S
      <3>1. PICK e : e = 2 ^ (Height - (c + 1))
        OBVIOUS
      <3>2. Height - (c + 1) \in Nat /\ Height - c = (Height - (c + 1)) + 1
            /\ c \in Nat /\ c + 1 \in c + 1 .. Height
        BY LeavesNat
      <3>3. e \in Nat /\ 2 ^ (Height - c) = 2 * e
        BY <3>1, <3>2, PowerIsNat, PowerStep
      <3>4. r \in Nat /\ j = r - 2 * e
        BY <1>3, <1>5, <3>3, AncestorAt DEF Nodes
      <3>5. r % 2 = 0 /\ (r + 1) \div 2 = r \div 2
        BY <1>2, <3>3, <3>4
      <3>6. x \div 2 ^ (c + 1) = r \div 2 /\ (x + 1) \div 2 ^ (c + 1) = (r + 1) \div 2
        <4>1. x + 1 \in Nat /\ (x + 1) \div 2 ^ (c + 1) = ((x + 1) \div 2 ^ c) \div 2
          BY <1>3, <3>2, ShiftStep
        <4>2. (x + 1) \div 2 ^ c = r + 1
          BY <1>5, <3>2
        <4>3. x \div 2 ^ (c + 1) = (x \div 2 ^ c) \div 2
          BY <1>3, <3>2, ShiftStep
        <4> QED  BY <1>5, <4>1, <4>2, <4>3
      <3> QED  BY <3>2, <3>5, <3>6
    <2>2. ASSUME NEW l \in c + 1 .. Height - 1, l \in S
          PROVE  l + 1 \in S
      <3>1. l \in Nat /\ x + 1 \in Nat /\ l + 1 \in c + 1 .. Height
        BY <1>3, LeavesNat
      <3>2. /\ x \div 2 ^ (l + 1) = (x \div 2 ^ l) \div 2
            /\ (x + 1) \div 2 ^ (l + 1) = ((x + 1) \div 2 ^ l) \div 2
        BY <1>3, <3>1, ShiftStep
      <3> QED  BY <2>2, <3>1, <3>2
    <2> HIDE DEF S
    <2>3. c + 1 \in Int /\ Height \in Int
      BY LeavesNat
    <2> QED  BY <2>1, <2>2, <2>3, IntervalInduction
  <1>7. \A l \in 0 .. Height : Complete(tree', l, (x + 1) \div 2 ^ l)
    <2>1. \A l \in 0 .. Height : l \in 0 .. c \/ l \in c + 1 .. Height
      BY LeavesNat
    <2>2. ASSUME NEW l \in c + 1 .. Height
          PROVE  Complete(tree', l, (x + 1) \div 2 ^ l)
      <3>1. (x + 1) \div 2 ^ l = x \div 2 ^ l
        BY <1>6
      <3>2. Complete(tree, l, x \div 2 ^ l)
        BY <1>5
      <3> QED  BY <1>2, <3>1, <3>2, Zenon
    <2> QED  BY <1>2, <1>5, <2>1, <2>2
  <1> QED  BY <1>2, <1>3, <1>7 DEF GenInv

(* After the last leaf every level is complete.                             *)
LEMMA ReturnStep ==
    ASSUME GenInv, Keygen!Return
    PROVE  GenInv'
  <1>1. pc = "leaf" /\ leaf = LEAVES /\ pc' = "done" /\ leaf' = leaf /\ tree' = tree
    BY KeygenNames DEF Keygen!Return
  <1>2. \A l \in 0 .. Height : Complete(tree, l, (2 * LEAVES) \div 2 ^ l)
    <2>1. leaf + LEAVES = 2 * LEAVES
      BY <1>1, LeavesNat
    <2> QED  BY <1>1, <2>1 DEF GenInv
  <1> DEFINE S == {l \in 0 .. Height : (2 * LEAVES) \div 2 ^ l = 2 * 2 ^ (Height - l)}
  <1>3. 0 .. Height \subseteq S
    <2>1. 0 \in S
      <3>1. 2 * LEAVES \in Nat /\ Height - 0 = Height /\ 0 \in 0 .. Height
        BY LeavesNat
      <3>2. (2 * LEAVES) \div 2 ^ 0 = 2 * LEAVES
        BY <3>1, ShiftIsNat
      <3> QED  BY <3>1, <3>2, LeavesNat
    <2>2. ASSUME NEW l \in 0 .. Height - 1, l \in S
          PROVE  l + 1 \in S
      <3>1. PICK e : e = 2 ^ (Height - (l + 1))
        OBVIOUS
      <3>2. Height - (l + 1) \in Nat /\ Height - l = (Height - (l + 1)) + 1
            /\ l \in Nat /\ l + 1 \in 0 .. Height /\ 2 * LEAVES \in Nat
        BY LeavesNat
      <3>3. e \in Nat /\ 2 ^ (Height - l) = 2 * e
        BY <3>1, <3>2, PowerIsNat, PowerStep
      <3>4. (2 * LEAVES) \div 2 ^ (l + 1) = ((2 * LEAVES) \div 2 ^ l) \div 2
        BY <3>2, ShiftStep
      <3>5. (2 * (2 * e)) \div 2 = 2 * e
        BY <3>3
      <3>6. (2 * LEAVES) \div 2 ^ (l + 1) = 2 * e
        BY <2>2, <3>3, <3>4, <3>5
      <3> QED  BY <3>1, <3>2, <3>6
    <2> HIDE DEF S
    <2>3. 0 \in Int /\ Height \in Int
      BY LeavesNat
    <2> QED  BY <2>1, <2>2, <2>3, IntervalInduction
  <1>4. ASSUME NEW n \in Nodes
        PROVE  tree[n] = Keygen!Reference[n]
    <2>1. n \in Nat /\ 1 <= n /\ n < 2 * 2 ^ Height
      BY LeavesNat DEF Nodes
    <2>2. PICK l \in 0 .. Height : 2 ^ (Height - l) <= n /\ n < 2 * 2 ^ (Height - l)
      BY <2>1, LeavesNat, SomeLevel
    <2>3. Complete(tree, l, 2 * 2 ^ (Height - l))
      <3>1. (2 * LEAVES) \div 2 ^ l = 2 * 2 ^ (Height - l)
        BY <1>3
      <3>2. Complete(tree, l, (2 * LEAVES) \div 2 ^ l)
        BY <1>2
      <3> QED  BY <3>1, <3>2, Zenon
    <2> QED  BY <2>2, <2>3, Zenon DEF Complete
  <1>5. tree' = Keygen!Reference
    BY <1>1, <1>4, ReferenceNode DEF GenInv
  <1> QED  BY <1>1, <1>5 DEF GenInv
-----------------------------------------------------------------------------
(* gen_pk_tree runs before any call of verify, and leaves a tree that every *)
(* call of verify finds as it was.                                          *)
LifeInv ==
    /\ GenInv
    /\ pc # "done" => Idle
    /\ pc = "done" => VerifyInv

(* The composed invariant holds of the zeroed tree.                        *)
LEMMA InitLifeInv == LifeInit => LifeInv
  <1> SUFFICES ASSUME LifeInit  PROVE LifeInv
    OBVIOUS
  <1>1. tree = [n \in Nodes |-> Zero] /\ leaf = 0 /\ pc = "leaf" /\ Idle
    BY KeygenNames DEF LifeInit, Keygen!Init
  <1>2. ASSUME NEW l \in 0 .. Height
        PROVE  Complete(tree, l, (leaf + LEAVES) \div 2 ^ l)
    <2>1. 0 + LEAVES = 2 ^ Height
      BY LeavesNat
    <2>2. (leaf + LEAVES) \div 2 ^ l = 2 ^ (Height - l)
      <3> DEFINE S == {k \in 0 .. Height : LEAVES \div 2 ^ k = 2 ^ (Height - k)}
      <3>1. 0 \in S
        <4>1. Height - 0 = Height /\ LEAVES \div 2 ^ 0 = LEAVES /\ 0 \in 0 .. Height
          BY LeavesNat, ShiftIsNat
        <4> QED  BY <4>1, LeavesNat
      <3>2. ASSUME NEW k \in 0 .. Height - 1, k \in S
            PROVE  k + 1 \in S
        <4>1. PICK e : e = 2 ^ (Height - (k + 1))
          OBVIOUS
        <4>2. Height - (k + 1) \in Nat /\ Height - k = (Height - (k + 1)) + 1
              /\ k \in Nat /\ k + 1 \in 0 .. Height
          BY LeavesNat
        <4>3. e \in Nat /\ 2 ^ (Height - k) = 2 * e
          BY <4>1, <4>2, PowerIsNat, PowerStep
        <4>4. LEAVES \div 2 ^ (k + 1) = (LEAVES \div 2 ^ k) \div 2
          BY <4>2, LeavesNat, ShiftStep
        <4>5. (2 * e) \div 2 = e
          BY <4>3
        <4> QED  BY <3>2, <4>1, <4>2, <4>3, <4>4, <4>5
      <3> HIDE DEF S
      <3>3. 0 .. Height \subseteq S
        <4>1. 0 \in Int /\ Height \in Int
          BY LeavesNat
        <4> QED  BY <3>1, <3>2, <4>1, IntervalInduction
      <3>4. LEAVES \div 2 ^ l = 2 ^ (Height - l)
        BY <3>3 DEF S
      <3>5. leaf + LEAVES = LEAVES
        BY <1>1, LeavesNat
      <3> QED  BY <3>4, <3>5
    <2>3. \A n \in Nodes : ~(2 ^ (Height - l) <= n /\ n < 2 ^ (Height - l))
      <3>1. Height - l \in Nat
        BY LeavesNat
      <3>2. 2 ^ (Height - l) \in Nat
        BY <3>1, PowerIsNat
      <3> QED  BY <3>2 DEF Nodes
    <2> QED  BY <2>2, <2>3, Zenon DEF Complete
  <1>3. 0 \in 0 .. LEAVES
    BY LeavesNat
  <1> QED  BY <1>1, <1>2, <1>3 DEF LifeInv, GenInv

(* What gen_pk_tree leaves is the tree verification asks for.               *)
LEMMA ReferenceIsTree == tree = Keygen!Reference => IsTree
  <1>1. \A q \in Leaves : /\ q + LEAVES \in Nodes /\ q + LEAVES >= LEAVES
                          /\ (q + LEAVES) - LEAVES = q
    BY LeavesNat DEF Leaves, Nodes
  <1>2. \A n \in 1 .. LEAVES - 1 : n \in Nodes /\ ~(n >= LEAVES)
    BY LeavesNat DEF Nodes
  <1> QED  BY <1>1, <1>2, ReferenceNode DEF IsTree

(* Every step of key generation and of verification keeps the composed     *)
(* invariant.                                                              *)
LEMMA NextLifeInv == LifeInv /\ [LifeNext]_lifeVars => LifeInv'
  <1> SUFFICES ASSUME LifeInv, [LifeNext]_lifeVars
               PROVE  LifeInv'
    OBVIOUS
  <1>1. ASSUME Generate
        PROVE  LifeInv'
    <2>1. Keygen!Next /\ UNCHANGED <<sig, i, node_num, tmp, verdict>>
      BY <1>1 DEF Generate, locals
    <2>2. pc # "done"
      BY <2>1 DEF Keygen!Next, Keygen!Leaf, Keygen!Climb, Keygen!NextLeaf, Keygen!Return
    <2>3. GenInv'
      BY <2>1, LeafStep, ClimbStep, NextLeafStep, ReturnStep DEF Keygen!Next, LifeInv
    <2>4. Idle'
      BY <2>1, <2>2 DEF LifeInv, Idle
    <2>5. pc' = "done" => VerifyInv'
      <3>1. pc' = "done" => IsTree'
        <4>1. pc' = "done" => tree' = (Keygen!Reference)'
          BY <2>3 DEF GenInv
        <4>2. (tree = Keygen!Reference => IsTree)'
          BY ReferenceIsTree, PTL
        <4> QED  BY <4>1, <4>2
      <3> QED  BY <2>4, <3>1 DEF Idle, VerifyInv, Verdict
    <2> QED  BY <2>3, <2>4, <2>5 DEF LifeInv
  <1>2. ASSUME Verify
        PROVE  LifeInv'
    <2>1. pc = "done" /\ VerifyNext /\ UNCHANGED <<leaf, r, j, pc>>
      BY <1>2 DEF Verify, keygenLocals
    <2>2. tree' = tree
      BY <2>1 DEF VerifyNext, Call, Begin, Fold, Compare
    <2>3. GenInv'
      BY <2>1, <2>2 DEF LifeInv, GenInv
    <2>4. VerifyInv'
      BY <2>1, NextVerifyInv DEF LifeInv
    <2> QED  BY <2>1, <2>3, <2>4 DEF LifeInv
  <1>3. ASSUME UNCHANGED lifeVars
        PROVE  LifeInv'
    <2>1. UNCHANGED verifyVars /\ UNCHANGED <<tree, sig, i, node_num, tmp, verdict>>
          /\ UNCHANGED <<leaf, r, j, pc>>
      BY <1>3 DEF lifeVars, verifyVars, keygenLocals
    <2>2. GenInv'
      BY <2>1 DEF LifeInv, GenInv, Climbing
    <2>3. Idle => Idle'
      BY <2>1 DEF Idle
    <2>4. VerifyInv => VerifyInv'
      BY <2>1, NextVerifyInv
    <2> QED  BY <2>1, <2>2, <2>3, <2>4 DEF LifeInv
  <1> QED  BY <1>1, <1>2, <1>3 DEF LifeNext

(* LifeInv holds in every state of a key's life.                            *)
THEOREM LifeInductive == LifeSpec => []LifeInv
  BY InitLifeInv, NextLifeInv, PTL DEF LifeSpec

(* gen_pk_tree fills nothing but reference values, never reads an entry it  *)
(* has not filled, and leaves the whole tree filled (private.rs:65-88).     *)
THEOREM FilledCorrect == LifeSpec => []FilledCorrectly
  <1>1. LifeInv => FilledCorrectly
    BY KeygenNames DEF LifeInv, GenInv, VerifyInv, FilledCorrectly, Keygen!FilledCorrectly
  <1> QED  BY <1>1, LifeInductive, PTL

(* Under a root that gen_pk_tree made, verify accepts exactly the one-time  *)
(* key and the path of the leaf a signature names (public.rs:58-98).        *)
THEOREM LifeVerifyCorrect == LifeSpec => []AcceptsExactlySigned
  <1>1. LifeInv => AcceptsExactlySigned
    BY VerdictByInv DEF LifeInv, Idle, AcceptsExactlySigned
  <1> QED  BY <1>1, LifeInductive, PTL

(* ... its running hash is the tree's entry as long as all has matched,     *)
THEOREM LifeRunningHash == LifeSpec => []RunningHash
  <1>1. LifeInv => RunningHash
    BY RunningHashByInv DEF LifeInv, Idle, RunningHash
  <1> QED  BY <1>1, LifeInductive, PTL

(* ... and its locals stay inside the tree.                                 *)
THEOREM LifeTypeCorrect == LifeSpec => []TypeOK
  <1>1. LifeInv => TypeOK
    <2>1. Idle => TypeOK
      BY HeightAssumption DEF Idle, TypeOK
    <2> QED  BY <2>1, TypesByInv DEF LifeInv, GenInv
  <1> QED  BY <1>1, LifeInductive, PTL
=============================================================================
