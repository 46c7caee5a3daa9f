---------------------------- MODULE LmOts_proofs ----------------------------
(***************************************************************************)
(* The one-time signatures, proved for every mode that compiles.  First the *)
(* two promises of the encoding, for every pair of message hashes           *)
(* (ExpandSpec): the checksum loses no bit of the sum, and no hash's        *)
(* coefficients are all at or above another's.  Then the keys, for every    *)
(* set of keys, identifiers, seeds and messages (Spec): they sign once,     *)
(* what they sign verifies under their verifying key and no other, and they *)
(* implement a pool of one one-time index.                                  *)
(***************************************************************************)
EXTENDS LmOts, WinternitzExpand, OtsChains_proofs

(* The recursion that packs fields has a solution ...                       *)
IsPack(f, s, from, to, w) ==
    f = [i \in from - 1 .. to |-> IF i < from THEN 0 ELSE f[i - 1] * 2 ^ w + s[i]]

(* ... and only one: the number Pack chooses.                               *)
LEMMA PackUnique ==
    ASSUME NEW s, NEW w, NEW from \in Int, NEW to \in Int, from - 1 <= to,
           NEW f, IsPack(f, s, from, to, w)
    PROVE  Pack(s, from, to, w) = f[to]
  <1>1. PICK g : g = CHOOSE h : IsPack(h, s, from, to, w)
    OBVIOUS
  <1>2. IsPack(g, s, from, to, w)
    BY <1>1
  <1>3. Pack(s, from, to, w) = g[to]
    BY <1>1, Zenon DEF Pack, IsPack
  <1> DEFINE S == {i \in from - 1 .. to : f[i] = g[i]}
  <1>4. from - 1 \in S
    BY <1>2 DEF IsPack
  <1>5. ASSUME NEW i \in from - 1 .. to - 1, i \in S
        PROVE  i + 1 \in S
    <2>1. i + 1 \in from - 1 .. to /\ ~(i + 1 < from) /\ (i + 1) - 1 = i
      OBVIOUS
    <2>2. f[i + 1] = f[i] * 2 ^ w + s[i + 1] /\ g[i + 1] = g[i] * 2 ^ w + s[i + 1]
      BY <1>2, <2>1 DEF IsPack
    <2> QED  BY <1>5, <2>1, <2>2
  <1> HIDE DEF S
  <1>6. from - 1 \in Int /\ to \in from - 1 .. to
    OBVIOUS
  <1>7. from - 1 .. to \subseteq S
    BY <1>4, <1>5, <1>6, IntervalInduction
  <1>8. to \in S
    BY <1>6, <1>7
  <1> QED  BY <1>3, <1>8 DEF S

(* The last V coefficients, packed, are the sum of the negated chunks: the  *)
(* first k of them are the top k fields of the shifted sum.                 *)
LEMMA ChecksumFields ==
    ASSUME NEW m, ValidMode(m), NEW a, NEW s, IsExpansion(a, s, m)
    PROVE  \E f : IsPack(f, a, U(m) + 1, P(m), m.W) /\ f[P(m)] = ChunkSum(m, s)
  <1>1. PICK u, v, w, x, e : /\ u = U(m) /\ v = V(m) /\ w = m.W /\ x = Checksum(m, s)
                             /\ e = LS(m)
    OBVIOUS
  <1>2. /\ u \in Nat \ {0} /\ v \in Nat \ {0} /\ P(m) = u + v /\ w \in {1, 2, 4, 8}
        /\ e \in Nat
    BY <1>1, ModeShape DEF ValidMode
  <1>3. v * w + e = 16
    BY <1>1, ModeShape
  <1>4. x \in Nat /\ x < U16 /\ x \div 2 ^ e = ChunkSum(m, s)
    BY <1>1, ChecksumExact DEF IsExpansion
  <1>5. \A k \in 1 .. v : /\ 16 - k * w \in Nat
                          /\ a[u + k] = (x \div 2 ^ (16 - k * w)) % 2 ^ w
    BY <1>1 DEF IsExpansion
  <1>6. PICK f : f = [i \in u .. u + v |-> x \div 2 ^ (16 - (i - u) * w)]
    OBVIOUS
  <1>7. f[u] = 0
    <2>1. u \in u .. u + v /\ 16 - (u - u) * w = 16
      BY <1>2
    <2>2. x \div U16 = 0
      BY <1>4 DEF U16
    <2> QED  BY <1>6, <2>1, <2>2 DEF U16
  <1>8. ASSUME NEW k \in 1 .. v
        PROVE  f[u + k] = f[u + (k - 1)] * 2 ^ w + a[u + k]
    <2>1. PICK d : d = 16 - k * w
      OBVIOUS
    <2>2. d \in Nat /\ a[u + k] = (x \div 2 ^ d) % 2 ^ w
      BY <1>5, <2>1
    <2>3. f[u + k] = x \div 2 ^ d
      <3>1. u + k \in u .. u + v /\ (u + k) - u = k
        BY <1>2
      <3> QED  BY <1>6, <2>1, <3>1
    <2>4. f[u + (k - 1)] = x \div 2 ^ (d + w)
      <3>1. u + (k - 1) \in u .. u + v /\ (u + (k - 1)) - u = k - 1
        BY <1>2
      <3>2. 16 - (k - 1) * w = d + w
        BY <1>2, <2>1
      <3> QED  BY <1>6, <3>1, <3>2
    <2>5. x \div 2 ^ (d + w) = (x \div 2 ^ d) \div 2 ^ w
      BY <1>2, <1>4, <2>2, ShiftAdd
    <2>6. PICK y, b : y = x \div 2 ^ d /\ b = 2 ^ w
      OBVIOUS
    <2>7. y \in Nat /\ b \in Nat \ {0}
      BY <1>2, <1>4, <2>2, <2>6, ShiftIsNat, PowerIsNat
    <2>8. y = (y \div b) * b + (y % b)
      BY <2>7
    <2> QED  BY <2>2, <2>3, <2>4, <2>5, <2>6, <2>8
  <1>9. IsPack(f, a, u + 1, u + v, w)
    <2>1. ASSUME NEW i \in u .. u + v
          PROVE  f[i] = IF i < u + 1 THEN 0 ELSE f[i - 1] * 2 ^ w + a[i]
      <3>1. CASE i < u + 1
        <4>1. i = u
          BY <1>2, <3>1
        <4> QED  BY <1>7, <3>1, <4>1
      <3>2. CASE ~(i < u + 1)
        <4>1. i - u \in 1 .. v /\ u + (i - u) = i /\ u + ((i - u) - 1) = i - 1
          BY <1>2, <3>2
        <4>2. f[u + (i - u)] = f[u + ((i - u) - 1)] * 2 ^ w + a[u + (i - u)]
          BY <1>8, <4>1
        <4> QED  BY <3>2, <4>1, <4>2
      <3> QED  BY <3>1, <3>2
    <2>2. f = [i \in u .. u + v |-> f[i]]
      BY <1>6
    <2>3. (u + 1) - 1 = u
      BY <1>2
    <2> QED  BY <2>1, <2>2, <2>3 DEF IsPack
  <1>10. f[u + v] = x \div 2 ^ e
    <2>1. u + v \in u .. u + v /\ (u + v) - u = v
      BY <1>2
    <2>2. 16 - v * w = e
      BY <1>2, <1>3
    <2> QED  BY <1>6, <2>1, <2>2
  <1> QED  BY <1>1, <1>2, <1>4, <1>9, <1>10

(* The fields after the coefficients of the hash, put together, are the    *)
(* checksum.                                                               *)
LEMMA ChecksumPacked ==
    ASSUME NEW m, ValidMode(m), NEW a, NEW s, IsExpansion(a, s, m)
    PROVE  Pack(a, U(m) + 1, P(m), m.W) = ChunkSum(m, s)
  <1>1. PICK f : IsPack(f, a, U(m) + 1, P(m), m.W) /\ f[P(m)] = ChunkSum(m, s)
    BY ChecksumFields
  <1>2. PICK x, y : x = U(m) + 1 /\ y = P(m)
    OBVIOUS
  <1>3. x \in Int /\ y \in Int /\ x - 1 <= y
    BY <1>2, ModeShape
  <1>4. IsPack(f, a, x, y, m.W)
    BY <1>1, <1>2, Zenon
  <1>5. Pack(a, x, y, m.W) = f[y]
    BY <1>3, <1>4, PackUnique
  <1> QED  BY <1>1, <1>2, <1>5, Zenon

(* Packing keeps the order: fields at or above others make a number at or   *)
(* above.                                                                   *)
LEMMA PackOrder ==
    ASSUME NEW a, NEW b, NEW w \in Nat, NEW from \in Int, NEW to \in Int, from - 1 <= to,
           \A i \in from .. to : a[i] \in Nat /\ b[i] \in Nat /\ a[i] <= b[i],
           NEW f, IsPack(f, a, from, to, w), NEW g, IsPack(g, b, from, to, w)
    PROVE  f[to] <= g[to]
  <1> DEFINE S == {i \in from - 1 .. to : f[i] \in Nat /\ g[i] \in Nat /\ f[i] <= g[i]}
  <1>1. from - 1 \in S
    <2>1. from - 1 \in from - 1 .. to /\ from - 1 < from
      OBVIOUS
    <2>2. f[from - 1] = 0 /\ g[from - 1] = 0
      BY <2>1 DEF IsPack
    <2> QED  BY <2>1, <2>2
  <1>2. ASSUME NEW i \in from - 1 .. to - 1, i \in S
        PROVE  i + 1 \in S
    <2>1. i + 1 \in from - 1 .. to /\ ~(i + 1 < from) /\ (i + 1) - 1 = i /\ i + 1 \in from .. to
      OBVIOUS
    <2>2. f[i + 1] = f[i] * 2 ^ w + a[i + 1] /\ g[i + 1] = g[i] * 2 ^ w + b[i + 1]
      BY <2>1 DEF IsPack
    <2>3. PICK d : d = 2 ^ w
      OBVIOUS
    <2>4. d \in Nat
      BY <2>3, PowerIsNat
    <2>5. f[i] \in Nat /\ g[i] \in Nat /\ f[i] <= g[i]
      BY <1>2
    <2>6. f[i] * d \in Nat /\ g[i] * d \in Nat /\ f[i] * d <= g[i] * d
      BY <2>4, <2>5
    <2>7. a[i + 1] \in Nat /\ b[i + 1] \in Nat /\ a[i + 1] <= b[i + 1]
      BY <2>1
    <2>8. f[i + 1] \in Nat /\ g[i + 1] \in Nat /\ f[i + 1] <= g[i + 1]
      BY <2>2, <2>3, <2>6, <2>7
    <2> QED  BY <2>1, <2>8
  <1> HIDE DEF S
  <1>3. from - 1 \in Int /\ to \in from - 1 .. to
    OBVIOUS
  <1>4. from - 1 .. to \subseteq S
    BY <1>1, <1>2, <1>3, IntervalInduction
  <1>5. to \in S
    BY <1>3, <1>4
  <1> QED  BY <1>5 DEF S

(* Negating turns the order round: chunks at or above others have a sum at  *)
(* or below, and the same sum only when they are the same chunks.           *)
LEMMA TotalsOrder ==
    ASSUME NEW m, ValidMode(m), NEW n \in Nat, NEW s, NEW t,
           \A i \in 1 .. n : s[i] \in 0 .. Top(m) /\ t[i] \in 0 .. Top(m) /\ s[i] <= t[i]
    PROVE  /\ ChunkTotal(m, s, n)[n] \in Nat /\ ChunkTotal(m, t, n)[n] \in Nat
           /\ ChunkTotal(m, t, n)[n] <= ChunkTotal(m, s, n)[n]
           /\ ChunkTotal(m, t, n)[n] = ChunkTotal(m, s, n)[n] => \A i \in 1 .. n : s[i] = t[i]
  <1>1. PICK f, g, h : f = ChunkTotal(m, s, n) /\ g = ChunkTotal(m, t, n) /\ h = Top(m)
    OBVIOUS
  <1>2. /\ f[0] = 0 /\ \A i \in 1 .. n : f[i] = f[i - 1] + h - s[i]
        /\ \A i \in 0 .. n : f[i] \in Nat
    BY <1>1, ChunkTotals
  <1>3. /\ g[0] = 0 /\ \A i \in 1 .. n : g[i] = g[i - 1] + h - t[i]
        /\ \A i \in 0 .. n : g[i] \in Nat
    BY <1>1, ChunkTotals
  <1>4. h \in Nat /\ \A i \in 1 .. n : s[i] \in 0 .. h /\ t[i] \in 0 .. h /\ s[i] <= t[i]
    BY <1>1, ModeShape
  <1> DEFINE S == {k \in 0 .. n : g[k] <= f[k] /\ (g[k] = f[k] => \A i \in 1 .. k : s[i] = t[i])}
  <1>5. 0 \in S
    BY <1>2, <1>3
  <1>6. ASSUME NEW k \in 0 .. n - 1, k \in S
        PROVE  k + 1 \in S
    <2>1. k \in 0 .. n /\ k + 1 \in 1 .. n /\ (k + 1) - 1 = k /\ k + 1 \in 0 .. n
      OBVIOUS
    <2>2. f[k + 1] = f[k] + h - s[k + 1] /\ g[k + 1] = g[k] + h - t[k + 1]
      BY <1>2, <1>3, <2>1
    <2>3. s[k + 1] \in 0 .. h /\ t[k + 1] \in 0 .. h /\ s[k + 1] <= t[k + 1]
      BY <1>4, <2>1
    <2>4. f[k] \in Nat /\ g[k] \in Nat /\ g[k] <= f[k]
      BY <1>2, <1>3, <1>6, <2>1
    <2>5. g[k + 1] <= f[k + 1]
      BY <1>4, <2>2, <2>3, <2>4
    <2>6. g[k + 1] = f[k + 1] => g[k] = f[k] /\ s[k + 1] = t[k + 1]
      BY <1>4, <2>2, <2>3, <2>4
    <2>7. g[k] = f[k] => \A i \in 1 .. k : s[i] = t[i]
      BY <1>6
    <2>8. \A i \in 1 .. k + 1 : i \in 1 .. k \/ i = k + 1
      BY <2>1
    <2>9. g[k + 1] = f[k + 1] => \A i \in 1 .. k + 1 : s[i] = t[i]
      BY <2>6, <2>7, <2>8
    <2> QED  BY <2>1, <2>5, <2>9
  <1> HIDE DEF S
  <1>7. 0 .. n \subseteq S
    BY <1>5, <1>6, IntervalInduction
  <1>8. n \in S /\ n \in 0 .. n
    BY <1>7
  <1>9. /\ f[n] \in Nat /\ g[n] \in Nat /\ g[n] <= f[n]
        /\ g[n] = f[n] => \A i \in 1 .. n : s[i] = t[i]
    BY <1>2, <1>3, <1>8 DEF S
  <1> QED  BY <1>1, <1>9, Zenon

(* The total depends on the chunks alone.                                   *)
LEMMA TotalsSame ==
    ASSUME NEW m, ValidMode(m), NEW n \in Nat, NEW s, NEW t,
           \A i \in 1 .. n : s[i] \in 0 .. Top(m) /\ t[i] = s[i]
    PROVE  ChunkTotal(m, t, n)[n] = ChunkTotal(m, s, n)[n]
  <1>1. PICK R : R = 0 .. Top(m)
    OBVIOUS
  <1>2. \A x \in R : x <= x
    BY <1>1
  <1>3. \A i \in 1 .. n : s[i] \in R /\ t[i] \in R /\ s[i] <= t[i] /\ t[i] <= s[i]
    BY <1>1, <1>2
  <1>4. ChunkTotal(m, t, n)[n] <= ChunkTotal(m, s, n)[n]
    BY <1>1, <1>3, TotalsOrder
  <1>5. /\ ChunkTotal(m, s, n)[n] <= ChunkTotal(m, t, n)[n]
        /\ ChunkTotal(m, s, n)[n] \in Nat /\ ChunkTotal(m, t, n)[n] \in Nat
    BY <1>1, <1>3, TotalsOrder
  <1>6. PICK x, y : x = ChunkTotal(m, s, n)[n] /\ y = ChunkTotal(m, t, n)[n]
    OBVIOUS
  <1>7. x \in Nat /\ y \in Nat /\ x <= y /\ y <= x
    BY <1>4, <1>5, <1>6, Zenon
  <1>8. x = y
    BY <1>7
  <1> QED  BY <1>6, <1>8, Zenon

-----------------------------------------------------------------------------
(* The call at hand is one of those under study, and what it returned is    *)
(* the expansion of its hash.                                               *)
ExpandInv ==
    /\ mode \in Modes
    /\ message \in Hashes(mode)
    /\ arr \in {<<>>, expand(mode, message)}

(* It holds in every reachable state.                                       *)
THEOREM ExpandInductive == ExpandSpec => []ExpandInv
  <1>1. ExpandInit => ExpandInv
    BY Zenon DEF ExpandInit, ExpandInv
  <1>2. ExpandInv /\ [Expand]_expandVars => ExpandInv'
    <2> SUFFICES ASSUME ExpandInv, [Expand]_expandVars
                 PROVE  ExpandInv'
      OBVIOUS
    <2>1. CASE Expand
      BY <2>1, Zenon DEF ExpandInv, Expand
    <2>2. CASE UNCHANGED expandVars
      BY <2>2, Zenon DEF ExpandInv, expandVars
    <2> QED  BY <2>1, <2>2
  <1> QED  BY <1>1, <1>2, PTL DEF ExpandSpec

(* A hash under study expands to its fields and its checksum.               *)
LEMMA Expansion ==
    ASSUME NEW m \in Modes, NEW d \in Hashes(m)
    PROVE  /\ ValidMode(m) /\ d \in Seq(Byte) /\ Len(d) = m.N
           /\ IsExpansion(expand(m, d), coefs(d, m.W), m)
  <1>1. ValidMode(m) /\ d \in [1 .. m.N -> Byte]
    BY ModesAssumption
  <1>2. m.N \in Nat
    BY <1>1 DEF ValidMode
  <1>3. d \in Seq(Byte) /\ Len(d) = m.N
    BY <1>1, <1>2
  <1> QED  BY <1>1, <1>3, ExpandShape

(* ChecksumLossless of WinternitzExpand: neither the u16 sum nor the left   *)
(* shift of ots/modes.rs drops a bit of the sum of the negated chunks.      *)
THEOREM ChecksumLosslessCorrect == ExpandSpec => []ChecksumLossless
  <1>1. ExpandInv => ChecksumLossless
    <2> SUFFICES ASSUME ExpandInv, arr # <<>>
                 PROVE  ChecksumLossless
      BY DEF ChecksumLossless
    <2>1. PICK m, a, s, n : m = mode /\ a = arr /\ s = coefs(message, mode.W) /\ n = U(mode)
      OBVIOUS
    <2>2. ValidMode(m) /\ IsExpansion(a, s, m)
      BY <2>1, Expansion DEF ExpandInv
    <2>3. Pack(a, n + 1, P(m), m.W) = ChunkSum(m, s)
      BY <2>1, <2>2, ChecksumPacked
    <2>4. PICK R : R = 0 .. Top(m)
      OBVIOUS
    <2>5. /\ n \in Nat /\ n = U(m) /\ s \in Seq(R) /\ Len(s) = n
          /\ \A i \in 1 .. n : a[i] = s[i]
      BY <2>1, <2>2, <2>4, ModeShape DEF IsExpansion
    <2>6. \A i \in 1 .. n : s[i] \in R
      BY <2>5
    <2>7. ChunkTotal(m, a, n)[n] = ChunkTotal(m, s, n)[n]
      BY <2>2, <2>4, <2>5, <2>6, TotalsSame
    <2>8. ChunkSum(m, s) = ChunkTotal(m, s, n)[n]
      BY <2>2, <2>4, <2>5, ChunkSumExact
    <2>9. ChunkTotal(m, a, n)[n] = Pack(a, n + 1, P(m), m.W)
      BY <2>3, <2>7, <2>8, Zenon
    <2> QED  BY <2>1, <2>9, Zenon DEF ChecksumLossless, ChunkTotal, IsChunkTotal
  <1> QED  BY <1>1, ExpandInductive, PTL

(* No expansion is at or above another in every chain.                      *)
LEMMA Incomparable ==
    ASSUME NEW m, ValidMode(m), NEW d \in Seq(Byte), NEW e \in Seq(Byte),
           Len(d) = m.N, Len(e) = m.N, d # e
    PROVE  \E i \in 1 .. P(m) : expand(m, e)[i] < expand(m, d)[i]
  <1> SUFFICES ASSUME \A i \in 1 .. P(m) : ~(expand(m, e)[i] < expand(m, d)[i])
               PROVE  FALSE
    OBVIOUS
  <1>1. PICK a, b, s, t, R : /\ a = expand(m, d) /\ b = expand(m, e)
                             /\ s = coefs(d, m.W) /\ t = coefs(e, m.W) /\ R = 0 .. Top(m)
    OBVIOUS
  <1>2. PICK p, u, w : p = P(m) /\ u = U(m) /\ w = m.W
    OBVIOUS
  <1>3. IsExpansion(a, s, m) /\ IsExpansion(b, t, m)
    BY <1>1, ExpandShape
  <1>4. p \in Nat /\ u \in Nat /\ u + 1 <= p /\ w \in Nat /\ \A x \in R : x \in Nat
    <2>1. V(m) \in Nat \ {0} /\ P(m) = U(m) + V(m) /\ U(m) \in Nat /\ Top(m) \in 1 .. 255
      BY ModeShape
    <2>2. w \in {1, 2, 4, 8}
      BY <1>2 DEF ValidMode
    <2> QED  BY <1>1, <1>2, <2>1, <2>2
  <1>5. /\ a \in [1 .. p -> R] /\ b \in [1 .. p -> R] /\ s \in Seq(R) /\ t \in Seq(R)
        /\ Len(s) = u /\ Len(t) = u
        /\ \A i \in 1 .. u : i \in 1 .. p /\ a[i] = s[i] /\ b[i] = t[i]
    BY <1>1, <1>2, <1>3, Zenon DEF IsExpansion
  <1>6. \A i \in 1 .. p : a[i] \in R /\ b[i] \in R /\ a[i] \in Nat /\ b[i] \in Nat /\ a[i] <= b[i]
    <2>1. \A i \in 1 .. p : a[i] \in R /\ b[i] \in R
      BY <1>5
    <2>2. \A i \in 1 .. p : ~(b[i] < a[i])
      BY <1>1, <1>2, Zenon
    <2> QED  BY <1>4, <2>1, <2>2
  <1>7. ChunkSum(m, s) <= ChunkSum(m, t)
    <2>1. PICK f : IsPack(f, a, u + 1, p, w) /\ f[p] = ChunkSum(m, s)
      BY <1>2, <1>3, ChecksumFields
    <2>2. PICK g : IsPack(g, b, u + 1, p, w) /\ g[p] = ChunkSum(m, t)
      BY <1>2, <1>3, ChecksumFields
    <2>3. u + 1 \in Int /\ p \in Int /\ (u + 1) - 1 <= p /\ \A i \in u + 1 .. p : i \in 1 .. p
      BY <1>4
    <2>4. \A i \in u + 1 .. p : a[i] \in Nat /\ b[i] \in Nat /\ a[i] <= b[i]
      BY <1>6, <2>3
    <2>5. f[p] <= g[p]
      BY <1>4, <2>1, <2>2, <2>3, <2>4, PackOrder
    <2> QED  BY <2>1, <2>2, <2>5, Zenon
  <1>8. \A i \in 1 .. u : s[i] \in R /\ t[i] \in R /\ s[i] <= t[i]
    BY <1>5, <1>6
  <1>9. PICK x, y : x = ChunkTotal(m, s, u)[u] /\ y = ChunkTotal(m, t, u)[u]
    OBVIOUS
  <1>10. x \in Nat /\ y \in Nat /\ y <= x /\ (y = x => \A i \in 1 .. u : s[i] = t[i])
    <2>1. \A i \in 1 .. u : s[i] \in 0 .. Top(m) /\ t[i] \in 0 .. Top(m) /\ s[i] <= t[i]
      BY <1>1, <1>8, Zenon
    <2>2. /\ ChunkTotal(m, s, u)[u] \in Nat /\ ChunkTotal(m, t, u)[u] \in Nat
          /\ ChunkTotal(m, t, u)[u] <= ChunkTotal(m, s, u)[u]
          /\ ChunkTotal(m, t, u)[u] = ChunkTotal(m, s, u)[u] => \A i \in 1 .. u : s[i] = t[i]
      BY <1>4, <2>1, TotalsOrder, Z3
    <2> QED  BY <1>9, <2>2, Zenon
  <1>11. x = ChunkSum(m, s) /\ y = ChunkSum(m, t)
    <2>1. s \in Seq(0 .. Top(m)) /\ Len(s) = U(m) /\ t \in Seq(0 .. Top(m)) /\ Len(t) = U(m)
      BY <1>1, <1>2, <1>5, Zenon
    <2>2. ChunkSum(m, s) = ChunkTotal(m, s, U(m))[U(m)]
      BY <2>1, ChunkSumExact
    <2>3. ChunkSum(m, t) = ChunkTotal(m, t, U(m))[U(m)]
      BY <2>1, ChunkSumExact
    <2> QED  BY <1>2, <1>9, <2>2, <2>3, Zenon
  <1>12. \A i \in 1 .. u : s[i] = t[i]
    <2>1. x <= y
      BY <1>7, <1>11, Zenon
    <2>2. x = y
      BY <1>10, <2>1
    <2> QED  BY <1>10, <2>2
  <1>13. \A i \in 1 .. U(m) : expand(m, d)[i] = expand(m, e)[i]
    BY <1>1, <1>2, <1>5, <1>12, Zenon
  <1> QED  BY <1>13, ExpandInjective

(* NoDomination of WinternitzExpand: chain values revealed for one hash do  *)
(* not lead, walked forward, to those of another.                           *)
THEOREM NoDominationCorrect == ExpandSpec => []NoDomination
  <1>1. ExpandInv => NoDomination
    <2> SUFFICES ASSUME ExpandInv, arr # <<>>, NEW other \in Hashes(mode) \ {message}
                 PROVE  \E i \in 1 .. P(mode) : expand(mode, other)[i] < arr[i]
      BY Zenon DEF NoDomination
    <2>1. PICK m, d, e : m = mode /\ d = message /\ e = other
      OBVIOUS
    <2>2. /\ ValidMode(m) /\ d \in Seq(Byte) /\ Len(d) = m.N
          /\ e \in Seq(Byte) /\ Len(e) = m.N /\ d # e
      BY <2>1, Expansion DEF ExpandInv
    <2>3. \E i \in 1 .. P(m) : expand(m, e)[i] < expand(m, d)[i]
      BY <2>2, Incomparable
    <2> QED  BY <2>1, <2>3, Zenon DEF ExpandInv
  <1> QED  BY <1>1, ExpandInductive, PTL
-----------------------------------------------------------------------------
(* The key an object was made as, and what is left of any key.              *)
Fresh(w) == OtsNewFromSeed(Mode, w[1], w[2], w[3])

Spent == [q |-> 0, id |-> ZeroId, valid |-> FALSE, x |-> [i \in 1 .. P(Mode) |-> ZeroHash]]

(* An object holds the key it was made as, or zeros.                        *)
WholeOrSpent == \A o \in Made : key[o] = Fresh(origin[o]) \/ key[o] = Spent

(* Every signature is one of the key its object was made as, which is spent *)
(* now; every spent key has made one.                                       *)
SignedAsMade ==
    \A s \in sigs :
        /\ key[s.obj] = Spent
        /\ \E c \in Randomizers : s.sig = OtsSign(Mode, Fresh(origin[s.obj]), c, s.msg)

OnePerKey == \A s, t \in sigs : s.obj = t.obj => s = t

SpentSigned == \A o \in Made : key[o] = Spent => \E s \in sigs : s.obj = o

(* A verifying key taken in time is that of the key its object was made as. *)
PublishedAsMade ==
    \A p \in pubs : p.valid => p.pk = OtsPublic(Mode, Fresh(origin[p.obj]))

(* The inductive invariant: what is in memory, handed out and returned all  *)
(* comes from the key an object was made as.                                *)
IInv ==
    TypeOK /\ WholeOrSpent /\ SignedAsMade /\ OnePerKey /\ SpentSigned /\ PublishedAsMade
-----------------------------------------------------------------------------
(* The records keys are, and what makes a key of an origin recognisable.    *)
LEMMA FreshKey ==
    ASSUME NEW w \in Indices \X Ids \X Seeds
    PROVE  Fresh(w) \in KeyRecord /\ Fresh(w).valid = TRUE /\ Fresh(w) # NoKey
  <1>1. PICK q \in Indices, id \in Ids, seed \in Seeds : w = <<q, id, seed>>
    OBVIOUS
  <1>2. PICK k : k = OtsNewFromSeed(Mode, q, id, seed)
    OBVIOUS
  <1>3. k = [q |-> q, id |-> id, valid |-> TRUE, x |-> k.x]
    BY <1>2 DEF OtsNewFromSeed
  <1>4. k.x \in Secrets
    BY <1>2 DEF Secrets
  <1>5. k \in KeyRecord
    <2>1. PICK y : y = k.x
      OBVIOUS
    <2>2. k = [q |-> q, id |-> id, valid |-> TRUE, x |-> y] /\ y \in Secrets
      BY <1>3, <1>4, <2>1
    <2>3. TRUE \in BOOLEAN /\ q \in Indices \cup {0} /\ id \in Ids \cup {ZeroId}
      OBVIOUS
    <2> QED  BY <2>2, <2>3 DEF KeyRecord
  <1>6. Fresh(w) = k
    BY <1>1, <1>2 DEF Fresh
  <1> QED  BY <1>3, <1>5, <1>6, AbsentAssumption

(* try_sign_with_rng leaves the same zeroed key behind, whatever key it    *)
(* was, and that is not the absence of a key.                              *)
LEMMA SpentKey ==
    /\ Spent \in KeyRecord /\ Spent.valid = FALSE /\ Spent # NoKey
    /\ \A k : OtsSpent(Mode, k) = Spent
  <1>1. Spent \in KeyRecord
    BY DEF Spent, KeyRecord, Secrets
  <1>2. \A k : OtsSpent(Mode, k) = Spent
    BY DEF Spent, OtsSpent
  <1> QED  BY <1>1, <1>2, AbsentAssumption DEF Spent

(* Which of the two a made object holds, the flag says.                     *)
LEMMA HeldKey ==
    ASSUME IInv, NEW o \in Made
    PROVE  /\ o \in Keys /\ origin[o] \in Indices \X Ids \X Seeds
           /\ key[o].valid => key[o] = Fresh(origin[o])
           /\ ~key[o].valid => key[o] = Spent
           /\ Fresh(origin[o]) # Spent
  <1>1. o \in Keys /\ origin[o] \in Indices \X Ids \X Seeds
    BY DEF IInv, TypeOK, Made
  <1>2. Fresh(origin[o]).valid = TRUE
    BY <1>1, FreshKey
  <1> QED  BY <1>1, <1>2, SpentKey DEF IInv, WholeOrSpent

(* A hash of a message in use is one that expand takes.                     *)
LEMMA DigestHash ==
    ASSUME NEW q \in Indices, NEW id \in Ids, NEW c \in Randomizers, NEW msg \in Messages
    PROVE  IsHash(Mode, MessageHash(id, q, c, msg))
  <1>1. MessageHash(id, q, c, msg) \in [1 .. Mode.N -> Byte]
    BY DigestAssumption
  <1>2. Mode.N \in Nat
    BY ModeAssumption DEF ValidMode
  <1> QED  BY <1>1, <1>2 DEF IsHash

(* The invariant holds before any object is made.                          *)
LEMMA InitIInv == Init => IInv
  BY DEF Init, IInv, TypeOK, WholeOrSpent, SignedAsMade, OnePerKey, SpentSigned,
         PublishedAsMade, Made

(* A new object has signed nothing and handed out nothing.                  *)
LEMMA NewFromSeedStep ==
    ASSUME IInv, NEW o \in Keys, NEW q \in Indices, NEW id \in Ids, NEW seed \in Seeds,
           NewFromSeed(o, q, id, seed)
    PROVE  IInv'
  <1>1. PICK w : w = <<q, id, seed>>
    OBVIOUS
  <1>2. w \in Indices \X Ids \X Seeds /\ OtsNewFromSeed(Mode, q, id, seed) = Fresh(w)
    BY <1>1 DEF Fresh
  <1>3. /\ key[o] = NoKey /\ key' = [key EXCEPT ![o] = Fresh(w)]
        /\ origin' = [origin EXCEPT ![o] = w]
        /\ reply' = "none" /\ pubs' = pubs /\ sigs' = sigs
    BY <1>1, <1>2 DEF NewFromSeed
  <1>4. Fresh(w) \in KeyRecord /\ Fresh(w).valid = TRUE /\ Fresh(w) # NoKey /\ w # NoKey
    BY <1>2, FreshKey, AbsentAssumption
  <1>5. key'[o] = Fresh(w) /\ origin'[o] = w
    BY <1>3 DEF IInv, TypeOK
  <1>6. \A p \in Keys : p # o => key'[p] = key[p] /\ origin'[p] = origin[p]
    BY <1>3 DEF IInv, TypeOK
  <1>7. Made' = Made \cup {o} /\ o \notin Made
    BY <1>3, <1>4, <1>5, <1>6 DEF Made
  <1>8. TypeOK'
    <2>1. key' \in [Keys -> KeyRecord \cup {NoKey}]
      BY <1>3, <1>4 DEF IInv, TypeOK
    <2>2. origin' \in [Keys -> (Indices \X Ids \X Seeds) \cup {NoKey}]
      BY <1>2, <1>3 DEF IInv, TypeOK
    <2>3. \A p \in Keys : key'[p] = NoKey <=> origin'[p] = NoKey
      BY <1>4, <1>5, <1>6 DEF IInv, TypeOK
    <2> QED  BY <1>3, <1>7, <2>1, <2>2, <2>3 DEF IInv, TypeOK
  <1>9. Spent # Fresh(w)
    BY <1>4, SpentKey
  <1>10. (\A s \in sigs : s.obj \in Made) /\ (\A p \in pubs : p.obj \in Made)
    BY DEF IInv, TypeOK
  <1>11. \A p \in Made : p \in Keys /\ p # o
    BY <1>7 DEF Made
  <1>12. WholeOrSpent'
    BY <1>5, <1>6, <1>7, <1>11 DEF IInv, WholeOrSpent
  <1>13. SignedAsMade'
    BY <1>3, <1>6, <1>10, <1>11 DEF IInv, SignedAsMade
  <1>14. OnePerKey'
    BY <1>3 DEF IInv, OnePerKey
  <1>15. SpentSigned'
    BY <1>3, <1>5, <1>6, <1>7, <1>9, <1>11 DEF IInv, SpentSigned
  <1>16. PublishedAsMade'
    BY <1>3, <1>6, <1>10, <1>11 DEF IInv, PublishedAsMade
  <1> QED  BY <1>8, <1>12, <1>13, <1>14, <1>15, <1>16 DEF IInv

(* A verifying key marked valid is computed from a whole key.               *)
LEMMA PublicStep ==
    ASSUME IInv, NEW o \in Keys, Public(o)
    PROVE  IInv'
  <1>1. PICK new : new = [obj |-> o, pk |-> OtsPublic(Mode, key[o]), valid |-> key[o].valid]
    OBVIOUS
  <1>2. /\ o \in Made /\ pubs' = pubs \cup {new} /\ reply' = "none"
        /\ key' = key /\ origin' = origin /\ sigs' = sigs
    BY <1>1 DEF Public
  <1>3. TypeOK'
    BY <1>1, <1>2 DEF IInv, TypeOK, Made
  <1>4. new.valid => new.pk = OtsPublic(Mode, Fresh(origin[new.obj]))
    BY <1>1, <1>2, HeldKey
  <1>5. PublishedAsMade'
    BY <1>2, <1>4 DEF IInv, PublishedAsMade
  <1>6. WholeOrSpent' /\ SignedAsMade' /\ OnePerKey' /\ SpentSigned'
    BY <1>2 DEF IInv, WholeOrSpent, SignedAsMade, OnePerKey, SpentSigned, Made
  <1> QED  BY <1>3, <1>5, <1>6 DEF IInv

(* A signature is made with the whole key, the first one of its object, and *)
(* leaves zeros.                                                            *)
LEMMA SignStep ==
    ASSUME IInv, NEW o \in Keys, NEW c \in Randomizers, NEW msg \in Messages,
           Sign(o, c, msg)
    PROVE  IInv'
  <1>1. PICK new : new = [obj |-> o, msg |-> msg, sig |-> OtsSign(Mode, key[o], c, msg)]
    OBVIOUS
  <1>2. /\ o \in Made /\ key[o].valid /\ sigs' = sigs \cup {new}
        /\ key' = [key EXCEPT ![o] = Spent]
        /\ reply' = "signed" /\ origin' = origin /\ pubs' = pubs
    BY <1>1, SpentKey DEF Sign
  <1>3. key[o] = Fresh(origin[o]) /\ key[o] # Spent /\ origin[o] \in Indices \X Ids \X Seeds
    BY <1>2, HeldKey
  <1>4. new.obj = o /\ new.msg = msg /\ new.sig = OtsSign(Mode, Fresh(origin[o]), c, msg)
    BY <1>1, <1>3
  <1>5. key'[o] = Spent /\ \A p \in Keys : p # o => key'[p] = key[p]
    BY <1>2 DEF IInv, TypeOK
  <1>6. Made' = Made
    BY <1>2, <1>5, SpentKey DEF Made
  <1>7. TypeOK'
    <2>1. key' \in [Keys -> KeyRecord \cup {NoKey}]
      BY <1>2, SpentKey DEF IInv, TypeOK
    <2>2. \A p \in Keys : key'[p] = NoKey <=> origin'[p] = NoKey
      BY <1>2, <1>5, SpentKey DEF IInv, TypeOK, Made
    <2>3. \A s \in sigs' : s.obj \in Made' /\ s.msg \in Messages
      BY <1>2, <1>4, <1>6 DEF IInv, TypeOK
    <2> QED  BY <1>2, <1>6, <2>1, <2>2, <2>3 DEF IInv, TypeOK
  <1>8. \A s \in sigs : s.obj \in Made /\ s.obj # o
    BY <1>3 DEF IInv, TypeOK, SignedAsMade
  <1>9. \A p \in Made : p \in Keys
    BY DEF Made
  <1>10. WholeOrSpent'
    BY <1>2, <1>5, <1>6, <1>9 DEF IInv, WholeOrSpent
  <1>11. SignedAsMade'
    <2>1. ASSUME NEW s \in sigs
          PROVE  /\ key'[s.obj] = Spent
                 /\ \E d \in Randomizers : s.sig = OtsSign(Mode, Fresh(origin'[s.obj]), d, s.msg)
      BY <1>2, <1>5, <1>8, <1>9 DEF IInv, SignedAsMade
    <2>2. /\ key'[new.obj] = Spent
          /\ \E d \in Randomizers : new.sig = OtsSign(Mode, Fresh(origin'[new.obj]), d, new.msg)
      BY <1>2, <1>4, <1>5
    <2> QED  BY <1>2, <2>1, <2>2 DEF SignedAsMade
  <1>12. OnePerKey'
    BY <1>2, <1>4, <1>8 DEF IInv, OnePerKey
  <1>13. SpentSigned'
    BY <1>2, <1>4, <1>5, <1>6, <1>9 DEF IInv, SpentSigned
  <1>14. PublishedAsMade'
    BY <1>2 DEF IInv, PublishedAsMade
  <1> QED  BY <1>7, <1>10, <1>11, <1>12, <1>13, <1>14 DEF IInv

(* Calls that end without a signature change nothing but the reply.         *)
LEMMA RefusedStep ==
    ASSUME IInv, NEW o \in Keys, SignRefused(o) \/ SignInterrupted(o)
    PROVE  IInv'
  <1>1. /\ key' = key /\ origin' = origin /\ pubs' = pubs /\ sigs' = sigs
        /\ reply' \in {"refused", "failed"}
    BY DEF SignRefused, SignInterrupted
  <1> QED  BY <1>1 DEF IInv, TypeOK, WholeOrSpent, SignedAsMade, OnePerKey, SpentSigned,
                       PublishedAsMade, Made

(* The invariant reads nothing but the variables.                          *)
LEMMA StutterStep == IInv /\ UNCHANGED vars => IInv'
  BY DEF vars, IInv, TypeOK, WholeOrSpent, SignedAsMade, OnePerKey, SpentSigned,
         PublishedAsMade, Made

(* Every call keeps the invariant.                                         *)
LEMMA NextIInv == IInv /\ [Next]_vars => IInv'
  <1>1. ASSUME IInv, Next PROVE IInv'
    BY <1>1, NewFromSeedStep, PublicStep, SignStep, RefusedStep DEF Next
  <1> QED  BY <1>1, StutterStep

(* IInv holds in every state of every behaviour.                            *)
THEOREM Inductive == Spec => []IInv
  BY InitIInv, NextIInv, PTL DEF Spec

(* Every object is unmade or a key of its origin, whole or zeroed.          *)
THEOREM TypeCorrect == Spec => []TypeOK
  BY Inductive, PTL DEF IInv

(* A key signs at most one message, and once it has, its memory is all      *)
(* zeros whatever it was made from (private.rs:140-144).                    *)
THEOREM OneTimeUseCorrect == Spec => []OneTimeUse
  <1>1. ASSUME IInv, NEW o \in Made
        PROVE  LET mine == {s \in sigs : s.obj = o}
               IN  /\ Cardinality(mine) = IF key[o].valid THEN 0 ELSE 1
                   /\ mine # {} => key[o] = Spent
    <2> DEFINE mine == {s \in sigs : s.obj = o}
    <2>1. /\ key[o].valid => key[o] = Fresh(origin[o])
          /\ ~key[o].valid => key[o] = Spent
          /\ Fresh(origin[o]) # Spent
      BY <1>1, HeldKey
    <2>2. mine # {} => key[o] = Spent
      BY <1>1 DEF IInv, SignedAsMade
    <2>3. CASE key[o].valid
      <3>1. mine = {}
        BY <2>1, <2>2, <2>3
      <3>2. Cardinality({}) = 0
        BY FS_EmptySet
      <3> HIDE DEF mine
      <3> QED  BY <2>2, <2>3, <3>1, <3>2 DEF mine
    <2>4. CASE ~key[o].valid
      <3>1. PICK s \in sigs : s.obj = o
        BY <1>1, <2>1, <2>4 DEF IInv, SpentSigned
      <3>2. mine = {s}
        BY <1>1, <3>1 DEF IInv, OnePerKey
      <3>3. Cardinality({s}) = 1
        BY FS_Singleton
      <3> HIDE DEF mine
      <3> QED  BY <2>2, <2>4, <3>2, <3>3 DEF mine
    <2> QED  BY <2>3, <2>4
  <1>2. IInv => OneTimeUse
    BY <1>1 DEF OneTimeUse, Spent
  <1> QED  BY <1>2, Inductive, PTL

(* A verifying key taken in time accepts exactly the signatures of the keys *)
(* made from the same q, id and seed, each on its own message.              *)
THEOREM PublishedKeyCorrect == Spec => []PublishedKeyVerifies
  <1>1. ASSUME IInv, NEW p \in {r \in pubs : r.valid}, NEW s \in sigs, NEW msg \in Messages
        PROVE  OtsVerify(Mode, p.pk, msg, s.sig)
                  <=> msg = s.msg /\ origin[p.obj] = origin[s.obj]
    <2>1. /\ p.obj \in Made /\ s.obj \in Made /\ s.msg \in Messages
          /\ p.pk = OtsPublic(Mode, Fresh(origin[p.obj]))
      BY <1>1 DEF IInv, TypeOK, PublishedAsMade
    <2>2. PICK c \in Randomizers : s.sig = OtsSign(Mode, Fresh(origin[s.obj]), c, s.msg)
      BY <1>1 DEF IInv, SignedAsMade
    <2>3. /\ origin[p.obj] \in Indices \X Ids \X Seeds
          /\ origin[s.obj] \in Indices \X Ids \X Seeds
      BY <1>1, <2>1, HeldKey
    <2>4. PICK q \in Indices, id \in Ids, seed \in Seeds : origin[p.obj] = <<q, id, seed>>
      BY <2>3
    <2>5. PICK q2 \in Indices, id2 \in Ids, seed2 \in Seeds : origin[s.obj] = <<q2, id2, seed2>>
      BY <2>3
    <2>6. /\ p.pk = OtsPublic(Mode, OtsNewFromSeed(Mode, q, id, seed))
          /\ s.sig = OtsSign(Mode, OtsNewFromSeed(Mode, q2, id2, seed2), c, s.msg)
      BY <2>1, <2>2, <2>4, <2>5 DEF Fresh
    <2>7. p.pk.id = id /\ p.pk.q = q
      BY <2>6 DEF OtsPublic, OtsNewFromSeed
    <2>8. /\ IsHash(Mode, MessageHash(id, q, c, msg))
          /\ IsHash(Mode, MessageHash(id2, q2, c, s.msg))
      BY <2>1, DigestHash
    <2>9. OtsVerify(Mode, p.pk, msg, s.sig)
             <=> /\ id = id2 /\ q = q2 /\ seed = seed2
                 /\ MessageHash(id, q, c, msg) = MessageHash(id2, q2, c, s.msg)
      <3>1. OtsVerify(Mode, p.pk, msg, s.sig)
               <=> RecoverPubkey(Mode, s.sig, id, q, msg).k = p.pk.k
        BY <2>7 DEF OtsVerify
      <3> QED  BY <2>6, <2>8, <3>1, KeyRecovered, ModeAssumption
    <2>10. MessageHash(id, q, c, msg) = MessageHash(id, q, c, s.msg) => msg = s.msg
      BY <2>1, DigestAssumption
    <2>11. origin[p.obj] = origin[s.obj] <=> id = id2 /\ q = q2 /\ seed = seed2
      BY <2>4, <2>5
    <2> QED  BY <2>9, <2>10, <2>11
  <1>2. IInv => PublishedKeyVerifies
    BY <1>1 DEF PublishedKeyVerifies
  <1> QED  BY <1>2, Inductive, PTL
-----------------------------------------------------------------------------
(* The refinement: an LM-OTS key is a pool of one one-time index.           *)
Used == [o \in Keys |-> {<<0, s.msg>> : s \in {t \in sigs : t.obj = o}}]

(* The pool starts with nothing answered.                                  *)
LEMMA PoolInit == Init => Pool!Init
  BY DEF Init, Pool!Init

(* The pool of an object that has signed has used its one index.           *)
LEMMA UsedIndices ==
    ASSUME NEW o \in Keys
    PROVE  Pool!Used(o) = IF \E s \in sigs : s.obj = o THEN {0} ELSE {}
  <1> DEFINE mine  == {s \in sigs : s.obj = o}
             pairs == {<<0, s.msg>> : s \in mine}
  <1>1. Pool!Used(o) = {p[1] : p \in pairs}
    BY DEF Pool!Used
  <1>2. \A p \in pairs : p[1] = 0
    OBVIOUS
  <1>3. pairs # {} <=> \E s \in sigs : s.obj = o
    OBVIOUS
  <1> HIDE DEF pairs
  <1> QED  BY <1>1, <1>2, <1>3

(* A signature spends the one index of an object that has not signed.       *)
LEMMA SignIssues ==
    ASSUME IInv, NEW o \in Keys, NEW c \in Randomizers, NEW msg \in Messages,
           Sign(o, c, msg)
    PROVE  Pool!Issue(o, 0, msg) /\ 0 \in Pool!Index
  <1>1. PICK new : new = [obj |-> o, msg |-> msg, sig |-> OtsSign(Mode, key[o], c, msg)]
    OBVIOUS
  <1>2. o \in Made /\ key[o].valid /\ sigs' = sigs \cup {new} /\ reply' = "signed"
    BY <1>1 DEF Sign
  <1>3. new.obj = o /\ new.msg = msg
    BY <1>1
  <1>4. \A s \in sigs : s.obj # o
    BY <1>2, HeldKey DEF IInv, SignedAsMade
  <1>5. 0 \notin Pool!Used(o)
    BY <1>4, UsedIndices
  <1>6. Used' = [Used EXCEPT ![o] = @ \cup {<<0, msg>>}]
    <2>1. Used'[o] = Used[o] \cup {<<0, msg>>}
      BY <1>2, <1>3 DEF Used
    <2>2. \A p \in Keys : p # o => Used'[p] = Used[p]
      BY <1>2, <1>3 DEF Used
    <2> QED  BY <2>1, <2>2 DEF Used
  <1> QED  BY <1>2, <1>5, <1>6 DEF Pool!Issue, Pool!Index, Used

(* Only a key that has signed is refused.                                   *)
LEMMA RefusalRefuses ==
    ASSUME IInv, NEW o \in Keys, SignRefused(o)
    PROVE  Pool!Refuse(o)
  <1>1. o \in Made /\ ~key[o].valid /\ reply' = "refused" /\ sigs' = sigs
    BY DEF SignRefused
  <1>2. \E s \in sigs : s.obj = o
    BY <1>1, HeldKey DEF IInv, SpentSigned
  <1>3. Pool!Used(o) = {0}
    BY <1>2, UsedIndices
  <1>4. Pool!Index = {0}
    BY DEF Pool!Index
  <1> QED  BY <1>1, <1>3, <1>4 DEF Pool!Refuse

(* Every call is a call of the pool or leaves it alone.                    *)
LEMMA PoolNext == IInv /\ [Next]_vars => [Pool!Next]_(Pool!vars)
  <1>1. ASSUME IInv, Next PROVE Pool!Next
    <2>1. PICK o \in Keys :
              \/ \E q \in Indices, id \in Ids, seed \in Seeds : NewFromSeed(o, q, id, seed)
              \/ Public(o)
              \/ \E c \in Randomizers, msg \in Messages : Sign(o, c, msg)
              \/ SignRefused(o)
              \/ SignInterrupted(o)
      BY <1>1 DEF Next
    <2>2. ASSUME NEW c \in Randomizers, NEW msg \in Messages, Sign(o, c, msg)
          PROVE  Pool!Next
      BY <1>1, <2>2, SignIssues DEF Pool!Next
    <2>3. ASSUME SignRefused(o) PROVE Pool!Next
      BY <1>1, <2>3, RefusalRefuses DEF Pool!Next
    <2>4. ASSUME \/ \E q \in Indices, id \in Ids, seed \in Seeds : NewFromSeed(o, q, id, seed)
                 \/ Public(o)
                 \/ SignInterrupted(o)
          PROVE  Pool!Next
      <3>1. sigs' = sigs /\ reply' \in {"none", "failed"}
        BY <2>4 DEF NewFromSeed, Public, SignInterrupted
      <3> QED  BY <3>1 DEF Pool!Next, Pool!Fail, Pool!Other
    <2> QED  BY <2>1, <2>2, <2>3, <2>4
  <1>2. UNCHANGED vars => UNCHANGED Pool!vars
    BY DEF vars, Pool!vars
  <1> QED  BY <1>1, <1>2

(* LM-OTS implements the pool of one-time indices with one index: it is     *)
(* spent at most once and a request is refused only when it is spent.       *)
THEOREM PoolRefinement == Spec => ImplementsPool
  <1>1. Spec => Pool!Init /\ [][Pool!Next]_(Pool!vars)
    BY PoolInit, PoolNext, Inductive, PTL DEF Spec
  <1> QED  BY <1>1 DEF ImplementsPool, Pool!Spec
=============================================================================
