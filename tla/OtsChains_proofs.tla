-------------------------- MODULE OtsChains_proofs --------------------------
(***************************************************************************)
(* Lemmas about the LM-OTS computations: what the Winternitz encoding of a  *)
(* message hash is, what walking a chain does, and when the public key      *)
(* recovered from a signature is the one its chains were meant to end in.   *)
(***************************************************************************)
EXTENDS OtsChains, BasicFacts, SequenceTheorems

(* The windows and what the arithmetic of fields needs of them.             *)
LEMMA Windows ==
    ASSUME NEW w \in {1, 2, 4, 8}
    PROVE  /\ w \in Nat \ {0} /\ 8 \div w \in Nat \ {0} /\ (8 \div w) * w = 8
           /\ 2 ^ w \in Nat \ {0} /\ 2 ^ w - 1 \in 1 .. 255
  <1>1. CASE w = 1
    BY <1>1
  <1>2. CASE w = 2
    BY <1>2
  <1>3. CASE w = 4
    BY <1>3
  <1>4. CASE w = 8
    BY <1>4
  <1> QED  BY <1>1, <1>2, <1>3, <1>4

(* A byte is what its fields say: from the top field down, the fields so    *)
(* far are the byte shifted.                                                *)
LEMMA FieldsOfByte ==
    ASSUME NEW w \in {1, 2, 4, 8}, NEW x \in Byte, NEW y \in Byte,
           \A i \in 0 .. 8 \div w - 1 :
               (x \div 2 ^ (8 - w - i * w)) % 2 ^ w = (y \div 2 ^ (8 - w - i * w)) % 2 ^ w
    PROVE  x = y
  <1> DEFINE n == 8 \div w
             S == {i \in 0 .. n : x \div 2 ^ (8 - i * w) = y \div 2 ^ (8 - i * w)}
  <1>1. x \in Nat /\ y \in Nat /\ x \div 256 = 0 /\ y \div 256 = 0
    BY DEF Byte
  <1>2. n \in Nat /\ w \in Nat /\ n * w = 8
    BY Windows
  <1>3. 0 \in S
    <2>1. 8 - 0 * w = 8 /\ 2 ^ 8 = 256 /\ 0 \in 0 .. n
      BY <1>2
    <2> HIDE DEF n
    <2>2. x \div 2 ^ (8 - 0 * w) = 0 /\ y \div 2 ^ (8 - 0 * w) = 0
      BY <1>1, <2>1
    <2> QED  BY <2>1, <2>2
  <1>4. ASSUME NEW i \in 0 .. n - 1, i \in S
        PROVE  i + 1 \in S
    <2>1. PICK e : e = 8 - (i + 1) * w
      OBVIOUS
    <2>2. e \in Nat /\ 8 - i * w = e + w /\ 8 - w - i * w = e
      BY <2>1
    <2>3. PICK u, v : u = x \div 2 ^ e /\ v = y \div 2 ^ e
      OBVIOUS
    <2>4. u \in Nat /\ v \in Nat /\ 2 ^ w \in Nat \ {0}
      BY <1>1, <1>2, <2>2, <2>3, ShiftIsNat, PowerIsNat
    <2>5. u % 2 ^ w = v % 2 ^ w
      BY <2>2, <2>3
    <2>6. u \div 2 ^ w = v \div 2 ^ w
      <3>1. x \div 2 ^ (e + w) = u \div 2 ^ w /\ y \div 2 ^ (e + w) = v \div 2 ^ w
        <4>1. \A m \in Nat : m \div 2 ^ (e + w) = (m \div 2 ^ e) \div 2 ^ w
          <5>1. w \in Nat /\ e \in Nat
            BY <1>2, <2>2
          <5>2. ASSUME NEW m \in Nat PROVE m \div 2 ^ (e + w) = (m \div 2 ^ e) \div 2 ^ w
            BY ONLY <5>1, m \in Nat, ShiftAdd, Zenon
          <5> QED  BY <5>2, Zenon
        <4> QED  BY <1>1, <2>3, <4>1
      <3> QED  BY <1>4, <2>2, <3>1
    <2>7. u = v
      BY <2>4, <2>5, <2>6, QuotientRemainder
    <2> QED  BY <1>2, <2>1, <2>3, <2>7
  <1>5. n \in S
    <2> HIDE DEF S, n
    <2>1. 0 .. n \subseteq S
      BY <1>2, <1>3, <1>4, IntervalInduction
    <2> QED  BY <1>2, <2>1
  <1>6. 8 - n * w = 0 /\ x \div 2 ^ 0 = x /\ y \div 2 ^ 0 = y
    BY <1>1, <1>2, ShiftIsNat
  <1> QED  BY <1>5, <1>6

(* Splitting a position into a block and a place in it.                     *)
LEMMA Blocks ==
    ASSUME NEW n \in Nat \ {0}, NEW L \in Nat
    PROVE  /\ \A c \in 0 .. n * L - 1 : c \div n \in 0 .. L - 1 /\ c % n \in 0 .. n - 1
           /\ \A j \in 0 .. L - 1, i \in 0 .. n - 1 :
                 /\ n * j + i \in 0 .. n * L - 1
                 /\ (n * j + i) \div n = j
                 /\ (n * j + i) % n = i
  <1>1. ASSUME NEW c \in 0 .. n * L - 1
        PROVE  c \div n \in 0 .. L - 1 /\ c % n \in 0 .. n - 1
    <2>1. c \in Nat /\ c < n * L
      OBVIOUS
    <2>2. PICK d \in Nat, e \in 0 .. n - 1 : c = n * d + e /\ d = c \div n /\ e = c % n
      <3>1. c \div n \in Nat /\ c % n \in 0 .. n - 1 /\ c = n * (c \div n) + (c % n)
        BY <2>1
      <3> QED  BY <3>1
    <2>3. d < L
      <3> SUFFICES ASSUME d >= L  PROVE FALSE
        BY <2>2
      <3>1. n * d >= n * L
        OBVIOUS
      <3> QED  BY <2>1, <2>2, <3>1
    <2> QED  BY <2>2, <2>3
  <1>2. ASSUME NEW j \in 0 .. L - 1, NEW i \in 0 .. n - 1
        PROVE  /\ n * j + i \in 0 .. n * L - 1
               /\ (n * j + i) \div n = j
               /\ (n * j + i) % n = i
    <2>1. n * j + i \in Nat /\ n * j + i < n * j + n
      OBVIOUS
    <2>2. n * j + n = n * (j + 1) /\ n * (j + 1) <= n * L
      OBVIOUS
    <2> QED  BY <2>1, <2>2
  <1> QED  BY <1>1, <1>2

(* coefs lists the fields of the bytes, byte by byte, top field first.      *)
LEMMA CoefsFields ==
    ASSUME NEW w \in {1, 2, 4, 8}, NEW bytes \in Seq(Byte)
    PROVE  LET n == 8 \div w
           IN  /\ coefs(bytes, w) \in Seq(0 .. 2 ^ w - 1)
               /\ Len(coefs(bytes, w)) = n * Len(bytes)
               /\ \A j \in 1 .. Len(bytes), i \in 0 .. n - 1 :
                     /\ n * (j - 1) + i + 1 \in 1 .. n * Len(bytes)
                     /\ coefs(bytes, w)[n * (j - 1) + i + 1]
                           = (bytes[j] \div 2 ^ (8 - w - i * w)) % 2 ^ w
  <1> DEFINE n == 8 \div w
             L == Len(bytes)
             field(k) == (bytes[(k - 1) \div n + 1] \div 2 ^ (8 - w - ((k - 1) % n) * w)) % 2 ^ w
             c == [k \in 1 .. n * L |-> field(k)]
  <1>1. coefs(bytes, w) = c
    BY DEF coefs
  <1>a. n \in Nat \ {0} /\ w \in Nat /\ n * w = 8 /\ 2 ^ w \in Nat \ {0}
    <2>1. w \in Nat \ {0} /\ n \in Nat \ {0}
      BY Windows
    <2>2. n * w = 8
      BY Windows
    <2>3. 2 ^ w \in Nat \ {0}
      BY <2>1, PowerIsNat
    <2> QED  BY <2>1, <2>2, <2>3
  <1>b. L \in Nat
    OBVIOUS
  <1> HIDE DEF n, L
  <1>2. n \in Nat \ {0} /\ w \in Nat /\ n * w = 8 /\ L \in Nat /\ n * L \in Nat /\ 2 ^ w \in Nat \ {0}
    BY <1>a, <1>b
  <1>3. ASSUME NEW k \in 1 .. n * L
        PROVE  field(k) \in 0 .. 2 ^ w - 1
    <2>1. PICK j, i : j = (k - 1) \div n /\ i = (k - 1) % n
      OBVIOUS
    <2>2. j \in 0 .. L - 1 /\ i \in 0 .. n - 1
      <3>1. k - 1 \in 0 .. n * L - 1
        BY <1>2
      <3> QED  BY <1>2, <2>1, <3>1, Blocks
    <2>3. bytes[j + 1] \in Nat
      <3>1. j + 1 \in 1 .. Len(bytes)
        BY <1>2, <2>2 DEF L
      <3>2. bytes[j + 1] \in Byte
        BY <3>1
      <3>3. \A v \in Byte : v \in Nat
        BY DEF Byte
      <3> QED  BY <3>2, <3>3, Zenon
    <2>4. 8 - w - i * w \in Nat
      <3>1. (n - 1) * w >= i * w
        BY <1>2, <2>2
      <3>2. (n - 1) * w = n * w - w
        BY <1>2
      <3>3. i * w \in Nat
        BY <1>2, <2>2
      <3> QED  BY <1>2, <3>1, <3>2, <3>3
    <2>5. bytes[j + 1] \div 2 ^ (8 - w - i * w) \in Nat
      BY <2>3, <2>4, ShiftIsNat
    <2>6. \A u \in Nat : u % 2 ^ w \in 0 .. 2 ^ w - 1
      BY <1>2
    <2> QED  BY <2>1, <2>5, <2>6
  <1>4. c \in Seq(0 .. 2 ^ w - 1) /\ Len(c) = n * L
    <2>1. c \in [1 .. n * L -> 0 .. 2 ^ w - 1]
      BY <1>3
    <2> HIDE DEF c
    <2> QED  BY <1>2, <2>1
  <1>5. ASSUME NEW j \in 1 .. L, NEW i \in 0 .. n - 1
        PROVE  /\ n * (j - 1) + i + 1 \in 1 .. n * L
               /\ c[n * (j - 1) + i + 1] = (bytes[j] \div 2 ^ (8 - w - i * w)) % 2 ^ w
    <2>1. PICK k : k = n * (j - 1) + i + 1
      OBVIOUS
    <2>2. j - 1 \in 0 .. L - 1
      BY <1>2
    <2>3. /\ n * (j - 1) + i \in 0 .. n * L - 1
          /\ (n * (j - 1) + i) \div n = j - 1 /\ (n * (j - 1) + i) % n = i
      <3>1. \A jj \in 0 .. L - 1, ii \in 0 .. n - 1 :
               /\ n * jj + ii \in 0 .. n * L - 1
               /\ (n * jj + ii) \div n = jj
               /\ (n * jj + ii) % n = ii
        BY <1>2, Blocks
      <3> QED  BY <2>2, <3>1
    <2>4. k - 1 = n * (j - 1) + i /\ k \in 1 .. n * L
      BY <1>2, <2>1, <2>2, <2>3
    <2>5. (k - 1) \div n + 1 = j /\ (k - 1) % n = i
      BY <2>3, <2>4
    <2>6. c[k] = field(k)
      BY <2>4
    <2> HIDE DEF c
    <2>7. field(k) = (bytes[j] \div 2 ^ (8 - w - i * w)) % 2 ^ w
      BY <2>5, Zenon
    <2> QED  BY <2>1, <2>4, <2>6, <2>7
  <1> HIDE DEF c
  <1> QED  BY <1>1, <1>4, <1>5 DEF n, L

(* Byte strings with the same fields are the same.                          *)
LEMMA CoefsInjective ==
    ASSUME NEW w \in {1, 2, 4, 8}, NEW s \in Seq(Byte), NEW t \in Seq(Byte),
           Len(s) = Len(t), coefs(s, w) = coefs(t, w)
    PROVE  s = t
  <1> DEFINE n == 8 \div w
  <1>1. ASSUME NEW j \in 1 .. Len(s)
        PROVE  s[j] = t[j]
    <2>1. s[j] \in Byte /\ t[j] \in Byte
      OBVIOUS
    <2>2. ASSUME NEW i \in 0 .. n - 1
          PROVE  (s[j] \div 2 ^ (8 - w - i * w)) % 2 ^ w = (t[j] \div 2 ^ (8 - w - i * w)) % 2 ^ w
      <3> HIDE DEF n
      <3>1. coefs(s, w)[n * (j - 1) + i + 1] = (s[j] \div 2 ^ (8 - w - i * w)) % 2 ^ w
        BY CoefsFields, ZenonT(40) DEF n
      <3>2. coefs(t, w)[n * (j - 1) + i + 1] = (t[j] \div 2 ^ (8 - w - i * w)) % 2 ^ w
        BY CoefsFields, ZenonT(40) DEF n
      <3> QED  BY <3>1, <3>2
    <2> QED  BY <2>1, <2>2, FieldsOfByte, ZenonT(40)
  <1> QED  BY <1>1

(* The number of bits.                                                      *)
LEMMA Ilog2Bits ==
    ASSUME NEW n \in Nat \ {0}
    PROVE  Ilog2(n) \in Nat /\ 2 ^ Ilog2(n) <= n /\ n < 2 ^ (Ilog2(n) + 1)
  <1>1. n < 2 * 2 ^ n
    <2>1. n < 2 ^ n /\ 2 ^ n \in Nat
      BY BelowPower, PowerIsNat
    <2> QED  BY <2>1
  <1>2. PICK l \in 0 .. n : 2 ^ (n - l) <= n /\ n < 2 * 2 ^ (n - l)
    <2>1. n \in Nat /\ 1 <= n
      OBVIOUS
    <2> QED  BY <1>1, <2>1, SomeLevel
  <1>3. n - l \in 0 .. n /\ 2 ^ ((n - l) + 1) = 2 * 2 ^ (n - l)
    <2>1. n - l \in Nat /\ n - l \in 0 .. n
      OBVIOUS
    <2> QED  BY <2>1, PowerStep
  <1>4. \E k \in 0 .. n : 2 ^ k <= n /\ n < 2 ^ (k + 1)
    BY <1>2, <1>3
  <1>5. Ilog2(n) \in 0 .. n /\ 2 ^ Ilog2(n) <= n /\ n < 2 ^ (Ilog2(n) + 1)
    BY <1>4 DEF Ilog2
  <1> QED  BY <1>5

(* The numbers of a mode: U chunks make the hash, V make room for the sum   *)
(* of any U negated chunks.                                                 *)
LEMMA ModeShape ==
    ASSUME NEW m, ValidMode(m)
    PROVE  /\ U(m) = (8 \div m.W) * m.N /\ U(m) \in Nat \ {0}
           /\ Top(m) \in 1 .. 255
           /\ V(m) \in Nat \ {0} /\ P(m) = U(m) + V(m) /\ P(m) \in Nat \ {0}
           /\ LS(m) \in Nat /\ V(m) * m.W + LS(m) = 16
           /\ Top(m) * U(m) \in Nat /\ Top(m) * U(m) < 2 ^ (V(m) * m.W)
  <1>1. m.N \in Nat \ {0} /\ m.W \in {1, 2, 4, 8} /\ m.W \in Nat \ {0} /\ V(m) * m.W <= 16
    BY DEF ValidMode
  <1>2. U(m) = (8 \div m.W) * m.N
    <2>1. CASE m.W = 1
      BY <1>1, <2>1 DEF U
    <2>2. CASE m.W = 2
      BY <1>1, <2>2 DEF U
    <2>3. CASE m.W = 4
      BY <1>1, <2>3 DEF U
    <2>4. CASE m.W = 8
      BY <1>1, <2>4 DEF U
    <2> QED  BY <1>1, <2>1, <2>2, <2>3, <2>4
  <1>3. U(m) \in Nat \ {0}
    <2>1. 8 \div m.W \in Nat \ {0}
      BY <1>1, Windows
    <2> QED  BY <1>1, <1>2, <2>1
  <1>4. Top(m) \in 1 .. 255
    BY <1>1, Windows DEF Top
  <1>5. PICK x : x = Top(m) * U(m)
    OBVIOUS
  <1>6. x \in Nat \ {0}
    <2>1. \A t \in 1 .. 255, u \in Nat \ {0} : t * u \in Nat \ {0}
      OBVIOUS
    <2> QED  BY <1>3, <1>4, <1>5, <2>1
  <1>7. PICK k : k = Ilog2(x)
    OBVIOUS
  <1>8. k \in Nat /\ x < 2 ^ (k + 1)
    BY <1>6, <1>7, Ilog2Bits
  <1>9. V(m) = k \div m.W + 1
    BY <1>5, <1>7 DEF V
  <1>10. V(m) \in Nat \ {0} /\ V(m) * m.W >= k + 1
    <2>1. CASE m.W = 1
      BY <1>8, <1>9, <2>1
    <2>2. CASE m.W = 2
      BY <1>8, <1>9, <2>2
    <2>3. CASE m.W = 4
      BY <1>8, <1>9, <2>3
    <2>4. CASE m.W = 8
      BY <1>8, <1>9, <2>4
    <2> QED  BY <1>1, <2>1, <2>2, <2>3, <2>4
  <1>11. P(m) = U(m) + V(m) /\ P(m) \in Nat \ {0}
    BY <1>3, <1>10 DEF P
  <1>12. V(m) * m.W \in Nat
    BY <1>1, <1>10
  <1>13. LS(m) \in Nat /\ V(m) * m.W + LS(m) = 16
    BY <1>1, <1>12 DEF LS
  <1>14. x < 2 ^ (V(m) * m.W)
    <2>1. 2 ^ (k + 1) <= 2 ^ (V(m) * m.W)
      <3>1. k + 1 \in Nat
        BY <1>8
      <3> QED  BY <3>1, <1>10, <1>12, PowerMonotone
    <2>2. 2 ^ (k + 1) \in Nat /\ 2 ^ (V(m) * m.W) \in Nat
      <3>1. k + 1 \in Nat
        BY <1>8
      <3> QED  BY <3>1, <1>12, PowerIsNat
    <2> QED  BY <1>6, <1>8, <2>1, <2>2
  <1> QED  BY <1>2, <1>3, <1>4, <1>5, <1>6, <1>10, <1>11, <1>13, <1>14

(* The sum of the first n negated chunks of s, as a number of any size.     *)
IsChunkTotal(f, m, s, n) ==
    f = [i \in 0 .. n |-> IF i = 0 THEN 0 ELSE f[i - 1] + Top(m) - s[i]]

ChunkTotal(m, s, n) == CHOOSE f : IsChunkTotal(f, m, s, n)

(* The running sum of the checksum: each coefficient adds what it lacks    *)
(* to the largest.                                                         *)
LEMMA ChunkTotals ==
    ASSUME NEW m, ValidMode(m), NEW n \in Nat, NEW s,
           \A i \in 1 .. n : s[i] \in 0 .. Top(m)
    PROVE  LET f == ChunkTotal(m, s, n)
           IN  /\ IsChunkTotal(f, m, s, n)
               /\ f[0] = 0
               /\ \A i \in 1 .. n : f[i] = f[i - 1] + Top(m) - s[i]
               /\ \A i \in 0 .. n : f[i] \in Nat /\ f[i] <= Top(m) * i
  <1> DEFINE Is(f, k) == IsChunkTotal(f, m, s, k)
             S == {k \in 0 .. n : \E f : Is(f, k)}
  <1>1. 0 \in S
    <2>1. 0 .. 0 = {0}
      OBVIOUS
    <2>2. Is([i \in 0 .. 0 |-> 0], 0)
      BY <2>1 DEF IsChunkTotal
    <2> HIDE DEF Is
    <2> QED  BY <2>2
  <1>2. ASSUME NEW k \in 0 .. n - 1, k \in S
        PROVE  k + 1 \in S
    <2>1. PICK f : Is(f, k)
      BY <1>2
    <2> DEFINE g == [i \in 0 .. k + 1 |-> IF i <= k THEN f[i] ELSE f[k] + Top(m) - s[k + 1]]
    <2>2. \A i \in 0 .. k : g[i] = f[i]
      OBVIOUS
    <2>3. ASSUME NEW i \in 0 .. k + 1
          PROVE  g[i] = IF i = 0 THEN 0 ELSE g[i - 1] + Top(m) - s[i]
      <3>1. CASE i <= k
        <4>1. i \in 0 .. k /\ (i # 0 => i - 1 \in 0 .. k)
          BY <3>1
        <4> HIDE DEF g
        <4>2. f[i] = IF i = 0 THEN 0 ELSE f[i - 1] + Top(m) - s[i]
          BY <2>1, <4>1 DEF IsChunkTotal
        <4> QED  BY <2>2, <4>1, <4>2
      <3>2. CASE ~(i <= k)
        <4>1. i = k + 1 /\ i # 0 /\ i - 1 = k /\ k \in 0 .. k
          BY <3>2
        <4>2. g[i] = f[k] + Top(m) - s[k + 1]
          BY <3>2
        <4> HIDE DEF g
        <4> QED  BY <2>2, <4>1, <4>2
      <3> QED  BY <3>1, <3>2
    <2>4. g = [i \in 0 .. k + 1 |-> g[i]]
      OBVIOUS
    <2> HIDE DEF g
    <2>5. Is(g, k + 1)
      BY <2>3, <2>4 DEF IsChunkTotal
    <2> HIDE DEF Is
    <2> QED  BY <2>5
  <1>3. \E f : IsChunkTotal(f, m, s, n)
    <2> HIDE DEF S
    <2>1. 0 .. n \subseteq S
      BY <1>1, <1>2, IntervalInduction
    <2>2. n \in S
      BY <2>1
    <2> QED  BY <2>2 DEF S
  <1> DEFINE f == ChunkTotal(m, s, n)
  <1>4. IsChunkTotal(f, m, s, n)
    BY <1>3 DEF ChunkTotal
  <1> HIDE DEF f
  <1>5. f[0] = 0 /\ \A i \in 1 .. n : f[i] = f[i - 1] + Top(m) - s[i]
    <2>1. 0 \in 0 .. n /\ \A i \in 1 .. n : i \in 0 .. n /\ i # 0
      OBVIOUS
    <2> QED  BY <1>4, <2>1 DEF IsChunkTotal
  <1>6. \A i \in 0 .. n : f[i] \in Nat /\ f[i] <= Top(m) * i
    <2> DEFINE Z == {i \in 0 .. n : f[i] \in Nat /\ f[i] <= Top(m) * i}
    <2>1. Top(m) \in Nat
      BY ModeShape
    <2>2. 0 \in Z
      BY <1>5, <2>1
    <2>3. ASSUME NEW i \in 0 .. n - 1, i \in Z
          PROVE  i + 1 \in Z
      <3>1. i + 1 \in 1 .. n /\ (i + 1) - 1 = i /\ i + 1 \in 0 .. n /\ i \in Nat
        OBVIOUS
      <3>2. s[i + 1] \in 0 .. Top(m) /\ f[i + 1] = f[i] + Top(m) - s[i + 1]
        BY <1>5, <3>1
      <3>3. Top(m) * (i + 1) = Top(m) * i + Top(m) /\ Top(m) * i \in Nat
        BY <2>1, <3>1
      <3> QED  BY <2>1, <2>3, <3>1, <3>2, <3>3
    <2> HIDE DEF Z
    <2>4. 0 .. n \subseteq Z
      BY <2>2, <2>3, IntervalInduction
    <2> QED  BY <2>4 DEF Z
  <1> QED  BY <1>4, <1>5, <1>6 DEF f

(* The u16 sum never wraps around: it is the sum.                           *)
IsChunkSum(f, m, s) ==
    f = [i \in 0 .. Len(s) |-> IF i = 0 THEN 0 ELSE (f[i - 1] + Top(m) - s[i]) % U16]

(* The checksum fits in its V coefficients, so that 16 bits and the left   *)
(* shift lose nothing of it.                                               *)
LEMMA ChunkSumExact ==
    ASSUME NEW m, ValidMode(m), NEW s \in Seq(0 .. Top(m)), Len(s) = U(m)
    PROVE  /\ ChunkSum(m, s) = ChunkTotal(m, s, U(m))[U(m)]
           /\ ChunkSum(m, s) \in Nat
           /\ ChunkSum(m, s) < 2 ^ (V(m) * m.W)
  <1> DEFINE n == U(m)
             g == ChunkTotal(m, s, n)
             h == CHOOSE f : IsChunkSum(f, m, s)
  <1>1. /\ n \in Nat \ {0} /\ Top(m) \in 1 .. 255 /\ V(m) * m.W \in Nat
        /\ V(m) * m.W <= 16 /\ Top(m) * n \in Nat /\ Top(m) * n < 2 ^ (V(m) * m.W)
    <2>1. LS(m) \in Nat /\ V(m) * m.W + LS(m) = 16 /\ V(m) \in Nat /\ m.W \in Nat
      BY ModeShape, SMTT(40) DEF ValidMode
    <2>2. V(m) * m.W \in Nat
      BY <2>1
    <2> QED  BY <2>1, <2>2, ModeShape
  <1>2. \A i \in 1 .. n : s[i] \in 0 .. Top(m)
    <2>1. PICK R : R = 0 .. Top(m)
      OBVIOUS
    <2>2. s \in Seq(R) /\ Len(s) = n
      BY <2>1
    <2> HIDE DEF n
    <2>3. \A i \in 1 .. n : s[i] \in R
      BY <2>2
    <2> QED  BY <2>1, <2>3
  <1>3. /\ g[0] = 0
        /\ \A i \in 1 .. n : g[i] = g[i - 1] + Top(m) - s[i]
        /\ \A i \in 0 .. n : g[i] \in Nat /\ g[i] <= Top(m) * i
        /\ IsChunkTotal(g, m, s, n)
    <2> HIDE DEF n
    <2>1. n \in Nat
      BY <1>1
    <2> QED  BY <1>2, <2>1, ChunkTotals, ZenonT(40)
  <1> HIDE DEF g, n, h
  <1>4. ASSUME NEW i \in 0 .. n
        PROVE  g[i] \in Nat /\ g[i] < 2 ^ (V(m) * m.W) /\ g[i] < U16
    <2>1. 2 ^ (V(m) * m.W) \in Nat /\ 2 ^ (V(m) * m.W) <= 2 ^ 16
      BY <1>1, PowerIsNat, PowerMonotone
    <2>2. U16 = 65536 /\ 2 ^ 16 = 65536
      BY DEF U16
    <2>3. Top(m) * i <= Top(m) * n /\ Top(m) * i \in Nat
      <3>1. \A t, u \in Nat : \A j \in 0 .. u : t * j <= t * u /\ t * j \in Nat
        OBVIOUS
      <3>2. Top(m) \in Nat /\ n \in Nat
        <4>1. \A t \in 1 .. 255 : t \in Nat
          OBVIOUS
        <4> QED  BY <1>1, <4>1, Zenon
      <3> QED  BY <3>1, <3>2
    <2>4. g[i] \in Nat /\ g[i] <= Top(m) * i
      BY <1>3
    <2> QED  BY <1>1, <2>1, <2>2, <2>3, <2>4, Z3
  <1>5. \A i \in 1 .. n : (g[i - 1] + Top(m) - s[i]) % U16 = g[i]
    <2> SUFFICES ASSUME NEW i \in 1 .. n
                 PROVE  (g[i - 1] + Top(m) - s[i]) % U16 = g[i]
      OBVIOUS
    <2>1. g[i - 1] + Top(m) - s[i] = g[i]
      BY <1>3
    <2>2. g[i] \in Nat /\ g[i] < 65536
      <3>1. i \in 0 .. n
        OBVIOUS
      <3>2. U16 = 65536
        BY DEF U16
      <3> QED  BY <1>4, <3>1, <3>2
    <2>3. g[i] % 65536 = g[i]
      BY <2>2
    <2> QED  BY <2>1, <2>3 DEF U16
  <1>6. IsChunkSum(g, m, s)
    <2>1. Len(s) = n
      BY DEF n
    <2>2. g = [i \in 0 .. n |-> g[i]]
      BY <1>3 DEF IsChunkTotal
    <2>3. \A i \in 0 .. n : g[i] = IF i = 0 THEN 0 ELSE (g[i - 1] + Top(m) - s[i]) % U16
      <3>1. \A i \in 0 .. n : i # 0 => i \in 1 .. n
        BY <1>1
      <3> QED  BY <1>3, <1>5, <3>1
    <2> QED  BY <2>1, <2>2, <2>3 DEF IsChunkSum
  <1>7. IsChunkSum(h, m, s)
    BY <1>6 DEF h
  <1>8. h[n] = g[n]
    <2> DEFINE Z == {i \in 0 .. n : h[i] = g[i]}
    <2>1. h = [i \in 0 .. n |-> IF i = 0 THEN 0 ELSE (h[i - 1] + Top(m) - s[i]) % U16]
      BY <1>7 DEF IsChunkSum, n
    <2>2. 0 \in Z
      <3>1. 0 \in 0 .. n
        BY <1>1
      <3> QED  BY <1>3, <2>1, <3>1
    <2>3. ASSUME NEW i \in 0 .. n - 1, i \in Z
          PROVE  i + 1 \in Z
      <3>1. i + 1 \in 0 .. n /\ i + 1 # 0 /\ (i + 1) - 1 = i /\ i + 1 \in 1 .. n
        BY <1>1
      <3>2. h[i + 1] = (h[i] + Top(m) - s[i + 1]) % U16
        BY <2>1, <3>1
      <3>3. g[i + 1] = (g[i] + Top(m) - s[i + 1]) % U16
        BY <1>5, <3>1
      <3> QED  BY <2>3, <3>1, <3>2, <3>3
    <2> HIDE DEF Z
    <2>4. 0 \in Int /\ n \in Int /\ n \in 0 .. n
      BY <1>1
    <2>5. 0 .. n \subseteq Z
      BY <2>2, <2>3, <2>4, IntervalInduction
    <2>6. n \in Z
      BY <2>4, <2>5
    <2> QED  BY <2>6 DEF Z
  <1>9. ChunkSum(m, s) = h[n]
    <2>1. ChunkSum(m, s) = h[Len(s)]
      BY Zenon DEF ChunkSum, h, IsChunkSum
    <2> QED  BY <2>1 DEF n
  <1>10. n \in 0 .. n
    BY <1>1
  <1>11. g[n] \in Nat /\ g[n] < 2 ^ (V(m) * m.W)
    BY <1>4, <1>10
  <1> QED  BY <1>8, <1>9, <1>11 DEF g, n

(* ... and the shift to the top of the two bytes drops no bit of it.        *)
LEMMA ChecksumExact ==
    ASSUME NEW m, ValidMode(m), NEW s \in Seq(0 .. Top(m)), Len(s) = U(m)
    PROVE  /\ Checksum(m, s) = ChunkSum(m, s) * 2 ^ LS(m)
           /\ Checksum(m, s) \in Nat /\ Checksum(m, s) < U16
           /\ Checksum(m, s) \div 2 ^ LS(m) = ChunkSum(m, s)
  <1>0. PICK c, e, l : c = ChunkSum(m, s) /\ e = 2 ^ (V(m) * m.W) /\ l = 2 ^ LS(m)
    OBVIOUS
  <1>1. c \in Nat /\ c < e
    BY <1>0, ChunkSumExact
  <1>2. V(m) * m.W \in Nat /\ LS(m) \in Nat /\ V(m) * m.W + LS(m) = 16
    <2>1. LS(m) \in Nat /\ V(m) * m.W + LS(m) = 16 /\ V(m) \in Nat /\ m.W \in Nat
      BY ModeShape, SMTT(40) DEF ValidMode
    <2> QED  BY <2>1
  <1>3. e * l = U16
    <2>1. 2 ^ (V(m) * m.W + LS(m)) = e * l
      BY <1>0, <1>2, PowerAdd
    <2> QED  BY <1>2, <2>1, Zenon DEF U16
  <1>4. e \in Nat /\ l \in Nat \ {0}
    BY <1>0, <1>2, PowerIsNat
  <1>5. c * l \in Nat /\ c * l < U16
    <2>1. \A u, v \in Nat, w \in Nat \ {0} : u < v => u * w \in Nat /\ u * w < v * w
      OBVIOUS
    <2> QED  BY <1>1, <1>3, <1>4, <2>1
  <1>6. Checksum(m, s) = c * l
    <2>1. Checksum(m, s) = (c * l) % U16
      BY <1>0 DEF Checksum
    <2>2. \A u, v \in Nat : u < v => u % v = u
      OBVIOUS
    <2>3. U16 \in Nat
      BY PowerIsNat DEF U16
    <2> QED  BY <1>5, <2>1, <2>2, <2>3
  <1>7. (c * l) \div l = c
    BY <1>0, <1>1, <1>2, ShiftBack
  <1> QED  BY <1>0, <1>5, <1>6, <1>7

(* A field of the low byte of a number is a field of the number.            *)
LEMMA LowField ==
    ASSUME NEW h \in Nat, NEW l \in Nat, NEW e \in Nat, NEW w \in Nat, e + w <= 8
    PROVE  ((256 * h + l) \div 2 ^ e) % 2 ^ w = (l \div 2 ^ e) % 2 ^ w
  <1>1. PICK d, b, c : d = 2 ^ e /\ b = 2 ^ w /\ c = 2 ^ (8 - (e + w))
    OBVIOUS
  <1>2. d \in Nat \ {0} /\ b \in Nat \ {0} /\ c \in Nat \ {0}
    BY <1>1, PowerIsNat
  <1>3. 256 = d * (b * c)
    <2>1. e + (8 - e) = 8 /\ 8 - e = w + (8 - (e + w)) /\ 8 - e \in Nat /\ 8 - (e + w) \in Nat
      OBVIOUS
    <2>2. 2 ^ 8 = d * 2 ^ (8 - e)
      BY <1>1, <2>1, PowerAdd
    <2>3. 2 ^ (8 - e) = b * c
      BY <1>1, <2>1, PowerAdd
    <2>4. 2 ^ 8 = 256
      OBVIOUS
    <2> QED  BY <2>2, <2>3, <2>4
  <1>4. PICK t : t = c * h
    OBVIOUS
  <1>5. t \in Nat /\ 256 * h = d * (b * t)
    <2>1. \A x, y, z, u \in Nat : (x * (y * z)) * u = x * (y * (z * u)) /\ z * u \in Nat
      OBVIOUS
    <2> QED  BY <1>2, <1>3, <1>4, <2>1
  <1>6. PICK v : v = l \div d
    OBVIOUS
  <1>7. v \in Nat
    BY <1>1, <1>6, ShiftIsNat
  <1>8. (256 * h + l) \div d = b * t + v
    <2>1. \A x \in Nat \ {0} : \A y, z \in Nat : (x * y + z) \div x = y + (z \div x)
      <3> SUFFICES ASSUME NEW x \in Nat \ {0}, NEW y \in Nat, NEW z \in Nat
                   PROVE  (x * y + z) \div x = y + (z \div x)
        OBVIOUS
      <3>1. z = x * (z \div x) + (z % x) /\ z \div x \in Nat /\ z % x \in 0 .. x - 1
        OBVIOUS
      <3>2. PICK q, r : q = z \div x /\ r = z % x
        OBVIOUS
      <3>3. x * y + z = x * (y + q) + r /\ q \in Nat /\ r \in 0 .. x - 1
        BY <3>1, <3>2
      <3>4. (x * (y + q) + r) \div x = y + q
        BY <3>3
      <3> QED  BY <3>2, <3>3, <3>4
    <2>2. b * t \in Nat
      BY <1>2, <1>5
    <2>3. (d * (b * t) + l) \div d = b * t + (l \div d)
      BY <1>2, <2>1, <2>2
    <2> QED  BY <1>5, <1>6, <2>3
  <1>9. (b * t + v) % b = v % b
    <2>1. v = b * (v \div b) + (v % b) /\ v \div b \in Nat /\ v % b \in 0 .. b - 1
      BY <1>2, <1>7
    <2>2. PICK q, r : q = v \div b /\ r = v % b
      OBVIOUS
    <2>3. b * t + v = b * (t + q) + r /\ q \in Nat /\ r \in 0 .. b - 1
      BY <1>2, <1>5, <2>1, <2>2
    <2>4. (b * (t + q) + r) % b = r
      BY <1>2, <1>5, <2>3
    <2> QED  BY <2>2, <2>3, <2>4
  <1> QED  BY <1>1, <1>6, <1>8, <1>9

(* The fields of the two bytes of a u16 are those of the number, from the   *)
(* top.                                                                     *)
AreWordFields(s, w, x) ==
    /\ s \in Seq(0 .. 2 ^ w - 1) /\ Len(s) = 2 * (8 \div w)
    /\ \A k \in 1 .. 2 * (8 \div w) :
          /\ 16 - k * w \in Nat
          /\ s[k] = (x \div 2 ^ (16 - k * w)) % 2 ^ w

(* The coefficients of the two bytes of a word are the word's own fields,  *)
(* from its highest bits down.                                             *)
LEMMA WordFields ==
    ASSUME NEW w \in {1, 2, 4, 8}, NEW x \in Nat, x < U16
    PROVE  AreWordFields(coefs(<<x \div 256, x % 256>>, w), w, x)
  <1>0. PICK n, h, l : n = 8 \div w /\ h = x \div 256 /\ l = x % 256
    OBVIOUS
  <1>1. h \in Byte /\ l \in Byte /\ x = 256 * h + l
    BY <1>0 DEF U16, Byte
  <1>2. n \in Nat \ {0} /\ w \in Nat \ {0} /\ n * w = 8
    <2>1. n \in Nat \ {0} /\ w \in Nat \ {0}
      BY <1>0, Windows
    <2>2. n * w = 8
      BY <1>0, Windows
    <2> QED  BY <2>1, <2>2
  <1>3. PICK bytes : bytes = <<h, l>>
    OBVIOUS
  <1>4. bytes \in Seq(Byte) /\ Len(bytes) = 2 /\ bytes[1] = h /\ bytes[2] = l
    BY <1>1, <1>3
  <1>5. /\ coefs(bytes, w) \in Seq(0 .. 2 ^ w - 1)
        /\ Len(coefs(bytes, w)) = n * 2
        /\ \A j \in 1 .. 2, i \in 0 .. n - 1 :
              coefs(bytes, w)[n * (j - 1) + i + 1] = (bytes[j] \div 2 ^ (8 - w - i * w)) % 2 ^ w
    <2>1. /\ coefs(bytes, w) \in Seq(0 .. 2 ^ w - 1)
          /\ Len(coefs(bytes, w)) = (8 \div w) * Len(bytes)
          /\ \A j \in 1 .. Len(bytes), i \in 0 .. (8 \div w) - 1 :
                coefs(bytes, w)[(8 \div w) * (j - 1) + i + 1]
                   = (bytes[j] \div 2 ^ (8 - w - i * w)) % 2 ^ w
      BY <1>4, CoefsFields
    <2> QED  BY <1>0, <1>4, <2>1, Zenon
  <1>6. ASSUME NEW k \in 1 .. 2 * n
        PROVE  16 - k * w \in Nat /\ coefs(bytes, w)[k] = (x \div 2 ^ (16 - k * w)) % 2 ^ w
    <2>1. CASE k <= n
      <3>1. k - 1 \in 0 .. n - 1 /\ n * (1 - 1) + (k - 1) + 1 = k /\ 1 \in 1 .. 2
        BY <1>2, <2>1
      <3>2. PICK e : e = 8 - w - (k - 1) * w
        OBVIOUS
      <3>3. e \in Nat /\ 16 - k * w = 8 + e
        <4>1. (k - 1) * w = k * w - w /\ k * w <= n * w /\ k * w \in Nat
          BY <1>2, <2>1
        <4> QED  BY <1>2, <3>2, <4>1
      <3>4. coefs(bytes, w)[n * (1 - 1) + (k - 1) + 1]
               = (bytes[1] \div 2 ^ (8 - w - (k - 1) * w)) % 2 ^ w
        BY <1>5, <3>1
      <3>5. coefs(bytes, w)[k] = (h \div 2 ^ e) % 2 ^ w
        BY <1>4, <3>1, <3>2, <3>4
      <3>6. x \div 2 ^ (8 + e) = h \div 2 ^ e
        <4>1. x \div 2 ^ (8 + e) = (x \div 2 ^ 8) \div 2 ^ e
          <5>1. x \in Nat /\ 8 \in Nat /\ e \in Nat
            BY <3>3
          <5> QED  BY <5>1, ShiftAdd, Zenon
        <4>2. 2 ^ 8 = 256
          OBVIOUS
        <4> QED  BY <1>0, <4>1, <4>2
      <3>7. 8 + e \in Nat
        BY <3>3
      <3> QED  BY <3>3, <3>5, <3>6, <3>7, Zenon
    <2>2. CASE n < k
      <3>1. k - 1 - n \in 0 .. n - 1 /\ n * (2 - 1) + (k - 1 - n) + 1 = k /\ 2 \in 1 .. 2
        BY <1>2, <2>2
      <3>2. PICK e : e = 8 - w - (k - 1 - n) * w
        OBVIOUS
      <3>3. e \in Nat /\ e + w <= 8 /\ 16 - k * w = e
        <4>1. (k - 1 - n) * w = k * w - w - n * w /\ k * w <= (2 * n) * w
          BY <1>2, <2>2
        <4>2. k * w >= (n + 1) * w /\ (n + 1) * w = n * w + w /\ (2 * n) * w = 2 * (n * w)
          BY <1>2, <2>2
        <4>3. k * w \in Nat
          BY <1>2
        <4> QED  BY <1>2, <3>2, <4>1, <4>2, <4>3
      <3>4. coefs(bytes, w)[n * (2 - 1) + (k - 1 - n) + 1]
               = (bytes[2] \div 2 ^ (8 - w - (k - 1 - n) * w)) % 2 ^ w
        BY <1>5, <3>1
      <3>5. coefs(bytes, w)[k] = (l \div 2 ^ e) % 2 ^ w
        BY <1>4, <3>1, <3>2, <3>4
      <3>6. (x \div 2 ^ e) % 2 ^ w = (l \div 2 ^ e) % 2 ^ w
        <4>1. h \in Nat /\ l \in Nat /\ w \in Nat
          BY <1>1, <1>2 DEF Byte
        <4> QED  BY <1>1, <3>3, <4>1, LowField
      <3> QED  BY <3>3, <3>5, <3>6
    <2> QED  BY <1>2, <2>1, <2>2
  <1>7. n * 2 = 2 * n
    BY <1>2
  <1>8. bytes = <<x \div 256, x % 256>>
    BY <1>0, <1>3, Zenon
  <1>9. /\ coefs(bytes, w) \in Seq(0 .. 2 ^ w - 1)
        /\ Len(coefs(bytes, w)) = 2 * n
    BY <1>5, <1>7, Zenon
  <1> QED  BY <1>0, <1>6, <1>8, <1>9, ZenonT(40) DEF AreWordFields

(* s followed by the first v elements of d.                                 *)
IsJoin(a, s, d, v, T) ==
    /\ a \in [1 .. Len(s) + v -> T]
    /\ \A i \in 1 .. Len(s) : i \in 1 .. Len(s) + v /\ a[i] = s[i]
    /\ \A k \in 1 .. v : Len(s) + k \in 1 .. Len(s) + v /\ a[Len(s) + k] = d[k]

(* Two strings put together, the second one cut.                           *)
LEMMA JoinTop ==
    ASSUME NEW T, NEW s \in Seq(T), NEW d \in Seq(T), NEW v \in Nat, v <= Len(d)
    PROVE  IsJoin(s \o SubSeq(d, 1, v), s, d, v, T)
  <1>1. PICK t, a : t = SubSeq(d, 1, v) /\ a = s \o t
    OBVIOUS
  <1>2. t \in Seq(T) /\ Len(t) = v /\ \A k \in 1 .. v : t[k] = d[k]
    BY <1>1
  <1>3. /\ a \in Seq(T) /\ Len(a) = Len(s) + v
        /\ \A i \in 1 .. Len(s) + v : a[i] = IF i <= Len(s) THEN s[i] ELSE t[i - Len(s)]
    BY <1>1, <1>2, ConcatProperties
  <1>4. a \in [1 .. Len(s) + v -> T]
    BY <1>3
  <1>5. \A i \in 1 .. Len(s) : i \in 1 .. Len(s) + v /\ a[i] = s[i]
    BY <1>3
  <1>6. ASSUME NEW k \in 1 .. v
        PROVE  Len(s) + k \in 1 .. Len(s) + v /\ a[Len(s) + k] = d[k]
    <2>1. Len(s) + k \in 1 .. Len(s) + v /\ ~(Len(s) + k <= Len(s)) /\ (Len(s) + k) - Len(s) = k
      OBVIOUS
    <2> QED  BY <1>2, <1>3, <2>1
  <1> QED  BY <1>1, <1>4, <1>5, <1>6, Zenon DEF IsJoin

(* What expand returns: the fields of the message, and the top fields of    *)
(* the checksum of those.                                                   *)
IsExpansion(a, s, m) ==
    /\ s \in Seq(0 .. Top(m)) /\ Len(s) = U(m)
    /\ a \in [1 .. P(m) -> 0 .. Top(m)]
    /\ \A i \in 1 .. U(m) : i \in 1 .. P(m) /\ a[i] = s[i]
    /\ \A k \in 1 .. V(m) :
          /\ U(m) + k \in 1 .. P(m) /\ 16 - k * m.W \in Nat
          /\ a[U(m) + k] = (Checksum(m, s) \div 2 ^ (16 - k * m.W)) % 2 ^ m.W

(* expand returns the coefficients of the hash followed by the fields of   *)
(* its checksum.                                                           *)
LEMMA ExpandShape ==
    ASSUME NEW m, ValidMode(m), NEW message \in Seq(Byte), Len(message) = m.N
    PROVE  IsExpansion(expand(m, message), coefs(message, m.W), m)
  <1>0. PICK w, u, v, n, T : w = m.W /\ u = U(m) /\ v = V(m) /\ n = 8 \div m.W /\ T = 0 .. Top(m)
    OBVIOUS
  <1>1. PICK a, s, x, d : /\ a = expand(m, message) /\ s = coefs(message, w) /\ x = Checksum(m, s)
                          /\ d = coefs(<<x \div 256, x % 256>>, w)
    OBVIOUS
  <1>2. /\ w \in {1, 2, 4, 8} /\ u \in Nat \ {0} /\ v \in Nat \ {0} /\ P(m) = u + v
        /\ u = n * m.N /\ T = 0 .. 2 ^ w - 1
    BY <1>0, ModeShape DEF ValidMode, Top
  <1>3. s \in Seq(T) /\ Len(s) = u
    <2>1. /\ coefs(message, w) \in Seq(0 .. 2 ^ w - 1)
          /\ Len(coefs(message, w)) = (8 \div w) * Len(message)
      BY <1>2, CoefsFields
    <2> QED  BY <1>0, <1>1, <1>2, <2>1, Zenon
  <1>4. x \in Nat /\ x < U16
    <2>1. s \in Seq(0 .. Top(m)) /\ Len(s) = U(m)
      BY <1>0, <1>3
    <2> QED  BY <1>1, <2>1, ChecksumExact
  <1>5. /\ d \in Seq(T) /\ Len(d) = 2 * n
        /\ \A k \in 1 .. 2 * n :
              /\ 16 - k * w \in Nat
              /\ d[k] = (x \div 2 ^ (16 - k * w)) % 2 ^ w
    <2>1. AreWordFields(d, w, x)
      BY <1>1, <1>2, <1>4, WordFields
    <2>2. n = 8 \div w
      BY <1>0
    <2> QED  BY <1>2, <2>1, <2>2, Zenon DEF AreWordFields
  <1>6. v <= 2 * n /\ n \in Nat
    <2>1. n \in Nat /\ w \in Nat \ {0}
      BY <1>0, <1>2, Windows, SMTT(40)
    <2>2. n * w = 8
      BY <1>0, <1>2, Windows
    <2>3. v * w <= 16
      BY <1>0 DEF ValidMode
    <2> SUFFICES ASSUME v >= 2 * n + 1  PROVE FALSE
      BY <1>2, <2>1
    <2>4. v * w >= (2 * n + 1) * w /\ (2 * n + 1) * w = 2 * (n * w) + w
      BY <1>2, <2>1
    <2> QED  BY <1>2, <2>1, <2>2, <2>3, <2>4
  <1>7. a = s \o SubSeq(d, 1, v)
    <2>1. SubSeq(s, 1, u) = s
      BY <1>3, SubSeqFull, Zenon
    <2>2. PICK y, c : y = SubSeq(s, 1, u) /\ c = Checksum(m, y)
      OBVIOUS
    <2>3. a = y \o SubSeq(coefs(<<c \div 256, c % 256>>, w), 1, v)
      BY <1>0, <1>1, <2>2, Z3 DEF expand
    <2>4. y = s /\ c = x
      BY <1>1, <2>1, <2>2, Zenon
    <2> QED  BY <1>1, <2>3, <2>4, Zenon
  <1>8. /\ a \in [1 .. u + v -> T]
        /\ \A i \in 1 .. u : i \in 1 .. u + v /\ a[i] = s[i]
        /\ \A k \in 1 .. v : u + k \in 1 .. u + v /\ a[u + k] = d[k]
    <2>1. v \in Nat /\ v <= Len(d)
      BY <1>2, <1>5, <1>6
    <2>2. IsJoin(a, s, d, v, T)
      BY <1>3, <1>5, <1>7, <2>1, JoinTop
    <2> QED  BY <1>3, <2>2, Zenon DEF IsJoin
  <1>9. \A k \in 1 .. v : k \in 1 .. 2 * n
    BY <1>2, <1>6
  <1>10. \A k \in 1 .. v : /\ u + k \in 1 .. u + v /\ 16 - k * w \in Nat
                           /\ a[u + k] = (x \div 2 ^ (16 - k * w)) % 2 ^ w
    BY <1>5, <1>8, <1>9, Zenon
  <1>11. IsExpansion(a, s, m)
    <2>1. s \in Seq(0 .. Top(m)) /\ Len(s) = U(m)
      BY <1>0, <1>3, Zenon
    <2>2. P(m) = u + v
      BY <1>2
    <2>3. a \in [1 .. P(m) -> 0 .. Top(m)]
      BY <1>0, <1>8, <2>2, Zenon
    <2>4. \A i \in 1 .. U(m) : i \in 1 .. P(m) /\ a[i] = s[i]
      BY <1>0, <1>8, <2>2, Zenon
    <2>5. \A k \in 1 .. V(m) :
             /\ U(m) + k \in 1 .. P(m) /\ 16 - k * m.W \in Nat
             /\ a[U(m) + k] = (Checksum(m, s) \div 2 ^ (16 - k * m.W)) % 2 ^ m.W
      BY <1>0, <1>1, <1>10, <2>2, Zenon
    <2> QED  BY <2>1, <2>3, <2>4, <2>5, Zenon DEF IsExpansion
  <1> QED  BY <1>0, <1>1, <1>11, Zenon

(* Different hashes of one length have different expansions.                *)
LEMMA ExpandInjective ==
    ASSUME NEW m, ValidMode(m), NEW a \in Seq(Byte), NEW b \in Seq(Byte),
           Len(a) = m.N, Len(b) = m.N,
           \A i \in 1 .. U(m) : expand(m, a)[i] = expand(m, b)[i]
    PROVE  a = b
  <1>1. PICK T : T = 0 .. Top(m)
    OBVIOUS
  <1>2. PICK s, t : s = coefs(a, m.W) /\ t = coefs(b, m.W)
    OBVIOUS
  <1>3. /\ s \in Seq(T) /\ Len(s) = U(m)
        /\ \A i \in 1 .. U(m) : expand(m, a)[i] = s[i]
    BY <1>1, <1>2, ExpandShape DEF IsExpansion
  <1>4. /\ t \in Seq(T) /\ Len(t) = U(m)
        /\ \A i \in 1 .. U(m) : expand(m, b)[i] = t[i]
    BY <1>1, <1>2, ExpandShape DEF IsExpansion
  <1>5. s = t
    BY <1>3, <1>4, SeqEqual, SMTT(40)
  <1> QED  BY <1>2, <1>5, CoefsInjective DEF ValidMode
-----------------------------------------------------------------------------
(* The recursion that walks a chain has a solution.                         *)
IsWalk(f, id, q, i, a, b, v) ==
    f = [j \in a .. b |-> IF j = a THEN v ELSE H(<<id, q, i, j - 1, f[j - 1]>>)]

(* The recursion of a hash chain has a solution.                           *)
LEMMA ChainExists ==
    ASSUME NEW id, NEW q, NEW i, NEW v, NEW a \in Int, NEW b \in Int, a <= b
    PROVE  \E f : IsWalk(f, id, q, i, a, b, v)
  <1> DEFINE Is(f, n) == f = [j \in a .. n |->
                          IF j = a THEN v ELSE H(<<id, q, i, j - 1, f[j - 1]>>)]
             S == {n \in a .. b : \E f : Is(f, n)}
  <1>1. a \in S
    <2>1. a .. a = {a}
      OBVIOUS
    <2>2. Is([j \in a .. a |-> v], a)
      BY <2>1
    <2> HIDE DEF Is
    <2> QED  BY <2>2
  <1>2. ASSUME NEW n \in a .. b - 1, n \in S
        PROVE  n + 1 \in S
    <2>1. PICK f : Is(f, n)
      BY <1>2
    <2> DEFINE g == [j \in a .. n + 1 |->
                        IF j <= n THEN f[j] ELSE H(<<id, q, i, n, f[n]>>)]
    <2>2. \A j \in a .. n : g[j] = f[j]
      OBVIOUS
    <2>3. ASSUME NEW j \in a .. n + 1
          PROVE  g[j] = IF j = a THEN v ELSE H(<<id, q, i, j - 1, g[j - 1]>>)
      <3>1. CASE j = a
        <4>1. f[a] = v
          BY <2>1
        <4> QED  BY <2>2, <3>1, <4>1
      <3>2. CASE j # a /\ j <= n
        <4>1. j \in a .. n /\ j - 1 \in a .. n
          BY <3>2
        <4> HIDE DEF g
        <4>2. f[j] = H(<<id, q, i, j - 1, f[j - 1]>>)
          BY <2>1, <3>2, <4>1
        <4> QED  BY <2>2, <3>2, <4>1, <4>2
      <3>3. CASE j # a /\ ~(j <= n)
        <4>1. j = n + 1 /\ j - 1 = n /\ n \in a .. n
          BY <3>3
        <4>2. g[j] = H(<<id, q, i, n, f[n]>>)
          BY <3>3
        <4> HIDE DEF g
        <4>3. g[j - 1] = f[n]
          BY <2>2, <4>1
        <4> QED  BY <3>3, <4>1, <4>2, <4>3
      <3> QED  BY <3>1, <3>2, <3>3
    <2>4. g = [j \in a .. n + 1 |-> g[j]]
      OBVIOUS
    <2> HIDE DEF g
    <2>5. Is(g, n + 1)
      BY <2>3, <2>4
    <2> HIDE DEF Is
    <2> QED  BY <2>5
  <1>3. b \in S
    <2> HIDE DEF S
    <2>1. a .. b \subseteq S
      BY <1>1, <1>2, IntervalInduction
    <2> QED  BY <2>1
  <1> QED  BY <1>3 DEF IsWalk

(* ... so the function a chain is read from is what its definition says.    *)
Walk(id, q, i, a, b, v) == CHOOSE f : IsWalk(f, id, q, i, a, b, v)

(* A chain starts at its argument, and each of its values is the hash of   *)
(* the one before.                                                         *)
LEMMA ChainWalk ==
    ASSUME NEW id, NEW q, NEW i, NEW v, NEW a \in Int, NEW b \in Int, a <= b
    PROVE  LET f == Walk(id, q, i, a, b, v)
           IN  /\ Chain(id, q, i, a, b, v) = f[b]
               /\ f[a] = v
               /\ \A j \in a + 1 .. b : f[j] = H(<<id, q, i, j - 1, f[j - 1]>>)
  <1> DEFINE f == Walk(id, q, i, a, b, v)
  <1>1. IsWalk(f, id, q, i, a, b, v)
    BY ChainExists DEF Walk
  <1>2. Chain(id, q, i, a, b, v) = f[b]
    BY Zenon DEF Chain, Walk, IsWalk
  <1> HIDE DEF f
  <1>3. f[a] = v /\ \A j \in a + 1 .. b : f[j] = H(<<id, q, i, j - 1, f[j - 1]>>)
    <2>1. a \in a .. b /\ \A j \in a + 1 .. b : j \in a .. b /\ j # a
      OBVIOUS
    <2> QED  BY <1>1, <2>1 DEF IsWalk
  <1> QED  BY <1>2, <1>3 DEF f

(* A chain walked no step, and one step more.                               *)
LEMMA ChainStart ==
    ASSUME NEW id, NEW q, NEW i, NEW v, NEW a \in Int
    PROVE  Chain(id, q, i, a, a, v) = v
  BY ChainWalk

(* A chain with one more round hashes its result once more.                *)
LEMMA ChainStep ==
    ASSUME NEW id, NEW q, NEW i, NEW v, NEW a \in Int, NEW b \in Int, a <= b
    PROVE  Chain(id, q, i, a, b + 1, v) = H(<<id, q, i, b, Chain(id, q, i, a, b, v)>>)
  <1> DEFINE f == Walk(id, q, i, a, b, v)
             g == Walk(id, q, i, a, b + 1, v)
             S == {j \in a .. b : f[j] = g[j]}
  <1>1. /\ Chain(id, q, i, a, b, v) = f[b] /\ f[a] = v
        /\ \A j \in a + 1 .. b : f[j] = H(<<id, q, i, j - 1, f[j - 1]>>)
    BY ChainWalk
  <1>2. /\ Chain(id, q, i, a, b + 1, v) = g[b + 1] /\ g[a] = v
        /\ \A j \in a + 1 .. b + 1 : g[j] = H(<<id, q, i, j - 1, g[j - 1]>>)
    <2>1. b + 1 \in Int /\ a <= b + 1
      OBVIOUS
    <2> QED  BY <2>1, ChainWalk
  <1> HIDE DEF f, g
  <1>3. b \in S
    <2>1. a \in S
      BY <1>1, <1>2
    <2>2. ASSUME NEW j \in a .. b - 1, j \in S
          PROVE  j + 1 \in S
      <3>1. j + 1 \in a + 1 .. b /\ j + 1 \in a + 1 .. b + 1 /\ (j + 1) - 1 = j /\ j + 1 \in a .. b
        OBVIOUS
      <3>2. f[j + 1] = H(<<id, q, i, j, f[j]>>) /\ g[j + 1] = H(<<id, q, i, j, g[j]>>)
        BY <1>1, <1>2, <3>1
      <3> QED  BY <2>2, <3>1, <3>2
    <2> HIDE DEF S
    <2>3. a .. b \subseteq S
      BY <2>1, <2>2, IntervalInduction
    <2> QED  BY <2>3
  <1>4. b + 1 \in a + 1 .. b + 1 /\ (b + 1) - 1 = b
    OBVIOUS
  <1>5. g[b + 1] = H(<<id, q, i, b, g[b]>>)
    BY <1>2, <1>4
  <1> QED  BY <1>1, <1>2, <1>3, <1>5

(* Walking on from where a walk stopped: what verify does with the value    *)
(* that try_sign left of a chain.                                           *)
LEMMA ChainJoin ==
    ASSUME NEW id, NEW q, NEW i, NEW v, NEW a \in Int, NEW b \in Int, NEW c \in Int,
           a <= b, b <= c
    PROVE  Chain(id, q, i, b, c, Chain(id, q, i, a, b, v)) = Chain(id, q, i, a, c, v)
  <1> DEFINE w == Chain(id, q, i, a, b, v)
             S == {n \in b .. c : Chain(id, q, i, b, n, w) = Chain(id, q, i, a, n, v)}
  <1>1. b \in S
    BY ChainStart
  <1>2. ASSUME NEW n \in b .. c - 1, n \in S
        PROVE  n + 1 \in S
    <2>1. n \in Int /\ b <= n /\ a <= n /\ n + 1 \in b .. c
      OBVIOUS
    <2>2. Chain(id, q, i, b, n + 1, w) = H(<<id, q, i, n, Chain(id, q, i, b, n, w)>>)
      BY <2>1, ChainStep
    <2>3. Chain(id, q, i, a, n + 1, v) = H(<<id, q, i, n, Chain(id, q, i, a, n, v)>>)
      BY <2>1, ChainStep
    <2> QED  BY <1>2, <2>1, <2>2, <2>3
  <1>3. c \in S
    <2> HIDE DEF S
    <2>1. b .. c \subseteq S
      BY <1>1, <1>2, IntervalInduction
    <2> QED  BY <2>1
  <1> QED  BY <1>3

(* Two walks along one chain end together only if they began together.      *)
LEMMA ChainInjective ==
    ASSUME NEW id, NEW q, NEW i, NEW v, NEW w, NEW a \in Int, NEW b \in Int, a <= b,
           Chain(id, q, i, a, b, v) = Chain(id, q, i, a, b, w)
    PROVE  v = w
  <1> DEFINE S == {n \in a .. b : Chain(id, q, i, a, n, v) = Chain(id, q, i, a, n, w)}
  <1>1. b \in S
    OBVIOUS
  <1>2. ASSUME NEW n \in a + 1 .. b, n \in S
        PROVE  n - 1 \in S
    <2>1. n - 1 \in Int /\ a <= n - 1 /\ (n - 1) + 1 = n /\ n - 1 \in a .. b
      OBVIOUS
    <2>2. /\ Chain(id, q, i, a, (n - 1) + 1, v) = H(<<id, q, i, n - 1, Chain(id, q, i, a, n - 1, v)>>)
          /\ Chain(id, q, i, a, (n - 1) + 1, w) = H(<<id, q, i, n - 1, Chain(id, q, i, a, n - 1, w)>>)
      BY <2>1, ChainStep
    <2>3. H(<<id, q, i, n - 1, Chain(id, q, i, a, n - 1, v)>>)
             = H(<<id, q, i, n - 1, Chain(id, q, i, a, n - 1, w)>>)
      BY <1>2, <2>1, <2>2
    <2> QED  BY <2>1, <2>3 DEF H
  <1>3. a \in S
    <2> HIDE DEF S
    <2>1. a .. b \subseteq S
      BY <1>1, <1>2, DownwardInduction
    <2> QED  BY <2>1
  <1>4. Chain(id, q, i, a, a, v) = Chain(id, q, i, a, a, w)
    BY <1>3
  <1> QED  BY <1>4, ChainStart

(* The secret a chain starts at.                                            *)
Secret(id, q, i, seed) == H(<<id, q, i, 255, seed>>)

Meet(id, q, seed, id2, q2, seed2, i, a, b) ==
    Chain(id, q, i, 0, a, Secret(id, q, i, seed))
       = Chain(id2, q2, i, 0, b, Secret(id2, q2, i, seed2))

(* Chains of two keys meet nowhere, and one chain never passes through one  *)
(* value twice: every hash names its key, its chain and its position, and   *)
(* the hash that makes the secret has position 255, after all others.       *)
LEMMA ChainsMeet ==
    ASSUME NEW id, NEW q, NEW seed, NEW id2, NEW q2, NEW seed2, NEW i,
           NEW a \in 0 .. 255, NEW b \in 0 .. 255,
           Meet(id, q, seed, id2, q2, seed2, i, a, b)
    PROVE  a = b /\ id = id2 /\ q = q2 /\ seed = seed2
  <1> DEFINE x == Secret(id, q, i, seed)
             y == Secret(id2, q2, i, seed2)
             u == Chain(id, q, i, 0, a - 1, x)
             v == Chain(id2, q2, i, 0, b - 1, y)
  <1>0. Chain(id, q, i, 0, a, x) = Chain(id2, q2, i, 0, b, y)
    BY DEF Meet
  <1>1. x = y => id = id2 /\ q = q2 /\ seed = seed2
    BY DEF H, Secret
  <1>2. a = 0 => Chain(id, q, i, 0, a, x) = x
    BY ChainStart
  <1>3. b = 0 => Chain(id2, q2, i, 0, b, y) = y
    BY ChainStart
  <1>4. a # 0 => Chain(id, q, i, 0, a, x) = H(<<id, q, i, a - 1, u>>)
    <2>1. a # 0 => a - 1 \in Int /\ 0 <= a - 1 /\ (a - 1) + 1 = a
      OBVIOUS
    <2>2. a # 0 => Chain(id, q, i, 0, (a - 1) + 1, x) = H(<<id, q, i, a - 1, u>>)
      BY <2>1, ChainStep
    <2> QED  BY <2>1, <2>2
  <1>5. b # 0 => Chain(id2, q2, i, 0, b, y) = H(<<id2, q2, i, b - 1, v>>)
    <2>1. b # 0 => b - 1 \in Int /\ 0 <= b - 1 /\ (b - 1) + 1 = b
      OBVIOUS
    <2>2. b # 0 => Chain(id2, q2, i, 0, (b - 1) + 1, y) = H(<<id2, q2, i, b - 1, v>>)
      BY <2>1, ChainStep
    <2> QED  BY <2>1, <2>2
  <1> HIDE DEF u, v
  <1>6. CASE a = 0 /\ b = 0
    BY <1>0, <1>1, <1>2, <1>3, <1>6
  <1>7. CASE a = 0 /\ b # 0
    <2>1. H(<<id, q, i, 255, seed>>) = H(<<id2, q2, i, b - 1, v>>)
      BY <1>0, <1>2, <1>5, <1>7 DEF Secret
    <2> QED  BY <2>1 DEF H
  <1>8. CASE a # 0 /\ b = 0
    <2>1. H(<<id, q, i, a - 1, u>>) = H(<<id2, q2, i, 255, seed2>>)
      BY <1>0, <1>3, <1>4, <1>8 DEF Secret
    <2> QED  BY <2>1 DEF H
  <1>9. CASE a # 0 /\ b # 0
    <2>1. H(<<id, q, i, a - 1, u>>) = H(<<id2, q2, i, b - 1, v>>)
      BY <1>0, <1>4, <1>5, <1>9
    <2>2. id = id2 /\ q = q2 /\ a - 1 = b - 1 /\ u = v
      BY <2>1 DEF H
    <2>3. a = b /\ a - 1 \in Int /\ 0 <= a - 1
      BY <1>9, <2>2
    <2>4. Chain(id, q, i, 0, a - 1, x) = Chain(id, q, i, 0, a - 1, y)
      BY <2>2, <2>3 DEF u, v
    <2>5. x = y
      <3> HIDE DEF x, y
      <3> QED  BY <2>3, <2>4, ChainInjective
    <2> QED  BY <1>1, <2>3, <2>5
  <1> QED  BY <1>6, <1>7, <1>8, <1>9

(* One chain: what recover_pubkey reaches from the value in a signature is  *)
(* the end of the key's own chain only if the signature was made with this  *)
(* key's secret and stopped where the verifier starts.                      *)
Reaches(id, q, seed, id2, q2, seed2, i, t, a, b) ==
    Chain(id, q, i, a, t, Chain(id2, q2, i, 0, b, Secret(id2, q2, i, seed2)))
       = Chain(id, q, i, 0, t, Secret(id, q, i, seed))

(* A chain walked to some position and on from another one reaches the     *)
(* end the key has there only if the two positions, and the keys, are the  *)
(* same.                                                                   *)
LEMMA ChainRecovered ==
    ASSUME NEW id, NEW q, NEW seed, NEW id2, NEW q2, NEW seed2, NEW i,
           NEW t \in 0 .. 255, NEW a \in 0 .. t, NEW b \in 0 .. t,
           Reaches(id, q, seed, id2, q2, seed2, i, t, a, b)
    PROVE  a = b /\ id = id2 /\ q = q2 /\ seed = seed2
  <1>1. PICK x, y : x = Secret(id, q, i, seed) /\ y = Secret(id2, q2, i, seed2)
    OBVIOUS
  <1>2. PICK u, v : u = Chain(id, q, i, 0, a, x) /\ v = Chain(id2, q2, i, 0, b, y)
    OBVIOUS
  <1>3. a \in Int /\ t \in Int /\ 0 <= a /\ a <= t /\ a \in 0 .. 255 /\ b \in 0 .. 255
    OBVIOUS
  <1>4. Chain(id, q, i, a, t, u) = Chain(id, q, i, 0, t, x)
    BY <1>2, <1>3, ChainJoin
  <1>5. Chain(id, q, i, a, t, v) = Chain(id, q, i, 0, t, x)
    BY <1>1, <1>2, Zenon DEF Reaches
  <1>6. u = v
    BY <1>3, <1>4, <1>5, ChainInjective
  <1>7. Meet(id, q, seed, id2, q2, seed2, i, a, b)
    BY <1>1, <1>2, <1>6, Zenon DEF Meet
  <1> QED  BY <1>3, <1>7, ChainsMeet, Zenon

(* The same key reaches the end of its chain from wherever it stopped.      *)
LEMMA ChainReached ==
    ASSUME NEW id, NEW q, NEW seed, NEW i, NEW t \in 0 .. 255, NEW a \in 0 .. t
    PROVE  Reaches(id, q, seed, id, q, seed, i, t, a, a)
  <1>1. a \in Int /\ t \in Int /\ 0 <= a /\ a <= t
    OBVIOUS
  <1> QED  BY <1>1, ChainJoin DEF Reaches

(* A message hash as expand takes it.                                       *)
IsHash(m, d) == d \in Seq(Byte) /\ Len(d) = m.N

(* The whole signature: the recovered public key is that of a key made from *)
(* q, id and seed exactly when that very key signed a message with the same *)
(* hash.                                                                    *)
LEMMA KeyRecovered ==
    ASSUME NEW m, ValidMode(m), NEW id, NEW q, NEW seed, NEW id2, NEW q2, NEW seed2,
           NEW c, NEW msg, NEW msg2,
           IsHash(m, MessageHash(id, q, c, msg)), IsHash(m, MessageHash(id2, q2, c, msg2))
    PROVE  RecoverPubkey(m, OtsSign(m, OtsNewFromSeed(m, q2, id2, seed2), c, msg2), id, q, msg).k
              = OtsPublic(m, OtsNewFromSeed(m, q, id, seed)).k
           <=> /\ id = id2 /\ q = q2 /\ seed = seed2
               /\ MessageHash(id, q, c, msg) = MessageHash(id2, q2, c, msg2)
  <1>1. PICK d, e, a, b : /\ d = MessageHash(id, q, c, msg) /\ e = MessageHash(id2, q2, c, msg2)
                          /\ a = expand(m, d) /\ b = expand(m, e)
    OBVIOUS
  <1>2. PICK p, t, u : p = P(m) /\ t = Top(m) /\ u = U(m)
    OBVIOUS
  <1>3. /\ p \in Nat \ {0} /\ t \in 0 .. 255 /\ u \in Nat \ {0}
        /\ a \in [1 .. p -> 0 .. t] /\ b \in [1 .. p -> 0 .. t]
        /\ \A i \in 1 .. u : i \in 1 .. p
    <2>1. IsExpansion(a, coefs(d, m.W), m) /\ IsExpansion(b, coefs(e, m.W), m)
      BY <1>1, ExpandShape DEF IsHash
    <2>2. p \in Nat \ {0} /\ t \in 1 .. 255 /\ u \in Nat \ {0}
      BY <1>2, ModeShape
    <2> QED  BY <1>2, <2>1, <2>2 DEF IsExpansion
  <1>4. \A i \in 1 .. p : a[i] \in 0 .. t /\ b[i] \in 0 .. t
    BY <1>3
  <1> DEFINE x(i) == Secret(id, q, i - 1, seed)
             y(i) == Secret(id2, q2, i - 1, seed2)
             lhs == [i \in 1 .. p |->
                       Chain(id, q, i - 1, a[i], t, Chain(id2, q2, i - 1, 0, b[i], y(i)))]
             rhs == [i \in 1 .. p |-> Chain(id, q, i - 1, 0, t, x(i))]
  <1>5. RecoverPubkey(m, OtsSign(m, OtsNewFromSeed(m, q2, id2, seed2), c, msg2), id, q, msg).k
           = H(<<id, q, D_PBLC, lhs>>)
    <2>1. PICK s : s = OtsSign(m, OtsNewFromSeed(m, q2, id2, seed2), c, msg2)
      OBVIOUS
    <2>2. s.c = c /\ \A i \in 1 .. p : s.y[i] = Chain(id2, q2, i - 1, 0, b[i], y(i))
      BY <1>1, <1>2, <2>1 DEF OtsSign, OtsNewFromSeed, Secret
    <2>3. [i \in 1 .. p |-> Chain(id, q, i - 1, a[i], t, s.y[i])] = lhs
      BY <2>2
    <2> HIDE DEF lhs
    <2>4. RecoverPubkey(m, s, id, q, msg).k
             = H(<<id, q, D_PBLC, [i \in 1 .. p |-> Chain(id, q, i - 1, a[i], t, s.y[i])]>>)
      BY <1>1, <1>2, <2>2 DEF RecoverPubkey
    <2> QED  BY <2>1, <2>3, <2>4
  <1>6. OtsPublic(m, OtsNewFromSeed(m, q, id, seed)).k = H(<<id, q, D_PBLC, rhs>>)
    <2>1. PICK k : k = OtsNewFromSeed(m, q, id, seed)
      OBVIOUS
    <2>2. k.id = id /\ k.q = q /\ \A i \in 1 .. p : k.x[i] = x(i)
      BY <1>2, <2>1 DEF OtsNewFromSeed, Secret
    <2>3. [i \in 1 .. p |-> Chain(id, q, i - 1, 0, t, k.x[i])] = rhs
      BY <2>2
    <2> HIDE DEF rhs
    <2>4. OtsPublic(m, k).k
             = H(<<id, q, D_PBLC, [i \in 1 .. p |-> Chain(id, q, i - 1, 0, t, k.x[i])]>>)
      BY <1>2, <2>2 DEF OtsPublic
    <2> QED  BY <2>1, <2>3, <2>4
  <1>7. H(<<id, q, D_PBLC, lhs>>) = H(<<id, q, D_PBLC, rhs>>)
           <=> \A i \in 1 .. p : lhs[i] = rhs[i]
    <2>1. lhs = rhs <=> \A i \in 1 .. p : lhs[i] = rhs[i]
      OBVIOUS
    <2> HIDE DEF lhs, rhs
    <2> QED  BY <2>1 DEF H
  <1>8. ASSUME NEW i \in 1 .. p
        PROVE  lhs[i] = rhs[i] <=> a[i] = b[i] /\ id = id2 /\ q = q2 /\ seed = seed2
    <2>1. lhs[i] = Chain(id, q, i - 1, a[i], t, Chain(id2, q2, i - 1, 0, b[i], y(i)))
      OBVIOUS
    <2>2. rhs[i] = Chain(id, q, i - 1, 0, t, x(i))
      OBVIOUS
    <2> HIDE DEF lhs, rhs
    <2>3. Chain(id, q, i - 1, a[i], t, Chain(id2, q2, i - 1, 0, b[i], y(i)))
             = Chain(id, q, i - 1, 0, t, x(i))
          <=> a[i] = b[i] /\ id = id2 /\ q = q2 /\ seed = seed2
      <3>1. PICK j, f, g : j = i - 1 /\ f = a[i] /\ g = b[i]
        OBVIOUS
      <3>2. t \in 0 .. 255 /\ f \in 0 .. t /\ g \in 0 .. t
        BY <1>3, <1>4, <3>1
      <3>3. Reaches(id, q, seed, id2, q2, seed2, j, t, f, g)
               => f = g /\ id = id2 /\ q = q2 /\ seed = seed2
        BY <3>2, ChainRecovered
      <3>4. Reaches(id, q, seed, id, q, seed, j, t, f, f)
        BY <3>2, ChainReached
      <3> QED  BY <3>1, <3>3, <3>4, Zenon DEF Reaches
    <2> QED  BY <2>1, <2>2, <2>3, Zenon
  <1>9. (\A i \in 1 .. p : a[i] = b[i]) <=> d = e
    <2>1. ASSUME \A i \in 1 .. p : a[i] = b[i]
          PROVE  d = e
      <3>1. \A i \in 1 .. U(m) : expand(m, d)[i] = expand(m, e)[i]
        BY <1>1, <1>2, <1>3, <2>1
      <3> QED  BY <1>1, <3>1, ExpandInjective DEF IsHash
    <2>2. d = e => \A i \in 1 .. p : a[i] = b[i]
      BY <1>1
    <2> QED  BY <2>1, <2>2
  <1>10. 1 \in 1 .. p
    BY <1>3
  <1> HIDE DEF lhs, rhs
  <1> QED  BY <1>1, <1>5, <1>6, <1>7, <1>8, <1>9, <1>10, Zenon
=============================================================================
