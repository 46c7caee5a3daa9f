----------------------------- MODULE BasicFacts -----------------------------
(***************************************************************************)
(* Facts that the proofs rest on, about natural numbers: induction stated   *)
(* of sets, which the provers can instantiate, the powers of two and the    *)
(* bits of a number, the running values of a byte string, and congruence;   *)
(* and about strings: what is put together is found again at its place.     *)
(***************************************************************************)
EXTENDS Integers, Sequences, FiniteSetTheorems, SequenceTheorems, TLAPS

(* A set of natural numbers that is not empty has a least element.          *)
LEMMA LeastElement ==
    ASSUME NEW T, T \subseteq Nat, T # {}
    PROVE  \E x \in T : \A y \in T : x <= y
  <1> DEFINE R == {ss \in Nat \X Nat : ss[1] < ss[2]}
  <1>1. IsWellFoundedOn(R, Nat)
    <2>1. OpToRel(<, Nat) = R
      BY DEF OpToRel
    <2> QED  BY <2>1, NatLessThanWellFounded
  <1>2. PICK x \in T : \A y \in T : <<y, x>> \notin R
    <2> HIDE DEF R
    <2> QED  BY <1>1, WFMin, Zenon
  <1>3. \A m, n \in Nat : <<m, n>> \in R <=> m < n
    OBVIOUS
  <1>4. \A y \in T : x <= y
    <2> HIDE DEF R
    <2> SUFFICES ASSUME NEW y \in T  PROVE x <= y
      OBVIOUS
    <2>1. x \in Nat /\ y \in Nat
      OBVIOUS
    <2>2. <<y, x>> \notin R
      BY <1>2
    <2>3. ~(y < x)
      BY <2>1, <2>2, <1>3, Zenon
    <2> QED  BY <2>1, <2>3
  <1> QED  BY <1>4

(* A set with a and with the successor of each of its numbers below b has   *)
(* all the numbers from a to b.                                             *)
LEMMA IntervalInduction ==
    ASSUME NEW a \in Int, NEW b \in Int, NEW S, a \in S,
           \A n \in a .. b - 1 : n \in S => n + 1 \in S
    PROVE  a .. b \subseteq S
  <1> SUFFICES ASSUME NEW m \in a .. b, m \notin S
               PROVE  FALSE
    OBVIOUS
  <1> DEFINE T == {d \in Nat : a + d <= b /\ a + d \notin S}
  <1>1. m - a \in T
    OBVIOUS
  <1>2. PICK d \in T : \A e \in T : d <= e
    <2> T \subseteq Nat /\ T # {}
      BY <1>1
    <2> HIDE DEF T
    <2> QED  BY LeastElement
  <1>3. d \in Nat /\ d # 0 /\ a + d <= b /\ a + d \notin S
    BY <1>2
  <1>4. d - 1 \notin T
    BY <1>2, <1>3
  <1>5. a + (d - 1) \in S
    BY <1>3, <1>4
  <1>6. a + (d - 1) \in a .. b - 1 /\ (a + (d - 1)) + 1 = a + d
    BY <1>3
  <1> QED  BY <1>3, <1>5, <1>6

(* The same downwards.                                                      *)
LEMMA DownwardInduction ==
    ASSUME NEW a \in Int, NEW b \in Int, NEW S, b \in S,
           \A n \in a + 1 .. b : n \in S => n - 1 \in S
    PROVE  a .. b \subseteq S
  <1> DEFINE N == {n \in Int : -n \in S}
  <1>1. -b \in N /\ \A n \in -b .. -a - 1 : n \in N => n + 1 \in N
    <2>1. -(-b) = b
      OBVIOUS
    <2>2. ASSUME NEW n \in -b .. -a - 1, n \in N
          PROVE  n + 1 \in N
      <3>1. -n \in a + 1 .. b /\ -(n + 1) = -n - 1
        OBVIOUS
      <3> QED  BY <3>1, <2>2
    <2> QED  BY <2>1, <2>2
  <1>2. -b .. -a \subseteq N
    <2> HIDE DEF N
    <2>1. -b \in Int /\ -a \in Int
      OBVIOUS
    <2> QED  BY <1>1, <2>1, IntervalInduction
  <1>3. ASSUME NEW m \in a .. b
        PROVE  m \in S
    <2>1. -m \in -b .. -a /\ -(-m) = m
      OBVIOUS
    <2> QED  BY <1>2, <2>1
  <1> QED  BY <1>3
-----------------------------------------------------------------------------
(* 2^n is how many subsets 1 .. n has.                                      *)
LEMMA PowerIsNat ==
    ASSUME NEW n \in Nat
    PROVE  2 ^ n \in Nat \ {0}
  <1>1. IsFiniteSet(1 .. n) /\ Cardinality(1 .. n) = n
    BY FS_Interval
  <1>2. IsFiniteSet(SUBSET (1 .. n)) /\ Cardinality(SUBSET (1 .. n)) = 2 ^ n
    BY <1>1, FS_SUBSET
  <1>3. 2 ^ n \in Nat
    BY <1>2, FS_CardinalityType
  <1>4. SUBSET (1 .. n) # {}
    OBVIOUS
  <1>5. 2 ^ n # 0
    BY <1>2, <1>4, FS_EmptySet
  <1> QED  BY <1>3, <1>5

(* The exponent's successor doubles the power: by counting the subsets of  *)
(* an interval, since the provers know nothing of exponents.               *)
LEMMA PowerStep ==
    ASSUME NEW n \in Nat
    PROVE  2 ^ (n + 1) = 2 * 2 ^ n
  <1> DEFINE S == 1 .. n
             x == n + 1
             A == SUBSET S
             B == {U \cup {x} : U \in A}
             f == [U \in A |-> U \cup {x}]
  <1>1. /\ IsFiniteSet(S) /\ Cardinality(S) = n /\ x \notin S
        /\ IsFiniteSet(1 .. x) /\ Cardinality(1 .. x) = n + 1
        /\ S \cup {x} = 1 .. x
    <2>1. 1 \in Int /\ n \in Int /\ x \in Int
      OBVIOUS
    <2>2. IsFiniteSet(S) /\ Cardinality(S) = IF 1 > n THEN 0 ELSE n - 1 + 1
      BY <2>1, FS_Interval
    <2>3. IsFiniteSet(1 .. x) /\ Cardinality(1 .. x) = IF 1 > x THEN 0 ELSE x - 1 + 1
      BY <2>1, FS_Interval
    <2> QED  BY <2>2, <2>3
  <1> HIDE DEF S, x
  <1>2. IsFiniteSet(A) /\ Cardinality(A) = 2 ^ n
    BY <1>1, FS_SUBSET
  <1>3. Cardinality(SUBSET (1 .. x)) = 2 ^ (n + 1)
    BY <1>1, FS_SUBSET
  <1>4. f \in Bijection(A, B)
    <2>1. f \in [A -> B]
      OBVIOUS
    <2>2. \A U, V \in A : f[U] = f[V] => U = V
      <3>1. \A U \in A : U = f[U] \ {x}
        BY <1>1
      <3> QED  BY <3>1, Zenon
    <2>3. \A W \in B : \E U \in A : f[U] = W
      OBVIOUS
    <2> HIDE DEF f, A, B
    <2>4. IsInjective(f)
      BY <2>1, <2>2 DEF IsInjective
    <2> QED  BY <2>1, <2>3, <2>4 DEF Bijection, Injection, Surjection
  <1>5. IsFiniteSet(B) /\ Cardinality(B) = 2 ^ n
    <2> HIDE DEF f, A, B
    <2>1. ExistsBijection(A, B)
      BY <1>4 DEF ExistsBijection
    <2> QED  BY <2>1, <1>2, FS_Bijection
  <1>6. SUBSET (1 .. x) = A \cup B
    <2>1. ASSUME NEW W \in SUBSET (1 .. x)
          PROVE  W \in A \cup B
      <3>1. CASE x \in W
        <4>1. W = (W \ {x}) \cup {x} /\ W \ {x} \in A
          BY <3>1, <1>1
        <4> QED  BY <4>1
      <3>2. CASE x \notin W
        BY <3>2, <1>1
      <3> QED  BY <3>1, <3>2
    <2>2. A \cup B \subseteq SUBSET (1 .. x)
      BY <1>1
    <2> QED  BY <2>1, <2>2
  <1>7. A \cap B = {}
    BY <1>1
  <1> HIDE DEF A, B
  <1>8. Cardinality(A \cup B) = 2 ^ n + 2 ^ n - Cardinality({})
    <2>1. Cardinality(A \cup B) = Cardinality(A) + Cardinality(B) - Cardinality(A \cap B)
      BY <1>2, <1>5, FS_Union
    <2> QED  BY <2>1, <1>2, <1>5, <1>7, Zenon
  <1>9. Cardinality({}) = 0
    BY FS_EmptySet
  <1>10. 2 ^ (n + 1) = 2 ^ n + 2 ^ n - 0
    BY <1>3, <1>6, <1>8, <1>9, Zenon
  <1>11. \A p \in Nat : p + p - 0 = 2 * p
    OBVIOUS
  <1>12. 2 ^ n \in Nat
    BY PowerIsNat
  <1> QED  BY <1>10, <1>11, <1>12, Zenon

(* Powers grow, multiply and outrun their exponents.                        *)
LEMMA PowerAdd ==
    ASSUME NEW a \in Nat, NEW b \in Nat
    PROVE  2 ^ (a + b) = 2 ^ a * 2 ^ b
  <1> DEFINE S == {k \in 0 .. b : 2 ^ (a + k) = 2 ^ a * 2 ^ k}
  <1>1. 0 \in S
    <2>1. 2 ^ a \in Nat /\ 2 ^ 0 = 1 /\ a + 0 = a
      BY PowerIsNat
    <2> QED  BY <2>1
  <1>2. ASSUME NEW k \in 0 .. b - 1, k \in S
        PROVE  k + 1 \in S
    <2>1. k \in Nat /\ a + k \in Nat /\ a + (k + 1) = (a + k) + 1 /\ k + 1 \in 0 .. b
      OBVIOUS
    <2>2. 2 ^ ((a + k) + 1) = 2 * 2 ^ (a + k) /\ 2 ^ (k + 1) = 2 * 2 ^ k
      BY <2>1, PowerStep
    <2>3. 2 ^ a \in Nat /\ 2 ^ k \in Nat
      BY <2>1, PowerIsNat
    <2>4. \A u, v \in Nat : 2 * (u * v) = u * (2 * v)
      OBVIOUS
    <2> QED  BY <1>2, <2>1, <2>2, <2>3, <2>4
  <1> HIDE DEF S
  <1>3. 0 .. b \subseteq S
    BY <1>1, <1>2, IntervalInduction
  <1>4. b \in S
    BY <1>3
  <1> QED  BY <1>4 DEF S

(* Powers grow with their exponent.                                        *)
LEMMA PowerMonotone ==
    ASSUME NEW a \in Nat, NEW b \in Nat, a <= b
    PROVE  2 ^ a <= 2 ^ b
  <1>1. b - a \in Nat /\ a + (b - a) = b
    OBVIOUS
  <1>2. 2 ^ b = 2 ^ a * 2 ^ (b - a)
    BY <1>1, PowerAdd
  <1>3. 2 ^ a \in Nat /\ 2 ^ (b - a) \in Nat \ {0}
    BY <1>1, PowerIsNat
  <1>4. \A u \in Nat, v \in Nat \ {0} : u <= u * v
    OBVIOUS
  <1> QED  BY <1>2, <1>3, <1>4

(* A number is below its power of two.                                     *)
LEMMA BelowPower ==
    ASSUME NEW n \in Nat
    PROVE  n < 2 ^ n
  <1> DEFINE S == {k \in 0 .. n : k < 2 ^ k}
  <1>1. 0 \in S
    <2>1. 2 ^ 0 = 1
      OBVIOUS
    <2> QED  BY <2>1
  <1>2. ASSUME NEW k \in 0 .. n - 1, k \in S
        PROVE  k + 1 \in S
    <2>1. k \in Nat /\ k + 1 \in 0 .. n
      OBVIOUS
    <2>2. 2 ^ (k + 1) = 2 * 2 ^ k /\ 2 ^ k \in Nat
      BY <2>1, PowerStep, PowerIsNat
    <2> QED  BY <1>2, <2>1, <2>2
  <1> HIDE DEF S
  <1>3. 0 .. n \subseteq S
    BY <1>1, <1>2, IntervalInduction
  <1>4. n \in S
    BY <1>3
  <1> QED  BY <1>4 DEF S

(* Shifting by l + 1 is halving what a shift by l leaves.                   *)
LEMMA ShiftStep ==
    ASSUME NEW n \in Nat, NEW l \in Nat
    PROVE  n \div 2 ^ (l + 1) = (n \div 2 ^ l) \div 2
  <1>1. 2 ^ l \in Nat \ {0} /\ 2 ^ (l + 1) = 2 * 2 ^ l
    BY PowerIsNat, PowerStep
  <1>2. \A d \in Nat \ {0} : (n \div d) \div 2 = n \div (2 * d)
    OBVIOUS
  <1> QED  BY <1>1, <1>2

(* A right shift gives a smaller natural number.                           *)
LEMMA ShiftIsNat ==
    ASSUME NEW n \in Nat, NEW l \in Nat
    PROVE  n \div 2 ^ l \in Nat /\ n \div 2 ^ l <= n /\ n \div 2 ^ 0 = n
  <1>1. 2 ^ l \in Nat \ {0} /\ 2 ^ 0 = 1
    BY PowerIsNat
  <1>2. \A d \in Nat \ {0} : n \div d \in Nat /\ n \div d <= n
    OBVIOUS
  <1>3. n \div 1 = n
    OBVIOUS
  <1> QED  BY <1>1, <1>2, <1>3

(* Shifting twice is shifting once by the sum.                              *)
LEMMA ShiftAdd ==
    ASSUME NEW n \in Nat, NEW l \in Nat, NEW k \in Nat
    PROVE  n \div 2 ^ (l + k) = (n \div 2 ^ l) \div 2 ^ k
  <1> DEFINE m == n \div 2 ^ l
             S == {j \in 0 .. k : n \div 2 ^ (l + j) = m \div 2 ^ j}
  <1>1. m \in Nat
    BY ShiftIsNat
  <1>2. 0 \in S
    <2>1. m \div 2 ^ 0 = m
      <3> HIDE DEF m
      <3> QED  BY <1>1, ShiftIsNat
    <2>2. l + 0 = l /\ 0 \in 0 .. k
      OBVIOUS
    <2> QED  BY <2>1, <2>2
  <1>3. ASSUME NEW j \in 0 .. k - 1, j \in S
        PROVE  j + 1 \in S
    <2>1. j \in Nat /\ l + j \in Nat /\ l + (j + 1) = (l + j) + 1 /\ j + 1 \in 0 .. k
      OBVIOUS
    <2>2. n \div 2 ^ ((l + j) + 1) = (n \div 2 ^ (l + j)) \div 2
      BY <2>1, ShiftStep
    <2>3. m \div 2 ^ (j + 1) = (m \div 2 ^ j) \div 2
      <3> HIDE DEF m
      <3> QED  BY <1>1, <2>1, ShiftStep
    <2> QED  BY <1>3, <2>1, <2>2, <2>3
  <1>4. k \in S
    <2> HIDE DEF S
    <2>1. 0 .. k \subseteq S
      BY <1>2, <1>3, IntervalInduction
    <2> QED  BY <2>1
  <1> QED  BY <1>4

(* A shift undoes a multiplication.                                         *)
LEMMA ShiftBack ==
    ASSUME NEW n \in Nat, NEW l \in Nat
    PROVE  (n * 2 ^ l) \div 2 ^ l = n
  <1>1. 2 ^ l \in Nat \ {0}
    BY PowerIsNat
  <1>2. \A d \in Nat \ {0} : (n * d) \div d = n
    <2> SUFFICES ASSUME NEW d \in Nat \ {0}  PROVE (n * d) \div d = n
      OBVIOUS
    <2>1. n * d = d * n + 0 /\ n * d \in Nat
      OBVIOUS
    <2> QED  BY <2>1
  <1> QED  BY <1>1, <1>2

(* Quotient and remainder determine a number.                               *)
LEMMA QuotientRemainder ==
    ASSUME NEW u \in Nat, NEW v \in Nat, NEW b \in Nat \ {0},
           u \div b = v \div b, u % b = v % b
    PROVE  u = v
  <1>1. \A n \in Nat : n = b * (n \div b) + (n % b)
    OBVIOUS
  <1> QED  BY <1>1

(* Level by level, from the leaves of a tree of height h up: the numbers of *)
(* h + 1 bits lose one bit with each shift.                                 *)
LEMMA ShiftedBits ==
    ASSUME NEW h \in Nat, NEW x \in Nat, 2 ^ h <= x, x < 2 * 2 ^ h, NEW l \in 0 .. h
    PROVE  2 ^ (h - l) <= x \div 2 ^ l /\ x \div 2 ^ l < 2 * 2 ^ (h - l)
  <1> DEFINE S == {k \in 0 .. h : 2 ^ (h - k) <= x \div 2 ^ k
                                    /\ x \div 2 ^ k < 2 * 2 ^ (h - k)}
  <1>1. 0 \in S
    <2>1. x \div 2 ^ 0 = x /\ h - 0 = h
      BY ShiftIsNat
    <2> QED  BY <2>1
  <1>2. ASSUME NEW k \in 0 .. h - 1, k \in S
        PROVE  k + 1 \in S
    <2> DEFINE y == x \div 2 ^ k
               e == 2 ^ (h - (k + 1))
    <2>1. h - (k + 1) \in Nat /\ h - k = (h - (k + 1)) + 1 /\ k \in Nat
      OBVIOUS
    <2>2. e \in Nat /\ 2 ^ (h - k) = 2 * e
      BY <2>1, PowerIsNat, PowerStep
    <2>3. y \in Nat /\ x \div 2 ^ (k + 1) = y \div 2
      BY <2>1, ShiftStep, ShiftIsNat
    <2>4. 2 * e <= y /\ y < 2 * (2 * e)
      BY <1>2, <2>2
    <2>5. e <= y \div 2 /\ y \div 2 < 2 * e
      <3> HIDE DEF e, y
      <3> QED  BY <2>2, <2>3, <2>4
    <2> QED  BY <2>3, <2>5
  <1> HIDE DEF S
  <1>3. 0 .. h \subseteq S
    BY <1>1, <1>2, IntervalInduction
  <1> QED  BY <1>3 DEF S

(* Every number below 2 * 2^h has some number of bits up to h + 1.          *)
LEMMA SomeLevel ==
    ASSUME NEW h \in Nat, NEW n \in Nat, 1 <= n, n < 2 * 2 ^ h
    PROVE  \E l \in 0 .. h : 2 ^ (h - l) <= n /\ n < 2 * 2 ^ (h - l)
  <1> DEFINE S == {k \in 0 .. h : n < 2 * 2 ^ k =>
                      \E l \in 0 .. h : 2 ^ (h - l) <= n /\ n < 2 * 2 ^ (h - l)}
  <1>1. 0 \in S
    <2>1. 0 \in 0 .. h /\ h \in 0 .. h /\ 2 ^ 0 = 1 /\ 2 ^ (h - h) = 1
      OBVIOUS
    <2>2. ASSUME n < 2 * 2 ^ 0
          PROVE  2 ^ (h - h) <= n /\ n < 2 * 2 ^ (h - h)
      BY <2>1, <2>2
    <2> QED  BY <2>1, <2>2
  <1>2. ASSUME NEW k \in 0 .. h - 1, k \in S
        PROVE  k + 1 \in S
    <2>1. k \in Nat /\ k + 1 \in 0 .. h /\ h - (k + 1) \in 0 .. h /\ h - (h - (k + 1)) = k + 1
      OBVIOUS
    <2>2. 2 ^ (k + 1) = 2 * 2 ^ k /\ 2 ^ k \in Nat
      BY <2>1, PowerStep, PowerIsNat
    <2>3. CASE n < 2 ^ (k + 1)
      BY <1>2, <2>1, <2>2, <2>3
    <2>4. CASE ~(n < 2 ^ (k + 1))
      <3>1. 2 ^ (k + 1) <= n
        BY <2>2, <2>4
      <3> QED  BY <2>1, <3>1
    <2> QED  BY <2>3, <2>4
  <1> HIDE DEF S
  <1>3. 0 .. h \subseteq S
    BY <1>1, <1>2, IntervalInduction
  <1>4. h \in S
    BY <1>3
  <1> QED  BY <1>4 DEF S

(* The least number of bits that holds n, sought among few.                 *)
LEMMA SomeBits ==
    ASSUME NEW n \in Nat
    PROVE  \E b \in 0 .. 16 + n \div 2 ^ 16 : n < 2 ^ b /\ (b = 0 \/ 2 ^ (b - 1) <= n)
  <1> DEFINE T == {b \in Nat : n < 2 ^ b}
             Is(b) == n < 2 ^ b /\ (b = 0 \/ 2 ^ (b - 1) <= n)
  <1>1. PICK c \in T : \A d \in T : c <= d
    <2>1. n \in T
      BY BelowPower
    <2> QED  BY <2>1, LeastElement
  <1> DEFINE M == 2 ^ 16
             w == n \div M
  <1>2. c \in Nat /\ n < 2 ^ c /\ c \in 0 .. 16 + w /\ w \in Nat
    <2>1. M \in Nat \ {0} /\ 16 \in Nat
      BY PowerIsNat
    <2> HIDE DEF M
    <2>2. w \in Nat /\ n < M * w + M
      BY <2>1
    <2> HIDE DEF w
    <2>3. 2 ^ w \in Nat /\ w + 1 <= 2 ^ w
      <3>1. 2 ^ w \in Nat /\ w < 2 ^ w
        BY <2>2, PowerIsNat, BelowPower
      <3> QED  BY <3>1, <2>2
    <2>4. 2 ^ (16 + w) = M * 2 ^ w
      BY <2>2, PowerAdd DEF M
    <2>5. n < M * 2 ^ w
      <3>1. \A p \in Nat : w + 1 <= p => M * w + M <= M * p
        BY <2>1, <2>2, Z3
      <3>2. M * w + M <= M * 2 ^ w
        BY <2>3, <3>1
      <3>3. M * w + M \in Nat /\ M * 2 ^ w \in Nat
        BY <2>1, <2>2, <2>3
      <3> QED  BY <2>2, <3>2, <3>3
    <2>6. 16 + w \in T
      BY <2>2, <2>4, <2>5
    <2>7. c \in T /\ c <= 16 + w
      <3> HIDE DEF T
      <3> QED  BY <1>1, <2>6
    <2> QED  BY <2>2, <2>7
  <1>3. Is(c)
    <2>1. CASE c = 0
      BY <1>2, <2>1
    <2>2. CASE c # 0
      <3>1. c - 1 \in Nat /\ ~(c <= c - 1)
        BY <1>2, <2>2
      <3>2. c - 1 \notin T
        BY <1>1, <3>1
      <3>3. ~(n < 2 ^ (c - 1)) /\ 2 ^ (c - 1) \in Nat
        BY <3>1, <3>2, PowerIsNat
      <3>4. 2 ^ (c - 1) <= n
        BY <3>3
      <3> QED  BY <1>2, <3>4
    <2> QED  BY <2>1, <2>2
  <1>4. c \in 0 .. 16 + w
    BY <1>2
  <1> QED  BY <1>3, <1>4

(* The running values of L digits to the base 256, as a recursive function  *)
(* computes them.                                                           *)
IsHorner(f, b, L) == f = [i \in 0 .. L |-> IF i = 0 THEN 0 ELSE 256 * f[i - 1] + b[i]]

(* f are such values: they begin at 0, each takes one digit more, and the   *)
(* last is the only one the equation has.                                   *)
Running(f, b, L) ==
    /\ f \in [0 .. L -> Nat] /\ f[0] = 0
    /\ \A i \in 1 .. L : f[i] = 256 * f[i - 1] + b[i]
    /\ IsHorner(f, b, L) /\ \A g : IsHorner(g, b, L) => g[L] = f[L]

(* There are such values, and no two last ones.                             *)
LEMMA Horner ==
    ASSUME NEW L \in Nat, NEW b, \A i \in 1 .. L : b[i] \in Nat
    PROVE  \E f : Running(f, b, L)
  <1> DEFINE Part(f, m) == f[0] = 0 /\ \A i \in 1 .. m : f[i] = 256 * f[i - 1] + b[i]
             S == {m \in 0 .. L : \E f \in [0 .. m -> Nat] : Part(f, m)}
  <1>1. L \in Nat /\ \A i \in 1 .. L : b[i] \in Nat
    OBVIOUS
  <1>2. 0 \in S
    <2>1. [i \in 0 .. 0 |-> 0] \in [0 .. 0 -> Nat] /\ Part([i \in 0 .. 0 |-> 0], 0)
      OBVIOUS
    <2>2. 0 \in 0 .. L
      BY <1>1
    <2> HIDE DEF Part
    <2>3. \E f \in [0 .. 0 -> Nat] : Part(f, 0)
      BY <2>1
    <2> QED  BY <2>2, <2>3
  <1>3. ASSUME NEW m \in 0 .. L - 1, m \in S
        PROVE  m + 1 \in S
    <2>1. PICK f \in [0 .. m -> Nat] : Part(f, m)
      BY <1>3
    <2> DEFINE g == [i \in 0 .. m + 1 |-> IF i <= m THEN f[i] ELSE 256 * f[m] + b[m + 1]]
    <2>2. m \in Nat /\ m + 1 \in 1 .. L /\ b[m + 1] \in Nat
      BY <1>1
    <2>3. g \in [0 .. m + 1 -> Nat]
      BY <2>1, <2>2
    <2>4. ASSUME NEW i \in 1 .. m + 1
          PROVE  g[i] = 256 * g[i - 1] + b[i]
      <3>1. CASE i <= m
        <4>1. i \in 1 .. m /\ i - 1 \in 0 .. m
          BY <3>1, <2>2
        <4> QED  BY <4>1, <2>1, <2>2
      <3>2. CASE i = m + 1
        BY <3>2, <2>2
      <3> QED  BY <3>1, <3>2, <2>2
    <2>5. g[0] = 0
      BY <2>1, <2>2
    <2> HIDE DEF g
    <2>6. Part(g, m + 1)
      BY <2>4, <2>5
    <2>7. m + 1 \in 0 .. L
      BY <1>1
    <2> HIDE DEF Part
    <2>8. \E h \in [0 .. m + 1 -> Nat] : Part(h, m + 1)
      BY <2>3, <2>6
    <2> QED  BY <2>7, <2>8
  <1>4. L \in S
    <2> HIDE DEF S
    <2>1. 0 .. L \subseteq S
      BY <1>1, <1>2, <1>3, IntervalInduction
    <2> QED  BY <2>1, <1>1
  <1>5. PICK f \in [0 .. L -> Nat] : Part(f, L)
    BY <1>4
  <1>6. IsHorner(f, b, L)
    <2>1. \A i \in 0 .. L : f[i] = IF i = 0 THEN 0 ELSE 256 * f[i - 1] + b[i]
      BY <1>1, <1>5
    <2>2. f = [i \in 0 .. L |-> f[i]]
      BY <1>5
    <2> QED  BY <2>1, <2>2 DEF IsHorner
  <1>7. ASSUME NEW g, IsHorner(g, b, L)  PROVE g[L] = f[L]
    <2> DEFINE T == {i \in 0 .. L : g[i] = f[i]}
    <2>1. 0 \in T
      BY <1>1, <1>5, <1>7 DEF IsHorner
    <2>2. ASSUME NEW i \in 0 .. L - 1, i \in T  PROVE i + 1 \in T
      <3>1. i + 1 \in 0 .. L /\ i + 1 # 0 /\ i + 1 \in 1 .. L /\ (i + 1) - 1 = i
        BY <1>1
      <3>2. g[i + 1] = 256 * g[i] + b[i + 1]
        BY <1>7, <3>1 DEF IsHorner
      <3>3. f[i + 1] = 256 * f[i] + b[i + 1]
        BY <1>5, <3>1
      <3> QED  BY <2>2, <3>1, <3>2, <3>3
    <2> HIDE DEF T
    <2>3. 0 \in Int /\ L \in Int
      BY <1>1
    <2>4. \A i \in 0 .. L - 1 : i \in T => i + 1 \in T
      BY <2>2
    <2>5. 0 .. L \subseteq T
      BY ONLY <2>1, <2>3, <2>4, IntervalInduction
    <2>6. L \in 0 .. L
      OBVIOUS
    <2> QED  BY <2>5, <2>6 DEF T
  <1> QED  BY <1>5, <1>6, <1>7 DEF Running

-----------------------------------------------------------------------------
(* Integers that differ by a multiple of n.                                 *)
Cong(n, a, b) == \E q \in Int : a = b + q * n

(* A number and its remainder.                                              *)
LEMMA ModCong ==
    ASSUME NEW n \in Nat, n > 0, NEW a \in Int
    PROVE  Cong(n, a % n, a) /\ a % n \in 0 .. n - 1
  <1>1. a = n * (a \div n) + (a % n) /\ a \div n \in Int /\ a % n \in 0 .. n - 1
    OBVIOUS
  <1>2. -(a \div n) \in Int /\ a % n = a + (-(a \div n)) * n
    BY <1>1
  <1> QED  BY <1>1, <1>2 DEF Cong

(* Congruence is symmetric.                                                 *)
LEMMA CongSym ==
    ASSUME NEW n \in Nat, NEW a \in Int, NEW b \in Int, Cong(n, a, b)
    PROVE  Cong(n, b, a)
  <1>1. PICK q \in Int : a = b + q * n
    BY DEF Cong
  <1>2. -q \in Int /\ b = a + (-q) * n
    BY <1>1
  <1> QED  BY <1>2 DEF Cong

(* Congruence is transitive.                                                *)
LEMMA CongTrans ==
    ASSUME NEW n \in Nat, NEW a \in Int, NEW b \in Int, NEW c \in Int,
           Cong(n, a, b), Cong(n, b, c)
    PROVE  Cong(n, a, c)
  <1>1. PICK q \in Int : a = b + q * n
    BY DEF Cong
  <1>2. PICK p \in Int : b = c + p * n
    BY DEF Cong
  <1>3. p + q \in Int /\ a = c + (p + q) * n
    BY <1>1, <1>2
  <1> QED  BY <1>3 DEF Cong

(* Sums of congruent numbers are congruent.                                 *)
LEMMA CongAdd ==
    ASSUME NEW n \in Nat, NEW a \in Int, NEW b \in Int, NEW c \in Int, NEW d \in Int,
           Cong(n, a, b), Cong(n, c, d)
    PROVE  Cong(n, a + c, b + d)
  <1>1. PICK q \in Int : a = b + q * n
    BY DEF Cong
  <1>2. PICK p \in Int : c = d + p * n
    BY DEF Cong
  <1>3. p + q \in Int /\ a + c = b + d + (p + q) * n
    BY <1>1, <1>2
  <1> QED  BY <1>3 DEF Cong

(* Products of congruent numbers are congruent.                             *)
LEMMA CongMul ==
    ASSUME NEW n \in Nat, NEW a \in Int, NEW b \in Int, NEW c \in Int, NEW d \in Int,
           Cong(n, a, b), Cong(n, c, d)
    PROVE  Cong(n, a * c, b * d)
  <1>1. PICK q \in Int : a = b + q * n
    BY DEF Cong
  <1>2. PICK p \in Int : c = d + p * n
    BY DEF Cong
  <1>3. (b + q * n) * (d + p * n) = b * d + (b * p + q * d + q * p * n) * n
    BY Z3
  <1>4. b * p + q * d + q * p * n \in Int
    OBVIOUS
  <1> QED  BY <1>1, <1>2, <1>3, <1>4 DEF Cong

(* Congruence is reflexive.                                                 *)
LEMMA CongRefl ==
    ASSUME NEW n \in Nat, NEW a \in Int
    PROVE  Cong(n, a, a)
  <1>1. 0 \in Int /\ a = a + 0 * n
    OBVIOUS
  <1> QED  BY <1>1 DEF Cong

(* Congruent numbers below n are equal.                                     *)
LEMMA CongSmall ==
    ASSUME NEW n \in Nat, NEW a \in 0 .. n - 1, NEW b \in 0 .. n - 1, Cong(n, a, b)
    PROVE  a = b
  <1>1. PICK q \in Int : a = b + q * n
    BY DEF Cong
  <1>2. q > 0 => q * n >= n
    OBVIOUS
  <1>3. q < 0 => q * n <= -n
    OBVIOUS
  <1> QED  BY <1>1, <1>2, <1>3

(* A factor with an inverse cancels.                                        *)
LEMMA CongCancel ==
    ASSUME NEW n \in Nat, NEW s \in Int, NEW i \in Int, NEW a \in Int, NEW b \in Int,
           Cong(n, s * i, 1), Cong(n, s * a, s * b)
    PROVE  Cong(n, a, b)
  <1>0. s * i \in Int /\ s * a \in Int /\ s * b \in Int
    OBVIOUS
  <1>1. Cong(n, i * (s * a), i * (s * b))
    BY <1>0, CongRefl, CongMul
  <1>2. Cong(n, (s * i) * a, 1 * a) /\ Cong(n, (s * i) * b, 1 * b)
    <2> DEFINE p == s * i
    <2>1. p \in Int /\ Cong(n, p, 1) /\ Cong(n, a, a) /\ Cong(n, b, b)
      BY <1>0, CongRefl
    <2> HIDE DEF p
    <2>2. Cong(n, p * a, 1 * a) /\ Cong(n, p * b, 1 * b)
      BY <2>1, CongMul
    <2> QED  BY <2>2 DEF p
  <1>3. /\ i * (s * a) = (s * i) * a /\ i * (s * b) = (s * i) * b /\ 1 * a = a /\ 1 * b = b
        /\ (s * i) * a \in Int /\ (s * i) * b \in Int
    BY Z3
  <1>4. Cong(n, (s * i) * a, (s * i) * b)
    BY <1>1, <1>3
  <1>5. Cong(n, a, (s * i) * a)
    BY <1>2, <1>3, CongSym
  <1>6. Cong(n, a, (s * i) * b)
    BY <1>4, <1>5, <1>3, CongTrans
  <1> QED  BY <1>6, <1>2, <1>3, CongTrans
-----------------------------------------------------------------------------
(* Two strings put together are found again in the result.                  *)
IsConcat(u, s, t, S) ==
    /\ u \in Seq(S) /\ Len(u) = Len(s) + Len(t) /\ Len(s) \in Nat /\ Len(t) \in Nat
    /\ \A i \in 1 .. Len(s) : u[i] = s[i]
    /\ \A i \in 1 .. Len(t) : u[Len(s) + i] = t[i]

(* That is what putting two strings together gives.                         *)
LEMMA ConcatShape ==
    ASSUME NEW S, NEW s \in Seq(S), NEW t \in Seq(S)
    PROVE  IsConcat(s \o t, s, t, S)
  <1>1. PICK u : u = s \o t
    OBVIOUS
  <1>2. /\ u \in Seq(S) /\ Len(u) = Len(s) + Len(t) /\ Len(s) \in Nat /\ Len(t) \in Nat
        /\ \A i \in 1 .. Len(s) + Len(t) : u[i] = IF i <= Len(s) THEN s[i] ELSE t[i - Len(s)]
    BY <1>1, ConcatProperties
  <1>3. \A i \in 1 .. Len(s) : u[i] = s[i]
    BY <1>2
  <1>4. ASSUME NEW i \in 1 .. Len(t)
        PROVE  u[Len(s) + i] = t[i]
    <2>1. Len(s) + i \in 1 .. Len(s) + Len(t) /\ ~(Len(s) + i <= Len(s)) /\ (Len(s) + i) - Len(s) = i
      BY <1>2
    <2> QED  BY <1>2, <2>1
  <1>5. IsConcat(u, s, t, S)
    BY <1>2, <1>3, <1>4 DEF IsConcat
  <1> QED  BY <1>1, <1>5, Zenon

(* The recursion of Join.                                                   *)
IsJoined(f, c, n) ==
    f = [k \in 0 .. n |-> IF k = 0 THEN <<>> ELSE f[k - 1] \o c[k]]

JoinOf(c, n) == CHOOSE f : IsJoined(f, c, n)

(* The function that SequencesExt chooses for joining equal parts exists.   *)
LEMMA JoinExists ==
    ASSUME NEW c, NEW n \in Nat
    PROVE  IsJoined(JoinOf(c, n), c, n)
  <1> DEFINE S == {j \in 0 .. n : \E f : IsJoined(f, c, j)}
  <1>1. 0 \in S
    <2> DEFINE g == [k \in 0 .. 0 |-> <<>>]
    <2>1. g = [k \in 0 .. 0 |-> g[k]] /\ \A k \in 0 .. 0 : k = 0 /\ g[k] = <<>>
      OBVIOUS
    <2> HIDE DEF g
    <2>2. IsJoined(g, c, 0)
      BY <2>1 DEF IsJoined
    <2> QED  BY <2>2
  <1>2. ASSUME NEW j \in 0 .. n - 1, j \in S
        PROVE  j + 1 \in S
    <2>1. PICK f : IsJoined(f, c, j)
      BY <1>2
    <2> DEFINE g == [k \in 0 .. j + 1 |-> IF k <= j THEN f[k] ELSE f[j] \o c[j + 1]]
    <2>2. \A k \in 0 .. j : g[k] = f[k]
      OBVIOUS
    <2>3. g[j + 1] = f[j] \o c[j + 1]
      <3>1. j + 1 \in 0 .. j + 1 /\ ~(j + 1 <= j)
        OBVIOUS
      <3> QED  BY <3>1, Zenon
    <2>4. g = [k \in 0 .. j + 1 |-> g[k]]
      OBVIOUS
    <2> HIDE DEF g
    <2>5. ASSUME NEW k \in 0 .. j + 1
          PROVE  g[k] = IF k = 0 THEN <<>> ELSE g[k - 1] \o c[k]
      <3>1. CASE k \in 0 .. j
        <4>1. f[k] = IF k = 0 THEN <<>> ELSE f[k - 1] \o c[k]
          BY <2>1, <3>1 DEF IsJoined
        <4>2. k # 0 => k - 1 \in 0 .. j
          BY <3>1
        <4> QED  BY <2>2, <3>1, <4>1, <4>2
      <3>2. CASE k = j + 1
        <4>1. k # 0 /\ k - 1 = j /\ j \in 0 .. j
          BY <3>2
        <4> QED  BY <2>2, <2>3, <3>2, <4>1
      <3> QED  BY <3>1, <3>2
    <2>6. IsJoined(g, c, j + 1)
      BY <2>4, <2>5 DEF IsJoined
    <2> QED  BY <2>6
  <1>3. 0 .. n \subseteq S
    <2> HIDE DEF S
    <2> QED  BY <1>1, <1>2, IntervalInduction
  <1>4. \E f : IsJoined(f, c, n)
    BY <1>3
  <1> QED  BY <1>4 DEF JoinOf

(* Strings of one length, joined, are found again at their places.          *)
AreChunks(c, S, len, n) == \A k \in 1 .. n : c[k] \in Seq(S) /\ Len(c[k]) = len

HoldsChunks(u, c, S, len, n) ==
    /\ u \in Seq(S) /\ Len(u) = n * len
    /\ \A k \in 1 .. n, i \in 1 .. len : u[(k - 1) * len + i] = c[k][i]

(* Each part stands at its place in the joined string.                      *)
LEMMA JoinHolds ==
    ASSUME NEW S, NEW c, NEW len \in Nat, NEW n \in Nat, AreChunks(c, S, len, n)
    PROVE  HoldsChunks(JoinOf(c, n)[n], c, S, len, n)
  <1>1. PICK f : f = JoinOf(c, n)
    OBVIOUS
  <1>2. f[0] = <<>> /\ \A k \in 1 .. n : f[k] = f[k - 1] \o c[k]
    <2>1. IsJoined(f, c, n)
      BY <1>1, JoinExists
    <2>2. 0 \in 0 .. n /\ \A k \in 1 .. n : k \in 0 .. n /\ k # 0
      OBVIOUS
    <2> QED  BY <2>1, <2>2 DEF IsJoined
  <1> DEFINE Z == {k \in 0 .. n : HoldsChunks(f[k], c, S, len, k)}
  <1>3. 0 \in Z
    <2>1. 0 * len = 0 /\ <<>> \in Seq(S) /\ Len(<<>>) = 0 /\ 1 .. 0 = {} /\ 0 \in 0 .. n
      OBVIOUS
    <2> QED  BY <1>2, <2>1 DEF HoldsChunks
  <1>4. ASSUME NEW k \in 0 .. n - 1, k \in Z
        PROVE  k + 1 \in Z
    <2>1. PICK u, v, w : u = f[k] /\ v = c[k + 1] /\ w = f[k + 1]
      OBVIOUS
    <2>2. k + 1 \in 1 .. n /\ (k + 1) - 1 = k /\ k + 1 \in 0 .. n /\ k \in Nat
      OBVIOUS
    <2>3. w = u \o v
      BY <1>2, <2>1, <2>2
    <2>4. u \in Seq(S) /\ Len(u) = k * len /\ \A j \in 1 .. k, i \in 1 .. len :
                                                   u[(j - 1) * len + i] = c[j][i]
      BY <1>4, <2>1 DEF HoldsChunks
    <2>5. v \in Seq(S) /\ Len(v) = len
      BY <2>1, <2>2 DEF AreChunks
    <2>6. /\ w \in Seq(S) /\ Len(w) = Len(u) + Len(v)
          /\ \A i \in 1 .. Len(u) : w[i] = u[i]
          /\ \A i \in 1 .. Len(v) : w[Len(u) + i] = v[i]
      <3>1. u \in Seq(S) /\ v \in Seq(S)
        BY <2>4, <2>5
      <3>2. IsConcat(u \o v, u, v, S)
        BY <3>1, ConcatShape
      <3>3. IsConcat(w, u, v, S)
        BY <2>3, <3>2, Zenon
      <3> QED  BY <3>3 DEF IsConcat
    <2>7. Len(w) = (k + 1) * len
      <3>1. (k + 1) * len = k * len + len
        BY <2>2
      <3> QED  BY <2>4, <2>5, <2>6, <3>1
    <2>8. ASSUME NEW j \in 1 .. k + 1, NEW i \in 1 .. len
          PROVE  w[(j - 1) * len + i] = c[j][i]
      <3>1. CASE j \in 1 .. k
        <4>1. (j - 1) * len + i \in 1 .. k * len
          <5>1. (j - 1) * len \in Nat /\ (j - 1) * len + len = j * len /\ j * len <= k * len
            BY <2>2, <3>1
          <5> QED  BY <5>1
        <4> QED  BY <2>4, <2>6, <3>1, <4>1
      <3>2. CASE j = k + 1
        <4>1. j - 1 = k
          BY <2>2, <3>2
        <4> QED  BY <2>1, <2>4, <2>5, <2>6, <3>2, <4>1
      <3> QED  BY <2>2, <3>1, <3>2
    <2>9. HoldsChunks(w, c, S, len, k + 1)
      BY <2>6, <2>7, <2>8 DEF HoldsChunks
    <2> QED  BY <2>1, <2>2, <2>9
  <1>5. 0 .. n \subseteq Z
    <2> HIDE DEF Z
    <2> QED  BY <1>3, <1>4, IntervalInduction
  <1>6. n \in Z
    BY <1>5
  <1> QED  BY <1>1, <1>6

(* What cutting out some words gives.                                       *)
IsCut(d, b, a, n, S) ==
    d \in Seq(S) /\ Len(d) = n /\ \A i \in 1 .. n : d[i] = b[a + i]

(* A part cut out of a string is that part.                                 *)
LEMMA CutOut ==
    ASSUME NEW S, NEW b \in Seq(S), NEW a \in Nat, NEW n \in Nat, a + n <= Len(b)
    PROVE  IsCut(SubSeq(b, a + 1, a + n), b, a, n, S)
  <1>1. PICK d : d = SubSeq(b, a + 1, a + n)
    OBVIOUS
  <1>2. d \in Seq(S) /\ Len(d) = n
    BY <1>1
  <1>3. ASSUME NEW i \in 1 .. n
        PROVE  d[i] = b[a + i]
    <2>1. a + 1 + i - 1 = a + i /\ i \in 1 .. (a + n) - (a + 1) + 1
      OBVIOUS
    <2> QED  BY <1>1, <2>1
  <1> QED  BY <1>1, <1>2, <1>3, Zenon DEF IsCut

(* Two strings put together are cut apart again.                            *)
LEMMA CutApart ==
    ASSUME NEW S, NEW s \in Seq(S), NEW t \in Seq(S), NEW m, m = Len(s), NEW n, n = m + Len(t),
           NEW u, u = s \o t
    PROVE  /\ SubSeq(u, 1, m) = s /\ SubSeq(u, m + 1, n) = t
           /\ u \in Seq(S) /\ Len(u) = n
  <1>2. IsConcat(u, s, t, S)
    BY ConcatShape
  <1>3. /\ u \in Seq(S) /\ Len(u) = n /\ m \in Nat /\ Len(t) \in Nat /\ n \in Nat
        /\ \A i \in 1 .. m : u[i] = s[i]
        /\ \A i \in 1 .. Len(t) : u[m + i] = t[i]
    BY <1>2 DEF IsConcat
  <1>4. SubSeq(u, 1, m) = s
    <2>1. 0 + m <= Len(u) /\ 0 \in Nat /\ 0 + 1 = 1 /\ 0 + m = m
      BY <1>3
    <2>2. IsCut(SubSeq(u, 0 + 1, 0 + m), u, 0, m, S)
      BY <1>3, <2>1, CutOut, Zenon
    <2>3. PICK d : d = SubSeq(u, 1, m)
      OBVIOUS
    <2>4. d \in Seq(S) /\ Len(d) = m /\ \A i \in 1 .. m : d[i] = u[0 + i]
      BY <2>1, <2>2, <2>3 DEF IsCut
    <2>5. Len(d) = Len(s) /\ \A i \in 1 .. Len(d) : d[i] = s[i]
      BY <1>3, <2>4
    <2> QED  BY <2>3, <2>4, <2>5, SeqEqual
  <1>5. SubSeq(u, m + 1, n) = t
    <2>1. m + Len(t) <= Len(u)
      BY <1>3
    <2>2. IsCut(SubSeq(u, m + 1, m + Len(t)), u, m, Len(t), S)
      BY <1>3, <2>1, CutOut
    <2>3. PICK d : d = SubSeq(u, m + 1, n)
      OBVIOUS
    <2>4. d \in Seq(S) /\ Len(d) = Len(t) /\ \A i \in 1 .. Len(t) : d[i] = u[m + i]
      BY <2>2, <2>3 DEF IsCut
    <2>5. Len(d) = Len(t) /\ \A i \in 1 .. Len(d) : d[i] = t[i]
      BY <1>3, <2>4
    <2> QED  BY <2>3, <2>4, <2>5, SeqEqual
  <1> QED  BY <1>3, <1>4, <1>5
=============================================================================
