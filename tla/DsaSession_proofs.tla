-------------------------- MODULE DsaSession_proofs --------------------------
(***************************************************************************)
(* Proofs about DsaSession, for every size generation is asked for, every   *)
(* number given as a parameter or a key, and every hash.                    *)
(*                                                                          *)
(* Four parts.  Powers: repeated squaring computes a power, so the power of *)
(* a sum is a product and a g of order q repeats itself every q.  Inverses: *)
(* modulo a prime every number has one.  The verifier: what verify_prehashed*)
(* computes from r and s is the power of g whose exponent is the nonce that *)
(* s was made with, so it accepts exactly the pairs the equation            *)
(* s k = h + x r allows.  The session: an inductive invariant says that the *)
(* parameters, the key and the signature at hand were let through by their  *)
(* constructors, and that a signature made here is what the key gives for   *)
(* the hash and some nonce.                                                 *)
(***************************************************************************)
EXTENDS DsaSession, BasicFacts, SequenceTheorems, TLAPS

(* One round of modpow: the power of n from that of n \div 2.               *)
PowRound(a, m, n, half) ==
    IF n = 0 THEN 1 % m
    ELSE LET square == (half * half) % m
         IN  IF n % 2 = 0 THEN square ELSE (square * (a % m)) % m

(* A function that has the rounds up to k.                                  *)
Rounds(f, a, m, k) ==
    /\ f \in [0 .. k -> Nat]
    /\ \A n \in 0 .. k : f[n] = PowRound(a, m, n, f[n \div 2])

(* A round's result is a remainder.                                         *)
LEMMA RoundRange ==
    ASSUME NEW a \in Nat, NEW m \in Nat, m > 0, NEW n \in Nat, NEW half \in Nat
    PROVE  PowRound(a, m, n, half) \in 0 .. m - 1
  <1> DEFINE square == (half * half) % m
  <1>1. square \in 0 .. m - 1 /\ a % m \in 0 .. m - 1 /\ 1 % m \in 0 .. m - 1
    <2>1. half * half \in Nat
      OBVIOUS
    <2> QED  BY <2>1
  <1> HIDE DEF square
  <1>2. square * (a % m) \in Nat
    BY <1>1
  <1>3. (square * (a % m)) % m \in 0 .. m - 1
    BY <1>2
  <1> QED  BY <1>1, <1>3 DEF PowRound, square

(* There are functions with the rounds up to any k.                         *)
LEMMA RoundsExist ==
    ASSUME NEW a \in Nat, NEW m \in Nat, m > 0, NEW k \in Nat
    PROVE  \E f : Rounds(f, a, m, k)
  <1> DEFINE S == {j \in 0 .. k : \E f : Rounds(f, a, m, j)}
  <1>1. 0 \in S
    <2> DEFINE f == [n \in 0 .. 0 |-> 1 % m]
    <2>1. 1 % m \in Nat
      OBVIOUS
    <2>2. f \in [0 .. 0 -> Nat] /\ f[0] = 1 % m
      BY <2>1
    <2>3. \A n \in 0 .. 0 : n = 0
      OBVIOUS
    <2>4. \A h : PowRound(a, m, 0, h) = 1 % m
      BY DEF PowRound
    <2> HIDE DEF f
    <2>5. Rounds(f, a, m, 0)
      BY <2>2, <2>3, <2>4 DEF Rounds
    <2> QED  BY <2>5
  <1>2. ASSUME NEW j \in 0 .. k - 1, j \in S
        PROVE  j + 1 \in S
    <2>1. PICK f : Rounds(f, a, m, j)
      BY <1>2
    <2> DEFINE g == [n \in 0 .. j + 1 |->
                        IF n <= j THEN f[n] ELSE PowRound(a, m, j + 1, f[(j + 1) \div 2])]
    <2>2. (j + 1) \div 2 \in 0 .. j /\ j + 1 \in 0 .. k /\ j \in Nat
      OBVIOUS
    <2>3. f \in [0 .. j -> Nat]
      BY <2>1 DEF Rounds
    <2>4. PowRound(a, m, j + 1, f[(j + 1) \div 2]) \in Nat
      <3>1. f[(j + 1) \div 2] \in Nat
        BY <2>2, <2>3
      <3>2. PowRound(a, m, j + 1, f[(j + 1) \div 2]) \in 0 .. m - 1
        <4>1. j + 1 \in Nat
          BY <2>2
        <4> QED  BY <3>1, <4>1, RoundRange
      <3> QED  BY <3>2
    <2>5. g \in [0 .. j + 1 -> Nat]
      BY <2>2, <2>3, <2>4
    <2>6. ASSUME NEW n \in 0 .. j + 1
          PROVE  g[n] = PowRound(a, m, n, g[n \div 2])
      <3>1. CASE n <= j
        <4>1. n \in 0 .. j /\ n \div 2 \in 0 .. j + 1 /\ n \div 2 <= j
          BY <3>1, <2>2
        <4>2. g[n] = f[n] /\ g[n \div 2] = f[n \div 2]
          BY <4>1, <2>2
        <4>3. f[n] = PowRound(a, m, n, f[n \div 2])
          BY <4>1, <2>1 DEF Rounds
        <4> QED  BY <4>2, <4>3
      <3>2. CASE n = j + 1
        <4>1. n \div 2 \in 0 .. j + 1 /\ n \div 2 <= j /\ ~(n <= j)
          BY <3>2, <2>2
        <4>2. g[n] = PowRound(a, m, j + 1, f[(j + 1) \div 2]) /\ g[n \div 2] = f[n \div 2]
          BY <4>1
        <4> QED  BY <4>2, <3>2
      <3> QED  BY <3>1, <3>2, <2>2
    <2> HIDE DEF g
    <2>7. Rounds(g, a, m, j + 1)
      BY <2>5, <2>6 DEF Rounds
    <2> QED  BY <2>2, <2>7
  <1> HIDE DEF S
  <1>3. 0 .. k \subseteq S
    BY <1>1, <1>2, IntervalInduction
  <1>4. k \in S
    BY <1>3
  <1> QED  BY <1>4 DEF S

(* Two of them agree as far as both go.                                     *)
LEMMA RoundsAgree ==
    ASSUME NEW a \in Nat, NEW m \in Nat, NEW j \in Nat, NEW k \in Nat, j <= k,
           NEW f, Rounds(f, a, m, j), NEW g, Rounds(g, a, m, k)
    PROVE  \A n \in 0 .. j : f[n] = g[n]
  <1> DEFINE T == {n \in 0 .. j : f[n] # g[n]}
  <1>1. SUFFICES ASSUME T # {}  PROVE FALSE
    OBVIOUS
  <1>2. PICK n \in T : \A i \in T : n <= i
    <2> T \subseteq Nat
      OBVIOUS
    <2> HIDE DEF T
    <2> QED  BY <1>1, LeastElement
  <1>3. n \in 0 .. j /\ f[n] # g[n]
    BY <1>2
  <1>4. CASE n = 0
    <2>1. \A h : PowRound(a, m, 0, h) = 1 % m
      BY DEF PowRound
    <2>2. 0 \in 0 .. j /\ 0 \in 0 .. k
      OBVIOUS
    <2>3. f[0] = 1 % m /\ g[0] = 1 % m
      BY <2>1, <2>2 DEF Rounds
    <2> QED  BY <1>3, <1>4, <2>3
  <1>5. CASE n # 0
    <2>1. n \div 2 \in 0 .. j /\ n \div 2 < n /\ n \in 0 .. k
      BY <1>3, <1>5
    <2>2. n \div 2 \notin T
      <3> HIDE DEF T
      <3>1. \A i \in T : ~(i < n)
        <4>1. \A i \in T : i \in Nat /\ n \in Nat
          BY <1>3 DEF T
        <4> QED  BY <1>2, <4>1
      <3> QED  BY <2>1, <3>1
    <2>3. f[n \div 2] = g[n \div 2]
      BY <2>1, <2>2
    <2>4. f[n] = PowRound(a, m, n, f[n \div 2]) /\ g[n] = PowRound(a, m, n, g[n \div 2])
      BY <1>3, <2>1 DEF Rounds
    <2> QED  BY <1>3, <2>3, <2>4
  <1> QED  BY <1>4, <1>5

(* What modpow computes, round by round.                                    *)
LEMMA PowerRounds ==
    ASSUME NEW a \in Nat, NEW m \in Nat, m > 0, NEW n \in Nat
    PROVE  /\ modpow(a, n, m) \in 0 .. m - 1
           /\ modpow(a, n, m) = PowRound(a, m, n, modpow(a, n \div 2, m))
  <1> DEFINE Is(h) == h = [i \in Nat |->
                            IF i = 0 THEN 1 % m
                            ELSE LET half == h[i \div 2]
                                     square == (half * half) % m
                                 IN  IF i % 2 = 0 THEN square ELSE (square * (a % m)) % m]
             Some(k) == CHOOSE f : Rounds(f, a, m, k)
             G == [i \in Nat |-> Some(i)[i]]
  <1>1. ASSUME NEW k \in Nat  PROVE Rounds(Some(k), a, m, k)
    <2>1. \E f : Rounds(f, a, m, k)
      BY RoundsExist
    <2> QED  BY <2>1
  <1> HIDE DEF Some
  <1>2. ASSUME NEW i \in Nat
        PROVE  G[i] = PowRound(a, m, i, G[i \div 2]) /\ G[i] \in Nat
    <2>1. i \div 2 \in Nat /\ i \div 2 <= i /\ i \in 0 .. i /\ i \div 2 \in 0 .. i
          /\ i \div 2 \in 0 .. (i \div 2)
      OBVIOUS
    <2>2. Some(i)[i] = PowRound(a, m, i, Some(i)[i \div 2]) /\ Some(i)[i] \in Nat
      BY <1>1, <2>1 DEF Rounds
    <2>3. Some(i \div 2)[i \div 2] = Some(i)[i \div 2]
      BY <1>1, <2>1, RoundsAgree
    <2> QED  BY <2>1, <2>2, <2>3
  <1> HIDE DEF G
  <1>3. Is(G)
    <2>1. G = [i \in Nat |-> G[i]]
      BY DEF G
    <2>2. \A i \in Nat : G[i] = IF i = 0 THEN 1 % m
                            ELSE LET half == G[i \div 2]
                                     square == (half * half) % m
                                 IN  IF i % 2 = 0 THEN square ELSE (square * (a % m)) % m
      BY <1>2 DEF PowRound
    <2> QED  BY <2>1, <2>2
  <1> DEFINE F == CHOOSE h : Is(h)
  <1>4. Is(F)
    <2> HIDE DEF Is
    <2> QED  BY <1>3
  <1>5. \A i \in Nat : modpow(a, i, m) = F[i]
    BY DEF modpow
  <1> HIDE DEF F
  <1>6. \A i \in Nat : F[i] = PowRound(a, m, i, F[i \div 2])
    BY <1>4 DEF PowRound
  <1> HIDE DEF Is
  <1>7. \A i \in Nat : F[i] \in 0 .. m - 1
    <2> DEFINE T == {i \in Nat : F[i] \notin 0 .. m - 1}
    <2>1. SUFFICES ASSUME T # {}  PROVE FALSE
      OBVIOUS
    <2>2. PICK i \in T : \A j \in T : i <= j
      <3> T \subseteq Nat
        OBVIOUS
      <3> HIDE DEF T
      <3> QED  BY <2>1, LeastElement
    <2>3. F[i \div 2] \in Nat \/ i = 0
      <3>1. i \in Nat
        BY <2>2
      <3>2. CASE i # 0
        <4>1. i \div 2 \in Nat /\ ~(i <= i \div 2)
          BY <3>1, <3>2
        <4>2. i \div 2 \notin T
          <5> HIDE DEF T
          <5> QED  BY <4>1, <2>2
        <4>3. F[i \div 2] \in 0 .. m - 1
          BY <4>1, <4>2
        <4> QED  BY <4>3
      <3> QED  BY <3>2
    <2>4. CASE i = 0
      <3>1. F[0] = 1 % m
        BY <1>6 DEF PowRound
      <3>2. 1 % m \in 0 .. m - 1
        OBVIOUS
      <3> QED  BY <2>2, <2>4, <3>1, <3>2
    <2>5. CASE F[i \div 2] \in Nat
      <3>1. i \in Nat /\ F[i] = PowRound(a, m, i, F[i \div 2]) /\ F[i] \notin 0 .. m - 1
        BY <2>2, <1>6
      <3>2. PowRound(a, m, i, F[i \div 2]) \in 0 .. m - 1
        BY ONLY <2>5, <3>1, RoundRange, m > 0, a \in Nat, m \in Nat
      <3> QED  BY <3>1, <3>2
    <2> QED  BY <2>3, <2>4, <2>5
  <1>8. n \div 2 \in Nat
    OBVIOUS
  <1> QED  BY <1>5, <1>6, <1>7, <1>8

(* Taking a power and remainder is taking it of a remainder.                *)
LEMMA PowerRange ==
    ASSUME NEW a \in Nat, NEW m \in Nat, m > 0, NEW n \in Nat
    PROVE  modpow(a, n, m) \in 0 .. m - 1 /\ modpow(a, n, m) \in Nat
  <1>1. modpow(a, n, m) \in 0 .. m - 1
    BY PowerRounds
  <1> QED  BY <1>1

(* A round, as congruences: squares, and one factor more for odd n.         *)
LEMMA PowerHalf ==
    ASSUME NEW a \in Nat, NEW m \in Nat, m > 0, NEW n \in Nat, n > 0
    PROVE  LET half == modpow(a, n \div 2, m)
           IN  /\ n % 2 = 0 => Cong(m, modpow(a, n, m), half * half)
               /\ n % 2 = 1 => Cong(m, modpow(a, n, m), half * half * a)
  <1> DEFINE half == modpow(a, n \div 2, m)
             square == (half * half) % m
  <1>1. half \in Nat /\ half * half \in Nat
    <2>1. n \div 2 \in Nat
      OBVIOUS
    <2>2. half \in Nat
      BY <2>1, PowerRange
    <2> HIDE DEF half
    <2> QED  BY <2>2
  <1>2. modpow(a, n, m) = IF n % 2 = 0 THEN square ELSE (square * (a % m)) % m
    BY PowerRounds DEF PowRound
  <1> HIDE DEF half
  <1>3. square \in Nat /\ Cong(m, square, half * half)
    <2>1. square \in 0 .. m - 1 /\ Cong(m, square, half * half)
      BY <1>1, ModCong
    <2> QED  BY <2>1
  <1> HIDE DEF square
  <1>4. a % m \in Nat /\ Cong(m, a % m, a)
    <2>1. a % m \in 0 .. m - 1 /\ Cong(m, a % m, a)
      BY ModCong
    <2> QED  BY <2>1
  <1>5. Cong(m, square * (a % m), half * half * a)
    BY <1>1, <1>3, <1>4, CongMul
  <1>6. Cong(m, (square * (a % m)) % m, square * (a % m)) /\ square * (a % m) \in Int
        /\ (square * (a % m)) % m \in Int
    <2>1. square * (a % m) \in Int
      BY <1>3, <1>4
    <2>2. Cong(m, (square * (a % m)) % m, square * (a % m)) /\ (square * (a % m)) % m \in 0 .. m - 1
      BY <2>1, ModCong
    <2> QED  BY <2>1, <2>2
  <1>7. Cong(m, (square * (a % m)) % m, half * half * a)
    <2>1. half * half * a \in Int
      BY <1>1
    <2> QED  BY <2>1, <1>5, <1>6, CongTrans
  <1> QED  BY <1>2, <1>3, <1>7 DEF half

(* The power of n + 1 is that of n, times the base.                         *)
LEMMA PowerNext ==
    ASSUME NEW a \in Nat, NEW m \in Nat, m > 0, NEW n \in Nat
    PROVE  Cong(m, modpow(a, n + 1, m), modpow(a, n, m) * a)
  <1> DEFINE P(i) == modpow(a, i, m)
             T == {i \in Nat : ~Cong(m, P(i + 1), P(i) * a)}
  <1>1. \A i \in Nat : P(i) \in Nat
    BY PowerRange
  <1>2. \A i \in Nat : i > 0 => /\ i % 2 = 0 => Cong(m, P(i), P(i \div 2) * P(i \div 2))
                                /\ i % 2 = 1 => Cong(m, P(i), P(i \div 2) * P(i \div 2) * a)
    BY PowerHalf
  <1>3. Cong(m, P(0), 1)
    <2>1. P(0) = 1 % m
      BY PowerRounds DEF PowRound
    <2>2. Cong(m, 1 % m, 1)
      BY ModCong
    <2> QED  BY <2>1, <2>2
  <1> HIDE DEF P
  <1>4. SUFFICES ASSUME T # {}  PROVE FALSE
    BY DEF P
  <1>5. PICK i \in T : \A j \in T : i <= j
    <2> T \subseteq Nat
      OBVIOUS
    <2> HIDE DEF T
    <2> QED  BY <1>4, LeastElement
  <1>6. i \in Nat /\ ~Cong(m, P(i + 1), P(i) * a)
    BY <1>5
  <1>7. CASE i % 2 = 0
    <2> DEFINE k == i \div 2
    <2>1. k \in Nat /\ (i + 1) \div 2 = k /\ (i + 1) % 2 = 1 /\ i + 1 > 0 /\ i + 1 \in Nat
      BY <1>6, <1>7
    <2>2. Cong(m, P(i + 1), P(k) * P(k) * a)
      BY <2>1, <1>2
    <2>3. Cong(m, P(i), P(k) * P(k))
      <3>1. CASE i > 0
        BY <3>1, <1>6, <1>7, <1>2
      <3>2. CASE i = 0
        <4>1. k = 0
          BY <3>2
        <4>2. Cong(m, P(0) * P(0), 1 * 1) /\ P(0) * P(0) \in Int
          BY <1>1, <1>3, CongMul
        <4>3. Cong(m, 1, P(0) * P(0))
          BY <4>2, CongSym
        <4>4. Cong(m, P(0), P(0) * P(0))
          BY <4>2, <4>3, <1>1, <1>3, CongTrans
        <4> QED  BY <3>2, <4>1, <4>4
      <3> QED  BY <3>1, <3>2, <1>6
    <2> HIDE DEF k
    <2>4. P(k) * P(k) \in Int /\ P(i) \in Int /\ P(i + 1) \in Int /\ P(k) * P(k) * a \in Int
          /\ P(i) * a \in Int
      <3>1. P(k) \in Int /\ P(i) \in Int /\ P(i + 1) \in Int
        BY <1>1, <1>6, <2>1
      <3> QED  BY <3>1
    <2>5. Cong(m, P(i) * a, P(k) * P(k) * a)
      BY <2>3, <2>4, CongRefl, CongMul
    <2>6. Cong(m, P(k) * P(k) * a, P(i) * a)
      BY <2>4, <2>5, CongSym
    <2> QED  BY <1>6, <2>2, <2>4, <2>6, CongTrans
  <1>8. CASE i % 2 = 1
    <2> DEFINE k == i \div 2
    <2>1. /\ k \in Nat /\ (i + 1) \div 2 = k + 1 /\ (i + 1) % 2 = 0
          /\ i + 1 > 0 /\ i + 1 \in Nat /\ k < i /\ i > 0
      BY <1>6, <1>8
    <2>2. Cong(m, P(i + 1), P(k + 1) * P(k + 1))
      BY <2>1, <1>2
    <2>3. Cong(m, P(i), P(k) * P(k) * a)
      BY <2>1, <1>2, <1>6, <1>8
    <2> HIDE DEF k
    <2>4. Cong(m, P(k + 1), P(k) * a)
      <3>1. k \notin T
        <4>1. ~(i <= k)
          BY <2>1, <1>6
        <4> HIDE DEF T
        <4> QED  BY <1>5, <4>1
      <3> QED  BY <3>1, <2>1
    <2> DEFINE x == P(k)
               y == P(k + 1)
    <2>5. x \in Int /\ y \in Int /\ P(i) \in Int /\ P(i + 1) \in Int /\ Cong(m, y, x * a)
      <3>1. k + 1 \in Nat
        BY <2>1
      <3> QED  BY <3>1, <1>1, <1>6, <2>1, <2>4
    <2>6. Cong(m, P(i + 1), y * y) /\ Cong(m, P(i), x * x * a)
      BY <2>2, <2>3
    <2> HIDE DEF x, y
    <2>7. Cong(m, y * y, (x * a) * (x * a))
      BY <2>5, CongMul
    <2>8. Cong(m, P(i) * a, (x * x * a) * a)
      BY <2>5, <2>6, CongRefl, CongMul
    <2>9. /\ (x * a) * (x * a) = (x * x * a) * a
          /\ (x * x * a) * a \in Int /\ y * y \in Int /\ P(i) * a \in Int
      BY <2>5, Z3
    <2>10. Cong(m, (x * x * a) * a, P(i) * a)
      BY <2>8, <2>9, CongSym
    <2>11. Cong(m, y * y, P(i) * a)
      BY <2>7, <2>9, <2>10, CongTrans
    <2> QED  BY <1>6, <2>5, <2>6, <2>9, <2>11, CongTrans
  <1> QED  BY <1>6, <1>7, <1>8

(* The power of nothing.                                                    *)
LEMMA PowerZero ==
    ASSUME NEW a \in Nat, NEW m \in Nat, m > 0
    PROVE  modpow(a, 0, m) = 1 % m
  BY PowerRounds DEF PowRound

(* The power of a sum is the product of the powers.                         *)
LEMMA PowerSum ==
    ASSUME NEW a \in Nat, NEW m \in Nat, m > 0, NEW i \in Nat, NEW j \in Nat
    PROVE  Cong(m, modpow(a, i + j, m), modpow(a, i, m) * modpow(a, j, m))
  <1> DEFINE P(n) == modpow(a, n, m)
             S == {t \in 0 .. j : Cong(m, P(i + t), P(i) * P(t))}
  <1>1. \A n \in Nat : P(n) \in Nat /\ Cong(m, P(n + 1), P(n) * a)
    BY PowerRange, PowerNext
  <1>2. Cong(m, P(0), 1)
    <2>1. Cong(m, 1 % m, 1)
      BY ModCong
    <2> QED  BY <2>1, PowerZero
  <1> HIDE DEF P
  <1>3. 0 \in S
    <2>1. P(i) \in Nat /\ P(0) \in Nat /\ i + 0 = i
      BY <1>1
    <2>2. Cong(m, P(i) * P(0), P(i) * 1)
      BY <2>1, <1>2, CongRefl, CongMul
    <2>3. P(i) * P(0) \in Int /\ P(i) * 1 = P(i)
      BY <2>1
    <2>4. Cong(m, P(i), P(i) * P(0))
      BY <2>1, <2>2, <2>3, CongSym
    <2> QED  BY <2>1, <2>4
  <1>4. ASSUME NEW t \in 0 .. j - 1, t \in S  PROVE t + 1 \in S
    <2>1. /\ t \in Nat /\ i + t \in Nat /\ (i + t) + 1 = i + (t + 1)
          /\ t + 1 \in 0 .. j /\ t + 1 \in Nat
      OBVIOUS
    <2> DEFINE x == P(i)
               y == P(t)
               z == P(i + t)
               u == P(t + 1)
               v == P(i + (t + 1))
    <2>2. x \in Nat /\ y \in Nat /\ z \in Nat /\ u \in Nat /\ v \in Nat
      BY <1>1, <2>1
    <2>3. Cong(m, v, z * a) /\ Cong(m, u, y * a) /\ Cong(m, z, x * y)
      BY <1>1, <1>4, <2>1
    <2> HIDE DEF x, y, z, u, v
    <2>4. Cong(m, z * a, (x * y) * a) /\ Cong(m, x * u, x * (y * a))
      <3>1. x * y \in Int /\ y * a \in Int /\ Cong(m, a, a) /\ Cong(m, x, x)
        BY <2>2, CongRefl
      <3> QED  BY <3>1, <2>2, <2>3, CongMul
    <2>5. /\ (x * y) * a = x * (y * a) /\ x * (y * a) \in Int /\ x * u \in Int /\ z * a \in Int
          /\ (x * y) * a \in Int
      BY <2>2, Z3
    <2>6. Cong(m, v, x * (y * a))
      BY <2>2, <2>3, <2>4, <2>5, CongTrans
    <2>7. Cong(m, x * (y * a), x * u)
      BY <2>4, <2>5, CongSym
    <2>8. Cong(m, v, x * u)
      BY <2>2, <2>5, <2>6, <2>7, CongTrans
    <2> QED  BY <2>1, <2>8 DEF x, u, v
  <1> HIDE DEF S
  <1>5. 0 .. j \subseteq S
    BY <1>3, <1>4, IntervalInduction
  <1>6. j \in S
    BY <1>5
  <1> QED  BY <1>6 DEF S, P

(* The power of a power is that of the product.                             *)
LEMMA PowerPower ==
    ASSUME NEW a \in Nat, NEW m \in Nat, m > 0, NEW i \in Nat, NEW j \in Nat
    PROVE  Cong(m, modpow(modpow(a, i, m), j, m), modpow(a, i * j, m))
  <1> DEFINE y == modpow(a, i, m)
             P(n) == modpow(a, n, m)
             Y(n) == modpow(y, n, m)
             S == {t \in 0 .. j : Cong(m, Y(t), P(i * t))}
  <1>1. y \in Nat
    BY PowerRange
  <1>2. \A n \in Nat : P(n) \in Nat /\ Cong(m, P(n + i), P(n) * y)
    BY PowerRange, PowerSum
  <1>3. \A n \in Nat : Y(n) \in Nat /\ Cong(m, Y(n + 1), Y(n) * y)
    <2> HIDE DEF y
    <2> QED  BY <1>1, PowerRange, PowerNext
  <1>4. Y(0) = P(0)
    <2>1. P(0) = 1 % m
      BY PowerZero
    <2> HIDE DEF y
    <2>2. Y(0) = 1 % m
      BY <1>1, PowerZero
    <2> QED  BY <2>1, <2>2
  <1> HIDE DEF y, P, Y
  <1>5. 0 \in S
    <2>1. i * 0 = 0 /\ P(0) \in Nat /\ 0 \in 0 .. j
      BY <1>2
    <2> QED  BY <2>1, <1>4, CongRefl
  <1>6. ASSUME NEW t \in 0 .. j - 1, t \in S  PROVE t + 1 \in S
    <2>1. t \in Nat /\ t + 1 \in 0 .. j /\ i * t \in Nat /\ i * (t + 1) = i * t + i
          /\ i * (t + 1) \in Nat
      BY Z3
    <2> DEFINE x == Y(t)
               z == P(i * t)
               u == Y(t + 1)
               v == P(i * (t + 1))
    <2>2. x \in Nat /\ z \in Nat /\ u \in Nat /\ v \in Nat
      BY <1>2, <1>3, <2>1
    <2>3. Cong(m, u, x * y) /\ Cong(m, v, z * y) /\ Cong(m, x, z)
      BY <1>2, <1>3, <1>6, <2>1
    <2> HIDE DEF x, z, u, v
    <2>4. Cong(m, x * y, z * y) /\ x * y \in Int /\ z * y \in Int
      <3>1. Cong(m, y, y) /\ x \in Int /\ y \in Int /\ z \in Int
        BY <1>1, <2>2, CongRefl
      <3> QED  BY <3>1, <2>3, CongMul
    <2>5. Cong(m, z * y, v)
      BY <2>2, <2>3, <2>4, CongSym
    <2>6. Cong(m, u, v)
      <3>1. Cong(m, u, z * y)
        BY <2>2, <2>3, <2>4, CongTrans
      <3> QED  BY <3>1, <2>2, <2>4, <2>5, CongTrans
    <2> QED  BY <2>1, <2>6 DEF u, v
  <1> HIDE DEF S
  <1>7. 0 .. j \subseteq S
    BY <1>5, <1>6, IntervalInduction
  <1>8. j \in S
    BY <1>7
  <1> QED  BY <1>8 DEF S, P, Y, y

(* Powers of one are one.                                                   *)
LEMMA PowersOfOne ==
    ASSUME NEW m \in Nat, m > 1, NEW j \in Nat
    PROVE  modpow(1, j, m) = 1
  <1> DEFINE P(n) == modpow(1, n, m)
             S == {t \in 0 .. j : P(t) = 1}
  <1>1. P(0) = 1
    <2>1. 1 % m = 1
      OBVIOUS
    <2> QED  BY <2>1, PowerZero
  <1>2. \A n \in Nat : P(n) \in 0 .. m - 1 /\ Cong(m, P(n + 1), P(n) * 1)
    BY PowerRange, PowerNext
  <1> HIDE DEF P
  <1>3. 0 \in S
    BY <1>1
  <1>4. ASSUME NEW t \in 0 .. j - 1, t \in S  PROVE t + 1 \in S
    <2>1. t \in Nat /\ t + 1 \in Nat /\ t + 1 \in 0 .. j
      OBVIOUS
    <2>2. Cong(m, P(t + 1), 1) /\ P(t + 1) \in 0 .. m - 1 /\ 1 \in 0 .. m - 1
      BY <1>2, <1>4, <2>1
    <2>3. P(t + 1) = 1
      BY <2>2, CongSmall
    <2> QED  BY <2>1, <2>3
  <1> HIDE DEF S
  <1>5. 0 .. j \subseteq S
    BY <1>3, <1>4, IntervalInduction
  <1>6. j \in S
    BY <1>5
  <1> QED  BY <1>6 DEF S, P

(* Where the power of q is one, only an exponent's remainder counts.        *)
LEMMA PowerOrder ==
    ASSUME NEW a \in Nat, NEW m \in Nat, m > 1, NEW q \in Nat, q > 0,
           modpow(a, q, m) = 1, NEW n \in Nat
    PROVE  modpow(a, n, m) = modpow(a, n % q, m)
  <1> DEFINE d == n \div q
             r == n % q
  <1>1. d \in Nat /\ r \in Nat /\ n = q * d + r /\ q * d \in Nat
    <2>1. d \in Nat /\ r \in Nat /\ n = q * d + r
      OBVIOUS
    <2> HIDE DEF d, r
    <2> QED  BY <2>1
  <1> HIDE DEF d, r
  <1> DEFINE x == modpow(a, q * d, m)
             y == modpow(a, r, m)
             z == modpow(a, n, m)
  <1>2. x \in Nat /\ y \in 0 .. m - 1 /\ z \in 0 .. m - 1
    <2>1. m > 0
      OBVIOUS
    <2> QED  BY <1>1, <2>1, PowerRange
  <1>3. Cong(m, 1, x)
    <2>1. Cong(m, modpow(modpow(a, q, m), d, m), x)
      BY <1>1, PowerPower
    <2>2. modpow(modpow(a, q, m), d, m) = 1
      BY <1>1, PowersOfOne
    <2> QED  BY <2>1, <2>2
  <1>4. Cong(m, z, x * y)
    BY <1>1, PowerSum
  <1> HIDE DEF x, y, z
  <1>5. y \in Int /\ z \in Int /\ x * y \in Int /\ 1 * y = y /\ x \in Int
    BY <1>2
  <1>6. Cong(m, 1 * y, x * y)
    BY <1>3, <1>5, CongRefl, CongMul
  <1>7. Cong(m, x * y, y)
    BY <1>5, <1>6, CongSym
  <1>8. Cong(m, z, y)
    BY <1>4, <1>5, <1>7, CongTrans
  <1>9. z = y
    BY <1>2, <1>8, CongSmall
  <1> QED  BY <1>9 DEF y, z, r

-----------------------------------------------------------------------------
(* A number below a prime has an inverse modulo it.                         *)
LEMMA InverseExists ==
    ASSUME NEW q \in Nat, probably_prime(q), NEW s \in 1 .. q - 1
    PROVE  mod_inverse(s, q) # {}
  <1> DEFINE T == {b \in 1 .. q : \E k \in Int : Cong(q, s * k, b)}
  <1>1. q > 1 /\ \A d \in 2 .. q \div 2 : q % d # 0
    BY DEF probably_prime
  <1>2. s \in T
    <2>1. s * 1 = s /\ s \in 1 .. q /\ 1 \in Int /\ s \in Int
      BY <1>1
    <2> QED  BY <2>1, CongRefl
  <1>3. PICK b \in T : \A c \in T : b <= c
    <2>1. T \subseteq Nat
      OBVIOUS
    <2> HIDE DEF T
    <2> QED  BY <1>2, <2>1, LeastElement
  <1>4. PICK k \in Int : Cong(q, s * k, b)
    BY <1>3
  <1>5. b \in 1 .. q - 1
    <2>1. b \in 1 .. q
      BY <1>3
    <2>2. b <= s
      <3> HIDE DEF T
      <3> QED  BY <1>2, <1>3
    <2> QED  BY <2>1, <2>2
  (* What is left of q after multiples of b is such a number too.           *)
  <1>6. q % b = 0
    <2> SUFFICES ASSUME q % b # 0  PROVE FALSE
      OBVIOUS
    <2> DEFINE c == q % b
               d == q \div b
    <2>1. c \in 1 .. b - 1 /\ d \in Nat /\ q = b * d + c
      BY <1>5
    <2> HIDE DEF c, d
    <2>2. PICK t \in Int : s * k = b + t * q
      BY <1>4 DEF Cong
    <2>3. -(d * k) \in Int /\ 1 - (-(t * d)) \in Int /\ -1 - t * d \in Int
      BY <2>1
    <2>4. s * (-(d * k)) = c + (-1 - t * d) * q
      <3>1. s * (-(d * k)) = -(d * (s * k)) /\ -(d * (b + t * q)) = -(b * d) - (t * d) * q
        BY <2>1, Z3
      <3>2. -(b * d) = c - q
        BY <2>1
      <3>3. (-1 - t * d) * q = -q - (t * d) * q
        BY <2>1, Z3
      <3>4. (t * d) * q \in Int
        BY <2>1
      <3> QED  BY <2>2, <3>1, <3>2, <3>3, <3>4, <2>1
    <2>5. c \in T
      <3>1. Cong(q, s * (-(d * k)), c)
        BY <2>3, <2>4 DEF Cong
      <3>2. c \in 1 .. q
        BY <1>5, <2>1
      <3> QED  BY <2>3, <3>1, <3>2
    <2>6. b <= c
      <3> HIDE DEF T
      <3> QED  BY <1>3, <2>5
    <2> QED  BY <2>1, <2>6, <1>5
  <1>7. b = 1
    <2> SUFFICES ASSUME b # 1  PROVE FALSE
      OBVIOUS
    <2> DEFINE d == q \div b
    <2>1. q = b * d /\ d \in Nat
      BY <1>5, <1>6
    <2> HIDE DEF d
    <2>2. d >= 2
      <3>1. d # 0 /\ d # 1
        BY <1>1, <1>5, <2>1
      <3> QED  BY <2>1, <3>1
    <2>3. 2 * b <= b * d
      BY <1>5, <2>1, <2>2, Z3
    <2>4. b \in 2 .. q \div 2
      BY <1>5, <2>1, <2>3
    <2> QED  BY <1>1, <1>6, <2>4
  <1> DEFINE i == k % q
  <1>8. i \in 0 .. q - 1 /\ Cong(q, i, k)
    BY ModCong, <1>1
  <1> HIDE DEF i
  <1>9. Cong(q, s * i, 1)
    <2>1. Cong(q, s * i, s * k) /\ s * i \in Int /\ s * k \in Int /\ s \in Int /\ i \in Int
      <3>1. s \in Int /\ i \in Int /\ k \in Int
        BY <1>8
      <3>2. Cong(q, s, s)
        BY <3>1, CongRefl
      <3> QED  BY <3>1, <3>2, <1>8, CongMul
    <2> QED  BY <2>1, <1>4, <1>7, CongTrans
  <1>10. (s * i) % q = 1
    <2>1. s * i \in Int
      BY <1>8
    <2>2. (s * i) % q \in 0 .. q - 1 /\ Cong(q, (s * i) % q, s * i)
      <3>1. q > 0
        BY <1>1
      <3> QED  BY <2>1, <3>1, ModCong
    <2>3. Cong(q, (s * i) % q, 1) /\ 1 \in 0 .. q - 1
      BY <2>1, <2>2, <1>1, <1>9, CongTrans
    <2> QED  BY <2>2, <2>3, CongSmall
  <1>11. i # 0
    <2> SUFFICES ASSUME i = 0  PROVE FALSE
      OBVIOUS
    <2>1. s * i = 0 /\ 0 % q = 0
      BY <1>1
    <2> QED  BY <2>1, <1>10
  <1>12. i \in 1 .. q - 1
    BY <1>8, <1>11
  <1> HIDE DEF T
  <1>13. i \in mod_inverse(s, q)
    BY <1>10, <1>12 DEF mod_inverse
  <1> QED  BY <1>13

(* What an inverse is.                                                      *)
LEMMA InverseFacts ==
    ASSUME NEW q \in Nat, q > 1, NEW s \in Int, NEW w \in mod_inverse(s, q)
    PROVE  w \in 1 .. q - 1 /\ Cong(q, s * w, 1)
  <1>1. w \in 1 .. q - 1 /\ (s * w) % q = 1
    BY DEF mod_inverse
  <1>2. s * w \in Int
    BY <1>1
  <1>3. Cong(q, 1, s * w)
    BY <1>1, <1>2, ModCong
  <1> QED  BY <1>1, <1>2, <1>3, CongSym

-----------------------------------------------------------------------------
(* Parameters and a key over them that Sound lets through, with a number h  *)
(* for the hash.                                                            *)
Group(p, q, g) ==
    /\ p \in Nat /\ p > 1 /\ q \in Nat /\ probably_prime(q)
    /\ g \in Nat /\ modpow(g, q, p) = 1

(* The exponent at which the verifier arrives.                              *)
Exponent(q, h, x, r, w) == (w * (h + x * r)) % q

(* What the verifier computes is a power of g.                              *)
LEMMA VerifierPower ==
    ASSUME NEW p, NEW q, NEW g, Group(p, q, g), NEW x \in Nat, NEW h \in Nat, NEW r \in Nat,
           NEW w \in Nat
    PROVE  LET u1 == (h * w) % q
               u2 == (r * w) % q
               y  == modpow(g, x, p)
           IN  (modpow(g, u1, p) * modpow(y, u2, p)) % p
                   = modpow(g, Exponent(q, h, x, r, w), p)
  <1> DEFINE u1 == (h * w) % q
             u2 == (r * w) % q
             y  == modpow(g, x, p)
             P(n) == modpow(g, n, p)
             E == w * (h + x * r)
  <1>1. p \in Nat /\ p > 1 /\ p > 0 /\ q \in Nat /\ q > 1 /\ q > 0 /\ g \in Nat /\ P(q) = 1
    BY DEF Group, probably_prime
  <1>2. h * w \in Nat /\ r * w \in Nat /\ E \in Nat
    OBVIOUS
  <1>3. u1 \in Nat /\ u2 \in Nat /\ Cong(q, u1, h * w) /\ Cong(q, u2, r * w)
    <2>1. u1 \in 0 .. q - 1 /\ u2 \in 0 .. q - 1
          /\ Cong(q, u1, h * w) /\ Cong(q, u2, r * w)
      <3>1. h * w \in Int /\ r * w \in Int
        BY <1>2
      <3> QED  BY <1>1, <3>1, ModCong
    <2> QED  BY <2>1
  <1> HIDE DEF u1, u2
  <1>4. x * u2 \in Nat /\ u1 + x * u2 \in Nat
    BY <1>3
  <1>5. Cong(q, u1 + x * u2, E)
    <2>1. Cong(q, x * u2, x * (r * w))
      <3>1. x \in Int /\ u2 \in Int /\ r * w \in Int
        BY <1>2, <1>3
      <3>2. Cong(q, x, x)
        BY <1>1, <3>1, CongRefl
      <3> QED  BY <1>1, <1>3, <3>1, <3>2, CongMul
    <2>2. x * (r * w) \in Int /\ x * u2 \in Int /\ u1 \in Int /\ h * w \in Int
      BY <1>2, <1>3, <1>4
    <2>3. Cong(q, u1 + x * u2, h * w + x * (r * w))
      BY <1>1, <1>3, <2>1, <2>2, CongAdd
    <2>4. h * w + x * (r * w) = E
      BY Z3
    <2> QED  BY <2>3, <2>4
  <1>6. P(u1 + x * u2) = P(E % q)
    <2>1. P(u1 + x * u2) = P((u1 + x * u2) % q)
      BY <1>1, <1>4, PowerOrder
    <2>2. (u1 + x * u2) % q = E % q
      <3> DEFINE v == u1 + x * u2
      <3>1. v \in Int /\ E \in Int /\ Cong(q, v, E)
        BY <1>2, <1>4, <1>5
      <3> HIDE DEF v, E
      <3>2. /\ v % q \in 0 .. q - 1 /\ Cong(q, v % q, v)
            /\ E % q \in 0 .. q - 1 /\ Cong(q, E % q, E)
        BY <1>1, <3>1, ModCong
      <3>3. v % q \in Int /\ E % q \in Int
        BY <3>2
      <3>4. Cong(q, v % q, E) /\ Cong(q, E, E % q)
        BY <1>1, <3>1, <3>2, <3>3, CongTrans, CongSym
      <3>5. Cong(q, v % q, E % q)
        BY <1>1, <3>1, <3>3, <3>4, CongTrans
      <3>6. v % q = E % q
        BY <1>1, <3>2, <3>5, CongSmall
      <3> QED  BY <3>6 DEF v
    <2> QED  BY <2>1, <2>2
  <1> DEFINE a == P(u1)
             b == modpow(y, u2, p)
             c == P(x * u2)
             d == P(u1 + x * u2)
  <1>7. Cong(p, b, c) /\ Cong(p, d, a * c)
    BY <1>1, <1>3, <1>4, PowerPower, PowerSum
  <1>8. a \in Int /\ b \in Int /\ c \in Int /\ d \in 0 .. p - 1
    <2>1. y \in Nat
      BY <1>1, PowerRange
    <2>2. a \in Nat /\ c \in Nat /\ d \in 0 .. p - 1
      BY <1>1, <1>3, <1>4, PowerRange
    <2> HIDE DEF y
    <2>3. b \in Nat
      BY <1>1, <1>3, <2>1, PowerRange
    <2> QED  BY <2>2, <2>3
  <1>9. (a * b) % p = d
    <2> HIDE DEF a, b, c, d
    <2>1. a * b \in Int /\ a * c \in Int /\ d \in Int
      BY <1>8
    <2>2. Cong(p, a * b, a * c)
      BY <1>1, <1>7, <1>8, CongRefl, CongMul
    <2>3. Cong(p, a * c, d)
      BY <1>1, <1>7, <2>1, CongSym
    <2>4. Cong(p, a * b, d)
      BY <1>1, <2>1, <2>2, <2>3, CongTrans
    <2>5. (a * b) % p \in 0 .. p - 1 /\ Cong(p, (a * b) % p, a * b)
      BY <1>1, <2>1, ModCong
    <2>6. Cong(p, (a * b) % p, d)
      <3>1. (a * b) % p \in Int
        BY <2>5
      <3> QED  BY <1>1, <2>1, <2>4, <2>5, <3>1, CongTrans
    <2> QED  BY <1>1, <1>8, <2>5, <2>6, CongSmall
  <1> QED  BY <1>6, <1>9 DEF Exponent, u1, u2

(* How many bits a number has is a number.                                  *)
LEMMA BitLengthIsNat ==
    ASSUME NEW n \in Nat
    PROVE  BitLength(n) \in Nat
  <1> DEFINE S == 0 .. 16 + n \div 2 ^ 16
             Is(b) == n < 2 ^ b /\ (b = 0 \/ 2 ^ (b - 1) <= n)
             c == CHOOSE b \in S : Is(b)
  <1>1. BitLength(n) = c
    BY DEF BitLength
  <1>2. \E b \in S : Is(b)
    BY SomeBits
  <1>3. c \in S
    <2> HIDE DEF S, Is
    <2> QED  BY <1>2
  <1>4. \A b \in S : b \in Nat
    OBVIOUS
  <1> HIDE DEF S, c
  <1> QED  BY <1>1, <1>3, <1>4

(* The value of bytes is a number.                                          *)
LEMMA ValueIsNat ==
    ASSUME NEW b, IsOctets(b)
    PROVE  Value(b) \in Nat
  <1> DEFINE L == Len(b)
             c == CHOOSE f : IsHorner(f, b, L)
  <1>1. L \in Nat /\ \A i \in 1 .. L : b[i] \in Nat
    <2>1. b \in Seq(0 .. 255) /\ L \in Nat
      BY DEF IsOctets
    <2>2. \A i \in 1 .. L : b[i] \in 0 .. 255
      BY <2>1, ElementOfSeq
    <2>3. \A v \in 0 .. 255 : v \in Nat
      OBVIOUS
    <2> HIDE DEF L
    <2> QED  BY <2>1, <2>2, <2>3
  <1>2. Value(b) = c[L]
    BY DEF Value, IsHorner
  <1> HIDE DEF L
  <1>3. PICK f : Running(f, b, L)
    BY <1>1, Horner
  <1>4. IsHorner(c, b, L)
    BY <1>3 DEF Running
  <1> HIDE DEF c
  <1>5. Value(b) = f[L] /\ f \in [0 .. L -> Nat] /\ L \in 0 .. L
    BY <1>1, <1>2, <1>3, <1>4 DEF Running
  <1> QED  BY <1>5

(* The number taken from a hash.                                            *)
LEMMA LeftmostIsNat ==
    ASSUME NEW q \in Nat, NEW h, IsOctets(h)
    PROVE  Leftmost(q, h) \in Nat
  <1> DEFINE l == IF ByteLen(q) < Len(h) THEN ByteLen(q) ELSE Len(h)
             S == 0 .. 255
  <1>1. ByteLen(q) \in Nat
    BY BitLengthIsNat DEF ByteLen
  <1>2. Len(h) \in Nat /\ h \in Seq(S)
    BY DEF IsOctets
  <1>3. l \in 0 .. Len(h)
    BY <1>1, <1>2
  <1> HIDE DEF l, S
  <1>4. PICK b : b = SubSeq(h, 1, l)
    OBVIOUS
  <1>5. b \in Seq(S)
    <2>1. \A i \in 1 .. l : h[i] \in S
      BY <1>2, <1>3, ElementOfSeq
    <2>2. 1 \in Int /\ l \in Int
      BY <1>3
    <2> QED  BY <1>4, <2>1, <2>2, SubSeqProperties
  <1>6. Value(b) \in Nat
    BY <1>5, ValueIsNat DEF IsOctets, S
  <1> QED  BY <1>4, <1>6 DEF Leftmost, l

(* The verifier accepts exactly what fulfils the signer's equation.         *)
LEMMA AcceptedIsEquation ==
    ASSUME NEW p, NEW q, NEW g, Group(p, q, g), NEW x \in Nat, NEW h, IsOctets(h),
           NEW r \in Nat \ {0}, NEW s \in Nat \ {0},
           NEW pk, pk.components.p = p, pk.components.q = q, pk.components.g = g,
           pk.y = modpow(g, x, p),
           NEW sk, sk.verifying_key = pk, sk.x = x,
           NEW t, t.r = r, t.s = s
    PROVE  verify_prehashed(pk, h, t) <=> Equation(sk, h, t)
  <1> DEFINE L == Leftmost(q, h)
             y == modpow(g, x, p)
             V(w) == ((modpow(g, (L * w) % q, p) * modpow(y, (r * w) % q, p)) % p) % q
             E == L + x * r
             N(n) == (s * n) % q = E % q /\ r = modpow(g, n, p) % q
  <1>1. q \in Nat /\ q > 1
    BY DEF Group, probably_prime
  <1>2. L \in Nat /\ E \in Nat
    <2>1. L \in Nat
      BY <1>1, LeftmostIsNat
    <2> HIDE DEF L
    <2> QED  BY <2>1
  <1>3. verify_prehashed(pk, h, t) <=>
            r < q /\ s < q /\ \E w \in mod_inverse(s, q) : V(w) = r
    BY DEF verify_prehashed
  <1>4. Equation(sk, h, t) <=> r < q /\ s < q /\ \E n \in 0 .. q - 1 : N(n)
    BY DEF Equation
  <1> HIDE DEF L, V, N
  (* Whichever inverse of s, a nonce of the equation is the exponent at      *)
  (* which the verifier arrives.                                            *)
  <1>5. ASSUME NEW w \in Nat, Cong(q, s * w, 1), NEW n \in 0 .. q - 1
        PROVE  (s * n) % q = E % q <=> n = (w * E) % q
    <2>0. E \in Nat /\ s \in Nat /\ Cong(q, s * w, 1)
      BY <1>2, <1>5
    <2> HIDE DEF E
    <2> DEFINE v == (w * E) % q
    <2>1. w * E \in Int /\ s * n \in Int /\ s * w \in Int /\ n \in Int /\ E \in Int
          /\ s \in Int /\ w \in Int /\ q > 0 /\ q \in Nat
      BY <1>1, <2>0
    <2>2. v \in 0 .. q - 1 /\ Cong(q, v, w * E)
      BY <2>1, ModCong
    <2>3. /\ (s * n) % q \in 0 .. q - 1 /\ Cong(q, (s * n) % q, s * n)
          /\ E % q \in 0 .. q - 1 /\ Cong(q, E % q, E)
      BY <2>1, ModCong
    <2> HIDE DEF v
    <2>4. s * v \in Int /\ v \in Int
      BY <2>2
    <2>5. Cong(q, s * v, E)
      <3>1. Cong(q, s * v, s * (w * E))
        BY <2>1, <2>2, <2>4, CongRefl, CongMul
      <3> DEFINE a == s * w
      <3>2. a * E = s * (w * E)
        BY <2>1, Z3
      <3>3. Cong(q, a * E, 1 * E)
        <4>1. a \in Int /\ Cong(q, a, 1) /\ Cong(q, E, E)
          BY <1>1, <2>0, <2>1, CongRefl
        <4> HIDE DEF a
        <4> QED  BY <2>1, <4>1, CongMul
      <3>4. a * E \in Int /\ 1 * E = E
        BY <2>1
      <3> HIDE DEF a
      <3>5. Cong(q, s * v, a * E) /\ Cong(q, a * E, E)
        BY <3>1, <3>2, <3>3, <3>4
      <3> QED  BY <2>1, <2>4, <3>4, <3>5, CongTrans
    <2>6. ASSUME (s * n) % q = E % q  PROVE n = v
      <3> DEFINE e == (s * n) % q
      <3>1. e \in Int /\ Cong(q, e, s * n) /\ Cong(q, e, E)
        BY <2>3, <2>6
      <3> HIDE DEF e
      <3>2. Cong(q, s * n, e)
        BY <2>1, <3>1, CongSym
      <3>3. Cong(q, s * n, E)
        BY <2>1, <3>1, <3>2, CongTrans
      <3>4. Cong(q, E, s * v)
        BY <2>1, <2>4, <2>5, CongSym
      <3>5. Cong(q, s * n, s * v)
        BY <2>1, <2>4, <3>3, <3>4, CongTrans
      <3>6. Cong(q, n, v)
        BY <2>0, <2>1, <2>4, <3>5, CongCancel
      <3> QED  BY <2>1, <2>2, <3>6, CongSmall
    <2>7. ASSUME n = v  PROVE (s * n) % q = E % q
      <3> DEFINE e == (s * n) % q
                 d == E % q
      <3>1. e \in 0 .. q - 1 /\ d \in 0 .. q - 1 /\ Cong(q, e, s * n) /\ Cong(q, d, E)
            /\ Cong(q, s * n, E)
        BY <2>3, <2>5, <2>7
      <3> HIDE DEF e, d
      <3>2. e \in Int /\ d \in Int
        BY <3>1
      <3>3. Cong(q, e, E) /\ Cong(q, E, d)
        BY <2>1, <3>1, <3>2, CongTrans, CongSym
      <3>4. Cong(q, e, d)
        BY <2>1, <3>2, <3>3, CongTrans
      <3>5. e = d
        BY <2>1, <3>1, <3>4, CongSmall
      <3> QED  BY <3>5 DEF e, d
    <2> QED  BY <2>6, <2>7 DEF v
  <1>6. ASSUME r < q, s < q
        PROVE  (\E w \in mod_inverse(s, q) : V(w) = r) <=> (\E n \in 0 .. q - 1 : N(n))
    <2>1. ASSUME NEW w \in mod_inverse(s, q)
          PROVE  /\ w \in Nat /\ Cong(q, s * w, 1)
                 /\ V(w) = modpow(g, (w * E) % q, p) % q
      <3>1. w \in Nat /\ Cong(q, s * w, 1)
        <4>1. w \in 1 .. q - 1 /\ Cong(q, s * w, 1)
          BY <1>1, InverseFacts
        <4> QED  BY <4>1
      <3>2. (modpow(g, (L * w) % q, p) * modpow(y, (r * w) % q, p)) % p
                = modpow(g, Exponent(q, L, x, r, w), p)
        BY <1>2, <3>1, VerifierPower
      <3>3. Exponent(q, L, x, r, w) = (w * E) % q
        BY DEF Exponent
      <3> QED  BY <3>1, <3>2, <3>3 DEF V
    <2>2. ASSUME NEW w \in mod_inverse(s, q), V(w) = r
          PROVE  \E n \in 0 .. q - 1 : N(n)
      <3> DEFINE n == (w * E) % q
      <3>1. w \in Nat /\ Cong(q, s * w, 1) /\ r = modpow(g, n, p) % q
        BY <2>1, <2>2
      <3>2. n \in 0 .. q - 1
        <4>1. w * E \in Int /\ q > 0
          BY <1>1, <1>2, <3>1
        <4> QED  BY <4>1, <1>1, ModCong
      <3>3. (s * n) % q = E % q
        BY <3>1, <3>2, <1>5
      <3> HIDE DEF n
      <3>4. N(n)
        BY <3>1, <3>3 DEF N
      <3> QED  BY <3>2, <3>4
    <2>3. ASSUME NEW n \in 0 .. q - 1, N(n)
          PROVE  \E w \in mod_inverse(s, q) : V(w) = r
      <3>1. s \in 1 .. q - 1
        BY <1>1, <1>6
      <3>2. PICK w \in mod_inverse(s, q) : TRUE
        BY <1>1, <3>1, InverseExists DEF Group
      <3>3. w \in Nat /\ Cong(q, s * w, 1) /\ V(w) = modpow(g, (w * E) % q, p) % q
        BY <2>1
      <3>4. n = (w * E) % q
        BY <2>3, <3>3, <1>5 DEF N
      <3>5. r = modpow(g, n, p) % q
        BY <2>3 DEF N
      <3> QED  BY <3>3, <3>4, <3>5
    <2> QED  BY <2>2, <2>3
  <1> QED  BY <1>3, <1>4, <1>6

-----------------------------------------------------------------------------
(* Parameters from_components lets through, and a key over them.            *)
Params(c) ==
    \E p, q, g \in Nat : p > 1 /\ q > 1 /\ c = [p |-> p, q |-> q, g |-> g]

(* A key over these parameters: x from 1 to q, y above 1.                   *)
KeyOver(c, k) ==
    \E x \in 1 .. c.q, y \in Nat :
        y > 1 /\ k = [verifying_key |-> [components |-> c, y |-> y], x |-> x]

(* What Signature::from_components lets through.                            *)
Pair(t) == \E r, s \in Nat \ {0} : t = [r |-> r, s |-> s]

(* The fields of parameters are numbers.                                    *)
LEMMA ParamsFacts ==
    ASSUME NEW c, Params(c)
    PROVE  c.p \in Nat /\ c.p > 1 /\ c.q \in Nat /\ c.q > 1 /\ c.g \in Nat
  BY DEF Params

(* So are a key's, and y is not 0 or 1.                                     *)
LEMMA KeyFacts ==
    ASSUME NEW c, Params(c), NEW k, KeyOver(c, k)
    PROVE  /\ k.x \in 1 .. c.q /\ k.x \in Nat /\ k.verifying_key.components = c
           /\ k.verifying_key.y \in Nat /\ k.verifying_key.y > 1
  <1>1. PICK x \in 1 .. c.q, y \in Nat :
            y > 1 /\ k = [verifying_key |-> [components |-> c, y |-> y], x |-> x]
    BY DEF KeyOver
  <1>2. c.q \in Nat
    BY ParamsFacts
  <1> QED  BY <1>1, <1>2

(* The constructors' results.                                               *)
LEMMA ComponentsMade ==
    ASSUME NEW p \in Nat, NEW q \in Nat, NEW g \in Nat, NEW c \in Components_from(p, q, g)
    PROVE  Params(c)
  <1>1. p > 1 /\ q > 1 /\ c = [p |-> p, q |-> q, g |-> g]
    BY DEF Components_from
  <1> QED  BY <1>1 DEF Params

(* A key from_components lets through (verifying_key.rs:31-38,              *)
(* signing_key.rs:42-52).                                                   *)
LEMMA KeyMade ==
    ASSUME NEW c, Params(c), NEW x \in Nat, NEW y \in Nat, NEW v \in VerifyingKey_from(c, y),
           NEW k \in SigningKey_from(v, x)
    PROVE  KeyOver(c, k)
  <1>1. y > 1 /\ v = [components |-> c, y |-> y]
    BY DEF VerifyingKey_from
  <1>2. x \in 1 .. c.q /\ k = [verifying_key |-> v, x |-> x]
    <2>1. c.q \in Nat
      BY ParamsFacts
    <2> QED  BY <1>1, <2>1 DEF SigningKey_from
  <1> QED  BY <1>1, <1>2 DEF KeyOver

(* A signature has two numbers, neither of them 0 (lib.rs:90-97).           *)
LEMMA PairMade ==
    ASSUME NEW r \in Nat, NEW s \in Nat, NEW t \in Signature_from(r, s)
    PROVE  Pair(t)
  <1>1. r # 0 /\ s # 0 /\ t = [r |-> r, s |-> s]
    BY DEF Signature_from
  <1> QED  BY <1>1 DEF Pair

(* Every public component computed is a number.                             *)
LEMMA PublicIsNat ==
    ASSUME NEW c, Params(c), NEW x \in Nat
    PROVE  public(c, x) \in Nat
  <1>1. c.p \in Nat /\ c.p > 0 /\ c.q \in Nat /\ c.g \in Nat
    BY ParamsFacts
  <1> QED  BY <1>1, PowerRange DEF public

(* keypair gives a key over its parameters.                                 *)
LEMMA KeypairMade ==
    ASSUME NEW c, Params(c), NEW x \in Nat, NEW k \in keypair(c, x)
    PROVE  KeyOver(c, k)
  <1>1. PICK v \in VerifyingKey_from(c, public(c, x)) : k \in SigningKey_from(v, x)
    BY DEF keypair
  <1>2. public(c, x) \in Nat
    BY PublicIsNat
  <1> QED  BY <1>1, <1>2, KeyMade

(* The numbers generation arrives at.                                       *)
LEMMA GeneratedNumbers ==
    ASSUME NEW l \in Nat \ {0}, NEW n \in Nat \ {0}, NEW sz, sz.l = l, sz.n = n,
           NEW t \in common(sz)
    PROVE  t[1] \in Nat /\ t[2] \in Nat /\ t[3] \in Nat
  <1>1. PICK q \in calculate_bounds(n).lower .. calculate_bounds(n).upper :
            /\ probably_prime(q)
            /\ t \in UNION {{<<p, q, g>> : g \in generator(p, q)} : p \in PrimesFor(q, l)}
    BY DEF common
  <1>2. PICK p \in PrimesFor(q, l) : t \in {<<p, q, g>> : g \in generator(p, q)}
    BY <1>1
  <1>3. PICK g \in generator(p, q) : t = <<p, q, g>>
    BY <1>2
  <1>4. \A k \in Nat \ {0} : 2 ^ (k - 1) \in Nat /\ 2 ^ k \in Nat
    BY PowerIsNat
  <1>5. q \in Nat
    <2>1. calculate_bounds(n).lower \in Nat /\ calculate_bounds(n).upper \in Nat
      BY <1>4 DEF calculate_bounds
    <2> QED  BY <1>1, <2>1
  <1>6. q > 1 /\ p > 1
    BY <1>1, <1>2 DEF probably_prime, PrimesFor
  <1>7. p \in Nat
    <2>1. PICK m \in calculate_bounds(l).lower + 1 .. calculate_bounds(l).upper - 1 :
              p = m - (m % (2 * q)) + 1
      BY <1>2 DEF PrimesFor
    <2>2. calculate_bounds(l).lower \in Nat /\ calculate_bounds(l).upper \in Nat
      BY <1>4 DEF calculate_bounds
    <2>3. m \in Nat
      BY <2>1, <2>2
    <2>4. m % (2 * q) \in Int
      <3>1. 2 * q \in Nat /\ 2 * q > 0
        BY <1>5, <1>6
      <3> QED  BY <2>3, <3>1
    <2>5. p \in Int
      BY <2>1, <2>3, <2>4
    <2> QED  BY <1>6, <2>5
  <1>8. g \in Nat
    <2> DEFINE e == (p - 1) \div q
    <2>1. PICK h \in 1 .. p : g = modpow(h, e, p)
      BY <1>3 DEF generator
    <2>2. e \in Nat
      BY <1>5, <1>6, <1>7
    <2> HIDE DEF e
    <2>3. h \in Nat /\ p > 0
      BY <1>6, <1>7, <2>1
    <2> QED  BY <1>7, <2>1, <2>2, <2>3, PowerRange
  <1> QED  BY <1>3, <1>5, <1>7, <1>8

(* A signature made with nonce k: its two numbers.                          *)
LEMMA SignatureMade ==
    ASSUME NEW c, Params(c), NEW sk, KeyOver(c, sk), NEW k \in 1 .. c.q - 1,
           NEW h, IsOctets(h), NEW t \in sign_prehashed(sk, k, h)
    PROVE  \E r, s \in 1 .. c.q - 1, i \in mod_inverse(k, c.q) :
               /\ t = [r |-> r, s |-> s] /\ r = modpow(c.g, k, c.p) % c.q
               /\ s = (i * (Leftmost(c.q, h) + sk.x * r)) % c.q
  <1> DEFINE r == modpow(c.g, k, c.p) % c.q
             E == Leftmost(c.q, h) + sk.x * r
             s(i) == (i * E) % c.q
  <1>1. PICK i \in mod_inverse(k, c.q) : t \in Signature_from(r, s(i))
    BY KeyFacts DEF sign_prehashed
  <1>2. c.p \in Nat /\ c.p > 0 /\ c.q \in Nat /\ c.q > 0 /\ c.q > 1 /\ c.g \in Nat /\ k \in Nat
    BY ParamsFacts
  <1>3. r \in 0 .. c.q - 1
    <2>1. modpow(c.g, k, c.p) \in Nat
      BY <1>2, PowerRange
    <2> QED  BY <1>2, <2>1
  <1> HIDE DEF r
  <1>4. E \in Nat
    <2>1. Leftmost(c.q, h) \in Nat
      BY <1>2, LeftmostIsNat
    <2>2. sk.x \in Nat /\ r \in Nat
      BY <1>2, <1>3, KeyFacts
    <2>3. sk.x * r \in Nat
      BY <2>2
    <2> QED  BY <2>1, <2>3
  <1> HIDE DEF E
  <1>5. s(i) \in 0 .. c.q - 1
    <2>1. i \in Nat
      BY <1>2 DEF mod_inverse
    <2>2. i * E \in Nat
      BY <1>4, <2>1
    <2> QED  BY <1>2, <2>2
  <1>6. s(i) = (i * (Leftmost(c.q, h) + sk.x * r)) % c.q
    BY DEF E
  <1> HIDE DEF s
  <1>7. r # 0 /\ s(i) # 0 /\ t = [r |-> r, s |-> s(i)]
    BY <1>1 DEF Signature_from
  <1>8. r \in 1 .. c.q - 1 /\ s(i) \in 1 .. c.q - 1
    BY <1>2, <1>3, <1>5, <1>7
  <1> QED  BY <1>6, <1>7, <1>8 DEF r

-----------------------------------------------------------------------------
(* The key at hand is one over the parameters at hand.                      *)
KeysInv ==
    /\ phase = "start" => key = None /\ sig = None
    /\ phase = "components" => Params(components) /\ key = None /\ sig = None
    /\ key # None \/ phase \in {"key", "signed"} =>
           Params(components) /\ KeyOver(components, key)

(* The signature at hand has no number zero, and after signing it is what   *)
(* the key gives for the hash and some nonce.                               *)
SignatureInv ==
    /\ sig # None => Pair(sig)
    /\ phase = "signed" =>
           /\ hash \in Hashes
           /\ \E k \in 1 .. components.q - 1 : sig \in sign_prehashed(key, k, hash)

(* The inductive invariant.                                                 *)
IInv == KeysInv /\ SignatureInv /\ clean \in BOOLEAN

(* It holds before anything was done.                                       *)
LEMMA InitIInv == Init => IInv
  BY DEF Init, IInv, KeysInv, SignatureInv

(* The steps that make parameters.                                          *)
LEMMA ParametersStep ==
    ASSUME IInv, phase = "start", NEW p \in Nat, NEW q \in Nat, NEW g \in Nat,
           NEW err \in {"panicked", "refused"},
           Outcome(Components_from(p, q, g), components, components', "components", err),
           UNCHANGED <<key, hash, sig, clean>>
    PROVE  IInv'
  <1>1. key = None /\ sig = None
    BY DEF IInv, KeysInv
  <1>2. CASE components' \in Components_from(p, q, g) /\ phase' = "components"
    <2>1. Params(components')
      BY <1>2, ComponentsMade
    <2> QED  BY <1>1, <1>2, <2>1 DEF IInv, KeysInv, SignatureInv
  <1>3. CASE phase' = err
    BY <1>1, <1>3 DEF IInv, KeysInv, SignatureInv
  <1> QED  BY <1>2, <1>3 DEF Outcome

(* Generating parameters.                                                   *)
LEMMA GenerateStep ==
    ASSUME NumbersAssumption, IInv, NEW sz \in Sizes, Generate(sz)
    PROVE  IInv'
  <1>1. PICK c \in common(sz) :
            Outcome(Components_from(c[1], c[2], c[3]), components, components',
                    "components", "panicked")
    BY DEF Generate
  <1>2. sz.l \in Nat \ {0} /\ sz.n \in Nat \ {0}
    BY DEF NumbersAssumption
  <1>3. c[1] \in Nat /\ c[2] \in Nat /\ c[3] \in Nat
    BY <1>2, GeneratedNumbers
  <1>4. phase = "start" /\ UNCHANGED <<key, hash, sig, clean>>
    BY DEF Generate
  <1> QED  BY <1>1, <1>3, <1>4, ParametersStep

(* Taking parameters from three numbers given.                              *)
LEMMA GiveStep ==
    ASSUME NumbersAssumption, IInv, NEW t \in Given, Give(t)
    PROVE  IInv'
  <1>1. t[1] \in Nat /\ t[2] \in Nat /\ t[3] \in Nat
    BY DEF NumbersAssumption
  <1>2. Outcome(Components_from(t[1], t[2], t[3]), components, components',
                "components", "refused")
    BY DEF Give
  <1>3. phase = "start" /\ UNCHANGED <<key, hash, sig, clean>>
    BY DEF Give
  <1> QED  BY <1>1, <1>2, <1>3, ParametersStep

(* The steps that make a key.                                               *)
LEMMA KeyStep ==
    ASSUME IInv, phase = "components", NEW keys, \A k \in keys : KeyOver(components, k),
           NEW err \in {"panicked", "refused"},
           Outcome(keys, key, key', "key", err),
           UNCHANGED <<components, hash, sig, clean>>
    PROVE  IInv'
  <1>1. Params(components) /\ key = None /\ sig = None
    BY DEF IInv, KeysInv
  <1>2. CASE key' \in keys /\ phase' = "key"
    <2>1. KeyOver(components, key')
      BY <1>2
    <2> QED  BY <1>1, <1>2, <2>1 DEF IInv, KeysInv, SignatureInv
  <1>3. CASE key' = key /\ phase' = err
    BY <1>1, <1>3 DEF IInv, KeysInv, SignatureInv
  <1> QED  BY <1>2, <1>3 DEF Outcome

(* Generating a key.                                                        *)
LEMMA KeypairStep ==
    ASSUME IInv, Keypair
    PROVE  IInv'
  <1>1. PICK x \in Drawn(components.q) \cap 1 .. components.q - 1 :
            Outcome(keypair(components, x), key, key', "key", "panicked")
    BY DEF Keypair
  <1>2. phase = "components" /\ UNCHANGED <<components, hash, sig, clean>>
    BY DEF Keypair
  <1>3. Params(components)
    BY <1>2 DEF IInv, KeysInv
  <1>4. x \in Nat
    BY <1>1, <1>3, ParamsFacts
  <1>5. \A k \in keypair(components, x) : KeyOver(components, k)
    BY <1>3, <1>4, KeypairMade
  <1> QED  BY <1>1, <1>2, <1>5, KeyStep

(* Taking a key from two numbers given.                                     *)
LEMMA GiveKeyStep ==
    ASSUME NumbersAssumption, IInv, NEW x \in GivenX, GiveKey(x)
    PROVE  IInv'
  <1> DEFINE keys(y) == UNION {SigningKey_from(vk, x) : vk \in VerifyingKey_from(components, y)}
  <1>1. PICK y \in GivenY \cup {public(components, x)} :
            Outcome(keys(y), key, key', "key", "refused")
    BY DEF GiveKey
  <1>2. phase = "components" /\ UNCHANGED <<components, hash, sig, clean>>
    BY DEF GiveKey
  <1>3. Params(components)
    BY <1>2 DEF IInv, KeysInv
  <1>4. x \in Nat /\ y \in Nat
    <2>1. x \in Nat /\ GivenY \subseteq Nat
      BY DEF NumbersAssumption
    <2>2. public(components, x) \in Nat
      BY <1>3, <2>1, PublicIsNat
    <2> QED  BY <1>1, <2>1, <2>2
  <1>5. \A k \in keys(y) : KeyOver(components, k)
    BY <1>3, <1>4, KeyMade
  <1> HIDE DEF keys
  <1> QED  BY <1>1, <1>2, <1>5, KeyStep

(* Signing, with any nonce below q.                                         *)
LEMMA SignStep ==
    ASSUME NumbersAssumption, IInv, phase = "key", NEW h \in Hashes,
           NEW k \in 1 .. components.q - 1, SignWith(h, k)
    PROVE  IInv'
  <1>1. Params(components) /\ KeyOver(components, key) /\ IsOctets(h)
    BY DEF IInv, KeysInv, NumbersAssumption
  <1>2. UNCHANGED <<components, key, clean>> /\ hash' = h
    BY DEF SignWith
  <1>3. CASE sig' \in sign_prehashed(key, k, h) /\ phase' = "signed"
    <2>1. Pair(sig')
      <3>1. PICK r, s \in 1 .. components.q - 1 : sig' = [r |-> r, s |-> s]
        BY <1>1, <1>3, SignatureMade
      <3>2. components.q \in Nat
        BY <1>1, ParamsFacts
      <3> QED  BY <3>1, <3>2 DEF Pair
    <2>2. \E n \in 1 .. components.q - 1 : sig' \in sign_prehashed(key, n, h)
      BY <1>3
    <2> QED  BY <1>1, <1>2, <1>3, <2>1, <2>2 DEF IInv, KeysInv, SignatureInv
  <1>4. CASE sig' = sig /\ phase' = "refused"
    BY <1>1, <1>2, <1>4 DEF IInv, KeysInv, SignatureInv
  <1> QED  BY <1>3, <1>4 DEF SignWith, Outcome

(* Signing with the nonce RFC 6979 derives.                                 *)
LEMMA SignDeterministicStep ==
    ASSUME NumbersAssumption, IInv, NEW h \in Hashes, SignDeterministic(h)
    PROVE  IInv'
  <1>1. PICK k \in Drawn(components.q) \cap secret_number_rfc6979(components.q) : SignWith(h, k)
    BY DEF SignDeterministic
  <1>2. phase = "key"
    BY DEF SignDeterministic
  <1>3. k \in 1 .. components.q - 1
    <2>1. components.q \in Nat
      BY <1>2, ParamsFacts DEF IInv, KeysInv
    <2>2. ByteLen(components.q) \in Nat
      BY <2>1, BitLengthIsNat DEF ByteLen
    <2>3. 2 ^ (8 * ByteLen(components.q)) \in Nat
      BY <2>2, PowerIsNat
    <2> QED  BY <1>1, <2>1, <2>3 DEF secret_number_rfc6979
  <1> QED  BY <1>1, <1>2, <1>3, SignStep

(* Signing with a nonce drawn.                                              *)
LEMMA SignRandomizedStep ==
    ASSUME NumbersAssumption, IInv, NEW h \in Hashes, SignRandomized(h)
    PROVE  IInv'
  <1>1. PICK k \in Drawn(components.q) \cap secret_number(components.q) : SignWith(h, k)
    BY DEF SignRandomized
  <1>2. phase = "key" /\ k \in 1 .. components.q - 1
    BY <1>1 DEF SignRandomized, secret_number
  <1> QED  BY <1>1, <1>2, SignStep

(* Taking two numbers for a signature.                                      *)
LEMMA AssembleStep ==
    ASSUME NumbersAssumption, IInv, NEW r \in Assembled, NEW s \in Assembled, Assemble(r, s)
    PROVE  IInv'
  <1>1. r \in Nat /\ s \in Nat
    BY DEF NumbersAssumption
  <1>2. /\ UNCHANGED <<components, key, hash, clean>> /\ phase' \in {"assembled", "refused"}
        /\ sig' \in Signature_from(r, s) \/ sig' = sig
    BY DEF Assemble, Outcome
  <1>3. sig' # None => Pair(sig')
    BY <1>1, <1>2, PairMade DEF IInv, SignatureInv
  <1> QED  BY <1>2, <1>3 DEF IInv, KeysInv, SignatureInv

(* The other steps leave components, key and signature as they are, and     *)
(* the phase is none the invariant speaks of, or as it was.                 *)
LEMMA OtherStep ==
    ASSUME IInv, UNCHANGED <<components, key, hash, sig>>, clean' \in BOOLEAN,
           phase' = phase \/ phase' \notin {"start", "components", "key", "signed"}
    PROVE  IInv'
  BY DEF IInv, KeysInv, SignatureInv

(* Every step keeps the invariant.                                          *)
LEMMA NextIInv ==
    ASSUME NumbersAssumption, IInv, [Next]_vars
    PROVE  IInv'
  <1>1. CASE \E sz \in Sizes : Generate(sz)
    BY <1>1, GenerateStep
  <1>2. CASE \E t \in Given : Give(t)
    BY <1>2, GiveStep
  <1>3. CASE Keypair
    BY <1>3, KeypairStep
  <1>4. CASE \E x \in GivenX : GiveKey(x)
    BY <1>4, GiveKeyStep
  <1>5. CASE \E h \in Hashes : SignDeterministic(h)
    BY <1>5, SignDeterministicStep
  <1>6. CASE SignHangs
    BY <1>6, OtherStep DEF SignHangs, IInv
  <1>7. CASE \E h \in Hashes : SignRandomized(h)
    BY <1>7, SignRandomizedStep
  <1>8. CASE SignGivesUp
    BY <1>8, OtherStep DEF SignGivesUp, IInv
  <1>9. CASE \E r, s \in Assembled : Assemble(r, s)
    BY <1>9, AssembleStep
  <1>10. CASE SendSignature
    BY <1>10, OtherStep DEF SendSignature, IInv
  <1>11. CASE DamageSignature
    BY <1>11, OtherStep DEF DamageSignature
  <1>12. CASE ReceiveSignature
    <2>1. phase' \in {"received", "lost"} /\ UNCHANGED <<components, key, hash, sig, clean>>
      BY <1>12 DEF ReceiveSignature, Outcome
    <2> QED  BY <2>1, OtherStep DEF IInv
  <1>13. CASE Export
    BY <1>13, OtherStep DEF Export, IInv
  <1>14. CASE AlterDocument
    BY <1>14, OtherStep DEF AlterDocument
  <1>15. CASE ImportDocument
    <2>1. /\ phase' \in {"read private", "read public", "lost"}
          /\ UNCHANGED <<components, key, hash, sig, clean>>
      BY <1>15 DEF ImportDocument, Outcome
    <2> QED  BY <2>1, OtherStep DEF IInv
  <1>16. CASE UNCHANGED vars
    BY <1>16, OtherStep DEF vars, IInv
  <1> QED  BY <1>1, <1>2, <1>3, <1>4, <1>5, <1>6, <1>7, <1>8, <1>9, <1>10, <1>11, <1>12,
              <1>13, <1>14, <1>15, <1>16 DEF Next

(* In every state a session reaches, the parameters, the key and the        *)
(* signature at hand are such as their constructors let through             *)
(* (components.rs:31-38, verifying_key.rs:31-38, signing_key.rs:42-52,      *)
(* lib.rs:90-97), the key is over these parameters, and a signature made    *)
(* here comes from this key, this hash and a nonce below q                  *)
(* (signing_key.rs:85-112).                                                 *)
THEOREM InductiveInvariant == Spec => []IInv
  <1>1. Init => IInv
    BY InitIInv
  <1>2. IInv /\ [Next]_vars => IInv'
    BY NumbersAssumption, NextIInv
  <1> QED  BY <1>1, <1>2, PTL DEF Spec

-----------------------------------------------------------------------------
(* The parameters of a sound key form a group, and its y is the power of x. *)
LEMMA SoundGroup ==
    ASSUME NEW c, Params(c), NEW k, KeyOver(c, k), Sound(k)
    PROVE  Group(c.p, c.q, c.g) /\ k.verifying_key.y = modpow(c.g, k.x, c.p)
  <1>1. k.verifying_key.components = c
    BY KeyFacts
  <1>2. /\ probably_prime(c.q) /\ modpow(c.g, c.q, c.p) = 1
        /\ k.verifying_key.y = modpow(c.g, k.x, c.p)
    BY <1>1 DEF Sound, public
  <1> QED  BY <1>2, ParamsFacts DEF Group

(* An x as large as q belongs to no sound key: its power would be 1.        *)
LEMMA SoundSecret ==
    ASSUME NEW c, Params(c), NEW k, KeyOver(c, k), Sound(k)
    PROVE  k.x < c.q
  <1>1. k.verifying_key.y > 1 /\ k.x \in 1 .. c.q
    BY KeyFacts
  <1>2. modpow(c.g, c.q, c.p) = 1 /\ k.verifying_key.y = modpow(c.g, k.x, c.p)
    BY SoundGroup DEF Group
  <1>3. k.x # c.q
    BY <1>1, <1>2
  <1>4. c.q \in Nat
    BY ParamsFacts
  <1> QED  BY <1>1, <1>3, <1>4

(* The invariant gives TypeOK; that x is below q of a sound key needs the   *)
(* powers.                                                                  *)
LEMMA TypesFollow ==
    ASSUME NumbersAssumption, IInv
    PROVE  TypeOK
  <1>1. ASSUME key # None
        PROVE  /\ key.x \in 1 .. components.q
               /\ Sound(key) => key.x < components.q
               /\ key.verifying_key.components = components
    <2>1. Params(components) /\ KeyOver(components, key)
      BY <1>1 DEF IInv, KeysInv
    <2> QED  BY <2>1, KeyFacts, SoundSecret
  <1>2. ASSUME sig # None  PROVE sig.r > 0 /\ sig.s > 0
    <2>1. PICK r, s \in Nat \ {0} : sig = [r |-> r, s |-> s]
      BY <1>2 DEF IInv, SignatureInv, Pair
    <2> QED  BY <2>1
  <1>3. ASSUME phase = "signed"  PROVE sig.r < components.q /\ sig.s < components.q
    <2>1. Params(components) /\ KeyOver(components, key)
      BY <1>3 DEF IInv, KeysInv
    <2>2. PICK k \in 1 .. components.q - 1 : sig \in sign_prehashed(key, k, hash)
      BY <1>3 DEF IInv, SignatureInv
    <2>3. IsOctets(hash)
      BY <1>3 DEF IInv, SignatureInv, NumbersAssumption
    <2>4. PICK r, s \in 1 .. components.q - 1 : sig = [r |-> r, s |-> s]
      BY <2>1, <2>2, <2>3, SignatureMade
    <2>5. components.q \in Nat
      BY <2>1, ParamsFacts
    <2> QED  BY <2>4, <2>5
  <1>4. clean \in BOOLEAN
    BY DEF IInv
  <1> QED  BY <1>1, <1>2, <1>3, <1>4, Zenon DEF TypeOK

(* What the signer computes fulfils the equation, with its nonce.           *)
LEMMA SignedIsEquation ==
    ASSUME NEW c, Params(c), NEW sk, KeyOver(c, sk), NEW k \in 1 .. c.q - 1,
           NEW h, IsOctets(h), NEW t \in sign_prehashed(sk, k, h)
    PROVE  Equation(sk, h, t)
  <1> DEFINE L == Leftmost(c.q, h)
  <1>1. PICK r, s \in 1 .. c.q - 1, i \in mod_inverse(k, c.q) :
            /\ t = [r |-> r, s |-> s] /\ r = modpow(c.g, k, c.p) % c.q
            /\ s = (i * (L + sk.x * r)) % c.q
    BY SignatureMade
  <1>2. c.q \in Nat /\ c.q > 1 /\ c.q > 0
    BY ParamsFacts
  <1>3. sk.x \in Nat /\ L \in Nat /\ sk.verifying_key.components = c
    BY <1>2, KeyFacts, LeftmostIsNat
  <1>4. r \in Nat /\ s \in Nat /\ k \in Nat /\ r < c.q /\ s < c.q /\ k \in 0 .. c.q - 1
    BY <1>1, <1>2
  <1>5. PICK q \in Nat, x \in Nat, E \in Nat : q = c.q /\ x = sk.x /\ E = L + x * r
    BY <1>2, <1>3, <1>4
  <1>6. i \in 1 .. q - 1 /\ Cong(q, k * i, 1)
    <2>1. k \in Int
      BY <1>4
    <2> QED  BY <1>2, <1>5, <2>1, InverseFacts
  <1>7. i \in Int /\ k \in Int /\ E \in Int /\ s \in Int /\ q > 0
        /\ i * E \in Int /\ k * i \in Int /\ s * k \in Int
    BY <1>2, <1>4, <1>5, <1>6
  <1>8. Cong(q, s, i * E)
    <2>1. s = (i * E) % q
      BY <1>1, <1>5
    <2> QED  BY <1>7, <2>1, ModCong
  <1>9. Cong(q, s * k, E)
    <2> DEFINE a == i * E
               b == k * i
    <2>1. a * k = b * E
      BY <1>7, Z3
    <2>2. a \in Int /\ b \in Int /\ a * k \in Int /\ b * E \in Int /\ 1 * E = E
      BY <1>7
    <2>3. Cong(q, s, a) /\ Cong(q, b, 1) /\ Cong(q, k, k) /\ Cong(q, E, E)
      BY <1>6, <1>7, <1>8, CongRefl
    <2> HIDE DEF a, b
    <2>4. Cong(q, s * k, a * k) /\ Cong(q, b * E, 1 * E)
      BY <1>7, <2>2, <2>3, CongMul
    <2> QED  BY <1>7, <2>1, <2>2, <2>4, CongTrans
  <1>10. (s * k) % q = E % q
    <2> DEFINE u == (s * k) % q
               v == E % q
    <2>1. u \in 0 .. q - 1 /\ v \in 0 .. q - 1 /\ Cong(q, u, s * k) /\ Cong(q, v, E)
      BY <1>7, ModCong
    <2> HIDE DEF u, v
    <2>2. u \in Int /\ v \in Int
      BY <2>1
    <2>3. Cong(q, u, E) /\ Cong(q, E, v)
      BY <1>7, <1>9, <2>1, <2>2, CongTrans, CongSym
    <2>4. Cong(q, u, v)
      BY <1>7, <2>2, <2>3, CongTrans
    <2>5. u = v
      BY <2>1, <2>4, CongSmall
    <2> QED  BY <2>5 DEF u, v
  <1>11. t.r = r /\ t.s = s
    BY <1>1
  <1>12. /\ (t.s * k) % c.q = (Leftmost(c.q, h) + sk.x * t.r) % c.q
         /\ t.r = modpow(c.g, k, c.p) % c.q
    BY <1>1, <1>5, <1>10, <1>11
  <1> QED  BY <1>3, <1>4, <1>11, <1>12 DEF Equation

(* The invariant gives VerifyIffEquation.                                   *)
LEMMA VerdictsFollow ==
    ASSUME NumbersAssumption, IInv
    PROVE  VerifyIffEquation
  <1> SUFFICES ASSUME key # None, Sound(key)
               PROVE  /\ phase = "signed" => verify_prehashed(key.verifying_key, hash, sig)
                      /\ phase = "key" /\ components.q <= SmallQ =>
                            \A h \in Hashes, r, s \in 1 .. components.q + 2 :
                                LET t == [r |-> r, s |-> s]
                                IN  verify_prehashed(key.verifying_key, h, t)
                                        <=> Equation(key, h, t)
    BY DEF VerifyIffEquation
  <1>1. Params(components) /\ KeyOver(components, key)
    BY DEF IInv, KeysInv
  <1>2. PICK p, q, g, x, pk : /\ p = components.p /\ q = components.q /\ g = components.g
                              /\ x = key.x /\ pk = key.verifying_key
    OBVIOUS
  <1>3. Group(p, q, g) /\ pk.y = modpow(g, x, p)
    BY <1>1, <1>2, SoundGroup
  <1>4. x \in Nat /\ pk.components = components /\ q \in Nat
    BY <1>1, <1>2, KeyFacts, ParamsFacts
  <1>5. ASSUME NEW h, IsOctets(h), NEW r \in Nat \ {0}, NEW s \in Nat \ {0},
               NEW t, t.r = r, t.s = s
        PROVE  verify_prehashed(pk, h, t) <=> Equation(key, h, t)
    BY <1>2, <1>3, <1>4, <1>5, AcceptedIsEquation
  <1>6. ASSUME phase = "signed"  PROVE verify_prehashed(pk, hash, sig)
    <2>1. PICK k \in 1 .. components.q - 1 : sig \in sign_prehashed(key, k, hash)
      BY <1>6 DEF IInv, SignatureInv
    <2>2. IsOctets(hash)
      BY <1>6 DEF IInv, SignatureInv, NumbersAssumption
    <2>3. Equation(key, hash, sig)
      BY <1>1, <2>1, <2>2, SignedIsEquation
    <2>4. PICK r, s \in 1 .. components.q - 1 : sig = [r |-> r, s |-> s]
      BY <1>1, <2>1, <2>2, SignatureMade
    <2>5. r \in Nat \ {0} /\ s \in Nat \ {0} /\ sig.r = r /\ sig.s = s
      BY <1>2, <1>4, <2>4
    <2> QED  BY <1>5, <2>2, <2>3, <2>5
  <1>7. ASSUME NEW h \in Hashes, NEW r \in 1 .. q + 2, NEW s \in 1 .. q + 2
        PROVE  verify_prehashed(pk, h, [r |-> r, s |-> s]) <=> Equation(key, h, [r |-> r, s |-> s])
    <2>1. IsOctets(h)
      BY DEF NumbersAssumption
    <2>2. r \in Nat \ {0} /\ s \in Nat \ {0}
      BY <1>4
    <2>3. PICK t : t = [r |-> r, s |-> s]
      OBVIOUS
    <2>4. t.r = r /\ t.s = s
      BY <2>3
    <2> QED  BY <1>5, <2>1, <2>2, <2>3, <2>4
  <1> QED  BY <1>2, <1>6, <1>7

(* A key's x is at most q, as signing_key.rs:42-52 allows, but below q when *)
(* the key is sound; a signature has no number 0, and one made by signing   *)
(* has both below q (signing_key.rs:85-112), for parameters of any size.    *)
THEOREM TypeCorrect == Spec => []TypeOK
  <1>1. IInv => TypeOK
    BY NumbersAssumption, TypesFollow
  <1> QED  BY <1>1, InductiveInvariant, PTL

(* verify_prehashed (verifying_key.rs:51-76) accepts every signature its    *)
(* key made (signing_key.rs:85-112), and any pair of numbers for a hash     *)
(* exactly when some nonce and this key's x fulfil the signing equation,    *)
(* whatever the parameters, the key and the hash.                           *)
THEOREM VerifyAlwaysIffEquation == Spec => []VerifyIffEquation
  <1>1. IInv => VerifyIffEquation
    BY NumbersAssumption, VerdictsFollow
  <1> QED  BY <1>1, InductiveInvariant, PTL
==============================================================================
