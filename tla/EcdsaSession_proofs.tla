------------------------- MODULE EcdsaSession_proofs -------------------------
(***************************************************************************)
(* Proofs about EcdsaSession, for every curve of prime order, every key,    *)
(* nonce, digest and text, and any bytes that damage the wire.              *)
(*                                                                          *)
(* Four parts.  The algebra: signing, verifying and recovering are one      *)
(* equation s R = z + r Q modulo n, whose point, key and recovery id are    *)
(* each determined by the others.  The encodings: what a number, a DER      *)
(* INTEGER, a SEQUENCE of two and a pair of hexadecimal digits are as       *)
(* bytes, and that each reader accepts what the writer of its form wrote    *)
(* and nothing else.  The session: an inductive invariant says of every     *)
(* state which key belongs to which, what the signature was made of, and    *)
(* what the wire may hold.  Last, the properties follow from it.            *)
(***************************************************************************)
EXTENDS EcdsaSession, BasicFacts, SequenceTheorems, TLAPS

(* The equation of ECDSA between a signature, the number z of what is       *)
(* signed, the point R of the nonce and the key Q.                          *)
Fits(K, r, s, z, R, Q) == Cong(K.n, s * R, z + r * Q)

(* A scalar, its negative and its inverse.                                  *)
LEMMA ScalarFacts ==
    ASSUME NEW K, IsCurve(K), NEW a \in Scalars(K)
    PROVE  /\ K.n \in Nat /\ K.n > 1
           /\ a \in Nat /\ a > 0 /\ a < K.n
           /\ K.inv[a] \in Nat /\ Cong(K.n, a * K.inv[a], 1)
           /\ Neg(K, a) = K.n - a /\ Neg(K, a) \in Scalars(K)
           /\ K.n - Neg(K, a) = a
  <1>1. K.n \in Nat /\ K.n > 1 /\ a \in Nat /\ a > 0 /\ a < K.n
    BY DEF IsCurve, Scalars
  <1>2. K.inv[a] \in Nat /\ (a * K.inv[a]) % K.n = 1
    BY <1>1 DEF IsCurve, Scalars, Mul
  <1>3. Cong(K.n, 1, a * K.inv[a])
    <2> DEFINE p == a * K.inv[a]
    <2>1. p \in Int /\ p % K.n = 1 /\ K.n > 0
      BY <1>1, <1>2
    <2> HIDE DEF p
    <2>2. Cong(K.n, p % K.n, p)
      BY <1>1, <2>1, ModCong
    <2>3. Cong(K.n, 1, p)
      BY <2>1, <2>2
    <2> QED  BY <2>3 DEF p
  <1>4. Cong(K.n, a * K.inv[a], 1)
    <2>1. a * K.inv[a] \in Int /\ 1 \in Int
      BY <1>1, <1>2
    <2> QED  BY <1>1, <1>3, <2>1, CongSym
  <1>5. Neg(K, a) = K.n - a
    BY <1>1 DEF Neg
  <1> QED  BY <1>1, <1>2, <1>4, <1>5 DEF Scalars

(* The point that verification computes is the one that fits.               *)
LEMMA VerifyPoint ==
    ASSUME NEW K, IsCurve(K), NEW s \in Scalars(K), NEW r \in Nat, NEW z \in Nat, NEW Q \in Nat
    PROVE  LET R == lincomb(K, Mul(K, z, K.inv[s]), Mul(K, r, K.inv[s]), Q)
           IN  R \in 0 .. K.n - 1 /\ Fits(K, r, s, z, R, Q)
  <1> DEFINE n == K.n
             i == K.inv[s]
             u == Mul(K, z, i)
             v == Mul(K, r, i)
             R == lincomb(K, u, v, Q)
  <1>1. n \in Nat /\ n > 0 /\ i \in Nat /\ s \in Nat /\ Cong(n, s * i, 1)
    BY ScalarFacts
  <1>2. u \in 0 .. n - 1 /\ v \in 0 .. n - 1 /\ Cong(n, u, z * i) /\ Cong(n, v, r * i)
    <2>1. z * i \in Int /\ r * i \in Int
      BY <1>1
    <2> QED  BY <1>1, <2>1, ModCong DEF Mul
  <1>3. R \in 0 .. n - 1 /\ Cong(n, R, u + v * Q)
    <2>1. u + v * Q \in Int
      BY <1>2
    <2> QED  BY <1>1, <2>1, ModCong DEF lincomb
  <1> HIDE DEF n, i, u, v, R
  <1>4. Cong(n, v * Q, (r * i) * Q)
    <2>1. r * i \in Int /\ v \in Int
      BY <1>1, <1>2
    <2> DEFINE t == r * i
    <2> HIDE DEF t
    <2>2. t \in Int /\ Cong(n, v, t)
      BY <2>1, <1>2 DEF t
    <2>3. Cong(n, v * Q, t * Q)
      <3>1. Cong(n, Q, Q) /\ Q \in Int
        BY <1>1, CongRefl
      <3> QED  BY <1>1, <2>1, <2>2, <3>1, CongMul
    <2> QED  BY <2>3 DEF t
  <1> DEFINE w == z * i + (r * i) * Q
  <1>5. w \in Int /\ Cong(n, R, w)
    <2>1. z * i \in Int /\ (r * i) * Q \in Int /\ v * Q \in Int /\ u \in Int /\ R \in Int
      BY <1>1, <1>2, <1>3
    <2>2. Cong(n, u + v * Q, w)
      BY <1>1, <1>2, <1>4, <2>1, CongAdd
    <2>3. u + v * Q \in Int /\ w \in Int
      BY <2>1
    <2> QED  BY <1>1, <1>3, <2>1, <2>2, <2>3, CongTrans
  <1>6. s * w = (s * i) * (z + r * Q)
    <2>1. \A a, b, c, d, e \in Int : a * (c * b + (d * b) * e) = (a * b) * (c + d * e)
      BY Z3
    <2> QED  BY <1>1, <2>1
  <1> HIDE DEF w
  <1>7. Cong(n, s * R, s * w)
    BY <1>1, <1>3, <1>5, CongRefl, CongMul
  <1>8. Cong(n, (s * i) * (z + r * Q), 1 * (z + r * Q))
    <2> DEFINE p == s * i
               t == z + r * Q
    <2>1. p \in Int /\ t \in Int /\ Cong(n, p, 1)
      BY <1>1
    <2> HIDE DEF p, t
    <2>2. Cong(n, p * t, 1 * t)
      BY <1>1, <2>1, CongRefl, CongMul
    <2> QED  BY <2>2 DEF p, t
  <1>9. Cong(n, s * R, z + r * Q)
    <2>1. s * R \in Int /\ s * w \in Int /\ z + r * Q \in Int /\ 1 * (z + r * Q) = z + r * Q
      BY <1>1, <1>3, <1>5
    <2> QED  BY <1>1, <1>6, <1>7, <1>8, <2>1, CongTrans
  <1> QED  BY <1>3, <1>9 DEF Fits, n, i, u, v, R

(* One point fits, and one key does.                                        *)
LEMMA OnePoint ==
    ASSUME NEW K, IsCurve(K), NEW s \in Scalars(K), NEW r \in Nat, NEW z \in Nat, NEW Q \in Nat,
           NEW R \in 0 .. K.n - 1, NEW T \in 0 .. K.n - 1,
           Fits(K, r, s, z, R, Q), Fits(K, r, s, z, T, Q)
    PROVE  R = T
  <1> DEFINE n == K.n
             t == z + r * Q
  <1>1. n \in Nat /\ n > 0 /\ K.inv[s] \in Int /\ s \in Int /\ Cong(n, s * K.inv[s], 1)
    BY ScalarFacts
  <1>2. t \in Int /\ s * R \in Int /\ s * T \in Int /\ R \in Int /\ T \in Int
    BY <1>1
  <1>3. Cong(n, s * R, t) /\ Cong(n, s * T, t)
    BY DEF Fits
  <1> HIDE DEF n, t
  <1>4. Cong(n, s * R, s * T)
    BY <1>1, <1>2, <1>3, CongSym, CongTrans
  <1>5. Cong(n, R, T)
    BY <1>1, <1>2, <1>4, CongCancel
  <1> QED  BY <1>1, <1>5, CongSmall DEF n

(* A point, r and s fit one key at most.                                    *)
LEMMA OneKey ==
    ASSUME NEW K, IsCurve(K), NEW r \in Scalars(K), NEW s \in Nat, NEW z \in Nat, NEW R \in Nat,
           NEW P \in 0 .. K.n - 1, NEW Q \in 0 .. K.n - 1,
           Fits(K, r, s, z, R, P), Fits(K, r, s, z, R, Q)
    PROVE  P = Q
  <1> DEFINE n == K.n
  <1>1. n \in Nat /\ n > 0 /\ K.inv[r] \in Int /\ r \in Int /\ Cong(n, r * K.inv[r], 1)
    BY ScalarFacts
  <1>2. P \in Int /\ Q \in Int /\ r * P \in Int /\ r * Q \in Int /\ s * R \in Int
    BY <1>1
  <1>3. Cong(n, s * R, z + r * P) /\ Cong(n, s * R, z + r * Q)
    BY DEF Fits
  <1> HIDE DEF n
  <1>4. Cong(n, z + r * P, z + r * Q)
    BY <1>1, <1>2, <1>3, CongSym, CongTrans
  <1>5. Cong(n, -z + (z + r * P), -z + (z + r * Q))
    BY <1>1, <1>2, <1>4, CongRefl, CongAdd
  <1>6. -z + (z + r * P) = r * P /\ -z + (z + r * Q) = r * Q
    BY <1>2
  <1>7. Cong(n, P, Q)
    BY <1>1, <1>2, <1>5, <1>6, CongCancel
  <1> QED  BY <1>1, <1>7, CongSmall DEF n

(* The key that recovery computes fits.                                     *)
LEMMA RecoverKey ==
    ASSUME NEW K, IsCurve(K), NEW r \in Scalars(K), NEW s \in Nat, NEW z \in Nat, NEW R \in Nat
    PROVE  LET Q == lincomb(K, Neg(K, Mul(K, K.inv[r], z)), Mul(K, K.inv[r], s), R)
           IN  Q \in 0 .. K.n - 1 /\ Fits(K, r, s, z, R, Q)
  <1> DEFINE n == K.n
             i == K.inv[r]
             u == Mul(K, i, z)
             m == Neg(K, u)
             v == Mul(K, i, s)
             Q == lincomb(K, m, v, R)
  <1>1. n \in Nat /\ n > 0 /\ i \in Nat /\ r \in Nat /\ Cong(n, r * i, 1)
    BY ScalarFacts
  <1>2. u \in 0 .. n - 1 /\ v \in 0 .. n - 1 /\ Cong(n, u, i * z) /\ Cong(n, v, i * s)
    <2>1. i * z \in Int /\ i * s \in Int
      BY <1>1
    <2> QED  BY <1>1, <2>1, ModCong DEF Mul
  <1>3. m \in 0 .. n - 1 /\ Cong(n, m, n - u)
    <2>1. n - u \in Int
      BY <1>1, <1>2
    <2> QED  BY <1>1, <2>1, ModCong DEF Neg
  <1>4. Q \in 0 .. n - 1 /\ Cong(n, Q, m + v * R)
    <2>1. m + v * R \in Int
      BY <1>2, <1>3
    <2> QED  BY <1>1, <2>1, ModCong DEF lincomb
  <1> HIDE DEF n, i, u, m, v, Q
  <1>5. PICK a \in Int, b \in Int, c \in Int, d \in Int, e \in Int :
            /\ u = i * z + a * n /\ v = i * s + b * n /\ m = (n - u) + c * n
            /\ Q = (m + v * R) + d * n /\ r * i = 1 + e * n
    <2>1. /\ \E a \in Int : u = i * z + a * n
          /\ \E b \in Int : v = i * s + b * n
          /\ \E c \in Int : m = (n - u) + c * n
          /\ \E d \in Int : Q = (m + v * R) + d * n
          /\ \E e \in Int : r * i = 1 + e * n
      BY <1>1, <1>2, <1>3, <1>4 DEF Cong
    <2> QED  BY <2>1
  <1>6. Q = i * (s * R - z) + (1 - a + c + d + b * R) * n
    <2>1. \A ii, zz, ss, RR, nn, aa, bb, cc, dd \in Int :
             (((nn - (ii * zz + aa * nn)) + cc * nn) + (ii * ss + bb * nn) * RR) + dd * nn
             = ii * (ss * RR - zz) + (1 - aa + cc + dd + bb * RR) * nn
      BY Z3
    <2> QED  BY <1>1, <1>5, <2>1
  <1> DEFINE f == 1 - a + c + d + b * R
             g == s * R - z
  <1>7. f \in Int /\ g \in Int
    BY <1>5
  <1>8. Q = i * g + f * n
    BY <1>6
  <1> HIDE DEF f
  <1>9. r * Q = g + (e * g + r * f) * n
    <2> HIDE DEF g
    <2>1. \A rr, ii, gg, ff, nn \in Int : rr * (ii * gg + ff * nn) = (rr * ii) * gg + (rr * ff) * nn
      BY Z3
    <2>2. \A ee, gg, nn, rr, ff \in Int :
             (1 + ee * nn) * gg + (rr * ff) * nn = gg + (ee * gg + rr * ff) * nn
      BY Z3
    <2>3. r * Q = (r * i) * g + (r * f) * n
      BY <1>1, <1>7, <1>8, <2>1
    <2> QED  BY <1>1, <1>5, <1>7, <2>2, <2>3
  <1>10. PICK h \in Int : h = e * g + r * f
    <2>1. e * g + r * f \in Int
      BY <1>1, <1>5, <1>7
    <2> QED  BY <2>1
  <1>11. s * R = (z + r * Q) + (-h) * n /\ -h \in Int
    <2>1. r * Q = (s * R - z) + h * n
      BY <1>9, <1>10
    <2>2. \A p, zz, qq, hh, nn \in Int : qq = (p - zz) + hh * nn => p = (zz + qq) + (-hh) * nn
      BY Z3
    <2>3. r * Q \in Int /\ s * R \in Int
      BY <1>1, <1>4
    <2> QED  BY <1>1, <1>10, <2>1, <2>2, <2>3
  <1> QED  BY <1>4, <1>11 DEF Fits, Cong, n, i, u, m, v, Q

(* The s of a signer fits its nonce and its key.                            *)
LEMMA SignerFits ==
    ASSUME NEW K, IsCurve(K), NEW k \in Scalars(K), NEW r \in Nat, NEW z \in Nat, NEW d \in Nat
    PROVE  LET s == Mul(K, K.inv[k], z + r * d)
           IN  s \in 0 .. K.n - 1 /\ Fits(K, r, s, z, k, d)
  <1> DEFINE n == K.n
             i == K.inv[k]
             t == z + r * d
             s == Mul(K, i, t)
  <1>1. n \in Nat /\ n > 0 /\ i \in Nat /\ k \in Nat /\ Cong(n, k * i, 1) /\ t \in Nat
    <2>1. t \in Nat
      OBVIOUS
    <2>2. K.n \in Nat /\ K.n > 1 /\ k \in Nat /\ K.inv[k] \in Nat /\ Cong(K.n, k * K.inv[k], 1)
      BY ScalarFacts
    <2>3. K.n > 0
      BY <2>2
    <2> QED  BY <2>1, <2>2, <2>3
  <1>2. s \in 0 .. n - 1 /\ Cong(n, s, i * t)
    <2>1. i * t \in Int
      BY <1>1
    <2> QED  BY <1>1, <2>1, ModCong DEF Mul
  <1> HIDE DEF n, i, t, s
  <1>3. PICK a \in Int, e \in Int : s = i * t + a * n /\ k * i = 1 + e * n
    BY <1>1, <1>2 DEF Cong
  <1>4. s * k = (k * i) * t + (a * k) * n
    <2>1. \A kk, ii, tt, aa, nn \in Int : (ii * tt + aa * nn) * kk = (kk * ii) * tt + (aa * kk) * nn
      BY Z3
    <2> QED  BY <1>1, <1>3, <2>1
  <1>5. s * k = t + (e * t + a * k) * n
    <2>1. \A ee, tt, nn, c \in Int : (1 + ee * nn) * tt + c * nn = tt + (ee * tt + c) * nn
      BY Z3
    <2>2. a * k \in Int
      BY <1>1, <1>3
    <2> QED  BY <1>1, <1>3, <1>4, <2>1, <2>2
  <1>6. e * t + a * k \in Int
    BY <1>1, <1>3
  <1>7. Cong(n, s * k, t)
    BY <1>5, <1>6 DEF Cong
  <1> QED  BY <1>2, <1>7 DEF Fits, n, i, t, s

(* What fits still does with s and the point negated.                       *)
LEMMA NegatedFits ==
    ASSUME NEW K, IsCurve(K), NEW s \in Scalars(K), NEW R \in Scalars(K),
           NEW r \in Nat, NEW z \in Nat, NEW Q \in Nat, Fits(K, r, s, z, R, Q)
    PROVE  Fits(K, r, Neg(K, s), z, Neg(K, R), Q)
  <1> DEFINE n == K.n
             t == z + r * Q
  <1>1. /\ n \in Nat /\ s \in Nat /\ R \in Nat /\ t \in Nat
        /\ Neg(K, s) = n - s /\ Neg(K, R) = n - R
    BY ScalarFacts
  <1>2. PICK q \in Int : s * R = t + q * n
    BY DEF Fits, Cong
  <1> HIDE DEF n, t
  <1>3. (n - s) * (n - R) = s * R + (n - s - R) * n
    <2>1. \A nn, ss, RR \in Int : (nn - ss) * (nn - RR) = ss * RR + (nn - ss - RR) * nn
      BY Z3
    <2> QED  BY <1>1, <2>1
  <1>4. (n - s) * (n - R) = t + (q + (n - s - R)) * n
    <2>1. \A tt, qq, p, nn \in Int : (tt + qq * nn) + p * nn = tt + (qq + p) * nn
      BY Z3
    <2>2. n - s - R \in Int
      BY <1>1
    <2> QED  BY <1>1, <1>2, <1>3, <2>1, <2>2
  <1>5. q + (n - s - R) \in Int
    BY <1>1
  <1> QED  BY <1>1, <1>4, <1>5 DEF Fits, Cong, n, t

(* Signatures with both scalars in range.                                   *)
Sigs(K) == [r : Scalars(K), s : Scalars(K)]

(* R is a nonce's point for a signature of z by Q.                          *)
PointOf(K, sig0, z, R, Q) ==
    /\ R \in Scalars(K)
    /\ K.x[R] % K.n = sig0.r
    /\ Fits(K, sig0.r, sig0.s, z, R, Q)

(* The recovery id of a point.                                              *)
IdOf(K, r, R) == RecoveryId(K.odd[R], K.x[R] # r)

(* The coordinates of a point and of its negative.                          *)
LEMMA PointFacts ==
    ASSUME NEW K, IsCurve(K), NEW P \in Scalars(K)
    PROVE  /\ K.n \in Nat /\ K.n > 1 /\ P \in 0 .. K.n - 1 /\ P # 0
           /\ K.FB \in Nat /\ 2 ^ (8 * K.FB) \in Nat
           /\ K.x[P] \in Nat /\ K.x[P] < 2 ^ (8 * K.FB) /\ K.x[P] < 2 * K.n
           /\ K.y[P] \in Nat /\ K.y[P] < 2 ^ (8 * K.FB)
           /\ K.odd[P] = (K.y[P] % 2 = 1) /\ K.odd[P] \in BOOLEAN
           /\ K.x[Neg(K, P)] = K.x[P] /\ K.odd[Neg(K, P)] # K.odd[P]
           /\ XCoord(K, P) = K.x[P]
  <1>1. K.FB \in Nat /\ 8 * K.FB \in Nat
    BY DEF IsCurve
  <1>2. 2 ^ (8 * K.FB) \in Nat
    BY <1>1, PowerIsNat
  <1>3. K.n \in Nat /\ K.n > 1 /\ P \in 0 .. K.n - 1 /\ P # 0
    BY DEF IsCurve, Scalars
  <1>4. /\ K.x[P] \in Nat /\ K.x[P] < 2 ^ (8 * K.FB) /\ K.x[P] < 2 * K.n
        /\ K.y[P] \in Nat /\ K.y[P] < 2 ^ (8 * K.FB)
        /\ K.odd[P] = (K.y[P] % 2 = 1)
        /\ K.x[Neg(K, P)] = K.x[P] /\ K.odd[Neg(K, P)] # K.odd[P]
    BY DEF IsCurve
  <1>5. K.odd[P] \in BOOLEAN
    BY <1>4
  <1>6. XCoord(K, P) = K.x[P]
    BY <1>3 DEF XCoord
  <1> QED  BY <1>1, <1>2, <1>3, <1>4, <1>5, <1>6

(* An x coordinate and a parity of y: one point.                            *)
LEMMA SamePoint ==
    ASSUME NEW K, IsCurve(K), NEW P \in Scalars(K), NEW Q \in Scalars(K),
           K.x[P] = K.x[Q], K.odd[P] = K.odd[Q]
    PROVE  P = Q
  <1>1. Q \in {P, Neg(K, P)}
    BY DEF IsCurve
  <1>2. Q # Neg(K, P)
    BY PointFacts
  <1> QED  BY <1>1, <1>2

(* What x can be when its remainder is r.                                   *)
LEMMA TwoXs ==
    ASSUME NEW K, IsCurve(K), NEW P \in Scalars(K), NEW r \in Scalars(K)
    PROVE  K.x[P] % K.n = r <=> K.x[P] = r \/ K.x[P] = r + K.n
  <1>1. /\ K.n \in Nat /\ K.n > 1 /\ K.x[P] \in Nat /\ K.x[P] < 2 * K.n
        /\ r \in Nat /\ r < K.n
    BY PointFacts, ScalarFacts
  <1>2. \A n, x, rr \in Nat : n > 1 /\ x < 2 * n /\ rr < n
                                => (x % n = rr <=> x = rr \/ x = rr + n)
    <2> SUFFICES ASSUME NEW n \in Nat, NEW x \in Nat, NEW rr \in Nat, n > 1, x < 2 * n, rr < n
                 PROVE  x % n = rr <=> x = rr \/ x = rr + n
      OBVIOUS
    <2>1. x = n * (x \div n) + (x % n) /\ x \div n \in Nat /\ x % n \in 0 .. n - 1
      OBVIOUS
    <2>2. x \div n < 2
      <3>1. \A q \in Nat : q >= 2 => n * q >= 2 * n
        BY Z3
      <3> QED  BY <2>1, <3>1
    <2>3. x \div n \in {0, 1}
      BY <2>1, <2>2
    <2>4. CASE x \div n = 0
      BY <2>1, <2>4
    <2>5. CASE x \div n = 1
      BY <2>1, <2>5
    <2> QED  BY <2>3, <2>4, <2>5
  <1> QED  BY <1>1, <1>2

(* The two bits of a recovery id.                                           *)
LEMMA IdBits ==
    ASSUME NEW b \in 0 .. 3
    PROVE  /\ is_y_odd(b) <=> b \in {1, 3}
           /\ is_x_reduced(b) <=> b \in {2, 3}
           /\ \A o, x \in BOOLEAN :
                  b = RecoveryId(o, x) <=> (is_y_odd(b) = o /\ is_x_reduced(b) = x)
           /\ FlipY(b) \in 0 .. 3
  <1>1. is_y_odd(b) <=> b \in {1, 3}
    BY DEF is_y_odd
  <1>2. is_x_reduced(b) <=> b \in {2, 3}
    BY DEF is_x_reduced
  <1> QED  BY <1>1, <1>2 DEF RecoveryId, FlipY, is_y_odd, is_x_reduced

(* Flipping the parity bit of a recovery id.                                *)
LEMMA FlippedId ==
    ASSUME NEW o \in BOOLEAN, NEW x \in BOOLEAN
    PROVE  RecoveryId(o, x) \in 0 .. 3 /\ FlipY(RecoveryId(o, x)) = RecoveryId(~o, x)
  <1>1. CASE o /\ x
    BY <1>1 DEF RecoveryId, FlipY, is_y_odd
  <1>2. CASE o /\ ~x
    BY <1>2 DEF RecoveryId, FlipY, is_y_odd
  <1>3. CASE ~o /\ x
    BY <1>3 DEF RecoveryId, FlipY, is_y_odd
  <1>4. CASE ~o /\ ~x
    BY <1>4 DEF RecoveryId, FlipY, is_y_odd
  <1> QED  BY <1>1, <1>2, <1>3, <1>4

(* Verification looks for the nonce's point.                                *)
LEMMA VerifyMeans ==
    ASSUME NEW K, IsCurve(K), NEW g \in Sigs(K), NEW Q \in Nat, NEW zb, reduce(K, zb) \in Nat
    PROVE  verify_prehashed(K, Q, zb, g) <=> \E R : PointOf(K, g, reduce(K, zb), R, Q)
  <1> DEFINE z == reduce(K, zb)
             i == K.inv[g.s]
             R0 == lincomb(K, Mul(K, z, i), Mul(K, g.r, i), Q)
  <1>1. g.r \in Scalars(K) /\ g.s \in Scalars(K)
    BY DEF Sigs
  <1>2. K.n \in Nat /\ g.r \in Nat /\ g.r > 0 /\ K.n > 1
    BY <1>1, ScalarFacts
  <1>3. R0 \in 0 .. K.n - 1 /\ Fits(K, g.r, g.s, z, R0, Q)
    BY <1>1, <1>2, VerifyPoint
  <1>4. verify_prehashed(K, Q, zb, g) <=> g.r = XCoord(K, R0) % K.n
    BY DEF verify_prehashed
  <1> HIDE DEF z, i, R0
  <1>5. ASSUME g.r = XCoord(K, R0) % K.n
        PROVE  PointOf(K, g, z, R0, Q)
    <2>1. R0 # 0
      <3>1. R0 = 0 => XCoord(K, R0) % K.n = 0
        BY <1>2 DEF XCoord
      <3> QED  BY <3>1, <1>2, <1>5
    <2>2. R0 \in Scalars(K)
      BY <1>2, <1>3, <2>1 DEF Scalars
    <2> QED  BY <1>3, <1>5, <2>2, PointFacts DEF PointOf
  <1>6. ASSUME NEW R, PointOf(K, g, z, R, Q)
        PROVE  g.r = XCoord(K, R0) % K.n
    <2>1. R \in Scalars(K) /\ R \in 0 .. K.n - 1 /\ XCoord(K, R) = K.x[R]
      BY <1>6, PointFacts DEF PointOf
    <2>2. z \in Nat
      BY DEF z
    <2>3. R = R0
      BY <1>1, <1>2, <1>3, <1>6, <2>1, <2>2, OnePoint DEF PointOf
    <2> QED  BY <1>6, <2>1, <2>3 DEF PointOf
  <1> QED  BY <1>4, <1>5, <1>6 DEF z

(* Recovery with an id finds the keys of the points with that id.           *)
LEMMA RecoverMeans ==
    ASSUME NEW K, IsCurve(K), NEW g \in Sigs(K), NEW h, NEW zb, reduce(K, zb) \in Nat,
           bits2field(K, h) = {zb}, NEW b \in 0 .. 3, NEW Q
    PROVE  Q \in recover_from_prehash_noverify(K, h, g, b)
             <=> /\ Q \in Scalars(K)
                 /\ \E R : PointOf(K, g, reduce(K, zb), R, Q) /\ b = IdOf(K, g.r, R)
  <1> DEFINE z == reduce(K, zb)
             x == IF is_x_reduced(b) THEN g.r + K.n ELSE g.r
             Rs == IF x >= 2 ^ (8 * K.FB) THEN {} ELSE decompress(K, x, is_y_odd(b))
             pk(R) == lincomb(K, Neg(K, Mul(K, K.inv[g.r], z)), Mul(K, K.inv[g.r], g.s), R)
  <1>1. /\ g.r \in Scalars(K) /\ g.s \in Scalars(K)
        /\ K.n \in Nat /\ K.n > 1 /\ g.r \in Nat /\ g.r < K.n /\ g.s \in Nat
    BY ScalarFacts DEF Sigs
  <1>2. Q \in recover_from_prehash_noverify(K, h, g, b) <=> \E R \in Rs : Q = pk(R) /\ Q # 0
    <2>1. recover_from_prehash_noverify(K, h, g, b)
              = UNION {from_affine(K, pk(R)) : zz \in {zb}, R \in Rs}
      BY DEF recover_from_prehash_noverify
    <2> HIDE DEF Rs, pk
    <2>2. \A R : from_affine(K, pk(R)) = {pk(R)} \ {0}
      BY DEF from_affine
    <2>3. Q \in UNION {from_affine(K, pk(R)) : zz \in {zb}, R \in Rs}
            <=> \E R \in Rs : Q \in from_affine(K, pk(R))
      OBVIOUS
    <2> QED  BY <2>1, <2>2, <2>3
  <1>3. \A R \in Scalars(K) : pk(R) \in 0 .. K.n - 1 /\ Fits(K, g.r, g.s, z, R, pk(R))
    BY <1>1, RecoverKey, ScalarFacts
  <1>4. \A R : R \in Rs <=> R \in Scalars(K) /\ K.x[R] % K.n = g.r /\ b = IdOf(K, g.r, R)
    <2> SUFFICES ASSUME NEW R \in Scalars(K)
                 PROVE  R \in Rs <=> K.x[R] % K.n = g.r /\ b = IdOf(K, g.r, R)
      BY DEF decompress
    <2>1. /\ K.x[R] \in Nat /\ 2 ^ (8 * K.FB) \in Nat /\ K.x[R] < 2 ^ (8 * K.FB)
          /\ K.odd[R] \in BOOLEAN
      BY PointFacts
    <2>2. R \in Rs <=> K.x[R] = x /\ K.odd[R] = is_y_odd(b)
      BY <1>1, <2>1 DEF decompress
    <2>3. b = IdOf(K, g.r, R) <=> is_y_odd(b) = K.odd[R] /\ is_x_reduced(b) = (K.x[R] # g.r)
      BY <2>1, IdBits DEF IdOf
    <2>4. K.x[R] % K.n = g.r <=> K.x[R] = g.r \/ K.x[R] = g.r + K.n
      BY <1>1, TwoXs
    <2>5. g.r + K.n # g.r
      BY <1>1
    <2>6. is_x_reduced(b) \in BOOLEAN
      BY DEF is_x_reduced
    <2> HIDE DEF Rs
    <2> QED  BY <2>2, <2>3, <2>4, <2>5, <2>6
  <1> HIDE DEF Rs, pk, z
  <1>5. ASSUME NEW R \in Rs, Q = pk(R), Q # 0
        PROVE  Q \in Scalars(K) /\ PointOf(K, g, z, R, Q) /\ b = IdOf(K, g.r, R)
    BY <1>1, <1>3, <1>4, <1>5 DEF PointOf, Scalars
  <1>6. ASSUME Q \in Scalars(K), NEW R, PointOf(K, g, z, R, Q), b = IdOf(K, g.r, R)
        PROVE  R \in Rs /\ Q = pk(R) /\ Q # 0
    <2>1. R \in Scalars(K) /\ R \in Nat /\ Q \in 0 .. K.n - 1 /\ Q # 0
      BY <1>6, ScalarFacts DEF PointOf
    <2>2. R \in Rs
      BY <1>4, <1>6 DEF PointOf
    <2>3. z \in Nat
      BY DEF z
    <2>4. pk(R) = Q
      BY <1>1, <1>3, <1>6, <2>1, <2>3, OneKey DEF PointOf
    <2> QED  BY <2>1, <2>2, <2>4
  <1> QED  BY <1>2, <1>5, <1>6 DEF z

(* Verification and recovery agree; each id has one key and each key one id.*)
LEMMA VerifyRecover ==
    ASSUME NEW K, IsCurve(K), NEW g \in Sigs(K), NEW h, NEW zb, reduce(K, zb) \in Nat,
           bits2field(K, h) = {zb}, NEW Q \in Scalars(K)
    PROVE  verify_prehashed(K, Q, zb, g)
             <=> \E b \in 0 .. 3 : Q \in recover_from_prehash_noverify(K, h, g, b)
  <1>1. Q \in Nat
    BY ScalarFacts
  <1>2. verify_prehashed(K, Q, zb, g) <=> \E R : PointOf(K, g, reduce(K, zb), R, Q)
    BY <1>1, VerifyMeans
  <1>3. \A b \in 0 .. 3 : Q \in recover_from_prehash_noverify(K, h, g, b)
            <=> \E R : PointOf(K, g, reduce(K, zb), R, Q) /\ b = IdOf(K, g.r, R)
    BY RecoverMeans
  <1>4. \A R \in Scalars(K) : IdOf(K, g.r, R) \in 0 .. 3
    BY PointFacts, FlippedId DEF IdOf
  <1> QED  BY <1>2, <1>3, <1>4 DEF PointOf

(* Recovery with an id gives one key at most.                               *)
LEMMA OneRecovered ==
    ASSUME NEW K, IsCurve(K), NEW g \in Sigs(K), NEW h, NEW zb, reduce(K, zb) \in Nat,
           bits2field(K, h) = {zb}, NEW b \in 0 .. 3,
           NEW P \in recover_from_prehash_noverify(K, h, g, b),
           NEW Q \in recover_from_prehash_noverify(K, h, g, b)
    PROVE  P = Q
  <1> DEFINE z == reduce(K, zb)
  <1>1. P \in Scalars(K) /\ \E R : PointOf(K, g, z, R, P) /\ b = IdOf(K, g.r, R)
    BY RecoverMeans
  <1>2. Q \in Scalars(K) /\ \E R : PointOf(K, g, z, R, Q) /\ b = IdOf(K, g.r, R)
    BY RecoverMeans
  <1>3. PICK R : PointOf(K, g, z, R, P) /\ b = IdOf(K, g.r, R)
    BY <1>1
  <1>4. PICK T : PointOf(K, g, z, T, Q) /\ b = IdOf(K, g.r, T)
    BY <1>2
  <1>5. R \in Scalars(K) /\ T \in Scalars(K) /\ g.r \in Scalars(K)
    BY <1>3, <1>4 DEF PointOf, Sigs
  <1>6. K.odd[R] = K.odd[T] /\ (K.x[R] # g.r) = (K.x[T] # g.r)
    <2>1. K.odd[R] \in BOOLEAN /\ K.odd[T] \in BOOLEAN
      BY <1>5, PointFacts
    <2> QED  BY <1>3, <1>4, <2>1, IdBits DEF IdOf
  <1>7. K.x[R] = K.x[T]
    BY <1>3, <1>4, <1>5, <1>6, TwoXs DEF PointOf
  <1>8. R = T
    BY <1>5, <1>6, <1>7, SamePoint
  <1>9. z \in Nat
    OBVIOUS
  <1>10. g.s \in Nat /\ R \in Nat
    BY <1>5, ScalarFacts DEF Sigs
  <1>11. P \in 0 .. K.n - 1 /\ Q \in 0 .. K.n - 1
    BY <1>1, <1>2 DEF Scalars
  <1> HIDE DEF z
  <1> QED  BY <1>3, <1>4, <1>5, <1>8, <1>9, <1>10, <1>11, OneKey DEF PointOf

(* One id at most recovers a key.                                           *)
LEMMA OneId ==
    ASSUME NEW K, IsCurve(K), NEW g \in Sigs(K), NEW h, NEW zb, reduce(K, zb) \in Nat,
           bits2field(K, h) = {zb}, NEW a \in 0 .. 3, NEW b \in 0 .. 3, NEW Q,
           Q \in recover_from_prehash_noverify(K, h, g, a),
           Q \in recover_from_prehash_noverify(K, h, g, b)
    PROVE  a = b
  <1> DEFINE z == reduce(K, zb)
  <1>1. Q \in Scalars(K) /\ \E R : PointOf(K, g, z, R, Q) /\ a = IdOf(K, g.r, R)
    BY RecoverMeans
  <1>2. \E R : PointOf(K, g, z, R, Q) /\ b = IdOf(K, g.r, R)
    BY RecoverMeans
  <1>3. PICK R : PointOf(K, g, z, R, Q) /\ a = IdOf(K, g.r, R)
    BY <1>1
  <1>4. PICK T : PointOf(K, g, z, T, Q) /\ b = IdOf(K, g.r, T)
    BY <1>2
  <1>5. R \in Scalars(K) /\ T \in Scalars(K) /\ g.s \in Scalars(K) /\ g.r \in Scalars(K)
    BY <1>3, <1>4 DEF PointOf, Sigs
  <1>6. z \in Nat
    OBVIOUS
  <1>7. g.r \in Nat /\ Q \in Nat
    BY <1>1, <1>5, ScalarFacts
  <1>8. R \in 0 .. K.n - 1 /\ T \in 0 .. K.n - 1
    BY <1>5 DEF Scalars
  <1> HIDE DEF z
  <1>9. R = T
    BY <1>3, <1>4, <1>5, <1>6, <1>7, <1>8, OnePoint DEF PointOf
  <1> QED  BY <1>3, <1>4, <1>9

(* from_scalars lets what is in range through.                              *)
LEMMA FromScalars ==
    ASSUME NEW K, IsCurve(K), NEW r \in Nat, NEW s \in Nat
    PROVE  /\ from_scalars(K, r, s) \subseteq Sigs(K)
           /\ \A g \in from_scalars(K, r, s) : g = [r |-> r, s |-> s]
           /\ r \in Scalars(K) /\ s \in Scalars(K)
                => from_scalars(K, r, s) = {[r |-> r, s |-> s]}
  <1>1. K.n \in Nat
    BY DEF IsCurve
  <1> QED  BY <1>1 DEF from_scalars, Sigs, Scalars

(* A normalised signature: the same r, s or its negative, in the low half.  *)
LEMMA NormalizedFacts ==
    ASSUME NEW K, IsCurve(K), NEW g \in Sigs(K)
    PROVE  LET low == normalize_s(K, g)
           IN  /\ low \in Sigs(K) /\ low.r = g.r
               /\ low.s = IF is_high(K, g.s) THEN Neg(K, g.s) ELSE g.s
               /\ ~is_high(K, low.s)
               /\ is_high(K, g.s) <=> low # g
  <1>1. g.r \in Scalars(K) /\ g.s \in Scalars(K) /\ g = [r |-> g.r, s |-> g.s]
    BY DEF Sigs
  <1>2. /\ K.n \in Nat /\ K.n > 1 /\ g.s \in Nat /\ g.s > 0 /\ g.s < K.n
        /\ Neg(K, g.s) = K.n - g.s /\ Neg(K, g.s) \in Scalars(K)
    BY <1>1, ScalarFacts
  <1>3. g.s > K.n \div 2 => ~(K.n - g.s > K.n \div 2)
    <2>1. \A n, s \in Nat : s > n \div 2 => ~(n - s > n \div 2)
      OBVIOUS
    <2> QED  BY <1>2, <2>1
  <1> DEFINE low == normalize_s(K, g)
  <1>4. low = [r |-> g.r, s |-> IF is_high(K, g.s) THEN Neg(K, g.s) ELSE g.s]
    BY <1>1 DEF normalize_s
  <1> HIDE DEF low
  <1>5. low \in Sigs(K)
    BY <1>1, <1>2, <1>4 DEF Sigs
  <1>6. ~is_high(K, low.s)
    BY <1>2, <1>3, <1>4 DEF is_high
  <1>7. is_high(K, g.s) <=> low # g
    BY <1>1, <1>4, <1>6
  <1> QED  BY <1>4, <1>5, <1>6, <1>7 DEF low

(* Negating s and the point keeps a point for the signature one.            *)
LEMMA NegatedPoint ==
    ASSUME NEW K, IsCurve(K), NEW g \in Sigs(K), NEW z \in Nat, NEW Q \in Nat, NEW R,
           PointOf(K, g, z, R, Q), NEW f \in Sigs(K), f.r = g.r, f.s = Neg(K, g.s)
    PROVE  PointOf(K, f, z, Neg(K, R), Q)
  <1>1. R \in Scalars(K) /\ g.s \in Scalars(K) /\ g.r \in Scalars(K)
    BY DEF PointOf, Sigs
  <1>2. Neg(K, R) \in Scalars(K) /\ g.r \in Nat /\ K.x[Neg(K, R)] = K.x[R]
    BY <1>1, ScalarFacts, PointFacts
  <1> QED  BY <1>1, <1>2, NegatedFits DEF PointOf

(* Normalising changes no verdict.                                          *)
LEMMA NormalizedVerdict ==
    ASSUME NEW K, IsCurve(K), NEW g \in Sigs(K), NEW Q \in Nat, NEW zb, reduce(K, zb) \in Nat
    PROVE  verify_prehashed(K, Q, zb, normalize_s(K, g)) <=> verify_prehashed(K, Q, zb, g)
  <1> DEFINE low == normalize_s(K, g)
             z   == reduce(K, zb)
  <1>1. low \in Sigs(K) /\ low.r = g.r /\ low.s = IF is_high(K, g.s) THEN Neg(K, g.s) ELSE g.s
    BY NormalizedFacts
  <1>2. low # g => is_high(K, g.s)
    BY NormalizedFacts
  <1>3. g.s \in Scalars(K) /\ z \in Nat
    BY DEF Sigs
  <1>4. verify_prehashed(K, Q, zb, g) <=> \E R : PointOf(K, g, z, R, Q)
    BY VerifyMeans
  <1> HIDE DEF low
  <1>5. verify_prehashed(K, Q, zb, low) <=> \E R : PointOf(K, low, z, R, Q)
    BY <1>1, VerifyMeans
  <1>6. CASE low = g
    BY <1>6 DEF low
  <1>7. CASE low # g
    <2>1. low.s = Neg(K, g.s)
      BY <1>1, <1>2, <1>7
    <2>2. g.s = Neg(K, low.s)
      <3>1. /\ K.n - Neg(K, g.s) = g.s /\ low.s \in Scalars(K)
            /\ Neg(K, low.s) = K.n - low.s
        BY <1>1, <1>3, ScalarFacts DEF Sigs
      <3> QED  BY <2>1, <3>1
    <2> HIDE DEF z
    <2>3. ASSUME NEW R, PointOf(K, g, z, R, Q)  PROVE \E T : PointOf(K, low, z, T, Q)
      BY <1>1, <1>3, <2>1, <2>3, NegatedPoint
    <2>4. ASSUME NEW R, PointOf(K, low, z, R, Q)  PROVE \E T : PointOf(K, g, z, T, Q)
      BY <1>1, <1>3, <2>2, <2>4, NegatedPoint
    <2> QED  BY <1>4, <1>5, <2>3, <2>4 DEF low
  <1> QED  BY <1>6, <1>7

(* What a signer returns: a signature with its nonce's point and that       *)
(* point's id, low where the curve asks for it.                             *)
LEMMA SignedFacts ==
    ASSUME NEW K, IsCurve(K), NEW d \in Scalars(K), NEW k \in Scalars(K),
           NEW zb, reduce(K, zb) \in Nat, NEW ok \in sign_prehashed(K, d, k, zb)
    PROVE  /\ ok[1] \in Sigs(K) /\ ok[2] \in 0 .. 3
           /\ K.NORMALIZE_S => ~is_high(K, ok[1].s)
           /\ \E R : PointOf(K, ok[1], reduce(K, zb), R, d) /\ ok[2] = IdOf(K, ok[1].r, R)
  <1> DEFINE z  == reduce(K, zb)
             r  == XCoord(K, k) % K.n
             s  == Mul(K, K.inv[k], z + r * d)
             i0 == RecoveryId(K.odd[k], r # XCoord(K, k))
             g  == [r |-> r, s |-> s]
  <1>1. /\ K.n \in Nat /\ K.n > 1 /\ d \in Nat /\ K.odd[k] \in BOOLEAN
        /\ XCoord(K, k) = K.x[k] /\ K.x[k] \in Nat
    BY ScalarFacts, PointFacts
  <1>2. r \in Nat /\ r = K.x[k] % K.n
    BY <1>1
  <1>3. s \in 0 .. K.n - 1 /\ s \in Nat /\ Fits(K, r, s, z, k, d)
    <2>1. s \in 0 .. K.n - 1 /\ Fits(K, r, s, z, k, d)
      <3> HIDE DEF r
      <3> QED  BY <1>1, <1>2, SignerFits
    <2>2. \A t \in 0 .. K.n - 1 : t \in Nat
      BY <1>1
    <2> QED  BY <2>1, <2>2
  <1>4. \E g0 \in from_scalars(K, r, s) :
            ok = IF K.NORMALIZE_S
                 THEN <<normalize_s(K, g0), IF is_high(K, s) THEN FlipY(i0) ELSE i0>>
                 ELSE <<g0, i0>>
    BY DEF sign_prehashed
  <1> HIDE DEF r, s, i0, z
  <1>5. /\ g \in Sigs(K)
        /\ ok = IF K.NORMALIZE_S
                THEN <<normalize_s(K, g), IF is_high(K, s) THEN FlipY(i0) ELSE i0>>
                ELSE <<g, i0>>
    BY <1>2, <1>3, <1>4, FromScalars
  <1>6. PointOf(K, g, z, k, d)
    BY <1>1, <1>2, <1>3 DEF PointOf
  <1>7. i0 = IdOf(K, g.r, k) /\ i0 \in 0 .. 3
    BY <1>1, FlippedId DEF IdOf, i0
  <1>8. CASE ~K.NORMALIZE_S \/ ~is_high(K, s)
    <2>1. ok[1] = g /\ ok[2] = i0
      BY <1>5, <1>8, NormalizedFacts
    <2> QED  BY <1>5, <1>6, <1>7, <1>8, <2>1 DEF z
  <1>9. CASE K.NORMALIZE_S /\ is_high(K, s)
    <2> DEFINE low == normalize_s(K, g)
    <2>1. low \in Sigs(K) /\ low.r = g.r /\ low.s = Neg(K, g.s) /\ ~is_high(K, low.s)
      BY <1>5, <1>9, NormalizedFacts
    <2>2. ok[1] = low /\ ok[2] = FlipY(i0)
      BY <1>5, <1>9
    <2> HIDE DEF low
    <2>3. PointOf(K, low, z, Neg(K, k), d)
      <3>1. z \in Nat
        BY DEF z
      <3> QED  BY <1>1, <1>5, <1>6, <2>1, <3>1, NegatedPoint
    <2>4. FlipY(i0) = IdOf(K, low.r, Neg(K, k)) /\ FlipY(i0) \in 0 .. 3
      <3>1. K.x[Neg(K, k)] = K.x[k] /\ K.odd[Neg(K, k)] # K.odd[k] /\ Neg(K, k) \in Scalars(K)
        BY PointFacts, ScalarFacts
      <3>2. K.odd[Neg(K, k)] \in BOOLEAN
        BY <3>1, PointFacts
      <3>3. K.odd[Neg(K, k)] = ~K.odd[k]
        BY <1>1, <3>1, <3>2
      <3>4. FlipY(RecoveryId(K.odd[k], K.x[k] # g.r)) = RecoveryId(~K.odd[k], K.x[k] # g.r)
        BY <1>1, FlippedId
      <3>5. FlipY(i0) = IdOf(K, low.r, Neg(K, k))
        BY <1>7, <2>1, <3>1, <3>3, <3>4 DEF IdOf
      <3> QED  BY <1>7, <3>5, IdBits
    <2> QED  BY <2>1, <2>2, <2>3, <2>4 DEF z
  <1> QED  BY <1>8, <1>9

(* The signer's key verifies, is what the id recovers, and gives the id.    *)
LEMMA SignerFound ==
    ASSUME NEW K, IsCurve(K), NEW d \in Scalars(K), NEW k \in Scalars(K), NEW h,
           NEW zb, reduce(K, zb) \in Nat, bits2field(K, h) = {zb},
           NEW ok \in sign_prehashed(K, d, k, zb)
    PROVE  /\ verify_prehash(K, d, h, ok[1])
           /\ recover_from_prehash(K, h, ok[1], ok[2]) = {d}
           /\ trial_recovery_from_prehash(K, d, h, ok[1]) = {ok[2]}
  <1> DEFINE g == ok[1]
             b == ok[2]
  <1>1. /\ g \in Sigs(K) /\ b \in 0 .. 3 /\ (K.NORMALIZE_S => ~is_high(K, g.s))
        /\ \E R : PointOf(K, g, reduce(K, zb), R, d) /\ b = IdOf(K, g.r, R)
    BY SignedFacts
  <1>2. d \in Nat
    BY ScalarFacts
  <1> HIDE DEF g, b
  <1>3. verify_prehashed(K, d, zb, g)
    BY <1>1, <1>2, VerifyMeans
  <1>4. d \in recover_from_prehash_noverify(K, h, g, b)
    BY <1>1, RecoverMeans
  <1>5. verify_prehash(K, d, h, g)
    BY <1>1, <1>3 DEF verify_prehash
  <1>6. recover_from_prehash(K, h, g, b) = {d}
    <2>1. d \in recover_from_prehash(K, h, g, b)
      BY <1>3, <1>4 DEF recover_from_prehash
    <2>2. ASSUME NEW P \in recover_from_prehash(K, h, g, b)  PROVE P = d
      <3>1. P \in recover_from_prehash_noverify(K, h, g, b)
        BY DEF recover_from_prehash
      <3> QED  BY <1>1, <1>4, <3>1, OneRecovered
    <2> QED  BY <2>1, <2>2
  <1>7. trial_recovery_from_prehash(K, d, h, g) = {b}
    <2> DEFINE ids == {i \in 0 .. 3 : d \in recover_from_prehash_noverify(K, h, g, i)}
    <2>1. b \in ids
      BY <1>1, <1>4
    <2>2. \A i \in ids : i = b
      BY <1>1, <1>4, OneId
    <2>3. ids = {b}
      BY <2>1, <2>2
    <2> HIDE DEF ids
    <2>4. {i \in ids : \A other \in ids : i <= other} = {b}
      BY <1>1, <2>3
    <2>5. \E zz \in bits2field(K, h) : verify_prehashed(K, d, zz, g)
      BY <1>3
    <2> QED  BY <2>4, <2>5 DEF trial_recovery_from_prehash, ids
  <1> QED  BY <1>5, <1>6, <1>7 DEF g, b

(* The running values of a byte string.                                     *)
Steps(f, b) == f[0] = 0 /\ \A i \in 1 .. Len(b) : f[i] = 256 * f[i - 1] + b[i]

(* A byte string is a function from positions to bytes.                     *)
LEMMA OctetsShape ==
    ASSUME NEW b, IsOctets(b)
    PROVE  /\ Len(b) \in Nat /\ DOMAIN b = 1 .. Len(b)
           /\ \A i \in 1 .. Len(b) : b[i] \in 0 .. 255 /\ b[i] \in Nat
  <1>1. b \in Seq(0 .. 255)
    BY DEF IsOctets
  <1>2. Len(b) \in Nat /\ DOMAIN b = 1 .. Len(b)
    BY <1>1
  <1>3. ASSUME NEW i \in 1 .. Len(b)  PROVE b[i] \in 0 .. 255 /\ b[i] \in Nat
    <2>1. b[i] \in 0 .. 255
      BY <1>1, <1>3, ElementOfSeq
    <2>2. 0 .. 255 \subseteq Nat
      OBVIOUS
    <2> QED  BY <2>1, <2>2
  <1> QED  BY <1>2, <1>3

(* Value is the last of the running values of a byte string.                *)
LEMMA ValueHolds ==
    ASSUME NEW b, IsOctets(b)
    PROVE  \E f \in [0 .. Len(b) -> Nat] : Steps(f, b) /\ Value(b) = f[Len(b)]
  <1> DEFINE L == Len(b)
             c == CHOOSE g : IsHorner(g, b, L)
  <1>1. L \in Nat /\ \A i \in 1 .. L : b[i] \in Nat
    BY OctetsShape
  <1>2. Value(b) = c[L]
    BY DEF Value, IsHorner
  <1> HIDE DEF L
  <1>3. PICK f : Running(f, b, L)
    BY <1>1, Horner
  <1>4. IsHorner(c, b, L)
    BY <1>3 DEF Running
  <1> HIDE DEF c
  <1>5. Value(b) = f[L]
    BY <1>2, <1>3, <1>4 DEF Running
  <1> QED  BY <1>3, <1>5 DEF Running, Steps, L

(* Any function with these steps ends in the value.                         *)
LEMMA ValueIs ==
    ASSUME NEW b, IsOctets(b), NEW g, Steps(g, b)
    PROVE  Value(b) = g[Len(b)]
  <1> DEFINE L == Len(b)
             T == {i \in 0 .. L : g[i] = 0}
  <1>1. PICK f \in [0 .. L -> Nat] : Steps(f, b) /\ Value(b) = f[L]
    BY ValueHolds
  <1>2. L \in Nat
    BY OctetsShape
  <1> DEFINE S == {i \in 0 .. L : g[i] = f[i]}
  <1>3. 0 \in S
    BY <1>1, <1>2 DEF Steps
  <1>4. ASSUME NEW i \in 0 .. L - 1, i \in S  PROVE i + 1 \in S
    <2>1. i + 1 \in 0 .. L /\ i + 1 \in 1 .. L /\ (i + 1) - 1 = i
      BY <1>2
    <2>2. g[i + 1] = 256 * g[i] + b[i + 1] /\ f[i + 1] = 256 * f[i] + b[i + 1]
      BY <1>1, <2>1 DEF Steps
    <2> QED  BY <1>4, <2>1, <2>2
  <1> HIDE DEF S, L
  <1>5. 0 .. L \subseteq S
    <2>1. 0 \in Int /\ L \in Int /\ \A i \in 0 .. L - 1 : i \in S => i + 1 \in S
      BY <1>2, <1>4
    <2> QED  BY ONLY <1>3, <2>1, IntervalInduction
  <1>6. L \in S
    BY <1>2, <1>5
  <1> QED  BY <1>1, <1>6 DEF S, L

(* How many numbers k bytes have.                                           *)
Pow8(k) == 2 ^ (8 * k)

(* No byte has one value.                                                   *)
LEMMA NoBytes == Pow8(0) = 1
  <1>1. 8 * 0 = 0 /\ 2 ^ 0 = 1
    OBVIOUS
  <1> QED  BY <1>1 DEF Pow8

(* A byte less is a shift by eight.                                         *)
LEMMA ByteShift ==
    ASSUME NEW n \in Nat, NEW k \in Nat
    PROVE  /\ n \div Pow8(k) \in Nat
           /\ n \div Pow8(k + 1) = (n \div Pow8(k)) \div 256
           /\ Pow8(k + 1) = 256 * Pow8(k) /\ Pow8(k) \in Nat \ {0}
           /\ n \div Pow8(0) = n
  <1>1. 8 * k \in Nat /\ 8 \in Nat /\ 8 * (k + 1) = 8 * k + 8
    OBVIOUS
  <1>2. 2 ^ 8 = 256
    OBVIOUS
  <1> DEFINE a == 8 * k
             e == 8
  <1>3. a \in Nat /\ e \in Nat /\ 2 ^ e = 256 /\ 8 * (k + 1) = a + e
    BY <1>1, <1>2
  <1> HIDE DEF a, e
  <1>4. 2 ^ (a + e) = 2 ^ a * 2 ^ e
    BY <1>3, PowerAdd
  <1>5. n \div 2 ^ (a + e) = (n \div 2 ^ a) \div 2 ^ e
    BY <1>3, ShiftAdd
  <1>6. 2 ^ a \in Nat \ {0} /\ n \div 2 ^ a \in Nat
    BY <1>3, PowerIsNat, ShiftIsNat
  <1>7. 2 ^ a * 256 = 256 * 2 ^ a
    BY <1>6
  <1>8. Pow8(0) = 1
    BY NoBytes
  <1>10. n \div 1 = n
    OBVIOUS
  <1>9. Pow8(k) = 2 ^ a /\ Pow8(k + 1) = 2 ^ (a + e)
    BY <1>3 DEF Pow8, a
  <1> QED  BY <1>3, <1>4, <1>5, <1>6, <1>7, <1>8, <1>9, <1>10

(* What Octets writes: the base-256 digits of a number.                     *)
LEMMA OctetsFacts ==
    ASSUME NEW n \in Nat, NEW len \in Nat
    PROVE  /\ IsOctets(Octets(n, len)) /\ Len(Octets(n, len)) = len
           /\ \A i \in 1 .. len : /\ Octets(n, len)[i] = (n \div Pow8(len - i)) % 256
                                  /\ n \div Pow8(len - i) \in Nat
  <1>1. ASSUME NEW i \in 1 .. len
        PROVE  n \div Pow8(len - i) \in Nat /\ (n \div Pow8(len - i)) % 256 \in 0 .. 255
    <2>1. len - i \in Nat
      OBVIOUS
    <2>2. n \div Pow8(len - i) \in Nat
      BY <2>1, ByteShift
    <2>3. \A m \in Nat : m % 256 \in 0 .. 255
      OBVIOUS
    <2> QED  BY <2>2, <2>3
  <1>2. Octets(n, len) \in [1 .. len -> 0 .. 255]
    BY <1>1 DEF Octets, Pow8
  <1> QED  BY <1>1, <1>2 DEF Octets, IsOctets, Pow8

(* The bytes of a number that fits them have its value.                     *)
LEMMA ValueOfOctets ==
    ASSUME NEW len \in Nat, NEW n \in Nat, n < Pow8(len)
    PROVE  Value(Octets(n, len)) = n
  <1> DEFINE b == Octets(n, len)
             g == [i \in 0 .. len |-> n \div Pow8(len - i)]
  <1>1. IsOctets(b) /\ Len(b) = len /\ \A i \in 1 .. len : b[i] = (n \div Pow8(len - i)) % 256
    BY OctetsFacts
  <1> HIDE DEF b
  <1>2. g[0] = 0
    <2>1. Pow8(len) \in Nat \ {0} /\ len - 0 = len
      BY ByteShift
    <2>2. \A d \in Nat \ {0} : n < d => n \div d = 0
      OBVIOUS
    <2> QED  BY <2>1, <2>2
  <1>3. ASSUME NEW i \in 1 .. len  PROVE g[i] = 256 * g[i - 1] + b[i]
    <2>0. PICK k \in Nat : k = len - i
      OBVIOUS
    <2>1. len - (i - 1) = k + 1 /\ i \in 0 .. len /\ i - 1 \in 0 .. len
      BY <2>0
    <2>2. g[i] = n \div Pow8(k) /\ g[i - 1] = n \div Pow8(k + 1)
      BY <2>0, <2>1
    <2>3. b[i] = (n \div Pow8(k)) % 256
      BY <1>1, <2>0
    <2> HIDE DEF g
    <2>4. n \div Pow8(k) \in Nat /\ n \div Pow8(k + 1) = (n \div Pow8(k)) \div 256
      BY ONLY n \in Nat, k \in Nat, ByteShift
    <2>5. \A m \in Nat : m = 256 * (m \div 256) + (m % 256)
      OBVIOUS
    <2>6. PICK m \in Nat : m = n \div Pow8(k)
      BY <2>4
    <2>7. g[i] = m /\ g[i - 1] = m \div 256 /\ b[i] = m % 256
      BY <2>2, <2>3, <2>4, <2>6
    <2> QED  BY <2>5, <2>7
  <1>4. g[len] = n
    <2>1. len - len = 0 /\ n \div Pow8(0) = n
      BY ByteShift
    <2> QED  BY <2>1
  <1> HIDE DEF g
  <1>5. Steps(g, b)
    BY <1>1, <1>2, <1>3 DEF Steps
  <1>6. Value(b) = g[len]
    BY <1>1, <1>5, ValueIs
  <1> QED  BY <1>4, <1>6 DEF b

(* The value of bytes fits their number; written in it, it is the bytes.    *)
LEMMA OctetsOfValue ==
    ASSUME NEW b, IsOctets(b)
    PROVE  /\ Value(b) \in Nat /\ Value(b) < Pow8(Len(b))
           /\ Octets(Value(b), Len(b)) = b
           /\ Len(b) > 0 => Value(b) >= b[1] * Pow8(Len(b) - 1)
  <1> DEFINE L == Len(b)
  <1>0. PICK v : v = Value(b)
    OBVIOUS
  <1>1. L \in Nat /\ DOMAIN b = 1 .. L /\ \A i \in 1 .. L : b[i] \in 0 .. 255
    BY OctetsShape
  <1>2. PICK f \in [0 .. L -> Nat] : Steps(f, b) /\ v = f[L]
    BY <1>0, ValueHolds
  <1>3. v \in Nat
    BY <1>1, <1>2
  <1> HIDE DEF L
  <1>4. \A i \in 0 .. L : f[i] < Pow8(i)
    <2> DEFINE S == {i \in 0 .. L : f[i] < Pow8(i)}
    <2>1. 0 \in S
      <3>1. f[0] = 0 /\ Pow8(0) = 1 /\ 0 \in 0 .. L
        BY <1>1, <1>2, NoBytes DEF Steps
      <3> QED  BY <3>1
    <2>2. ASSUME NEW i \in 0 .. L - 1, i \in S  PROVE i + 1 \in S
      <3>1. i \in Nat /\ i + 1 \in 1 .. L /\ (i + 1) - 1 = i /\ i + 1 \in 0 .. L
        BY <1>1
      <3>2. f[i + 1] = 256 * f[i] + b[i + 1] /\ b[i + 1] \in 0 .. 255
        BY <1>1, <1>2, <3>1 DEF Steps, L
      <3>3. Pow8(i + 1) = 256 * Pow8(i) /\ Pow8(i) \in Nat
        BY <3>1, ByteShift
      <3>4. f[i] \in Nat /\ f[i] < Pow8(i)
        BY <2>2, <1>2
      <3>5. \A p, q, x \in Nat : p < q /\ x \in 0 .. 255 => 256 * p + x < 256 * q
        OBVIOUS
      <3>6. 256 * f[i] + b[i + 1] < 256 * Pow8(i)
        <4>1. PICK p \in Nat, q \in Nat, x \in 0 .. 255 : p = f[i] /\ q = Pow8(i) /\ x = b[i + 1]
          BY <3>2, <3>3, <3>4
        <4>2. p < q
          BY <3>4, <4>1
        <4>3. 256 * p + x < 256 * q
          BY <4>2
        <4> QED  BY <4>1, <4>3
      <3>7. f[i + 1] < Pow8(i + 1)
        BY <3>2, <3>3, <3>6
      <3> QED  BY <3>1, <3>7
    <2> HIDE DEF S
    <2>3. 0 \in Int /\ L \in Int
      BY <1>1
    <2>4. \A i \in 0 .. L - 1 : i \in S => i + 1 \in S
      BY <2>2
    <2>5. 0 .. L \subseteq S
      BY ONLY <2>1, <2>3, <2>4, IntervalInduction
    <2> QED  BY <2>5 DEF S
  <1>5. \A i \in 0 .. L : v \div Pow8(L - i) = f[i]
    <2> DEFINE S == {i \in 0 .. L : v \div Pow8(L - i) = f[i]}
    <2>1. L \in S
      <3>1. L - L = 0 /\ v \div Pow8(0) = v
        BY <1>1, <1>3, ByteShift
      <3> QED  BY <1>1, <1>2, <3>1
    <2>2. ASSUME NEW i \in 0 + 1 .. L, i \in S  PROVE i - 1 \in S
      <3>a. PICK k \in Nat : k = L - i
        BY <1>1
      <3>1. L - (i - 1) = k + 1 /\ i \in 1 .. L /\ i - 1 \in 0 .. L
        BY <1>1, <3>a
      <3>0. v \div Pow8(k) = f[i]
        BY <2>2, <3>a
      <3>2. v \div Pow8(k + 1) = (v \div Pow8(k)) \div 256
        BY <1>3, ByteShift
      <3>3. f[i] = 256 * f[i - 1] + b[i] /\ b[i] \in 0 .. 255 /\ f[i - 1] \in Nat
        BY <1>1, <1>2, <3>1 DEF Steps, L
      <3>4. f[i] \div 256 = f[i - 1]
        <4>1. PICK p \in Nat, x \in 0 .. 255 : p = f[i - 1] /\ x = b[i]
          BY <3>3
        <4>2. (256 * p + x) \div 256 = p
          OBVIOUS
        <4> QED  BY <3>3, <4>1, <4>2
      <3> QED  BY <3>0, <3>1, <3>2, <3>4
    <2> HIDE DEF S
    <2>3. 0 \in Int /\ L \in Int
      BY <1>1
    <2>4. \A i \in 0 + 1 .. L : i \in S => i - 1 \in S
      BY <2>2
    <2>5. 0 .. L \subseteq S
      BY ONLY <2>1, <2>3, <2>4, DownwardInduction
    <2> QED  BY <2>5 DEF S
  <1>6. ASSUME NEW i \in 1 .. L  PROVE Octets(v, L)[i] = b[i]
    <2>1. Octets(v, L)[i] = (v \div Pow8(L - i)) % 256
      BY <1>1, <1>3, OctetsFacts
    <2>2. v \div Pow8(L - i) = f[i] /\ i - 1 \in 0 .. L /\ i \in 0 .. L
      BY <1>1, <1>5
    <2>3. f[i] = 256 * f[i - 1] + b[i] /\ b[i] \in 0 .. 255 /\ f[i - 1] \in Nat
      BY <1>1, <1>2, <2>2, SMTT(40) DEF Steps, L
    <2>4. f[i] % 256 = b[i]
      <3>1. PICK p \in Nat, x \in 0 .. 255 : p = f[i - 1] /\ x = b[i]
        BY <2>3
      <3>2. (256 * p + x) % 256 = x
        OBVIOUS
      <3> QED  BY <2>3, <3>1, <3>2
    <2> QED  BY <2>1, <2>2, <2>4
  <1>7. Octets(v, L) = b
    <2>1. Octets(v, L) \in Seq(0 .. 255) /\ Len(Octets(v, L)) = L /\ b \in Seq(0 .. 255)
      BY <1>1, <1>3, OctetsFacts DEF IsOctets
    <2> QED  BY <1>6, <2>1 DEF L
  <1>8. L > 0 => v >= b[1] * Pow8(L - 1)
    <2> HAVE L > 0
    <2>1. 1 \in 0 .. L /\ 1 \in 1 .. L /\ 0 \in 0 .. L /\ L - 1 \in Nat
      BY <1>1
    <2>2. f[1] = b[1] /\ f[1] \in Nat
      <3>1. f[1] = 256 * f[1 - 1] + b[1] /\ f[0] = 0
        BY <1>2, <2>1 DEF Steps, L
      <3>2. b[1] \in Nat
        BY <2>1, OctetsShape DEF L
      <3> QED  BY <3>1, <3>2
    <2>3. v \div Pow8(L - 1) = f[1]
      BY <1>5, <2>1
    <2>4. \A d \in Nat \ {0}, q \in Nat : v \div d = q => v >= q * d
      BY <1>3
    <2>5. Pow8(L - 1) \in Nat \ {0}
      BY <2>1, ByteShift
    <2> QED  BY <2>2, <2>3, <2>4, <2>5
  <1>9. v < Pow8(L)
    BY <1>1, <1>2, <1>4
  <1> QED  BY <1>0, <1>3, <1>7, <1>8, <1>9 DEF L

(* Bytes put together, and a part of some.                                  *)
LEMMA OctetsConcat ==
    ASSUME NEW a, IsOctets(a), NEW b, IsOctets(b)
    PROVE  /\ IsOctets(a \o b) /\ Len(a \o b) = Len(a) + Len(b)
           /\ \A i \in 1 .. Len(a) : (a \o b)[i] = a[i]
           /\ \A i \in 1 .. Len(b) : (a \o b)[Len(a) + i] = b[i]
           /\ SubSeq(a \o b, 1, Len(a)) = a
           /\ SubSeq(a \o b, Len(a) + 1, Len(a) + Len(b)) = b
  <1> DEFINE S == 0 .. 255
  <1>1. a \in Seq(S) /\ b \in Seq(S)
    BY DEF IsOctets
  <1> HIDE DEF S
  <1>2. PICK u : u = a \o b
    OBVIOUS
  <1>3. /\ u \in Seq(S) /\ Len(u) = Len(a) + Len(b) /\ Len(a) \in Nat /\ Len(b) \in Nat
        /\ \A i \in 1 .. Len(a) + Len(b) : u[i] = IF i <= Len(a) THEN a[i] ELSE b[i - Len(a)]
    BY <1>1, <1>2, ConcatProperties
  <1>4. \A i \in 1 .. Len(a) : u[i] = a[i]
    BY <1>3
  <1>5. \A i \in 1 .. Len(b) : u[Len(a) + i] = b[i]
    <2>1. \A i \in 1 .. Len(b) : /\ Len(a) + i \in 1 .. Len(a) + Len(b)
                                 /\ ~(Len(a) + i <= Len(a)) /\ (Len(a) + i) - Len(a) = i
      BY <1>3
    <2> QED  BY <1>3, <2>1
  <1>6. SubSeq(u, 1, Len(a)) = a
    <2>1. PICK v : v = SubSeq(u, 1, Len(a))
      OBVIOUS
    <2>2. v \in Seq(S) /\ Len(v) = Len(a) /\ \A i \in 1 .. Len(a) : v[i] = a[i]
      BY <1>3, <1>4, <2>1
    <2>3. v = a
      BY <1>1, <2>2, SeqEqual
    <2> QED  BY <2>1, <2>3
  <1>7. SubSeq(u, Len(a) + 1, Len(a) + Len(b)) = b
    <2>1. PICK v : v = SubSeq(u, Len(a) + 1, Len(a) + Len(b))
      OBVIOUS
    <2>2. v \in Seq(S) /\ Len(v) = Len(b) /\ \A i \in 1 .. Len(b) : v[i] = u[Len(a) + i]
      BY <1>3, <2>1
    <2>3. v = b
      BY <1>1, <1>5, <2>2, SeqEqual
    <2> QED  BY <2>1, <2>3
  <1> QED  BY <1>2, <1>3, <1>4, <1>5, <1>6, <1>7 DEF IsOctets, S

(* A part of a byte string.                                                 *)
LEMMA OctetsPart ==
    ASSUME NEW b, IsOctets(b), NEW i \in Nat, NEW j \in Nat, i >= 1, j <= Len(b), i <= j + 1
    PROVE  /\ IsOctets(SubSeq(b, i, j)) /\ Len(SubSeq(b, i, j)) = j - i + 1
           /\ \A m \in 1 .. j - i + 1 : SubSeq(b, i, j)[m] = b[i + m - 1]
  <1> DEFINE S == 0 .. 255
  <1>1. b \in Seq(S) /\ Len(b) \in Nat
    BY OctetsShape DEF IsOctets
  <1> HIDE DEF S
  <1>2. \A m \in i .. j : b[m] \in S
    BY <1>1, ElementOfSeq
  <1>3. PICK v : v = SubSeq(b, i, j)
    OBVIOUS
  <1>4. /\ v \in Seq(S) /\ Len(v) = IF i <= j THEN j - i + 1 ELSE 0
        /\ \A m \in 1 .. j - i + 1 : v[m] = b[i + m - 1]
    BY <1>2, <1>3, SubSeqProperties
  <1>5. Len(v) = j - i + 1
    BY <1>4
  <1> QED  BY <1>3, <1>4, <1>5 DEF IsOctets, S

(* A string of zeros.                                                       *)
LEMMA ZerosFacts ==
    ASSUME NEW m \in Nat
    PROVE  IsOctets(Zeros(m)) /\ Len(Zeros(m)) = m /\ \A i \in 1 .. m : Zeros(m)[i] = 0
  BY DEF Zeros, IsOctets

(* Zeros in front do not count.                                             *)
LEMMA PowIsNat ==
    ASSUME NEW k \in Nat
    PROVE  Pow8(k) \in Nat /\ Pow8(k) > 0
  <1>1. 0 \in Nat /\ Pow8(k) \in Nat \ {0}
    BY ByteShift
  <1> QED  BY <1>1

(* Zeros in front do not change the value.                                  *)
LEMMA ValuePadded ==
    ASSUME NEW m \in Nat, NEW b, IsOctets(b)
    PROVE  Value(Zeros(m) \o b) = Value(b)
  <1> DEFINE L == Len(b)
  <1>1. PICK u : u = Zeros(m) \o b
    OBVIOUS
  <1>2. /\ IsOctets(u) /\ Len(u) = m + L /\ L \in Nat
        /\ \A i \in 1 .. m : u[i] = 0
        /\ \A i \in 1 .. L : u[m + i] = b[i]
    <2>1. PICK w : w = Zeros(m)
      OBVIOUS
    <2>2. IsOctets(w) /\ Len(w) = m /\ \A i \in 1 .. m : w[i] = 0
      BY <2>1, ZerosFacts
    <2>3. u = w \o b
      BY <1>1, <2>1
    <2>4. /\ IsOctets(w \o b) /\ Len(w \o b) = Len(w) + Len(b)
          /\ \A i \in 1 .. Len(w) : (w \o b)[i] = w[i]
          /\ \A i \in 1 .. Len(b) : (w \o b)[Len(w) + i] = b[i]
      BY <2>2, OctetsConcat
    <2>5. L \in Nat
      BY OctetsShape
    <2> QED  BY ONLY <2>2, <2>3, <2>4, <2>5
  <1>3. PICK f \in [0 .. L -> Nat] : Steps(f, b) /\ Value(b) = f[L]
    BY ValueHolds
  <1> DEFINE g == [i \in 0 .. m + L |-> IF i <= m THEN 0 ELSE f[i - m]]
  <1>4. ASSUME NEW i \in 1 .. m + L  PROVE g[i] = 256 * g[i - 1] + u[i]
    <2>1. CASE i <= m
      BY <1>2, <2>1
    <2>2. CASE i > m
      <3>1. PICK j \in 1 .. L : i = m + j
        <4>1. i - m \in 1 .. L /\ i = m + (i - m)
          BY <1>2, <2>2
        <4> QED  BY <4>1
      <3>2. u[i] = b[j] /\ f[j] = 256 * f[j - 1] + b[j] /\ f[0] = 0
        BY <1>2, <1>3, <3>1 DEF Steps
      <3>3. g[i] = f[j]
        BY <1>2, <3>1
      <3>4. g[i - 1] = f[j - 1]
        BY <1>2, <3>1, <3>2
      <3> QED  BY <3>2, <3>3, <3>4
    <2> QED  BY <2>1, <2>2, <1>2
  <1>5. g[0] = 0
    BY <1>2
  <1>6. g[m + L] = f[L]
    <2>1. f[0] = 0
      BY <1>3 DEF Steps
    <2> QED  BY <1>2, <2>1
  <1> HIDE DEF g, L
  <1>7. Steps(g, u)
    BY <1>2, <1>4, <1>5 DEF Steps
  <1> QED  BY <1>1, <1>2, <1>3, <1>6, <1>7, ValueIs

(* Longer powers are larger.                                                *)
LEMMA Pow8Monotone ==
    ASSUME NEW a \in Nat, NEW b \in Nat, a <= b
    PROVE  Pow8(a) <= Pow8(b)
  <1>1. 8 * a \in Nat /\ 8 * b \in Nat /\ 8 * a <= 8 * b
    OBVIOUS
  <1> QED  BY <1>1, PowerMonotone DEF Pow8

(* BitLength is the number of bits a number has without leading zeros.      *)
LEMMA BitLengthIs ==
    ASSUME NEW n \in Nat
    PROVE  /\ BitLength(n) \in Nat /\ n < 2 ^ BitLength(n)
           /\ BitLength(n) = 0 \/ 2 ^ (BitLength(n) - 1) <= n
  <1> DEFINE S == 0 .. 16 + n \div 2 ^ 16
             Is(b) == n < 2 ^ b /\ (b = 0 \/ 2 ^ (b - 1) <= n)
             c == CHOOSE b \in S : Is(b)
  <1>1. BitLength(n) = c
    BY DEF BitLength
  <1>2. \E b \in S : Is(b)
    BY SomeBits
  <1>3. c \in S /\ Is(c)
    <2> HIDE DEF S, Is
    <2> QED  BY <1>2
  <1>4. c \in Nat
    <2>1. \A b \in S : b \in Nat
      OBVIOUS
    <2> HIDE DEF S, c
    <2> QED  BY <1>3, <2>1
  <1> HIDE DEF c
  <1> QED  BY <1>1, <1>3, <1>4

(* A number above zero needs as many bits as BitLength says, and as many    *)
(* bytes as these fill.                                                     *)
LEMMA UintLength ==
    ASSUME NEW n \in Nat, n > 0
    PROVE  \E len \in Nat : /\ len > 0 /\ (BitLength(n) + 7) \div 8 = len
                            /\ Pow8(len - 1) <= n /\ n < Pow8(len)
  <1>4. PICK b \in Nat : BitLength(n) = b /\ n < 2 ^ b /\ (b = 0 \/ 2 ^ (b - 1) <= n)
    BY BitLengthIs
  <1>5. b > 0
    <2>1. 2 ^ 0 = 1
      OBVIOUS
    <2>2. b # 0
      <3>1. n < 2 ^ b
        BY <1>4
      <3>2. SUFFICES ASSUME b = 0  PROVE FALSE
        OBVIOUS
      <3>3. n < 2 ^ 0
        BY <3>1, <3>2
      <3> QED  BY ONLY <2>1, <3>3, n \in Nat, n > 0
    <2> QED  BY <2>2
  <1>6. PICK len \in Nat : len = (b + 7) \div 8
    OBVIOUS
  <1>7. len > 0 /\ b <= 8 * len /\ 8 * (len - 1) <= b - 1 /\ 8 * (len - 1) \in Nat
    BY <1>5, <1>6
  <1>8. 2 ^ b <= Pow8(len)
    <2>1. 8 * len \in Nat /\ b \in Nat
      OBVIOUS
    <2> QED  BY <1>7, <2>1, PowerMonotone DEF Pow8
  <1>9. Pow8(len - 1) <= 2 ^ (b - 1)
    <2>1. b - 1 \in Nat
      BY <1>5
    <2> QED  BY <1>7, <2>1, PowerMonotone DEF Pow8
  <1>10. n < Pow8(len)
    <2>1. 2 ^ b \in Nat /\ Pow8(len) \in Nat
      BY PowerIsNat, ByteShift
    <2> QED  BY <1>4, <1>8, <2>1
  <1>11. Pow8(len - 1) <= n
    <2>0. b - 1 \in Nat /\ len - 1 \in Nat /\ b # 0
      BY <1>5, <1>7
    <2>1. 2 ^ (b - 1) \in Nat /\ Pow8(len - 1) \in Nat /\ 2 ^ (b - 1) <= n
      BY <1>4, <2>0, PowerIsNat, PowIsNat
    <2> QED  BY <1>9, <2>1
  <1> QED  BY <1>4, <1>6, <1>7, <1>10, <1>11

(* A number has one length in bytes without leading zeros.                  *)
LEMMA OneLength ==
    ASSUME NEW n \in Nat, NEW a \in Nat, NEW b \in Nat, a > 0, b > 0,
           Pow8(a - 1) <= n, n < Pow8(a), Pow8(b - 1) <= n, n < Pow8(b)
    PROVE  a = b
  <1>1. /\ Pow8(a - 1) \in Nat /\ Pow8(a) \in Nat /\ Pow8(b - 1) \in Nat /\ Pow8(b) \in Nat
        /\ a - 1 \in Nat /\ b - 1 \in Nat
    BY ByteShift
  <1>2. a < b => Pow8(a) <= Pow8(b - 1)
    BY <1>1, Pow8Monotone
  <1>3. b < a => Pow8(b) <= Pow8(a - 1)
    BY <1>1, Pow8Monotone
  <1> QED  BY <1>1, <1>2, <1>3

(* bits2field: nothing, or one field element, which is a number modulo n.   *)
LEMMA FieldBits ==
    ASSUME NEW K, IsCurve(K), NEW h, IsOctets(h), NEW zb \in bits2field(K, h)
    PROVE  bits2field(K, h) = {zb} /\ IsOctets(zb) /\ Len(zb) = K.FB /\ reduce(K, zb) \in Nat
  <1>1. K.FB \in Nat /\ K.FB >= 1 /\ K.n \in Nat /\ K.n > 0 /\ Len(h) \in Nat
    <2>1. Len(h) \in Nat
      BY OctetsShape
    <2>2. K.FB \in Nat /\ K.FB >= 1 /\ K.n \in Nat /\ K.n > 0
      BY DEF IsCurve
    <2> QED  BY <2>1, <2>2
  <1>2. /\ bits2field(K, h) = {zb}
        /\ IF Len(h) < K.FB THEN zb = pad(K, h) ELSE zb = SubSeq(h, 1, K.FB)
    BY DEF bits2field
  <1>3. IsOctets(zb) /\ Len(zb) = K.FB
    <2>1. CASE Len(h) < K.FB
      <3>1. PICK m \in Nat : m = K.FB - Len(h)
        BY <1>1, <2>1
      <3>2. zb = Zeros(m) \o h
        BY <1>2, <2>1, <3>1 DEF pad
      <3>3. IsOctets(Zeros(m)) /\ Len(Zeros(m)) = m
        BY ZerosFacts
      <3>4. IsOctets(Zeros(m) \o h) /\ Len(Zeros(m) \o h) = m + Len(h)
        <4>1. PICK w : w = Zeros(m)
          OBVIOUS
        <4>2. IsOctets(w) /\ Len(w) = m
          BY <3>3, <4>1
        <4>3. IsOctets(w \o h) /\ Len(w \o h) = Len(w) + Len(h)
          BY <4>2, OctetsConcat
        <4> QED  BY <4>1, <4>2, <4>3
      <3> QED  BY <1>1, <3>1, <3>2, <3>4
    <2>2. CASE ~(Len(h) < K.FB)
      <3>1. K.FB <= Len(h) /\ 1 <= K.FB + 1 /\ K.FB - 1 + 1 = K.FB
        BY <1>1, <2>2
      <3>2. PICK l \in Nat : l = K.FB
        BY <1>1
      <3>3. 1 \in Nat /\ 1 >= 1 /\ l <= Len(h) /\ 1 <= l + 1
        BY <3>1, <3>2
      <3>4. IsOctets(SubSeq(h, 1, l)) /\ Len(SubSeq(h, 1, l)) = l - 1 + 1
        BY <3>3, OctetsPart
      <3>5. zb = SubSeq(h, 1, l)
        BY <1>2, <2>2, <3>2
      <3> QED  BY <3>1, <3>2, <3>4, <3>5
    <2> QED  BY <2>1, <2>2
  <1>4. reduce(K, zb) \in Nat
    <2>1. PICK v \in Nat : v = Value(zb)
      BY <1>3, OctetsOfValue
    <2>2. v % K.n \in Nat
      BY <1>1
    <2> QED  BY <2>1, <2>2 DEF reduce
  <1> QED  BY <1>2, <1>3, <1>4

(* The verifying key of a signing key is its scalar, the point's logarithm. *)
LEMMA KeyFacts ==
    ASSUME NEW K, IsCurve(K), NEW d \in Scalars(K)
    PROVE  SigningKey(K, d).verifying_key = d /\ SigningKey(K, d).secret_scalar = d
  <1>1. K.n \in Nat /\ d \in Nat /\ d < K.n
    BY ScalarFacts
  <1>2. \A n, e \in Nat : e < n => (e + 0 * 1) % n = e
    OBVIOUS
  <1>3. (d + 0 * 1) % K.n = d
    BY <1>1, <1>2
  <1> QED  BY <1>3 DEF SigningKey, lincomb

(* A loaded key comes from a scalar in range.                               *)
LEMMA LoadedKey ==
    ASSUME NEW K, NEW x, NEW g \in SigningKey_from_slice(K, x) \cup from_pkcs8_der(K, x)
    PROVE  \E d \in Scalars(K) : g = SigningKey(K, d)
  <1>1. \A y : SecretKey(K, y) \subseteq Scalars(K)
    BY DEF SecretKey
  <1> QED  BY <1>1 DEF SigningKey_from_slice, from_pkcs8_der

(* A byte before a string.                                                  *)
Led(x, b) == <<x>> \o b

(* Bytes that put a first one in front of others.                           *)
LEMMA OctetsCons ==
    ASSUME NEW x \in 0 .. 255, NEW b, IsOctets(b)
    PROVE  /\ IsOctets(Led(x, b)) /\ Len(Led(x, b)) = 1 + Len(b)
           /\ SubSeq(Led(x, b), 2, 1 + Len(b)) = b
           /\ \A i \in 1 .. Len(b) : Led(x, b)[1 + i] = b[i]
  <1>1. PICK a : a = <<x>>
    OBVIOUS
  <1>2. IsOctets(a) /\ Len(a) = 1 /\ a[1] = x
    BY <1>1 DEF IsOctets
  <1>3. /\ IsOctets(a \o b) /\ Len(a \o b) = Len(a) + Len(b)
        /\ \A i \in 1 .. Len(a) : (a \o b)[i] = a[i]
        /\ \A i \in 1 .. Len(b) : (a \o b)[Len(a) + i] = b[i]
        /\ SubSeq(a \o b, Len(a) + 1, Len(a) + Len(b)) = b
    BY <1>2, OctetsConcat, ZenonT(40)
  <1>4. 1 \in 1 .. Len(a) /\ Len(a) + 1 = 2
    BY <1>2
  <1> QED  BY <1>1, <1>2, <1>3, <1>4 DEF Led

(* The byte in front.                                                       *)
LEMMA OctetsFirst ==
    ASSUME NEW x \in 0 .. 255, NEW b, IsOctets(b)
    PROVE  Led(x, b)[1] = x
  <1>1. PICK a : a = <<x>>
    OBVIOUS
  <1>2. IsOctets(a) /\ Len(a) = 1 /\ a[1] = x
    BY <1>1 DEF IsOctets
  <1>3. \A i \in 1 .. Len(a) : (a \o b)[i] = a[i]
    BY <1>2, OctetsConcat
  <1>4. 1 \in 1 .. Len(a)
    BY <1>2
  <1> QED  BY <1>1, <1>2, <1>3, <1>4 DEF Led

(* Two points with the same SEC1 bytes are the same.                        *)
LEMMA PointRead ==
    ASSUME NEW K, IsCurve(K), NEW P \in Scalars(K), NEW c \in BOOLEAN,
           NEW Q \in from_sec1_bytes(K, to_encoded_point(K, P, c))
    PROVE  Q = P
  <1> DEFINE X(T) == Octets(K.x[T], K.FB)
             Y(T) == Octets(K.y[T], K.FB)
             Tag(T) == IF K.odd[T] THEN 3 ELSE 2
  <1>1. PICK e \in BOOLEAN : /\ Q \in Scalars(K)
                             /\ to_encoded_point(K, Q, e) = to_encoded_point(K, P, c)
    BY DEF from_sec1_bytes, from_affine, from_encoded_point
  <1>2. ASSUME NEW T \in Scalars(K)
        PROVE  /\ IsOctets(X(T)) /\ Len(X(T)) = K.FB /\ Value(X(T)) = K.x[T]
               /\ IsOctets(Y(T)) /\ Len(Y(T)) = K.FB /\ Value(Y(T)) = K.y[T]
               /\ to_encoded_point(K, T, TRUE) = Led(Tag(T), X(T))
               /\ to_encoded_point(K, T, FALSE) = Led(4, X(T) \o Y(T))
               /\ IsOctets(X(T) \o Y(T))
               /\ SubSeq(X(T) \o Y(T), 1, K.FB) = X(T)
               /\ SubSeq(X(T) \o Y(T), K.FB + 1, K.FB + K.FB) = Y(T)
    <2>1. /\ K.FB \in Nat /\ K.x[T] \in Nat /\ K.x[T] < Pow8(K.FB)
          /\ K.y[T] \in Nat /\ K.y[T] < Pow8(K.FB)
      BY PointFacts DEF Pow8
    <2>2. PICK x \in Nat, y \in Nat, f \in Nat : x = K.x[T] /\ y = K.y[T] /\ f = K.FB
      BY <2>1
    <2>3. /\ IsOctets(Octets(x, f)) /\ Len(Octets(x, f)) = f /\ Value(Octets(x, f)) = x
          /\ IsOctets(Octets(y, f)) /\ Len(Octets(y, f)) = f /\ Value(Octets(y, f)) = y
      <3>1. x < Pow8(f) /\ y < Pow8(f)
        BY <2>1, <2>2
      <3>2. Value(Octets(x, f)) = x /\ Value(Octets(y, f)) = y
        BY <3>1, ValueOfOctets
      <3>3. /\ IsOctets(Octets(x, f)) /\ Len(Octets(x, f)) = f
            /\ IsOctets(Octets(y, f)) /\ Len(Octets(y, f)) = f
        BY OctetsFacts
      <3> QED  BY <3>2, <3>3
    <2>4. PICK a, b : a = X(T) /\ b = Y(T)
      OBVIOUS
    <2>5. IsOctets(a) /\ Len(a) = K.FB /\ IsOctets(b) /\ Len(b) = K.FB
      BY <2>2, <2>3, <2>4
    <2>6. IsOctets(a \o b) /\ SubSeq(a \o b, 1, Len(a)) = a
          /\ SubSeq(a \o b, Len(a) + 1, Len(a) + Len(b)) = b
      BY <2>5, OctetsConcat
    <2>7. to_encoded_point(K, T, TRUE) = Led(Tag(T), X(T))
      BY DEF to_encoded_point, Led
    <2>8. to_encoded_point(K, T, FALSE) = Led(4, X(T) \o Y(T))
      <3>1. to_encoded_point(K, T, FALSE) = <<4>> \o a \o b
        BY <2>4 DEF to_encoded_point
      <3>2. <<4>> \in Seq(0 .. 255) /\ a \in Seq(0 .. 255) /\ b \in Seq(0 .. 255)
        BY <2>5 DEF IsOctets
      <3>3. (<<4>> \o a) \o b = <<4>> \o (a \o b)
        BY <3>2, ConcatAssociative
      <3> QED  BY <2>4, <3>1, <3>3 DEF Led
    <2> QED  BY <2>2, <2>3, <2>4, <2>5, <2>6, <2>7, <2>8
  <1> HIDE DEF X, Y
  <1>3. ASSUME NEW S \in Scalars(K), NEW T \in Scalars(K),
               to_encoded_point(K, S, TRUE) = to_encoded_point(K, T, FALSE)
        PROVE  FALSE
    <2>1. PICK a, b, t : a = X(S) /\ b = X(T) \o Y(T) /\ t = Tag(S) /\ t \in {2, 3}
      OBVIOUS
    <2>2. IsOctets(a) /\ IsOctets(b) /\ t \in 0 .. 255 /\ 4 \in 0 .. 255 /\ t # 4
      <3>1. IsOctets(X(S)) /\ IsOctets(X(T) \o Y(T))
        BY <1>2
      <3> QED  BY <2>1, <3>1
    <2>3. PICK u, v : u = Led(t, a) /\ v = Led(4, b)
      OBVIOUS
    <2>4. u[1] = t
      BY <2>2, <2>3, OctetsCons, OctetsFirst
    <2>5. v[1] = 4
      BY <2>2, <2>3, OctetsCons, OctetsFirst
    <2>6. u = v
      BY <1>2, <1>3, <2>1, <2>3
    <2> QED  BY <2>2, <2>4, <2>5, <2>6
  <1>4. e = c
    <2>1. e => c
      BY <1>1, <1>3
    <2>2. c => e
      BY <1>1, <1>3
    <2> QED  BY <2>1, <2>2
  <1>5. ASSUME c  PROVE Q = P
    <2>1. PICK a, b, t, u : /\ a = X(P) /\ b = X(Q) /\ t = Tag(P) /\ u = Tag(Q)
                            /\ t \in {2, 3} /\ u \in {2, 3}
      OBVIOUS
    <2>2. IsOctets(a) /\ IsOctets(b) /\ t \in 0 .. 255 /\ u \in 0 .. 255 /\ Len(a) = Len(b)
      <3>1. IsOctets(X(P)) /\ IsOctets(X(Q)) /\ Len(X(P)) = K.FB /\ Len(X(Q)) = K.FB
        BY <1>1, <1>2
      <3> QED  BY <2>1, <3>1
    <2>3. Led(t, a)[1] = t /\ Led(u, b)[1] = u
          /\ SubSeq(Led(t, a), 2, 1 + Len(a)) = a /\ SubSeq(Led(u, b), 2, 1 + Len(b)) = b
      BY <2>2, OctetsCons, OctetsFirst
    <2>4. Led(t, a) = Led(u, b)
      BY <1>1, <1>2, <1>4, <1>5, <2>1, ZenonT(40)
    <2>5. t = u /\ a = b
      BY <2>2, <2>3, <2>4
    <2>6. K.x[P] = K.x[Q]
      BY <1>2, <2>1, <2>5, <1>1
    <2>7. K.odd[P] = K.odd[Q]
      <3>1. K.odd[P] \in BOOLEAN /\ K.odd[Q] \in BOOLEAN
        BY <1>1, PointFacts
      <3> QED  BY <2>1, <2>5, <3>1
    <2> QED  BY <1>1, <2>6, <2>7, SamePoint
  <1>6. ASSUME ~c  PROVE Q = P
    <2>1. PICK a, b : a = X(P) \o Y(P) /\ b = X(Q) \o Y(Q)
      OBVIOUS
    <2>2. IsOctets(a) /\ IsOctets(b) /\ 4 \in 0 .. 255
      <3>1. IsOctets(X(P) \o Y(P)) /\ IsOctets(X(Q) \o Y(Q))
        BY <1>1, <1>2
      <3> QED  BY <2>1, <3>1
    <2>3. /\ SubSeq(Led(4, a), 2, 1 + Len(a)) = a /\ Len(Led(4, a)) = 1 + Len(a)
          /\ SubSeq(Led(4, b), 2, 1 + Len(b)) = b /\ Len(Led(4, b)) = 1 + Len(b)
      BY <2>2, OctetsCons, OctetsFirst
    <2>4. Led(4, a) = Led(4, b)
      BY <1>1, <1>2, <1>4, <1>6, <2>1
    <2>5. a = b
      <3>1. 1 + Len(a) = 1 + Len(b)
        BY <2>3, <2>4
      <3> QED  BY <2>3, <2>4, <3>1
    <2>6. X(P) = X(Q) /\ Y(P) = Y(Q)
      BY <1>1, <1>2, <2>1, <2>5
    <2>7. K.x[P] = K.x[Q] /\ K.y[P] = K.y[Q]
      BY <1>1, <1>2, <2>6
    <2>8. K.odd[P] = K.odd[Q]
      BY <1>1, <2>7, PointFacts
    <2> QED  BY <1>1, <2>7, <2>8, SamePoint
  <1> QED  BY <1>5, <1>6

(* The content of an INTEGER of DER that is not negative, and its digits.   *)
Minimal(body) ==
    /\ Len(body) >= 1
    /\ body[1] < 128
    /\ Len(body) > 1 /\ body[1] = 0 => body[2] >= 128

(* The content of an INTEGER without its sign byte.                         *)
Stripped(body) == IF Len(body) > 1 /\ body[1] = 0 THEN SubSeq(body, 2, Len(body)) ELSE body

(* An INTEGER with its tag and its length.                                  *)
Tlv(body) == <<INTEGER, Len(body)>> \o body

(* One byte is its value.                                                   *)
LEMMA OneByte ==
    ASSUME NEW b, IsOctets(b), Len(b) = 1
    PROVE  Value(b) = b[1]
  <1>1. Value(b) \in Nat /\ Value(b) < Pow8(1) /\ Octets(Value(b), 1) = b
    BY OctetsOfValue
  <1>2. Pow8(1) = 256
    <2>1. 0 \in Nat /\ 0 + 1 = 1 /\ Pow8(0 + 1) = 256 * Pow8(0) /\ Pow8(0) = 1
      BY ByteShift, NoBytes
    <2> QED  BY <2>1
  <1>3. PICK v \in Nat : v = Value(b) /\ v < 256
    BY <1>1, <1>2
  <1>4. Octets(v, 1)[1] = (v \div Pow8(0)) % 256
    <2>1. 1 \in 1 .. 1 /\ 1 - 1 = 0 /\ 1 \in Nat
      OBVIOUS
    <2> QED  BY <2>1, OctetsFacts
  <1>5. v \div Pow8(0) = v
    BY ByteShift
  <1>6. v % 256 = v
    BY <1>3
  <1> QED  BY <1>1, <1>3, <1>4, <1>5, <1>6

(* A zero in front.                                                         *)
LEMMA OctetsLed ==
    ASSUME NEW b, IsOctets(b)
    PROVE  /\ IsOctets(Zeros(1) \o b) /\ Len(Zeros(1) \o b) = Len(b) + 1
           /\ (Zeros(1) \o b)[1] = 0
           /\ \A i \in 1 .. Len(b) : (Zeros(1) \o b)[i + 1] = b[i]
           /\ SubSeq(Zeros(1) \o b, 2, Len(b) + 1) = b
           /\ Value(Zeros(1) \o b) = Value(b)
  <1>1. Zeros(1) = <<0>>
    BY DEF Zeros
  <1>0. PICK x \in 0 .. 255 : x = 0
    OBVIOUS
  <1>2. Led(x, b) = Zeros(1) \o b
    BY <1>0, <1>1 DEF Led
  <1>3. 1 \in Nat
    OBVIOUS
  <1>4. Value(Zeros(1) \o b) = Value(b)
    BY <1>3, ValuePadded
  <1>5. /\ IsOctets(Led(x, b)) /\ Len(Led(x, b)) = 1 + Len(b)
        /\ SubSeq(Led(x, b), 2, 1 + Len(b)) = b
        /\ \A i \in 1 .. Len(b) : Led(x, b)[1 + i] = b[i]
    BY <1>0, OctetsCons
  <1>7. Led(x, b)[1] = x
    BY <1>0, OctetsFirst
  <1>6. 1 + Len(b) = Len(b) + 1 /\ \A i \in 1 .. Len(b) : 1 + i = i + 1
    BY OctetsShape
  <1> QED  BY <1>0, <1>2, <1>4, <1>5, <1>6, <1>7

(* Less a zero in front.                                                    *)
LEMMA ZeroTail ==
    ASSUME NEW b, IsOctets(b), Len(b) > 1, b[1] = 0, NEW t, t = SubSeq(b, 2, Len(b))
    PROVE  /\ IsOctets(t) /\ Len(t) = Len(b) - 1
           /\ \A m \in 1 .. Len(b) - 1 : t[m] = b[m + 1]
           /\ Zeros(1) \o t = b /\ Value(t) = Value(b)
  <1>1. Len(b) \in Nat
    BY OctetsShape
  <1>2. IsOctets(t) /\ Len(t) = Len(b) - 1 /\ \A m \in 1 .. Len(b) - 1 : t[m] = b[m + 1]
    <2>1. Len(b) - 2 + 1 = Len(b) - 1 /\ 2 <= Len(b) + 1 /\ 2 \in Nat
      BY <1>1
    <2>2. /\ IsOctets(SubSeq(b, 2, Len(b))) /\ Len(SubSeq(b, 2, Len(b))) = Len(b) - 2 + 1
          /\ \A m \in 1 .. Len(b) - 2 + 1 : SubSeq(b, 2, Len(b))[m] = b[2 + m - 1]
      BY <1>1, <2>1, OctetsPart
    <2>3. \A m \in 1 .. Len(b) - 1 : 2 + m - 1 = m + 1
      OBVIOUS
    <2> QED  BY <2>1, <2>2, <2>3
  <1>3. Zeros(1) \o t = b
    <2>3. PICK u : u = Zeros(1) \o t
      OBVIOUS
    <2>4. /\ IsOctets(u) /\ Len(u) = Len(t) + 1 /\ u[1] = 0
          /\ \A i \in 1 .. Len(t) : u[i + 1] = t[i]
      BY <1>2, <2>3, OctetsLed
    <2>5. Len(u) = Len(b)
      BY <1>1, <1>2, <2>4
    <2>6. ASSUME NEW i \in 1 .. Len(b)  PROVE u[i] = b[i]
      <3>1. CASE i = 1
        BY <2>4, <3>1
      <3>2. CASE i # 1
        <4>1. i - 1 \in 1 .. Len(t) /\ (i - 1) + 1 = i /\ i - 1 \in 1 .. Len(b) - 1
          BY <1>1, <1>2, <3>2
        <4>2. u[(i - 1) + 1] = t[i - 1] /\ t[i - 1] = b[(i - 1) + 1]
          BY <1>2, <2>4, <4>1
        <4> QED  BY <4>1, <4>2
      <3> QED  BY <3>1, <3>2
    <2>7. u \in Seq(0 .. 255) /\ b \in Seq(0 .. 255)
      BY <2>4 DEF IsOctets
    <2>8. u = b
      BY <2>5, <2>6, <2>7, SeqEqual
    <2> QED  BY <2>3, <2>8
  <1>4. Value(t) = Value(b)
    <2>1. Value(Zeros(1) \o t) = Value(t)
      BY <1>2, ValuePadded
    <2> QED  BY <1>3, <2>1
  <1> QED  BY <1>2, <1>3, <1>4

(* The digits: the same value, a first one that is not zero, and as many    *)
(* as the number fills.                                                     *)
LEMMA StrippedFacts ==
    ASSUME NEW b, IsOctets(b), Minimal(b), Value(b) > 0
    PROVE  LET t == Stripped(b)
           IN  /\ IsOctets(t) /\ Len(t) >= 1 /\ Value(t) = Value(b)
               /\ Len(t) = (IF b[1] = 0 THEN Len(b) - 1 ELSE Len(b))
               /\ t[1] >= 1 /\ (t[1] >= 128 <=> b[1] = 0)
               /\ Pow8(Len(t) - 1) <= Value(b) /\ Value(b) < Pow8(Len(t))
               /\ b[1] = 0 => Zeros(1) \o t = b
  <1>1. Len(b) \in Nat /\ Len(b) >= 1 /\ \A i \in 1 .. Len(b) : b[i] \in Nat
    BY OctetsShape DEF Minimal
  <1>2. PICK t : t = Stripped(b)
    OBVIOUS
  <1>3. CASE b[1] # 0
    <2>1. t = b
      BY <1>2, <1>3 DEF Stripped
    <2>2. b[1] < 128 /\ b[1] \in Nat /\ b[1] >= 1
      BY <1>1, <1>3 DEF Minimal
    <2>3. Value(b) \in Nat /\ Value(b) < Pow8(Len(b)) /\ Value(b) >= b[1] * Pow8(Len(b) - 1)
      BY <1>1, OctetsOfValue
    <2>4. Len(b) - 1 \in Nat
      BY <1>1
    <2>5. Pow8(Len(b) - 1) \in Nat
      BY <2>4, PowIsNat
    <2>6. \A p, q \in Nat : q >= 1 => q * p >= p
      BY Z3
    <2>7. b[1] * Pow8(Len(b) - 1) >= Pow8(Len(b) - 1) /\ b[1] * Pow8(Len(b) - 1) \in Nat
      BY <2>2, <2>5, <2>6
    <2>8. Pow8(Len(b) - 1) <= Value(b)
      BY <2>3, <2>5, <2>7
    <2> QED  BY <1>1, <1>2, <1>3, <2>1, <2>2, <2>3, <2>8
  <1>4. CASE b[1] = 0
    <2>1. Len(b) > 1
      <3>1. Len(b) # 1
        BY <1>4, OneByte
      <3>2. PICK l \in Nat : l = Len(b) /\ l >= 1 /\ l # 1
        BY <1>1, <3>1
      <3> QED  BY ONLY <3>2
    <2>2. t = SubSeq(b, 2, Len(b)) /\ b[2] >= 128 /\ b[2] \in Nat
      BY <1>1, <1>2, <1>4, <2>1 DEF Stripped, Minimal
    <2>3. /\ IsOctets(t) /\ Len(t) = Len(b) - 1 /\ \A m \in 1 .. Len(b) - 1 : t[m] = b[m + 1]
          /\ Zeros(1) \o t = b /\ Value(t) = Value(b)
      BY <1>4, <2>1, <2>2, ZeroTail
    <2>4. t[1] = b[2]
      <3>1. 1 \in 1 .. Len(b) - 1 /\ 1 + 1 = 2
        BY <1>1, <2>1
      <3> QED  BY <2>3, <3>1
    <2>7. Value(t) \in Nat /\ Value(t) < Pow8(Len(t)) /\ Value(t) >= t[1] * Pow8(Len(t) - 1)
      BY <1>1, <2>1, <2>3, OctetsOfValue
    <2>8. Len(t) - 1 \in Nat
      BY <1>1, <2>1, <2>3
    <2>9. Pow8(Len(t) - 1) \in Nat
      BY <2>8, PowIsNat
    <2>10. \A p, q \in Nat : q >= 1 => q * p >= p
      BY Z3
    <2>11. t[1] * Pow8(Len(t) - 1) >= Pow8(Len(t) - 1) /\ t[1] * Pow8(Len(t) - 1) \in Nat
      <3>1. PICK p \in Nat, q \in Nat : p = Pow8(Len(t) - 1) /\ q = t[1] /\ q >= 1
        <4>1. PICK q \in Nat : q = t[1] /\ q >= 128
          BY <2>2, <2>4
        <4>2. q >= 1
          BY <4>1
        <4> QED  BY <2>9, <4>1, <4>2
      <3>2. q * p >= p /\ q * p \in Nat
        BY <2>10, <3>1
      <3> QED  BY <3>1, <3>2
    <2>12. Pow8(Len(t) - 1) <= Value(t)
      BY <2>7, <2>9, <2>11
    <2> QED  BY <1>1, <1>2, <1>4, <2>1, <2>2, <2>3, <2>4, <2>7, <2>12
  <1> QED  BY <1>3, <1>4

(* A minimal content is what EncodeUint writes of its value.                *)
LEMMA EncodeIs ==
    ASSUME NEW b, IsOctets(b), Minimal(b), Value(b) > 0
    PROVE  EncodeUint(Value(b)) = Tlv(b)
  <1>1. PICK n \in Nat : n = Value(b)
    BY OctetsOfValue
  <1>2. PICK t : t = Stripped(b)
    OBVIOUS
  <1>3. /\ IsOctets(t) /\ Len(t) >= 1 /\ Value(t) = n
        /\ Len(t) = (IF b[1] = 0 THEN Len(b) - 1 ELSE Len(b))
        /\ t[1] >= 1 /\ (t[1] >= 128 <=> b[1] = 0)
        /\ Pow8(Len(t) - 1) <= n /\ n < Pow8(Len(t))
        /\ b[1] = 0 => Zeros(1) \o t = b
    BY <1>1, <1>2, StrippedFacts
  <1>4. n > 0 /\ Len(t) \in Nat /\ Len(t) > 0 /\ Len(b) \in Nat
    BY <1>1, <1>3, OctetsShape
  <1>5. PICK len \in Nat : /\ len > 0 /\ (BitLength(n) + 7) \div 8 = len
                           /\ Pow8(len - 1) <= n /\ n < Pow8(len)
    BY <1>4, UintLength
  <1>6. len = Len(t)
    BY <1>3, <1>4, <1>5, OneLength
  <1>7. Octets(n, Len(t)) = t
    BY <1>3, OctetsOfValue
  <1>8. Octets(n, IF t[1] >= 128 THEN len + 1 ELSE len) = b
    <2>1. CASE b[1] = 0
      <3>1. Len(b) = len + 1
        BY <1>3, <1>4, <1>6, <2>1
      <3>2. Octets(n, Len(b)) = b
        BY <1>1, OctetsOfValue
      <3> QED  BY <1>3, <2>1, <3>1, <3>2
    <2>2. CASE b[1] # 0
      <3>1. Len(b) = len
        BY <1>3, <1>6, <2>2
      <3>2. Octets(n, Len(b)) = b
        BY <1>1, OctetsOfValue
      <3> QED  BY <1>3, <2>2, <3>1, <3>2
    <2> QED  BY <2>1, <2>2
  <1>9. EncodeUint(n) = <<INTEGER, Len(b)>> \o b
    <2>1. (IF n = 0 THEN 1 ELSE (BitLength(n) + 7) \div 8) = len
      BY <1>4, <1>5
    <2>2. Octets(n, len)[1] = t[1]
      BY <1>6, <1>7
    <2> DEFINE len0  == IF n = 0 THEN 1 ELSE (BitLength(n) + 7) \div 8
               body0 == Octets(n, IF Octets(n, len0)[1] >= 128 THEN len0 + 1 ELSE len0)
    <2>3. EncodeUint(n) = <<INTEGER, Len(body0)>> \o body0
      BY DEF EncodeUint
    <2>4. body0 = b
      BY <1>8, <2>1, <2>2
    <2> HIDE DEF body0
    <2> QED  BY <2>3, <2>4
  <1> QED  BY <1>1, <1>9 DEF Tlv

(* Every number above zero has a minimal content.                           *)
LEMMA EncodeMinimal ==
    ASSUME NEW n \in Nat, n > 0, NEW F \in Nat, n < Pow8(F)
    PROVE  \E b : /\ IsOctets(b) /\ Minimal(b) /\ Value(b) = n
                  /\ Len(b) <= F + 1 /\ Len(Stripped(b)) <= F
  <1>1. PICK len \in Nat : /\ len > 0 /\ (BitLength(n) + 7) \div 8 = len
                           /\ Pow8(len - 1) <= n /\ n < Pow8(len)
    BY UintLength
  <1>2. len <= F
    <2> SUFFICES ASSUME ~(len <= F)  PROVE FALSE
      OBVIOUS
    <2>1. F <= len - 1 /\ len - 1 \in Nat
      BY <1>1
    <2>2. Pow8(F) <= Pow8(len - 1)
      BY <2>1, Pow8Monotone
    <2>3. Pow8(F) \in Nat /\ Pow8(len - 1) \in Nat
      BY <2>1, PowIsNat
    <2> QED  BY <1>1, <2>2, <2>3
  <1>3. PICK a : a = Octets(n, len)
    OBVIOUS
  <1>4. IsOctets(a) /\ Len(a) = len /\ Value(a) = n /\ a[1] \in 0 .. 255
    <2>1. IsOctets(a) /\ Len(a) = len /\ Value(a) = n
      BY <1>1, <1>3, OctetsFacts, ValueOfOctets
    <2>2. 1 \in 1 .. len
      BY <1>1
    <2> QED  BY <2>1, <2>2, OctetsShape
  <1>5. a[1] >= 1
    <2>1. PICK k \in Nat : k = len - 1
      BY <1>1
    <2>2. a[1] = (n \div Pow8(k)) % 256
      <3>1. 1 \in 1 .. len
        BY <1>1
      <3>2. Octets(n, len)[1] = (n \div Pow8(len - 1)) % 256
        BY <3>1, OctetsFacts
      <3> QED  BY <1>3, <2>1, <3>2
    <2>3. len = k + 1
      BY <2>1
    <2>4. Pow8(k) \in Nat /\ Pow8(k) > 0 /\ Pow8(k) <= n /\ n < 256 * Pow8(k)
      <3>1. Pow8(k + 1) = 256 * Pow8(k)
        BY ByteShift
      <3> QED  BY <1>1, <2>1, <2>3, <3>1, PowIsNat
    <2>5. \A p \in Nat : p > 0 /\ p <= n /\ n < 256 * p => (n \div p) % 256 >= 1
      <3>1. \A p \in Nat : p > 0 /\ p <= n /\ n < 256 * p => n \div p >= 1 /\ n \div p < 256
        OBVIOUS
      <3>2. \A q \in Int : q >= 1 /\ q < 256 => q % 256 >= 1
        OBVIOUS
      <3>3. \A p \in Nat : p > 0 => n \div p \in Int
        OBVIOUS
      <3> QED  BY <3>1, <3>2, <3>3
    <2> QED  BY <2>2, <2>4, <2>5
  <1>6. CASE a[1] < 128
    <2>1. Minimal(a) /\ Stripped(a) = a
      BY <1>1, <1>4, <1>5, <1>6 DEF Minimal, Stripped
    <2> QED  BY <1>2, <1>4, <2>1
  <1>7. CASE a[1] >= 128
    <2>3. PICK b : b = Zeros(1) \o a
      OBVIOUS
    <2>4. /\ IsOctets(b) /\ Len(b) = len + 1 /\ b[1] = 0 /\ Value(b) = n
          /\ \A i \in 1 .. len : b[i + 1] = a[i]
          /\ SubSeq(b, 2, len + 1) = a
      <3>1. /\ IsOctets(b) /\ Len(b) = Len(a) + 1 /\ b[1] = 0 /\ Value(b) = Value(a)
            /\ \A i \in 1 .. Len(a) : b[i + 1] = a[i]
            /\ SubSeq(b, 2, Len(a) + 1) = a
        BY <1>4, <2>3, OctetsLed
      <3> QED  BY <1>4, <3>1
    <2>5. b[2] = a[1]
      <3>1. 1 \in 1 .. len /\ 1 + 1 = 2
        BY <1>1
      <3> QED  BY <2>4, <3>1
    <2>6. Minimal(b) /\ Stripped(b) = a
      BY <1>1, <1>7, <2>4, <2>5 DEF Minimal, Stripped
    <2> QED  BY <1>2, <1>4, <2>4, <2>6
  <1>8. a[1] < 128 \/ a[1] >= 128
    <2>1. PICK x \in 0 .. 255 : x = a[1]
      BY <1>4
    <2>2. x < 128 \/ x >= 128
      OBVIOUS
    <2> QED  BY <2>1, <2>2
  <1> QED  BY <1>6, <1>7, <1>8

(* The bytes hold u from start on.                                          *)
At(bytes, start, u) ==
    /\ start - 1 + Len(u) <= Len(bytes)
    /\ \A i \in 1 .. Len(u) : bytes[start - 1 + i] = u[i]

(* A part of the bytes is what they hold there.                             *)
LEMMA PartAt ==
    ASSUME NEW a, IsOctets(a), NEW i \in Nat, NEW j \in Nat, i >= 1, j <= Len(a), i <= j + 1
    PROVE  At(a, i, SubSeq(a, i, j))
  <1>1. /\ Len(SubSeq(a, i, j)) = j - i + 1
        /\ \A m \in 1 .. j - i + 1 : SubSeq(a, i, j)[m] = a[i + m - 1]
    BY OctetsPart
  <1>2. PICK u : u = SubSeq(a, i, j)
    OBVIOUS
  <1>3. Len(u) = j - i + 1 /\ \A m \in 1 .. j - i + 1 : u[m] = a[i + m - 1]
    BY <1>1, <1>2
  <1>4. \A m \in 1 .. j - i + 1 : i + m - 1 = i - 1 + m
    OBVIOUS
  <1>5. i - 1 + (j - i + 1) <= Len(a)
    BY OctetsShape
  <1>6. At(a, i, u)
    BY <1>3, <1>4, <1>5 DEF At
  <1> QED  BY <1>2, <1>6

(* A string that stands at a place is cut out from there.                   *)
LEMMA AtPart ==
    ASSUME NEW a, IsOctets(a), NEW i \in Nat, i >= 1, NEW u, IsOctets(u), At(a, i, u)
    PROVE  SubSeq(a, i, i + Len(u) - 1) = u
  <1>1. PICK l \in Nat : l = Len(u)
    BY OctetsShape
  <1>2. PICK j \in Nat : j = i + l - 1
    BY <1>1
  <1>3. j <= Len(a) /\ i <= j + 1 /\ j - i + 1 = l
    <2>1. i - 1 + l <= Len(a) /\ Len(a) \in Nat
      BY <1>1, OctetsShape DEF At
    <2> QED  BY <1>1, <1>2, <2>1
  <1>4. PICK v : v = SubSeq(a, i, j)
    OBVIOUS
  <1>5. IsOctets(v) /\ Len(v) = j - i + 1 /\ \A m \in 1 .. j - i + 1 : v[m] = a[i + m - 1]
    BY <1>3, <1>4, OctetsPart
  <1>6. ASSUME NEW m \in 1 .. Len(u)  PROVE v[m] = u[m]
    <2>1. a[i - 1 + m] = u[m]
      BY DEF At
    <2>2. i + m - 1 = i - 1 + m /\ m \in 1 .. j - i + 1
      BY <1>1, <1>3
    <2>3. v[m] = a[i + m - 1]
      BY <1>5, <2>2
    <2> QED  BY <2>1, <2>2, <2>3
  <1>7. v = u
    <2>1. v \in Seq(0 .. 255) /\ u \in Seq(0 .. 255) /\ Len(v) = Len(u)
      BY <1>1, <1>3, <1>5 DEF IsOctets
    <2> QED  BY <1>6, <2>1, SeqEqual
  <1> QED  BY <1>1, <1>2, <1>4, <1>7

(* Two strings, one after the other.                                        *)
LEMMA AtConcat ==
    ASSUME NEW a, IsOctets(a), NEW i \in Nat, i >= 1, NEW u, IsOctets(u), NEW v, IsOctets(v)
    PROVE  At(a, i, u \o v) <=> At(a, i, u) /\ At(a, i + Len(u), v)
  <1>1. PICK w : w = u \o v
    OBVIOUS
  <1>2. PICK l \in Nat, m \in Nat, n \in Nat : l = Len(u) /\ m = Len(v) /\ n = Len(a)
    BY OctetsShape
  <1>3. /\ Len(w) = l + m
        /\ \A k \in 1 .. l : w[k] = u[k]
        /\ \A k \in 1 .. m : w[l + k] = v[k]
    BY <1>1, <1>2, OctetsConcat
  <1>4. ASSUME At(a, i, w)  PROVE At(a, i, u) /\ At(a, i + l, v)
    <2>1. i - 1 + (l + m) <= n /\ \A k \in 1 .. l + m : a[i - 1 + k] = w[k]
      BY <1>2, <1>3, <1>4 DEF At
    <2>2. i - 1 + l <= n /\ \A k \in 1 .. l : a[i - 1 + k] = u[k]
      BY <1>3, <2>1
    <2>3. i + l - 1 + m <= n
      BY <2>1
    <2>4. ASSUME NEW k \in 1 .. m  PROVE a[i + l - 1 + k] = v[k]
      <3>1. l + k \in 1 .. l + m /\ i - 1 + (l + k) = i + l - 1 + k
        OBVIOUS
      <3>2. a[i - 1 + (l + k)] = w[l + k]
        BY <2>1, <3>1
      <3> QED  BY <1>3, <3>1, <3>2
    <2> QED  BY <1>2, <2>2, <2>3, <2>4 DEF At
  <1>5. ASSUME At(a, i, u), At(a, i + l, v)  PROVE At(a, i, w)
    <2>1. /\ i - 1 + l <= n /\ \A k \in 1 .. l : a[i - 1 + k] = u[k]
          /\ i + l - 1 + m <= n /\ \A k \in 1 .. m : a[i + l - 1 + k] = v[k]
      BY <1>2, <1>5 DEF At
    <2>2. i - 1 + (l + m) <= n
      BY <2>1
    <2>3. ASSUME NEW k \in 1 .. l + m  PROVE a[i - 1 + k] = w[k]
      <3>1. CASE k <= l
        <4>1. k \in 1 .. l
          BY <3>1
        <4> QED  BY <1>3, <2>1, <4>1
      <3>2. CASE ~(k <= l)
        <4>1. PICK q \in 1 .. m : k = l + q
          <5>1. k - l \in 1 .. m /\ k = l + (k - l)
            BY <3>2
          <5> QED  BY <5>1
        <4>2. a[i + l - 1 + q] = v[q] /\ w[l + q] = v[q]
          BY <1>3, <2>1
        <4>3. i + l - 1 + q = i - 1 + k
          BY <4>1
        <4> QED  BY <4>1, <4>2, <4>3
      <3> QED  BY <3>1, <3>2
    <2> QED  BY <1>2, <1>3, <2>2, <2>3 DEF At
  <1> QED  BY <1>1, <1>2, <1>4, <1>5

(* All of the bytes.                                                        *)
LEMMA AtAll ==
    ASSUME NEW a, IsOctets(a), NEW u, IsOctets(u), Len(a) = Len(u)
    PROVE  At(a, 1, u) <=> a = u
  <1>1. PICK n \in Nat : n = Len(a)
    BY OctetsShape
  <1>2. ASSUME a = u  PROVE At(a, 1, u)
    <2>1. 1 - 1 + n <= n /\ \A k \in 1 .. n : 1 - 1 + k = k
      OBVIOUS
    <2> QED  BY <1>1, <1>2, <2>1 DEF At
  <1>3. ASSUME At(a, 1, u)  PROVE a = u
    <2>1. ASSUME NEW k \in 1 .. Len(a)  PROVE a[k] = u[k]
      <3>1. a[1 - 1 + k] = u[k]
        BY <1>3 DEF At
      <3>2. 1 - 1 + k = k
        BY <1>1
      <3> QED  BY <3>1, <3>2
    <2>2. a \in Seq(0 .. 255) /\ u \in Seq(0 .. 255)
      BY DEF IsOctets
    <2> QED  BY <2>1, <2>2, SeqEqual
  <1> QED  BY <1>2, <1>3

(* The bytes of an INTEGER.                                                 *)
LEMMA TlvFacts ==
    ASSUME NEW b, IsOctets(b), Len(b) <= 127
    PROVE  /\ IsOctets(Tlv(b)) /\ Len(Tlv(b)) = 2 + Len(b)
           /\ Tlv(b)[1] = 2 /\ Tlv(b)[2] = Len(b)
           /\ \A i \in 1 .. Len(b) : Tlv(b)[2 + i] = b[i]
  <1>0. PICK l \in Nat : l = Len(b) /\ l <= 127
    BY OctetsShape
  <1>1. PICK a : a = <<2, l>>
    OBVIOUS
  <1>2. a \in Seq(0 .. 255)
    <2>0. l \in Nat /\ l <= 127
      BY <1>0
    <2>1. 2 \in 0 .. 255 /\ l \in 0 .. 255
      BY ONLY <2>0
    <2> DEFINE S == 0 .. 255
    <2> HIDE DEF S
    <2>2. <<2, l>> \in Seq(S)
      BY <2>1 DEF S
    <2> QED  BY <1>1, <2>2 DEF S
  <1>3. IsOctets(a) /\ Len(a) = 2 /\ a[1] = 2 /\ a[2] = l
    BY <1>1, <1>2 DEF IsOctets
  <1>4. PICK u : u = a \o b
    OBVIOUS
  <1>5. /\ IsOctets(u) /\ Len(u) = 2 + Len(b)
        /\ \A i \in 1 .. 2 : u[i] = a[i]
        /\ \A i \in 1 .. Len(b) : u[2 + i] = b[i]
    <2>1. /\ IsOctets(a \o b) /\ Len(a \o b) = Len(a) + Len(b)
          /\ \A i \in 1 .. Len(a) : (a \o b)[i] = a[i]
          /\ \A i \in 1 .. Len(b) : (a \o b)[Len(a) + i] = b[i]
      <3>1. IsOctets(a)
        BY <1>3
      <3> QED  BY ONLY IsOctets(a), IsOctets(b), <3>1, OctetsConcat
    <2> QED  BY <1>3, <1>4, <2>1
  <1>6. 1 \in 1 .. 2 /\ 2 \in 1 .. 2
    OBVIOUS
  <1>7. u[1] = 2 /\ u[2] = l
    BY <1>3, <1>5, <1>6
  <1>8. Tlv(b) = u
    BY <1>0, <1>1, <1>4 DEF Tlv, INTEGER
  <1> QED  BY <1>0, <1>5, <1>7, <1>8

(* What is at an INTEGER's place, in terms of its parts.                    *)
LEMMA TlvAt ==
    ASSUME NEW a, IsOctets(a), NEW i \in Nat, i >= 1, NEW b, IsOctets(b), Len(b) <= 127, Len(b) >= 1
    PROVE  At(a, i, Tlv(b)) <=>
             /\ i + 1 + Len(b) <= Len(a)
             /\ a[i] = 2 /\ a[i + 1] = Len(b)
             /\ SubSeq(a, i + 2, i + 1 + Len(b)) = b
  <1>1. PICK l \in Nat, n \in Nat : l = Len(b) /\ n = Len(a)
    BY OctetsShape
  <1>2. PICK t : t = Tlv(b)
    OBVIOUS
  <1>3. /\ Len(t) = 2 + l /\ t[1] = 2 /\ t[2] = l
        /\ \A k \in 1 .. l : t[2 + k] = b[k]
    BY <1>1, <1>2, TlvFacts
  <1>4. /\ i + 2 \in Nat /\ i + 1 + l \in Nat /\ i + 2 >= 1 /\ i + 2 <= (i + 1 + l) + 1
        /\ i + 2 + l - 1 = i + 1 + l
    OBVIOUS
  <1>5. ASSUME At(a, i, t)
        PROVE  i + 1 + l <= n /\ a[i] = 2 /\ a[i + 1] = l /\ SubSeq(a, i + 2, i + 1 + l) = b
    <2>1. i - 1 + (2 + l) <= n /\ \A k \in 1 .. 2 + l : a[i - 1 + k] = t[k]
      BY <1>1, <1>3, <1>5 DEF At
    <2>2. i + 1 + l <= n
      BY <2>1
    <2>3. 1 \in 1 .. 2 + l /\ 2 \in 1 .. 2 + l /\ i - 1 + 1 = i /\ i - 1 + 2 = i + 1
      OBVIOUS
    <2>4. a[i] = 2 /\ a[i + 1] = l
      BY <1>3, <2>1, <2>3
    <2>5. At(a, i + 2, b)
      <3>1. i + 2 - 1 + l <= n
        BY <2>2
      <3>2. ASSUME NEW k \in 1 .. l  PROVE a[i + 2 - 1 + k] = b[k]
        <4>1. 2 + k \in 1 .. 2 + l /\ i - 1 + (2 + k) = i + 2 - 1 + k
          OBVIOUS
        <4>2. a[i - 1 + (2 + k)] = t[2 + k]
          BY <2>1, <4>1
        <4> QED  BY <1>3, <4>1, <4>2
      <3> QED  BY <1>1, <3>1, <3>2 DEF At
    <2>6. SubSeq(a, i + 2, i + 2 + Len(b) - 1) = b
      BY <1>4, <2>5, AtPart
    <2> QED  BY <1>1, <1>4, <2>2, <2>4, <2>6
  <1>6. ASSUME i + 1 + l <= n, a[i] = 2, a[i + 1] = l, SubSeq(a, i + 2, i + 1 + l) = b
        PROVE  At(a, i, t)
    <2>1. At(a, i + 2, b)
      <3>1. At(a, i + 2, SubSeq(a, i + 2, i + 1 + l))
        BY <1>1, <1>4, <1>6, PartAt
      <3> QED  BY <1>6, <3>1
    <2>2. i - 1 + (2 + l) <= n
      BY <1>6
    <2>3. ASSUME NEW k \in 1 .. 2 + l  PROVE a[i - 1 + k] = t[k]
      <3>1. CASE k = 1
        <4>1. i - 1 + 1 = i
          OBVIOUS
        <4> QED  BY <1>3, <1>6, <3>1, <4>1
      <3>2. CASE k = 2
        <4>1. i - 1 + 2 = i + 1
          OBVIOUS
        <4> QED  BY <1>3, <1>6, <3>2, <4>1
      <3>3. CASE k > 2
        <4>1. PICK q \in 1 .. l : k = 2 + q
          <5>1. k - 2 \in 1 .. l /\ k = 2 + (k - 2)
            BY <3>3
          <5> QED  BY <5>1
        <4>2. a[i + 2 - 1 + q] = b[q] /\ t[2 + q] = b[q]
          BY <1>1, <1>3, <2>1 DEF At
        <4>3. i + 2 - 1 + q = i - 1 + k
          BY <4>1
        <4> QED  BY <4>1, <4>2, <4>3
      <3> QED  BY <3>1, <3>2, <3>3
    <2> QED  BY <1>1, <1>3, <2>2, <2>3 DEF At
  <1> QED  BY <1>1, <1>2, <1>5, <1>6

(* The digits keep the value, if that is zero too.                          *)
LEMMA StrippedValue ==
    ASSUME NEW b, IsOctets(b)
    PROVE  IsOctets(Stripped(b)) /\ Value(Stripped(b)) = Value(b)
  <1>1. CASE Len(b) > 1 /\ b[1] = 0
    <2>1. PICK t : t = SubSeq(b, 2, Len(b))
      OBVIOUS
    <2>2. IsOctets(t) /\ Value(t) = Value(b)
      BY <1>1, <2>1, ZeroTail
    <2> QED  BY <1>1, <2>1, <2>2 DEF Stripped
  <1>2. CASE ~(Len(b) > 1 /\ b[1] = 0)
    BY <1>2 DEF Stripped
  <1> QED  BY <1>1, <1>2

(* The byte ranges of an INTEGER.                                           *)
Range2(i, b) == <<IF Len(b) > 1 /\ b[1] = 0 THEN i + 3 ELSE i + 2, i + 1 + Len(b)>>

(* What DecodeUint accepts is a minimal content, in the bytes it takes.     *)
LEMMA UintParts ==
    ASSUME NEW a, IsOctets(a), NEW i \in Nat, i >= 1, NEW g \in DecodeUint(a, i)
    PROVE  \E b : /\ IsOctets(b) /\ Minimal(b) /\ Len(b) <= 127 /\ Len(b) >= 1
                  /\ At(a, i, Tlv(b)) /\ g = Range2(i, b)
  <1> DEFINE l == a[i + 1]
  <1>1. /\ Len(a) > i /\ a[i] = 2 /\ l \in 1 .. 127
        /\ (i + 2) + l - 1 <= Len(a)
        /\ a[i + 2] < 128
        /\ l > 1 /\ a[i + 2] = 0 => a[i + 2 + 1] >= 128
        /\ g = <<IF l > 1 /\ a[i + 2] = 0 THEN i + 2 + 1 ELSE i + 2, i + 2 + l - 1>>
    BY DEF DecodeUint, INTEGER
  <1>2. l \in Nat /\ Len(a) \in Nat /\ i + 2 + l - 1 = i + 1 + l
    <2>1. Len(a) \in Nat
      BY OctetsShape
    <2>2. \A m \in 1 .. 127 : m \in Nat /\ i + 2 + m - 1 = i + 1 + m
      OBVIOUS
    <2> QED  BY <1>1, <2>1, <2>2
  <1> HIDE DEF l
  <1>3. PICK b : b = SubSeq(a, i + 2, i + 1 + l)
    OBVIOUS
  <1>4. /\ IsOctets(b) /\ Len(b) = l /\ At(a, i + 2, b)
        /\ \A m \in 1 .. l : b[m] = a[i + 2 + m - 1]
    <2>1. /\ i + 2 \in Nat /\ i + 1 + l \in Nat /\ i + 2 >= 1 /\ i + 1 + l <= Len(a)
          /\ i + 2 <= (i + 1 + l) + 1 /\ (i + 1 + l) - (i + 2) + 1 = l
      BY <1>1, <1>2
    <2>2. /\ IsOctets(b) /\ Len(b) = (i + 1 + l) - (i + 2) + 1
          /\ \A m \in 1 .. (i + 1 + l) - (i + 2) + 1 : b[m] = a[i + 2 + m - 1]
      BY <1>3, <2>1, OctetsPart
    <2>3. At(a, i + 2, b)
      BY <1>3, <2>1, PartAt
    <2> QED  BY <2>1, <2>2, <2>3
  <1>5. b[1] = a[i + 2]
    <2>1. 1 \in 1 .. l /\ i + 2 + 1 - 1 = i + 2
      BY <1>1, <1>2
    <2>2. b[1] = a[i + 2 + 1 - 1]
      BY <1>4, <2>1
    <2> QED  BY <2>1, <2>2
  <1>6. l > 1 => b[2] = a[i + 2 + 1]
    <2> HAVE l > 1
    <2>1. 2 \in 1 .. l /\ i + 2 + 2 - 1 = i + 2 + 1
      BY <1>2
    <2>2. b[2] = a[i + 2 + 2 - 1]
      BY <1>4, <2>1
    <2> QED  BY <2>1, <2>2
  <1>7. l >= 1 /\ l <= 127
    BY <1>1
  <1>8. Minimal(b)
    BY <1>1, <1>4, <1>5, <1>6, <1>7 DEF Minimal
  <1>9. a[i + 1] = l
    BY DEF l
  <1>10. At(a, i, Tlv(b))
    <2>1. i + 1 + Len(b) <= Len(a)
      BY <1>1, <1>2, <1>4
    <2>2. a[i] = 2 /\ a[i + 1] = Len(b)
      BY <1>1, <1>4, <1>9
    <2>3. SubSeq(a, i + 2, i + 1 + Len(b)) = b
      BY <1>3, <1>4
    <2>4. Len(b) <= 127 /\ Len(b) >= 1
      BY <1>4, <1>7
    <2> QED  BY <1>4, <2>1, <2>2, <2>3, <2>4, TlvAt
  <1>11. g = Range2(i, b)
    <2>1. i + 2 + 1 = i + 3
      OBVIOUS
    <2> QED  BY <1>1, <1>2, <1>4, <1>5, <2>1 DEF Range2
  <1> QED  BY <1>4, <1>7, <1>8, <1>10, <1>11

(* And what it makes of a minimal content.                                  *)
LEMMA UintRead ==
    ASSUME NEW a, IsOctets(a), NEW i \in Nat, i >= 1, NEW b, IsOctets(b), Minimal(b),
           Len(b) <= 127, At(a, i, Tlv(b))
    PROVE  /\ DecodeUint(a, i) = {Range2(i, b)}
           /\ i + 1 + Len(b) <= Len(a)
           /\ SubSeq(a, Range2(i, b)[1], Range2(i, b)[2]) = Stripped(b)
           /\ Range2(i, b)[2] = i + 1 + Len(b)
  <1>1. PICK l \in Nat : l = Len(b)
    BY OctetsShape
  <1>0. l >= 1 /\ l <= 127
    BY <1>1 DEF Minimal
  <1>2. /\ i + 1 + l <= Len(a) /\ a[i] = 2 /\ a[i + 1] = l
        /\ SubSeq(a, i + 2, i + 1 + l) = b
    BY <1>0, <1>1, TlvAt
  <1>3. Len(a) \in Nat
    BY OctetsShape
  <1>4. /\ i + 2 \in Nat /\ i + 1 + l \in Nat /\ i + 2 >= 1
        /\ i + 2 <= (i + 1 + l) + 1 /\ (i + 1 + l) - (i + 2) + 1 = l
    OBVIOUS
  <1>5. \A m \in 1 .. l : b[m] = a[i + 2 + m - 1]
    <2>1. PICK v : v = SubSeq(a, i + 2, i + 1 + l)
      OBVIOUS
    <2>2. \A m \in 1 .. (i + 1 + l) - (i + 2) + 1 : v[m] = a[i + 2 + m - 1]
      BY <1>2, <1>4, <2>1, OctetsPart
    <2> QED  BY <1>2, <1>4, <2>1, <2>2
  <1>6. b[1] = a[i + 2]
    <2>1. 1 \in 1 .. l /\ i + 2 + 1 - 1 = i + 2
      BY <1>0
    <2>2. b[1] = a[i + 2 + 1 - 1]
      BY <1>5, <2>1
    <2> QED  BY <2>1, <2>2
  <1>7. l > 1 => b[2] = a[i + 2 + 1]
    <2> HAVE l > 1
    <2>1. 2 \in 1 .. l /\ i + 2 + 2 - 1 = i + 2 + 1
      OBVIOUS
    <2>2. b[2] = a[i + 2 + 2 - 1]
      BY <1>5, <2>1
    <2> QED  BY <2>1, <2>2
  <1>8. b[1] < 128 /\ (l > 1 /\ b[1] = 0 => b[2] >= 128)
    BY <1>1 DEF Minimal
  <1>9. DecodeUint(a, i) = {<<IF l > 1 /\ a[i + 2] = 0 THEN i + 2 + 1 ELSE i + 2, i + 2 + l - 1>>}
    <2>1. /\ Len(a) > i /\ a[i] = INTEGER /\ l \in 1 .. 127 /\ i + 2 + l - 1 <= Len(a)
          /\ a[i + 2] < 128 /\ (l > 1 /\ a[i + 2] = 0 => a[i + 2 + 1] >= 128)
      <3>1. Len(a) > i /\ i + 2 + l - 1 <= Len(a) /\ l \in 1 .. 127
        BY <1>0, <1>2, <1>3
      <3> QED  BY <1>2, <1>6, <1>7, <1>8, <3>1 DEF INTEGER
    <2> QED  BY <1>2, <2>1 DEF DecodeUint
  <1>10. i + 2 + l - 1 = i + 1 + l /\ i + 2 + 1 = i + 3
    OBVIOUS
  <1>11. DecodeUint(a, i) = {Range2(i, b)}
    BY <1>1, <1>6, <1>9, <1>10 DEF Range2
  <1>12. Range2(i, b)[2] = i + 1 + l
    BY <1>1 DEF Range2
  <1>13. SubSeq(a, Range2(i, b)[1], Range2(i, b)[2]) = Stripped(b)
    <2>1. CASE l > 1 /\ b[1] = 0
      <3>1. Range2(i, b)[1] = i + 3
        BY <1>1, <2>1 DEF Range2
      <3>2. PICK t : t = SubSeq(b, 2, l)
        OBVIOUS
      <3>3. Stripped(b) = t
        BY <1>1, <2>1, <3>2 DEF Stripped
      <3>4. IsOctets(t) /\ Len(t) = l - 1 /\ \A m \in 1 .. l - 1 : t[m] = b[m + 1]
        BY <1>1, <2>1, <3>2, ZeroTail
      <3>5. At(a, i + 3, t)
        <4>1. i + 3 - 1 + (l - 1) <= Len(a)
          BY <1>2, <1>3
        <4>2. ASSUME NEW m \in 1 .. l - 1  PROVE a[i + 3 - 1 + m] = t[m]
          <5>1. m + 1 \in 1 .. l /\ i + 2 + (m + 1) - 1 = i + 3 - 1 + m
            OBVIOUS
          <5>2. b[m + 1] = a[i + 2 + (m + 1) - 1]
            BY <1>5, <5>1
          <5> QED  BY <3>4, <5>1, <5>2
        <4> QED  BY <3>4, <4>1, <4>2 DEF At
      <3>6. SubSeq(a, i + 3, i + 3 + Len(t) - 1) = t
        <4>1. i + 3 \in Nat /\ i + 3 >= 1
          OBVIOUS
        <4> QED  BY <3>4, <3>5, <4>1, AtPart
      <3>7. i + 3 + (l - 1) - 1 = i + 1 + l
        OBVIOUS
      <3> QED  BY <1>12, <3>1, <3>3, <3>4, <3>6, <3>7
    <2>2. CASE ~(l > 1 /\ b[1] = 0)
      <3>1. Range2(i, b)[1] = i + 2 /\ Stripped(b) = b
        BY <1>1, <2>2 DEF Range2, Stripped
      <3> QED  BY <1>2, <1>12, <3>1
    <2> QED  BY <2>1, <2>2
  <1> QED  BY <1>1, <1>2, <1>11, <1>12, <1>13

(* Two strings joined by FlattenSeq are the two concatenated.               *)
LEMMA FlattenTwo ==
    ASSUME NEW a, NEW b
    PROVE  FlattenSeq(<<a, b>>) = a \o b
  <1> DEFINE seqs == <<a, b>>
             Is(f) == f = [i \in 1 .. Len(seqs) |-> IF i = 1 THEN seqs[i] ELSE f[i - 1] \o seqs[i]]
             f0 == [i \in 1 .. 2 |-> IF i = 1 THEN a ELSE a \o b]
  <1>1. Len(seqs) = 2 /\ seqs[1] = a /\ seqs[2] = b
    OBVIOUS
  <1> HIDE DEF seqs
  <1>2. Is(f0)
    <2>1. f0[1] = a /\ f0[2] = a \o b
      OBVIOUS
    <2>2. \A i \in 1 .. 2 : f0[i] = IF i = 1 THEN seqs[i] ELSE f0[i - 1] \o seqs[i]
      <3>1. f0[1] = seqs[1] /\ f0[2] = f0[2 - 1] \o seqs[2]
        BY <1>1, <2>1
      <3>2. \A i \in 1 .. 2 : i = 1 \/ i = 2
        OBVIOUS
      <3> HIDE DEF f0
      <3> QED  BY <3>1, <3>2
    <2>3. f0 = [i \in 1 .. 2 |-> f0[i]]
      OBVIOUS
    <2> HIDE DEF f0
    <2> QED  BY <1>1, <2>2, <2>3
  <1> HIDE DEF f0
  <1> DEFINE g == CHOOSE h : Is(h)
  <1>3. FlattenSeq(seqs) = g[2]
    BY <1>1 DEF FlattenSeq
  <1>4. Is(g)
    <2> HIDE DEF Is
    <2> QED  BY <1>2
  <1> HIDE DEF g
  <1>5. g[1] = seqs[1] /\ g[2] = g[1] \o seqs[2]
    <2>1. g = [i \in 1 .. 2 |-> IF i = 1 THEN seqs[i] ELSE g[i - 1] \o seqs[i]]
      BY <1>1, <1>4
    <2>2. g[1] = seqs[1]
      BY <2>1
    <2>3. \A i \in 1 .. 2 : i # 1 => g[i] = g[i - 1] \o seqs[i]
      BY <2>1
    <2>4. PICK i \in 1 .. 2 : i = 2 /\ i # 1 /\ i - 1 = 1
      OBVIOUS
    <2>5. g[i] = g[i - 1] \o seqs[i]
      BY <2>3, <2>4
    <2>6. g[2] = g[1] \o seqs[2]
      BY <2>4, <2>5
    <2> QED  BY ONLY <2>2, <2>6
  <1> QED  BY <1>1, <1>3, <1>5 DEF seqs

(* The SEQUENCE of two INTEGERs.                                            *)
LEMMA EncodePair ==
    ASSUME NEW r, NEW s
    PROVE  EncodeSequence(<<r, s>>)
             = <<SEQUENCE, Len(EncodeUint(r) \o EncodeUint(s))>> \o (EncodeUint(r) \o EncodeUint(s))
  <1> DEFINE numbers == <<r, s>>
             texts == [i \in DOMAIN numbers |-> EncodeUint(numbers[i])]
  <1>1. texts = <<EncodeUint(r), EncodeUint(s)>>
    OBVIOUS
  <1>2. FlattenSeq(texts) = EncodeUint(r) \o EncodeUint(s)
    BY <1>1, FlattenTwo
  <1> HIDE DEF texts
  <1>3. EncodeSequence(numbers) = <<SEQUENCE, Len(FlattenSeq(texts))>> \o FlattenSeq(texts)
    BY DEF EncodeSequence, texts
  <1> QED  BY <1>2, <1>3

(* Two INTEGERs from the third byte on, to the end.                         *)
LEMMA DecodePair ==
    ASSUME NEW a, NEW d
    PROVE  d \in DecodeSequence(a, 2)
             <=> /\ ~(Len(a) < 2 \/ a[1] # SEQUENCE \/ a[2] # Len(a) - 2)
                 /\ \E g \in DecodeUint(a, 3) : \E h \in DecodeUint(a, g[2] + 1) :
                        d = <<g, h>> /\ h[2] = Len(a)
  <1> DEFINE Step(i, before) ==
                 UNION {{Append(rs, r) : r \in DecodeUint(a, IF i = 1 THEN 3 ELSE rs[i - 1][2] + 1)}
                           : rs \in before}
             Is(f) == f = [i \in 0 .. 2 |-> IF i = 0 THEN {<<>>} ELSE Step(i, f[i - 1])]
             f1 == Step(1, {<<>>})
             f2 == Step(2, f1)
             f0 == [i \in 0 .. 2 |-> IF i = 0 THEN {<<>>} ELSE IF i = 1 THEN f1 ELSE f2]
             F == CHOOSE h : Is(h)
  <1>1. DecodeSequence(a, 2)
          = IF Len(a) < 2 \/ a[1] # SEQUENCE \/ a[2] # Len(a) - 2 THEN {}
            ELSE {rs \in F[2] : rs[2][2] = Len(a)}
    BY DEF DecodeSequence
  <1>2. f1 = {<<g>> : g \in DecodeUint(a, 3)}
    OBVIOUS
  <1>3. f2 = UNION {{<<g, h>> : h \in DecodeUint(a, g[2] + 1)} : g \in DecodeUint(a, 3)}
    <2>1. \A rs \in f1 : \E g \in DecodeUint(a, 3) : rs = <<g>>
      BY <1>2
    <2>2. \A g \in DecodeUint(a, 3) : <<g>> \in f1
      BY <1>2
    <2> HIDE DEF f1
    <2>3. ASSUME NEW g, NEW h  PROVE <<g>>[1] = g /\ Append(<<g>>, h) = <<g, h>>
      <3> DEFINE T == {g, h}
      <3>1. PICK u, v, w : u = <<g>> /\ v = Append(u, h) /\ w = <<g, h>>
        OBVIOUS
      <3>2. g \in T /\ h \in T
        OBVIOUS
      <3> HIDE DEF T
      <3>3. u \in Seq(T) /\ Len(u) = 1 /\ u[1] = g
        BY <3>1, <3>2
      <3>4. w \in Seq(T) /\ Len(w) = 2 /\ w[1] = g /\ w[2] = h
        BY <3>1, <3>2
      <3>5. /\ v \in Seq(T) /\ Len(v) = Len(u) + 1
            /\ \A i \in 1 .. Len(u) : v[i] = u[i]
            /\ v[Len(u) + 1] = h
        BY <3>1, <3>2, <3>3, AppendProperties
      <3>6. Len(v) = 2 /\ v[1] = g /\ v[2] = h
        BY <3>3, <3>5
      <3>7. \A i \in 1 .. 2 : v[i] = w[i]
        <4>1. \A i \in 1 .. 2 : i = 1 \/ i = 2
          OBVIOUS
        <4> QED  BY <3>4, <3>6, <4>1
      <3>8. v = w
        BY <3>4, <3>5, <3>6, <3>7, SeqEqual
      <3> QED  BY <3>1, <3>3, <3>8
    <2>4. \A d0 : d0 \in f2 <=>
              \E rs \in f1 : \E h \in DecodeUint(a, rs[1][2] + 1) : d0 = Append(rs, h)
      <3>1. 2 - 1 = 1
        OBVIOUS
      <3> QED  BY <3>1
    <2> HIDE DEF f2
    <2>5. ASSUME NEW d0 \in f2
          PROVE  \E g \in DecodeUint(a, 3) : \E h \in DecodeUint(a, g[2] + 1) : d0 = <<g, h>>
      <3>1. PICK rs \in f1 : \E h \in DecodeUint(a, rs[1][2] + 1) : d0 = Append(rs, h)
        BY <2>4, <2>5
      <3>2. PICK g \in DecodeUint(a, 3) : rs = <<g>>
        BY <2>1, <3>1
      <3>3. PICK e : e = rs[1][2] + 1
        OBVIOUS
      <3>4. PICK h \in DecodeUint(a, e) : d0 = Append(rs, h)
        BY <3>1, <3>3
      <3>5. e = g[2] + 1 /\ d0 = <<g, h>>
        BY <2>3, <3>2, <3>3, <3>4
      <3> QED  BY <3>2, <3>4, <3>5
    <2>6. ASSUME NEW g \in DecodeUint(a, 3), NEW h \in DecodeUint(a, g[2] + 1)
          PROVE  <<g, h>> \in f2
      <3>1. PICK rs \in f1 : rs = <<g>>
        BY <2>2, <2>6
      <3>2. rs[1] = g /\ Append(rs, h) = <<g, h>>
        BY <2>3, <3>1
      <3>3. h \in DecodeUint(a, rs[1][2] + 1)
        BY <2>6, <3>2
      <3> QED  BY <2>4, <3>1, <3>2, <3>3
    <2> QED  BY <2>5, <2>6
  <1> HIDE DEF Step
  <1>4. Is(f0)
    <2>1. f0[0] = {<<>>} /\ f0[1] = f1 /\ f0[2] = f2
      OBVIOUS
    <2>2. \A i \in 0 .. 2 : f0[i] = IF i = 0 THEN {<<>>} ELSE Step(i, f0[i - 1])
      <3>1. f0[1] = Step(1, f0[1 - 1]) /\ f0[2] = Step(2, f0[2 - 1])
        BY <2>1
      <3>2. \A i \in 0 .. 2 : i = 0 \/ i = 1 \/ i = 2
        OBVIOUS
      <3> HIDE DEF f0
      <3> QED  BY <2>1, <3>1, <3>2
    <2>3. f0 = [i \in 0 .. 2 |-> f0[i]]
      OBVIOUS
    <2> HIDE DEF f0
    <2> QED  BY <2>2, <2>3
  <1> HIDE DEF f0
  <1>5. Is(F)
    <2> HIDE DEF Is
    <2> QED  BY <1>4
  <1> HIDE DEF F
  <1>6. F[2] = f2
    <2>1. F[0] = {<<>>}
      BY <1>5
    <2>2. F[1] = Step(1, F[1 - 1])
      BY <1>5
    <2>3. F[2] = Step(2, F[2 - 1])
      BY <1>5
    <2>4. 1 - 1 = 0 /\ 2 - 1 = 1
      OBVIOUS
    <2>5. F[1] = f1
      BY ONLY <2>1, <2>2, <2>4
    <2> QED  BY ONLY <2>3, <2>4, <2>5
  <1> HIDE DEF f1, f2, Is
  <1>7. d \in F[2] <=> \E g \in DecodeUint(a, 3) : \E h \in DecodeUint(a, g[2] + 1) : d = <<g, h>>
    BY <1>3, <1>6
  <1>8. \A g, h : <<g, h>>[2][2] = h[2]
    OBVIOUS
  <1> QED  BY <1>1, <1>7, <1>8

(* Padding makes a field element and keeps the value.                       *)
LEMMA PadFacts ==
    ASSUME NEW K, IsCurve(K), NEW t, IsOctets(t), Len(t) <= K.FB
    PROVE  IsOctets(pad(K, t)) /\ Len(pad(K, t)) = K.FB /\ Value(pad(K, t)) = Value(t)
  <1>1. K.FB \in Nat
    <2>1. K.FB \in 1 .. 60
      BY DEF IsCurve
    <2> QED  BY ONLY <2>1
  <1>2. PICK m \in Nat : m = K.FB - Len(t)
    BY <1>1, OctetsShape
  <1>3. PICK w : w = Zeros(m)
    OBVIOUS
  <1>4. IsOctets(w) /\ Len(w) = m
    BY <1>3, ZerosFacts
  <1>5. IsOctets(w \o t) /\ Len(w \o t) = Len(w) + Len(t)
    BY <1>4, OctetsConcat
  <1>6. Value(Zeros(m) \o t) = Value(t)
    BY ValuePadded
  <1>7. pad(K, t) = w \o t
    BY <1>2, <1>3 DEF pad
  <1>8. Len(w) + Len(t) = K.FB
    <2>1. Len(t) \in Nat
      BY OctetsShape
    <2> QED  BY <1>1, <1>2, <1>4, <2>1
  <1> QED  BY <1>3, <1>5, <1>6, <1>7, <1>8

(* from_slice reads the scalars of its two halves.                          *)
LEMMA FromSlice ==
    ASSUME NEW K, IsCurve(K), NEW a, IsOctets(a), NEW b, IsOctets(b), Len(a) = K.FB, Len(b) = K.FB
    PROVE  from_slice(K, a \o b) = from_scalars(K, Value(a), Value(b))
  <1>1. K.FB \in Nat
    BY DEF IsCurve
  <1>2. PICK u : u = a \o b
    OBVIOUS
  <1>3. /\ Len(u) = Len(a) + Len(b) /\ SubSeq(u, 1, Len(a)) = a
        /\ SubSeq(u, Len(a) + 1, Len(a) + Len(b)) = b
    BY <1>2, OctetsConcat
  <1>4. K.FB + K.FB = 2 * K.FB
    BY <1>1
  <1>5. Len(u) = 2 * K.FB /\ SubSeq(u, 1, K.FB) = a /\ SubSeq(u, K.FB + 1, 2 * K.FB) = b
    BY <1>3, <1>4
  <1> QED  BY <1>2, <1>5 DEF from_slice

(* A scalar in the bytes of a field element.                                *)
LEMMA ScalarBytes ==
    ASSUME NEW K, IsCurve(K), NEW x \in Scalars(K)
    PROVE  /\ x \in Nat /\ x > 0 /\ x < Pow8(K.FB) /\ K.FB \in Nat /\ K.FB >= 1 /\ K.FB <= 60
           /\ IsOctets(Octets(x, K.FB)) /\ Len(Octets(x, K.FB)) = K.FB
           /\ Value(Octets(x, K.FB)) = x
  <1>1. K.FB \in 1 .. 60 /\ K.n <= Pow8(K.FB) /\ K.n \in Nat
    BY DEF IsCurve, Pow8
  <1>2. PICK f \in Nat : f = K.FB /\ f >= 1 /\ f <= 60
    BY <1>1
  <1>3. x \in Nat /\ x > 0 /\ x < K.n
    BY ScalarFacts
  <1>4. Pow8(f) \in Nat
    BY PowIsNat
  <1>5. x < Pow8(f)
    BY <1>1, <1>2, <1>3, <1>4
  <1>6. IsOctets(Octets(x, f)) /\ Len(Octets(x, f)) = f
    BY <1>3, OctetsFacts
  <1>7. Value(Octets(x, f)) = x
    BY <1>3, <1>5, ValueOfOctets
  <1> QED  BY <1>2, <1>3, <1>5, <1>6, <1>7

(* The fixed form is read back, and only from its own bytes.                *)
LEMMA FixedRead ==
    ASSUME NEW K, IsCurve(K), NEW g \in Sigs(K)
    PROVE  /\ from_slice(K, to_bytes(K, g)) = {g}
           /\ IsOctets(to_bytes(K, g)) /\ Len(to_bytes(K, g)) = 2 * K.FB
  <1>1. g.r \in Scalars(K) /\ g.s \in Scalars(K) /\ g = [r |-> g.r, s |-> g.s]
    BY DEF Sigs
  <1>2. PICK a, b : a = Octets(g.r, K.FB) /\ b = Octets(g.s, K.FB)
    OBVIOUS
  <1>3. /\ IsOctets(a) /\ Len(a) = K.FB /\ Value(a) = g.r /\ g.r \in Nat /\ K.FB \in Nat
        /\ IsOctets(b) /\ Len(b) = K.FB /\ Value(b) = g.s /\ g.s \in Nat
    BY <1>1, <1>2, ScalarBytes
  <1>4. from_slice(K, a \o b) = from_scalars(K, g.r, g.s)
    BY <1>3, FromSlice
  <1>5. from_scalars(K, g.r, g.s) = {g}
    BY <1>1, <1>3, FromScalars
  <1>6. IsOctets(a \o b) /\ Len(a \o b) = Len(a) + Len(b)
    BY <1>3, OctetsConcat
  <1>7. to_bytes(K, g) = a \o b
    BY <1>2 DEF to_bytes
  <1>8. K.FB + K.FB = 2 * K.FB
    BY <1>3
  <1> QED  BY <1>3, <1>4, <1>5, <1>6, <1>7, <1>8

(* What from_slice reads is written back to the same bytes.                 *)
LEMMA FixedIs ==
    ASSUME NEW K, IsCurve(K), NEW a, IsOctets(a), NEW g \in from_slice(K, a)
    PROVE  g \in Sigs(K) /\ a = to_bytes(K, g)
  <1>1. K.FB \in Nat /\ K.FB >= 1
    BY DEF IsCurve
  <1>2. PICK f \in Nat : f = K.FB
    BY <1>1
  <1>3. PICK u, v : u = SubSeq(a, 1, f) /\ v = SubSeq(a, f + 1, 2 * f)
    OBVIOUS
  <1>4. Len(a) = 2 * f /\ g \in from_scalars(K, Value(u), Value(v))
    BY <1>2, <1>3 DEF from_slice
  <1>5. IsOctets(u) /\ Len(u) = f /\ IsOctets(v) /\ Len(v) = f /\ At(a, 1, u) /\ At(a, f + 1, v)
    <2>1. /\ f <= Len(a) /\ 1 <= f + 1 /\ f - 1 + 1 = f /\ 1 \in Nat
          /\ f + 1 \in Nat /\ 2 * f \in Nat /\ f + 1 >= 1 /\ 2 * f <= Len(a) /\ f + 1 <= 2 * f + 1
          /\ 2 * f - (f + 1) + 1 = f
      BY <1>4
    <2>2. IsOctets(u) /\ Len(u) = f - 1 + 1 /\ At(a, 1, u)
      BY <1>3, <2>1, OctetsPart, PartAt
    <2>3. IsOctets(v) /\ Len(v) = 2 * f - (f + 1) + 1 /\ At(a, f + 1, v)
      BY <1>3, <2>1, OctetsPart, PartAt
    <2> QED  BY <2>1, <2>2, <2>3
  <1>6. a = u \o v
    <2>1. 1 \in Nat /\ 1 + f = f + 1 /\ f + f = 2 * f
      OBVIOUS
    <2>2. At(a, 1, u \o v)
      BY <1>5, <2>1, AtConcat
    <2>3. IsOctets(u \o v) /\ Len(u \o v) = Len(u) + Len(v)
      BY <1>5, OctetsConcat
    <2>4. Len(u \o v) = Len(a)
      BY <1>4, <1>5, <2>1, <2>3
    <2> QED  BY <2>2, <2>3, <2>4, AtAll
  <1>7. Value(u) \in Nat /\ Value(v) \in Nat
    BY <1>5, OctetsOfValue
  <1>8. g = [r |-> Value(u), s |-> Value(v)] /\ g \in Sigs(K)
    BY <1>4, <1>7, FromScalars
  <1>9. Octets(Value(u), f) = u /\ Octets(Value(v), f) = v
    BY <1>5, OctetsOfValue
  <1>10. to_bytes(K, g) = u \o v
    BY <1>2, <1>8, <1>9 DEF to_bytes
  <1> QED  BY <1>6, <1>8, <1>10
-----------------------------------------------------------------------------
(* A SEQUENCE of two INTEGERs.                                              *)
Der(b, c) == <<SEQUENCE, Len(Tlv(b) \o Tlv(c))>> \o (Tlv(b) \o Tlv(c))

(* A SEQUENCE of two INTEGERs, in terms of its parts.                       *)
LEMMA DerIs ==
    ASSUME NEW b, IsOctets(b), Len(b) >= 1, Len(b) <= 61,
           NEW c, IsOctets(c), Len(c) >= 1, Len(c) <= 61
    PROVE  /\ IsOctets(Der(b, c)) /\ Len(Der(b, c)) = 6 + Len(b) + Len(c)
           /\ \A a : IsOctets(a) =>
                (a = Der(b, c) <=> /\ Len(a) = 6 + Len(b) + Len(c)
                                   /\ a[1] = 48 /\ a[2] = Len(a) - 2
                                   /\ At(a, 3, Tlv(b)) /\ At(a, 5 + Len(b), Tlv(c)))
  <1>1. PICK l \in Nat, m \in Nat : l = Len(b) /\ m = Len(c)
    BY OctetsShape
  <1>2. l <= 61 /\ m <= 61 /\ Len(b) <= 127 /\ Len(c) <= 127
    <2>1. l <= 61 /\ m <= 61
      BY <1>1
    <2>2. l <= 127 /\ m <= 127
      BY ONLY l \in Nat, m \in Nat, <2>1
    <2> QED  BY <1>1, <2>1, <2>2
  <1>3. PICK u, v : u = Tlv(b) /\ v = Tlv(c)
    OBVIOUS
  <1>4. IsOctets(u) /\ Len(u) = 2 + l /\ IsOctets(v) /\ Len(v) = 2 + m
    BY <1>1, <1>2, <1>3, TlvFacts
  <1>5. IsOctets(u \o v) /\ Len(u \o v) = Len(u) + Len(v)
    BY <1>4, OctetsConcat
  <1>6. PICK t \in Nat : t = 4 + l + m
    OBVIOUS
  <1>7. Len(u \o v) = t
    BY <1>4, <1>5, <1>6
  <1>8. PICK h : h = <<48, t>>
    OBVIOUS
  <1>9. IsOctets(h) /\ Len(h) = 2 /\ h[1] = 48 /\ h[2] = t
    <2>1. t \in 0 .. 255 /\ 48 \in 0 .. 255
      BY ONLY l \in Nat, m \in Nat, t \in Nat, <1>2, <1>6
    <2> DEFINE S == 0 .. 255
    <2> HIDE DEF S
    <2>2. <<48, t>> \in Seq(S)
      BY <2>1 DEF S
    <2>3. IsOctets(h)
      BY <1>8, <2>2 DEF IsOctets, S
    <2>4. Len(h) = 2 /\ h[1] = 48 /\ h[2] = t
      BY <1>8
    <2> QED  BY <2>3, <2>4
  <1>10. PICK w : w = u \o v
    OBVIOUS
  <1>11. Der(b, c) = h \o w
    BY <1>3, <1>7, <1>8, <1>10 DEF Der, SEQUENCE
  <1>12. IsOctets(h \o w) /\ Len(h \o w) = Len(h) + Len(w)
    BY <1>5, <1>9, <1>10, OctetsConcat
  <1>13. Len(h \o w) = 6 + l + m /\ Len(h) + Len(w) = t + 2
    <2>1. Len(w) = t /\ Len(h) = 2
      BY <1>7, <1>9, <1>10
    <2>2. 2 + t = 6 + l + m /\ 2 + t = t + 2
      BY <1>6
    <2> QED  BY <1>12, <2>1, <2>2
  <1>14. ASSUME NEW a, IsOctets(a)
         PROVE  a = h \o w <=> /\ Len(a) = 6 + l + m
                               /\ a[1] = 48 /\ a[2] = Len(a) - 2
                               /\ At(a, 3, u) /\ At(a, 5 + l, v)
    <2>0. PICK n \in Nat : n = Len(a)
      BY <1>14, OctetsShape
    <2>1. a = h \o w <=> n = 6 + l + m /\ At(a, 1, h \o w)
      <3>1. CASE n = 6 + l + m
        BY <1>12, <1>13, <1>14, <2>0, <3>1, AtAll
      <3>2. CASE n # 6 + l + m
        BY <1>13, <2>0, <3>2
      <3> QED  BY <3>1, <3>2
    <2>2. At(a, 1, h \o w) <=> At(a, 1, h) /\ At(a, 3, w)
      <3>1. 1 \in Nat /\ 1 + 2 = 3 /\ 1 >= 1
        OBVIOUS
      <3>2. IsOctets(w)
        BY <1>5, <1>10
      <3>3. At(a, 1, h \o w) <=> At(a, 1, h) /\ At(a, 1 + Len(h), w)
        BY <1>9, <1>14, <3>1, <3>2, AtConcat
      <3> QED  BY <1>9, <3>1, <3>3
    <2>3. At(a, 3, w) <=> At(a, 3, u) /\ At(a, 5 + l, v)
      <3>1. 3 \in Nat /\ 3 >= 1 /\ 3 + (2 + l) = 5 + l
        OBVIOUS
      <3>2. At(a, 3, u \o v) <=> At(a, 3, u) /\ At(a, 3 + Len(u), v)
        BY <1>4, <1>14, <3>1, AtConcat
      <3> QED  BY <1>4, <1>10, <3>1, <3>2
    <2>4. n = 6 + l + m => (At(a, 1, h) <=> a[1] = 48 /\ a[2] = n - 2)
      <3> HAVE n = 6 + l + m
      <3>1. 1 - 1 + 2 <= n /\ 1 - 1 + 1 = 1 /\ 1 - 1 + 2 = 2 /\ n - 2 = t
        BY <1>6
      <3>2. At(a, 1, h) <=> \A i \in 1 .. 2 : a[1 - 1 + i] = h[i]
        BY <1>9, <2>0, <3>1 DEF At
      <3>3. \A i \in 1 .. 2 : i = 1 \/ i = 2
        OBVIOUS
      <3>4. (\A i \in 1 .. 2 : a[1 - 1 + i] = h[i]) <=> a[1] = 48 /\ a[2] = t
        <4>1. ASSUME \A i \in 1 .. 2 : a[1 - 1 + i] = h[i]  PROVE a[1] = 48 /\ a[2] = t
          <5>1. 1 \in 1 .. 2 /\ 2 \in 1 .. 2
            OBVIOUS
          <5>2. a[1 - 1 + 1] = h[1] /\ a[1 - 1 + 2] = h[2]
            BY <4>1, <5>1
          <5> QED  BY <1>9, <3>1, <5>2
        <4>2. ASSUME a[1] = 48 /\ a[2] = t  PROVE \A i \in 1 .. 2 : a[1 - 1 + i] = h[i]
          BY <1>9, <3>1, <3>3, <4>2
        <4> QED  BY <4>1, <4>2
      <3> QED  BY <3>1, <3>2, <3>4
    <2> QED  BY <2>0, <2>1, <2>2, <2>3, <2>4
  <1> QED  BY <1>1, <1>3, <1>11, <1>12, <1>13, <1>14

(* The DER form of a signature has these parts.                             *)
LEMMA DerParts ==
    ASSUME NEW K, IsCurve(K), NEW g \in Sigs(K)
    PROVE  \E b, c : /\ IsOctets(b) /\ Minimal(b) /\ Value(b) = g.r
                     /\ Len(b) >= 1 /\ Len(b) <= K.FB + 1 /\ Len(Stripped(b)) <= K.FB
                     /\ IsOctets(c) /\ Minimal(c) /\ Value(c) = g.s
                     /\ Len(c) >= 1 /\ Len(c) <= K.FB + 1 /\ Len(Stripped(c)) <= K.FB
                     /\ to_der(g) = Der(b, c)
  <1>1. g.r \in Scalars(K) /\ g.s \in Scalars(K)
    BY DEF Sigs
  <1>2. PICK f \in Nat : f = K.FB
    BY <1>1, ScalarBytes
  <1>3. PICK r \in Nat, s \in Nat :
            r = g.r /\ s = g.s /\ r > 0 /\ s > 0 /\ r < Pow8(f) /\ s < Pow8(f)
    BY <1>1, <1>2, ScalarBytes
  <1>4. PICK b : /\ IsOctets(b) /\ Minimal(b) /\ Value(b) = r
                 /\ Len(b) <= f + 1 /\ Len(Stripped(b)) <= f
    BY <1>3, EncodeMinimal
  <1>5. PICK c : /\ IsOctets(c) /\ Minimal(c) /\ Value(c) = s
                 /\ Len(c) <= f + 1 /\ Len(Stripped(c)) <= f
    BY <1>3, EncodeMinimal
  <1>6. EncodeUint(r) = Tlv(b)
    <2>1. Value(b) > 0
      BY <1>3, <1>4
    <2>2. EncodeUint(Value(b)) = Tlv(b)
      BY <1>4, <2>1, EncodeIs
    <2> QED  BY <1>4, <2>2
  <1>7. EncodeUint(s) = Tlv(c)
    <2>1. Value(c) > 0
      BY <1>3, <1>5
    <2>2. EncodeUint(Value(c)) = Tlv(c)
      BY <1>5, <2>1, EncodeIs
    <2> QED  BY <1>5, <2>2
  <1>8. to_der(g) = EncodeSequence(<<r, s>>)
    BY <1>3 DEF to_der
  <1>9. to_der(g) = Der(b, c)
    BY <1>6, <1>7, <1>8, EncodePair DEF Der
  <1>10. Len(b) >= 1 /\ Len(c) >= 1
    BY <1>4, <1>5 DEF Minimal
  <1> QED  BY <1>2, <1>3, <1>4, <1>5, <1>9, <1>10

(* The length of a content, from that of its digits.                        *)
LEMMA ShortContent ==
    ASSUME NEW K, IsCurve(K), NEW b, IsOctets(b), Minimal(b), Value(b) > 0, Len(Stripped(b)) <= K.FB
    PROVE  Len(b) >= 1 /\ Len(b) <= 61
  <1>1. K.FB \in 1 .. 60
    BY DEF IsCurve
  <1>2. PICK f \in 1 .. 60 : f = K.FB
    BY <1>1
  <1>3. PICK l \in Nat : l = Len(b)
    BY OctetsShape
  <1>4. Len(Stripped(b)) = IF b[1] = 0 THEN l - 1 ELSE l
    BY <1>3, StrippedFacts
  <1>5. l - 1 <= f
    <2>1. CASE b[1] = 0
      BY <1>2, <1>4, <2>1
    <2>2. CASE b[1] # 0
      <3>1. l <= f
        BY <1>2, <1>4, <2>2
      <3> QED  BY ONLY l \in Nat, f \in 1 .. 60, <3>1
    <2> QED  BY <2>1, <2>2
  <1>6. l <= 61
    BY ONLY l \in Nat, f \in 1 .. 60, <1>2, <1>5
  <1>7. Len(b) >= 1
    BY DEF Minimal
  <1> QED  BY <1>3, <1>6, <1>7

(* The two scalars of a SEQUENCE that DecodeSequence accepts.               *)
LEMMA FromParts ==
    ASSUME NEW K, IsCurve(K), NEW b, IsOctets(b), Len(Stripped(b)) <= K.FB,
           NEW c, IsOctets(c), Len(Stripped(c)) <= K.FB
    PROVE  /\ from_slice(K, pad(K, Stripped(b)) \o pad(K, Stripped(c)))
                = from_scalars(K, Value(b), Value(c))
           /\ Value(b) \in Nat /\ Value(c) \in Nat
  <1>1. PICK u, v : u = Stripped(b) /\ v = Stripped(c)
    OBVIOUS
  <1>2. /\ IsOctets(u) /\ Value(u) = Value(b) /\ Len(u) <= K.FB
        /\ IsOctets(v) /\ Value(v) = Value(c) /\ Len(v) <= K.FB
    BY <1>1, StrippedValue
  <1>3. PICK p, q : p = pad(K, u) /\ q = pad(K, v)
    OBVIOUS
  <1>4. /\ IsOctets(p) /\ Len(p) = K.FB /\ Value(p) = Value(u)
        /\ IsOctets(q) /\ Len(q) = K.FB /\ Value(q) = Value(v)
    BY <1>2, <1>3, PadFacts
  <1>5. from_slice(K, p \o q) = from_scalars(K, Value(p), Value(q))
    BY <1>4, FromSlice
  <1>6. Value(b) \in Nat /\ Value(c) \in Nat
    BY OctetsOfValue
  <1> QED  BY <1>1, <1>2, <1>3, <1>4, <1>5, <1>6

(* DER is read only from the bytes it is written as.                        *)
LEMMA DerRead ==
    ASSUME NEW K, IsCurve(K), NEW a, IsOctets(a), NEW g \in from_der(K, a)
    PROVE  g \in Sigs(K) /\ a = to_der(g)
  <1>1. PICK d \in DecodeSequence(a, 2) :
           LET r == SubSeq(a, d[1][1], d[1][2])
               s == SubSeq(a, d[2][1], d[2][2])
           IN  /\ ~(Len(r) > K.FB \/ Len(s) > K.FB)
               /\ g \in from_slice(K, pad(K, r) \o pad(K, s))
    BY DEF from_der, decode_der
  <1>2. /\ ~(Len(a) < 2 \/ a[1] # SEQUENCE \/ a[2] # Len(a) - 2)
        /\ \E p \in DecodeUint(a, 3) : \E q \in DecodeUint(a, p[2] + 1) :
               d = <<p, q>> /\ q[2] = Len(a)
    BY DecodePair
  <1>3. PICK p \in DecodeUint(a, 3) :
            \E q \in DecodeUint(a, p[2] + 1) : d = <<p, q>> /\ q[2] = Len(a)
    BY <1>2
  <1>4. PICK q \in DecodeUint(a, p[2] + 1) : d = <<p, q>> /\ q[2] = Len(a)
    BY <1>3
  <1>5. 3 \in Nat /\ 3 >= 1
    OBVIOUS
  <1>6. PICK b : /\ IsOctets(b) /\ Minimal(b) /\ Len(b) <= 127 /\ Len(b) >= 1
                 /\ At(a, 3, Tlv(b)) /\ p = Range2(3, b)
    BY <1>5, UintParts
  <1>7. /\ SubSeq(a, p[1], p[2]) = Stripped(b) /\ p[2] = 3 + 1 + Len(b)
    BY <1>5, <1>6, UintRead
  <1>8. PICK i \in Nat : i = p[2] + 1 /\ i = 5 + Len(b) /\ i >= 1
    <2>1. PICK l \in Nat : l = Len(b)
      BY <1>6, OctetsShape
    <2>2. p[2] + 1 = 5 + l /\ 5 + l \in Nat /\ 5 + l >= 1
      BY <1>7, <2>1
    <2> QED  BY <2>1, <2>2
  <1>9. PICK c : /\ IsOctets(c) /\ Minimal(c) /\ Len(c) <= 127 /\ Len(c) >= 1
                 /\ At(a, i, Tlv(c)) /\ q = Range2(i, c)
    <2>1. q \in DecodeUint(a, i)
      BY <1>8
    <2> QED  BY <1>8, <2>1, UintParts
  <1>10. /\ SubSeq(a, q[1], q[2]) = Stripped(c) /\ q[2] = i + 1 + Len(c)
    BY <1>8, <1>9, UintRead
  <1>11. d[1] = p /\ d[2] = q
    BY <1>4
  <1>12. PICK u, v : u = Stripped(b) /\ v = Stripped(c)
    OBVIOUS
  <1>13. ~(Len(u) > K.FB \/ Len(v) > K.FB) /\ g \in from_slice(K, pad(K, u) \o pad(K, v))
    BY <1>1, <1>7, <1>10, <1>11, <1>12
  <1>14. Len(u) <= K.FB /\ Len(v) <= K.FB
    <2>1. Len(u) \in Nat /\ Len(v) \in Nat
      BY <1>6, <1>9, <1>12, StrippedValue, OctetsShape
    <2>2. K.FB \in 1 .. 60
      BY DEF IsCurve
    <2>3. ~(Len(u) > K.FB) /\ ~(Len(v) > K.FB)
      BY <1>13
    <2>4. PICK x \in Nat, y \in Nat, f \in 1 .. 60 : x = Len(u) /\ y = Len(v) /\ f = K.FB
      BY ONLY <2>1, <2>2
    <2>5. ~(x > f) /\ ~(y > f)
      BY ONLY <2>3, <2>4
    <2>6. x <= f /\ y <= f
      BY ONLY x \in Nat, y \in Nat, f \in 1 .. 60, <2>5
    <2> QED  BY ONLY <2>4, <2>6
  <1>15. g \in from_scalars(K, Value(b), Value(c)) /\ Value(b) \in Nat /\ Value(c) \in Nat
    BY <1>6, <1>9, <1>12, <1>13, <1>14, FromParts
  <1>16. g = [r |-> Value(b), s |-> Value(c)] /\ g \in Sigs(K)
    BY <1>15, FromScalars
  <1>17. Value(b) > 0 /\ Value(c) > 0
    <2>1. g.r \in Scalars(K) /\ g.s \in Scalars(K)
      BY <1>16 DEF Sigs
    <2>2. g.r > 0 /\ g.s > 0
      BY <2>1, ScalarBytes
    <2> QED  BY <1>16, <2>2
  <1>18. EncodeUint(g.r) = Tlv(b) /\ EncodeUint(g.s) = Tlv(c)
    BY <1>6, <1>9, <1>16, <1>17, EncodeIs
  <1>19. to_der(g) = Der(b, c)
    BY <1>18, EncodePair DEF Der, to_der
  <1>20. Len(b) <= 61 /\ Len(c) <= 61
    BY <1>6, <1>9, <1>12, <1>14, <1>17, ShortContent
  <1>21. a = Der(b, c)
    <2>1. PICK l \in Nat, m \in Nat, n \in Nat : l = Len(b) /\ m = Len(c) /\ n = Len(a)
      BY <1>6, <1>9, OctetsShape
    <2>2. n = i + 1 + m /\ i = 5 + l
      BY <1>4, <1>8, <1>10, <2>1
    <2>3. n = 6 + l + m
      BY <2>2
    <2>4. a[1] = 48 /\ a[2] = Len(a) - 2
      BY <1>2 DEF SEQUENCE
    <2> QED  BY <1>6, <1>8, <1>9, <1>20, <2>1, <2>3, <2>4, DerIs
  <1> QED  BY <1>16, <1>19, <1>21

(* What is written in DER is read back.                                     *)
LEMMA DerWritten ==
    ASSUME NEW K, IsCurve(K), NEW g \in Sigs(K)
    PROVE  /\ IsOctets(to_der(g)) /\ from_der(K, to_der(g)) = {g}
           /\ Len(to_der(g)) >= 6 /\ Len(to_der(g)) <= 2 * K.FB + 8 /\ Len(to_der(g)) <= 128
           /\ to_der(g)[1] = SEQUENCE /\ to_der(g)[2] = Len(to_der(g)) - 2
  <1>1. PICK b, c : /\ IsOctets(b) /\ Minimal(b) /\ Value(b) = g.r
                    /\ Len(b) >= 1 /\ Len(b) <= K.FB + 1 /\ Len(Stripped(b)) <= K.FB
                    /\ IsOctets(c) /\ Minimal(c) /\ Value(c) = g.s
                    /\ Len(c) >= 1 /\ Len(c) <= K.FB + 1 /\ Len(Stripped(c)) <= K.FB
                    /\ to_der(g) = Der(b, c)
    BY DerParts
  <1>2. PICK l \in Nat, m \in Nat : l = Len(b) /\ m = Len(c)
    BY <1>1, OctetsShape
  <1>3. PICK f \in 1 .. 60 : f = K.FB
    <2>1. K.FB \in 1 .. 60
      BY DEF IsCurve
    <2> QED  BY <2>1
  <1>4. l >= 1 /\ m >= 1 /\ l <= f + 1 /\ m <= f + 1
    BY <1>1, <1>2, <1>3
  <1>5. l <= 61 /\ m <= 61 /\ l <= 127 /\ m <= 127
    BY ONLY l \in Nat, m \in Nat, f \in 1 .. 60, <1>4
  <1>6. PICK a : a = to_der(g)
    OBVIOUS
  <1>7. /\ IsOctets(a) /\ Len(a) = 6 + l + m
        /\ a[1] = 48 /\ a[2] = Len(a) - 2
        /\ At(a, 3, Tlv(b)) /\ At(a, 5 + l, Tlv(c))
    <2>1. a = Der(b, c) /\ Len(b) <= 61 /\ Len(c) <= 61
      BY <1>1, <1>2, <1>5, <1>6
    <2>2. IsOctets(a) /\ Len(a) = 6 + Len(b) + Len(c)
      BY <1>1, <2>1, DerIs
    <2>3. a[1] = 48 /\ a[2] = Len(a) - 2 /\ At(a, 3, Tlv(b)) /\ At(a, 5 + Len(b), Tlv(c))
      <3>1. \A x : IsOctets(x) =>
                (x = Der(b, c) <=> /\ Len(x) = 6 + Len(b) + Len(c)
                                   /\ x[1] = 48 /\ x[2] = Len(x) - 2
                                   /\ At(x, 3, Tlv(b)) /\ At(x, 5 + Len(b), Tlv(c)))
        BY <1>1, <2>1, DerIs
      <3> QED  BY <2>1, <2>2, <3>1
    <2> QED  BY <1>2, <2>2, <2>3
  <1>8. PICK p, q : p = Range2(3, b) /\ q = Range2(5 + l, c)
    OBVIOUS
  <1>9. DecodeUint(a, 3) = {p} /\ p[2] + 1 = 5 + l /\ SubSeq(a, p[1], p[2]) = Stripped(b)
    <2>1. 3 \in Nat /\ 3 >= 1 /\ (3 + 1 + l) + 1 = 5 + l /\ Len(b) <= 127
      BY <1>2, <1>5
    <2>2. /\ DecodeUint(a, 3) = {Range2(3, b)}
          /\ SubSeq(a, Range2(3, b)[1], Range2(3, b)[2]) = Stripped(b)
          /\ Range2(3, b)[2] = 3 + 1 + Len(b)
      <3>1. IsOctets(a) /\ At(a, 3, Tlv(b)) /\ IsOctets(b) /\ Minimal(b)
        BY <1>1, <1>7
      <3> QED  BY <2>1, <3>1, UintRead
    <2> QED  BY <1>2, <1>8, <2>1, <2>2
  <1>10. DecodeUint(a, 5 + l) = {q} /\ q[2] = Len(a) /\ SubSeq(a, q[1], q[2]) = Stripped(c)
    <2>1. 5 + l \in Nat /\ 5 + l >= 1 /\ (5 + l) + 1 + m = 6 + l + m /\ Len(c) <= 127
      BY <1>2, <1>5
    <2>2. PICK i \in Nat : i = 5 + l /\ i >= 1
      BY <2>1
    <2>3. /\ DecodeUint(a, i) = {Range2(i, c)}
          /\ SubSeq(a, Range2(i, c)[1], Range2(i, c)[2]) = Stripped(c)
          /\ Range2(i, c)[2] = i + 1 + Len(c)
      BY <1>1, <1>7, <2>1, <2>2, UintRead, SMTT(40)
    <2> QED  BY <1>2, <1>7, <1>8, <2>1, <2>2, <2>3
  <1>11. DecodeSequence(a, 2) = {<<p, q>>}
    <2>1. ~(Len(a) < 2 \/ a[1] # SEQUENCE \/ a[2] # Len(a) - 2)
      <3>1. ~(6 + l + m < 2)
        OBVIOUS
      <3> QED  BY <1>7, <3>1 DEF SEQUENCE
    <2>2. ASSUME NEW d  PROVE d \in DecodeSequence(a, 2) <=> d = <<p, q>>
      <3>1. d \in DecodeSequence(a, 2)
              <=> \E x \in DecodeUint(a, 3) : \E y \in DecodeUint(a, x[2] + 1) :
                      d = <<x, y>> /\ y[2] = Len(a)
        BY <2>1, DecodePair
      <3> QED  BY <1>9, <1>10, <3>1
    <2> QED  BY <2>2
  <1>12. PICK u, v : u = Stripped(b) /\ v = Stripped(c)
    OBVIOUS
  <1>13. from_slice(K, pad(K, u) \o pad(K, v)) = {g}
    <2>1. /\ from_slice(K, pad(K, u) \o pad(K, v)) = from_scalars(K, g.r, g.s)
          /\ g.r \in Nat /\ g.s \in Nat
      BY <1>1, <1>12, FromParts
    <2>2. g.r \in Scalars(K) /\ g.s \in Scalars(K) /\ g = [r |-> g.r, s |-> g.s]
      BY DEF Sigs
    <2> QED  BY <2>1, <2>2, FromScalars
  <1>14. ~(Len(u) > K.FB \/ Len(v) > K.FB)
    <2>1. Len(u) \in Nat /\ Len(v) \in Nat
      BY <1>1, <1>12, StrippedValue, OctetsShape
    <2> QED  BY <1>1, <1>3, <1>12, <2>1
  <1>15. from_der(K, a) = {g}
    <2> DEFINE One(d) == LET r == SubSeq(a, d[1][1], d[1][2])
                             s == SubSeq(a, d[2][1], d[2][2])
                         IN  IF Len(r) > K.FB \/ Len(s) > K.FB THEN {}
                             ELSE from_slice(K, pad(K, r) \o pad(K, s))
    <2>1. from_der(K, a) = UNION {One(d) : d \in DecodeSequence(a, 2)}
      BY DEF from_der, decode_der
    <2>2. One(<<p, q>>) = {g}
      <3>1. One(<<p, q>>) = IF Len(u) > K.FB \/ Len(v) > K.FB THEN {}
                            ELSE from_slice(K, pad(K, u) \o pad(K, v))
        BY <1>9, <1>10, <1>12
      <3> QED  BY <1>13, <1>14, <3>1
    <2> HIDE DEF One
    <2> QED  BY <1>11, <2>1, <2>2
  <1>16. Len(a) >= 6 /\ Len(a) <= 2 * K.FB + 8 /\ Len(a) <= 128
    <2>1. 6 + l + m >= 6 /\ 6 + l + m <= 2 * f + 8 /\ 6 + l + m <= 128
      BY ONLY l \in Nat, m \in Nat, f \in 1 .. 60, <1>4, <1>5
    <2> QED  BY <1>3, <1>7, <2>1
  <1> QED  BY <1>6, <1>7, <1>15, <1>16 DEF SEQUENCE

(* der::Signature's decoder leaves what follows the announced bytes.        *)
LEMMA DerLeaves ==
    ASSUME NEW K, IsCurve(K), NEW g \in Sigs(K), NEW x \in 0 .. 255
    PROVE  decode(K, Append(to_der(g), x)) = {<<g, <<x>>>>}
  <1> DEFINE S == 0 .. 255
  <1>1. PICK a : a = to_der(g)
    OBVIOUS
  <1>2. /\ IsOctets(a) /\ from_der(K, a) = {g} /\ Len(a) >= 6 /\ Len(a) <= 2 * K.FB + 8
        /\ Len(a) <= 128 /\ a[1] = SEQUENCE /\ a[2] = Len(a) - 2
    BY <1>1, DerWritten
  <1>3. PICK n \in Nat : n = Len(a)
    BY <1>2, OctetsShape
  <1>4. x \in S /\ a \in Seq(S)
    BY <1>2 DEF IsOctets
  <1> HIDE DEF S
  <1>5. PICK w : w = Append(a, x)
    OBVIOUS
  <1>6. w \in Seq(S) /\ Len(w) = n + 1 /\ (\A i \in 1 .. n : w[i] = a[i]) /\ w[n + 1] = x
    BY <1>3, <1>4, <1>5, AppendProperties
  <1>7. IsOctets(w)
    BY <1>6 DEF IsOctets, S
  <1>8. n >= 6 /\ n <= 128
    BY <1>2, <1>3
  <1>9. w[1] = SEQUENCE /\ w[2] = n - 2
    <2>1. 1 \in 1 .. n /\ 2 \in 1 .. n
      BY ONLY n \in Nat, <1>8
    <2> QED  BY <1>2, <1>3, <1>6, <2>1
  <1>10. SubSeq(w, 1, n) = a
    <2>1. At(w, 1, a)
      <3>1. 1 - 1 + n <= n + 1 /\ \A i \in 1 .. n : 1 - 1 + i = i
        OBVIOUS
      <3> QED  BY <1>3, <1>6, <3>1 DEF At
    <2>2. 1 \in Nat /\ 1 >= 1 /\ 1 + n - 1 = n
      OBVIOUS
    <2>3. SubSeq(w, 1, 1 + Len(a) - 1) = a
      BY <1>2, <1>7, <2>1, <2>2, AtPart
    <2> QED  BY <1>3, <2>2, <2>3
  <1>11. SubSeq(w, n + 1, Len(w)) = <<x>>
    <2>1. PICK t : t = <<x>>
      OBVIOUS
    <2>2. IsOctets(t) /\ Len(t) = 1 /\ t[1] = x
      <3>1. t \in Seq(S) /\ Len(t) = 1 /\ t[1] = x
        BY <1>4, <2>1
      <3> QED  BY <3>1 DEF IsOctets, S
    <2>3. At(w, n + 1, t)
      <3>1. n + 1 - 1 + 1 <= n + 1 /\ n + 1 - 1 + 1 = n + 1 /\ \A i \in 1 .. 1 : i = 1
        OBVIOUS
      <3> QED  BY <1>6, <2>2, <3>1 DEF At
    <2>4. n + 1 \in Nat /\ n + 1 >= 1 /\ n + 1 + 1 - 1 = n + 1
      OBVIOUS
    <2>5. SubSeq(w, n + 1, n + 1 + Len(t) - 1) = t
      BY <1>7, <2>2, <2>3, <2>4, AtPart
    <2> QED  BY <1>6, <2>1, <2>2, <2>4, <2>5
  <1>12. n <= MaxSize(K)
    <2>1. K.FB \in 1 .. 60
      BY DEF IsCurve
    <2>2. PICK f \in 1 .. 60 : f = K.FB
      BY ONLY <2>1
    <2>3. n <= 2 * f + 8
      BY <1>2, <1>3, <2>2
    <2>4. n <= 2 * f + 9
      BY ONLY n \in Nat, f \in 1 .. 60, <2>3
    <2> QED  BY <2>2, <2>4 DEF MaxSize
  <1>13. 2 + (n - 2) = n /\ ~(n + 1 < 2) /\ ~(n - 2 >= 128) /\ ~(n > n + 1)
    BY ONLY n \in Nat, <1>8
  <1>14. ~(n > MaxSize(K))
    <2>1. K.FB \in 1 .. 60
      BY DEF IsCurve
    <2>2. PICK f \in 1 .. 60 : f = K.FB
      BY ONLY <2>1
    <2>3. n <= 2 * f + 9 /\ MaxSize(K) = 2 * f + 9
      BY <1>12, <2>2 DEF MaxSize
    <2>4. ~(n > 2 * f + 9)
      BY ONLY n \in Nat, f \in 1 .. 60, <2>3
    <2> QED  BY <2>3, <2>4
  <1>15. decode(K, w) = {<<h, SubSeq(w, n + 1, Len(w))>> : h \in from_der(K, SubSeq(w, 1, n))}
    BY <1>6, <1>9, <1>13, <1>14 DEF decode
  <1>16. decode(K, w) = {<<h, <<x>>>> : h \in {g}}
    BY <1>2, <1>10, <1>11, <1>15
  <1> QED  BY <1>1, <1>5, <1>16
-----------------------------------------------------------------------------
(* Every position of 2n characters is one of the two of a byte.             *)
LEMMA HalfIndex ==
    ASSUME NEW n \in Nat
    PROVE  /\ \A j \in 1 .. n : /\ 2 * j - 1 \in 1 .. 2 * n /\ 2 * j \in 1 .. 2 * n
                                /\ (2 * j - 1) % 2 = 1 /\ ((2 * j - 1) + 1) \div 2 = j
                                /\ (2 * j) % 2 # 1 /\ (2 * j) \div 2 = j
           /\ \A i \in 1 .. 2 * n : \E j \in 1 .. n : i = 2 * j - 1 \/ i = 2 * j
           /\ (2 * n) \div 2 = n /\ (2 * n) % 2 # 1
  <1>1. ASSUME NEW j \in 1 .. n
        PROVE  /\ 2 * j - 1 \in 1 .. 2 * n /\ 2 * j \in 1 .. 2 * n
               /\ (2 * j - 1) % 2 = 1 /\ ((2 * j - 1) + 1) \div 2 = j
               /\ (2 * j) % 2 # 1 /\ (2 * j) \div 2 = j
    OBVIOUS
  <1>2. ASSUME NEW i \in 1 .. 2 * n  PROVE \E j \in 1 .. n : i = 2 * j - 1 \/ i = 2 * j
    <2>1. (i + 1) \div 2 \in 1 .. n
      OBVIOUS
    <2>2. i = 2 * ((i + 1) \div 2) - 1 \/ i = 2 * ((i + 1) \div 2)
      OBVIOUS
    <2> QED  BY <2>1, <2>2
  <1>3. (2 * n) \div 2 = n /\ (2 * n) % 2 # 1
    OBVIOUS
  <1> QED  BY <1>1, <1>2, <1>3

(* A digit means its value, and a character that means one is its digit, in *)
(* one case or the other.                                                   *)
LEMMA HexDigits ==
    /\ \A v \in 0 .. 15, letter \in {65, 97} :
           HexDigit(v, letter) \in 0 .. 127 /\ HexValue(HexDigit(v, letter)) = {v}
    /\ \A x \in 0 .. 127 : \A v : HexValue(x) = {v} =>
           /\ v \in 0 .. 15 /\ x \in Digits \cup Upper \cup Lower
           /\ HexDigit(v, 65) = IF x \in Lower THEN x - 32 ELSE x
    /\ \A x \in 0 .. 127 : HexValue(x) # {} => \E v \in 0 .. 15 : HexValue(x) = {v}
  <1>1. ASSUME NEW v \in 0 .. 15, NEW letter \in {65, 97}
        PROVE  HexDigit(v, letter) \in 0 .. 127 /\ HexValue(HexDigit(v, letter)) = {v}
    <2>1. CASE v < 10
      <3>1. /\ HexDigit(v, letter) = 48 + v /\ 48 + v \in Digits
            /\ 48 + v \in 0 .. 127 /\ (48 + v) - 48 = v
        BY <2>1 DEF HexDigit, Digits
      <3> QED  BY <3>1 DEF HexValue
    <2>2. CASE ~(v < 10) /\ letter = 65
      <3>1. HexDigit(v, letter) = 65 + v - 10
        BY <2>2 DEF HexDigit
      <3>2. PICK x : /\ x = 65 + v - 10 /\ x \notin 48 .. 57 /\ x \in 65 .. 70
                     /\ x - 55 = v /\ x \in 0 .. 127
        BY <2>2
      <3> QED  BY <3>1, <3>2 DEF HexValue, Digits
    <2>3. CASE ~(v < 10) /\ letter = 97
      <3>1. HexDigit(v, letter) = 97 + v - 10
        BY <2>3 DEF HexDigit
      <3>2. PICK x : /\ x = 97 + v - 10 /\ x \notin 48 .. 57 /\ x \notin 65 .. 70 /\ x \in 97 .. 102
                     /\ x - 87 = v /\ x \in 0 .. 127
        BY <2>3
      <3> QED  BY <3>1, <3>2 DEF HexValue, Digits
    <2> QED  BY <2>1, <2>2, <2>3
  <1>2. ASSUME NEW x \in 0 .. 127, NEW v, HexValue(x) = {v}
        PROVE  /\ v \in 0 .. 15 /\ x \in Digits \cup Upper \cup Lower
               /\ HexDigit(v, 65) = IF x \in Lower THEN x - 32 ELSE x
    <2>1. CASE x \in 48 .. 57
      <3>1. HexValue(x) = {x - 48}
        BY <2>1 DEF HexValue, Digits
      <3>2. v = x - 48
        BY <1>2, <3>1
      <3>3. v \in 0 .. 15 /\ v < 10 /\ 48 + v = x /\ x \notin 97 .. 122
        BY <2>1, <3>2
      <3> QED  BY <2>1, <3>3 DEF HexDigit, Digits, Lower
    <2>2. CASE x \in 65 .. 70
      <3>0. x \notin 48 .. 57
        BY <2>2
      <3>1. HexValue(x) = {x - 55}
        BY <2>2, <3>0 DEF HexValue, Digits
      <3>2. v = x - 55
        BY <1>2, <3>1
      <3>3. v \in 0 .. 15 /\ ~(v < 10) /\ 65 + v - 10 = x /\ x \notin 97 .. 122 /\ x \in 65 .. 90
        BY <2>2, <3>2
      <3> QED  BY <3>3 DEF HexDigit, Upper, Lower
    <2>3. CASE x \in 97 .. 102
      <3>0. x \notin 48 .. 57 /\ x \notin 65 .. 70
        BY <2>3
      <3>1. HexValue(x) = {x - 87}
        BY <2>3, <3>0 DEF HexValue, Digits
      <3>2. v = x - 87
        BY <1>2, <3>1
      <3>3. v \in 0 .. 15 /\ ~(v < 10) /\ 65 + v - 10 = x - 32 /\ x \in 97 .. 122
        BY <2>3, <3>2
      <3> QED  BY <3>3 DEF HexDigit, Lower
    <2>4. CASE x \notin 48 .. 57 /\ x \notin 65 .. 70 /\ x \notin 97 .. 102
      <3>1. HexValue(x) = {}
        BY <2>4 DEF HexValue, Digits
      <3> QED  BY <1>2, <3>1
    <2> QED  BY <2>1, <2>2, <2>3, <2>4
  <1>3. ASSUME NEW x \in 0 .. 127, HexValue(x) # {}
        PROVE  \E v \in 0 .. 15 : HexValue(x) = {v}
    <2>1. \E v : HexValue(x) = {v}
      BY <1>3 DEF HexValue
    <2> QED  BY <1>2, <2>1
  <1> QED  BY <1>1, <1>2, <1>3

(* A string of ASCII characters.                                            *)
IsText(text) == text \in Seq(0 .. 127)

(* Two digits, of either case, for each byte.                               *)
Spells(text, b) ==
    /\ Len(text) = 2 * Len(b)
    /\ \A j \in 1 .. Len(b) : /\ HexValue(text[2 * j - 1]) = {b[j] \div 16}
                              /\ HexValue(text[2 * j]) = {b[j] % 16}

(* A text is a function from positions to characters.                       *)
LEMMA TextShape ==
    ASSUME NEW t, IsText(t)
    PROVE  Len(t) \in Nat /\ DOMAIN t = 1 .. Len(t) /\ \A i \in 1 .. Len(t) : t[i] \in 0 .. 127
  <1>1. t \in Seq(0 .. 127)
    BY DEF IsText
  <1>2. Len(t) \in Nat /\ DOMAIN t = 1 .. Len(t)
    BY <1>1
  <1>3. ASSUME NEW i \in 1 .. Len(t)  PROVE t[i] \in 0 .. 127
    BY <1>1, <1>3, ElementOfSeq
  <1> QED  BY <1>2, <1>3

(* A byte is its two digits.                                                *)
LEMMA Nibbles ==
    ASSUME NEW v \in 0 .. 255
    PROVE  v \div 16 \in 0 .. 15 /\ v % 16 \in 0 .. 15 /\ 16 * (v \div 16) + (v % 16) = v
  OBVIOUS

(* Two digits make a byte.                                                  *)
LEMMA FromNibbles ==
    ASSUME NEW u \in 0 .. 15, NEW v \in 0 .. 15
    PROVE  /\ 16 * u + v \in 0 .. 255
           /\ (16 * u + v) \div 16 = u /\ (16 * u + v) % 16 = v
  OBVIOUS

(* Text that spells bytes is decoded to them.                               *)
LEMMA MixedWritten ==
    ASSUME NEW text, IsText(text), NEW b, IsOctets(b), Spells(text, b)
    PROVE  mixed_decode(text) = {b}
  <1> DEFINE value(i) == CHOOSE v \in HexValue(text[i]) : TRUE
  <1>1. PICK n \in Nat : n = Len(b)
    BY OctetsShape
  <1>2. Len(text) = 2 * n /\ DOMAIN text = 1 .. 2 * n
    BY <1>1, TextShape DEF Spells
  <1>3. (2 * n) \div 2 = n /\ ~((2 * n) % 2 = 1)
    BY HalfIndex
  <1>4. ASSUME NEW j \in 1 .. n
        PROVE  /\ HexValue(text[2 * j - 1]) = {b[j] \div 16} /\ HexValue(text[2 * j]) = {b[j] % 16}
    BY <1>1, <1>4 DEF Spells
  <1>5. ASSUME NEW i \in DOMAIN text  PROVE HexValue(text[i]) # {}
    <2>1. PICK j \in 1 .. n : i = 2 * j - 1 \/ i = 2 * j
      BY <1>2, <1>5, HalfIndex
    <2>2. CASE i = 2 * j - 1
      BY <1>4, <2>1, <2>2
    <2>3. CASE i = 2 * j
      BY <1>4, <2>1, <2>3
    <2> QED  BY <2>1, <2>2, <2>3
  <1>6. ASSUME NEW j \in 1 .. n
        PROVE  16 * value(2 * j - 1) + value(2 * j) = b[j]
    <2>1. value(2 * j - 1) = b[j] \div 16 /\ value(2 * j) = b[j] % 16
      <3>1. HexValue(text[2 * j - 1]) = {b[j] \div 16} /\ HexValue(text[2 * j]) = {b[j] % 16}
        BY <1>4, <1>6
      <3>2. \A S, v : S = {v} => (CHOOSE u \in S : TRUE) = v
        OBVIOUS
      <3> QED  BY <3>1, <3>2
    <2>2. b[j] \in 0 .. 255
      BY <1>1, <1>6, OctetsShape
    <2> HIDE DEF value
    <2>3. 16 * (b[j] \div 16) + (b[j] % 16) = b[j]
      BY <2>2, Nibbles
    <2> QED  BY <2>1, <2>3
  <1>7. mixed_decode(text) = {[j \in 1 .. n |-> 16 * value(2 * j - 1) + value(2 * j)]}
    BY <1>2, <1>3, <1>5 DEF mixed_decode
  <1> HIDE DEF value
  <1>8. [j \in 1 .. n |-> 16 * value(2 * j - 1) + value(2 * j)] = [j \in 1 .. n |-> b[j]]
    BY <1>6
  <1>9. [j \in 1 .. n |-> b[j]] = b
    <2>1. b \in Seq(0 .. 255) /\ DOMAIN b = 1 .. n
      BY <1>1, OctetsShape DEF IsOctets
    <2> QED  BY <2>1
  <1> QED  BY <1>7, <1>8, <1>9

(* And what is decoded is spelled by the text.                              *)
LEMMA MixedRead ==
    ASSUME NEW text, IsText(text), NEW b \in mixed_decode(text)
    PROVE  IsOctets(b) /\ Spells(text, b)
  <1> DEFINE value(i) == CHOOSE v \in HexValue(text[i]) : TRUE
             W(n) == [j \in 1 .. n |-> 16 * value(2 * j - 1) + value(2 * j)]
  <1>1. PICK l \in Nat : l = Len(text) /\ DOMAIN text = 1 .. l
    BY TextShape
  <1>2. /\ ~(l % 2 = 1) /\ (\A i \in 1 .. l : HexValue(text[i]) # {})
        /\ b = W(l \div 2)
    BY <1>1 DEF mixed_decode
  <1>3. PICK n \in Nat : n = l \div 2 /\ l = 2 * n
    <2>1. l \div 2 \in Nat /\ l = 2 * (l \div 2)
      BY <1>1, <1>2
    <2> QED  BY <2>1
  <1>4. ASSUME NEW i \in 1 .. l  PROVE value(i) \in 0 .. 15 /\ HexValue(text[i]) = {value(i)}
    <2>1. text[i] \in 0 .. 127 /\ HexValue(text[i]) # {}
      BY <1>1, <1>2, <1>4, TextShape
    <2>2. PICK v \in 0 .. 15 : HexValue(text[i]) = {v}
      BY <2>1, HexDigits
    <2>3. value(i) = v
      BY <2>2
    <2> HIDE DEF value
    <2> QED  BY <2>2, <2>3
  <1> HIDE DEF value
  <1>5. ASSUME NEW j \in 1 .. n
        PROVE  /\ 16 * value(2 * j - 1) + value(2 * j) \in 0 .. 255
               /\ (16 * value(2 * j - 1) + value(2 * j)) \div 16 = value(2 * j - 1)
               /\ (16 * value(2 * j - 1) + value(2 * j)) % 16 = value(2 * j)
               /\ HexValue(text[2 * j - 1]) = {value(2 * j - 1)}
               /\ HexValue(text[2 * j]) = {value(2 * j)}
    <2>1. 2 * j - 1 \in 1 .. l /\ 2 * j \in 1 .. l
      BY <1>3, <1>5, HalfIndex
    <2>2. value(2 * j - 1) \in 0 .. 15 /\ value(2 * j) \in 0 .. 15
      BY <1>4, <2>1
    <2>3. PICK u \in 0 .. 15, v \in 0 .. 15 : u = value(2 * j - 1) /\ v = value(2 * j)
      BY <2>2
    <2>4. 16 * u + v \in 0 .. 255 /\ (16 * u + v) \div 16 = u /\ (16 * u + v) % 16 = v
      BY <2>3, FromNibbles
    <2>5. /\ HexValue(text[2 * j - 1]) = {value(2 * j - 1)}
          /\ HexValue(text[2 * j]) = {value(2 * j)}
      BY <1>4, <2>1
    <2> QED  BY <2>3, <2>4, <2>5
  <1>6. b = W(n)
    BY <1>2, <1>3
  <1>7. \A j \in 1 .. n : b[j] = 16 * value(2 * j - 1) + value(2 * j)
    BY <1>6
  <1>8. b \in [1 .. n -> 0 .. 255]
    BY <1>5, <1>6
  <1>9. b \in Seq(0 .. 255) /\ Len(b) = n
    <2> DEFINE S == 0 .. 255
    <2> HIDE DEF S, W
    <2>1. b \in [1 .. n -> S]
      BY <1>8 DEF S
    <2>2. b \in Seq(S) /\ Len(b) = n
      BY <1>3, <2>1
    <2> QED  BY <2>2 DEF S
  <1> HIDE DEF W
  <1>10. ASSUME NEW j \in 1 .. n
         PROVE  HexValue(text[2 * j - 1]) = {b[j] \div 16} /\ HexValue(text[2 * j]) = {b[j] % 16}
    <2>1. b[j] = 16 * value(2 * j - 1) + value(2 * j)
      BY <1>7, <1>10
    <2> QED  BY <1>5, <1>10, <2>1
  <1> QED  BY <1>1, <1>3, <1>9, <1>10 DEF IsOctets, Spells

(* Written digits spell the bytes.                                          *)
LEMMA HexSpells ==
    ASSUME NEW b, IsOctets(b), NEW letter \in {65, 97}
    PROVE  IsText(Hex(b, letter)) /\ Spells(Hex(b, letter), b)
  <1> DEFINE D(i) == HexDigit(IF i % 2 = 1 THEN b[(i + 1) \div 2] \div 16 ELSE b[i \div 2] % 16,
                              letter)
  <1>1. PICK n \in Nat : n = Len(b) /\ \A j \in 1 .. n : b[j] \in 0 .. 255
    BY OctetsShape, SMTT(40)
  <1>0. ASSUME NEW v \in 0 .. 15
        PROVE  HexDigit(v, letter) \in 0 .. 127 /\ HexValue(HexDigit(v, letter)) = {v}
    <2>1. \A w \in 0 .. 15, l \in {65, 97} :
             HexDigit(w, l) \in 0 .. 127 /\ HexValue(HexDigit(w, l)) = {w}
      BY ONLY HexDigits
    <2> QED  BY <2>1
  <1>2. PICK t : t = Hex(b, letter)
    OBVIOUS
  <1>3. t = [i \in 1 .. 2 * n |-> D(i)]
    BY <1>1, <1>2 DEF Hex
  <1>4. ASSUME NEW j \in 1 .. n
        PROVE  /\ b[j] \div 16 \in 0 .. 15 /\ b[j] % 16 \in 0 .. 15
               /\ D(2 * j - 1) = HexDigit(b[j] \div 16, letter)
               /\ D(2 * j) = HexDigit(b[j] % 16, letter)
    <2>1. b[j] \in 0 .. 255
      BY <1>1
    <2>2. /\ (2 * j - 1) % 2 = 1 /\ ((2 * j - 1) + 1) \div 2 = j
          /\ (2 * j) % 2 # 1 /\ (2 * j) \div 2 = j
      BY <1>4, HalfIndex
    <2> QED  BY <2>1, <2>2, Nibbles
  <1> HIDE DEF D
  <1>5. ASSUME NEW i \in 1 .. 2 * n  PROVE D(i) \in 0 .. 127
    <2>1. PICK j \in 1 .. n : i = 2 * j - 1 \/ i = 2 * j
      BY <1>5, HalfIndex
    <2>2. CASE i = 2 * j - 1
      <3>1. PICK v \in 0 .. 15 : v = b[j] \div 16 /\ D(2 * j - 1) = HexDigit(v, letter)
        BY <1>4, <2>1
      <3> QED  BY <1>0, <2>2, <3>1
    <2>3. CASE i = 2 * j
      <3>1. PICK v \in 0 .. 15 : v = b[j] % 16 /\ D(2 * j) = HexDigit(v, letter)
        BY <1>4, <2>1
      <3> QED  BY <1>0, <2>3, <3>1
    <2> QED  BY <2>1, <2>2, <2>3
  <1>6. IsText(t) /\ Len(t) = 2 * n
    <2> DEFINE S == 0 .. 127
    <2>1. \A i \in 1 .. 2 * n : D(i) \in S
      BY <1>5
    <2> HIDE DEF S
    <2>2. t \in [1 .. 2 * n -> S]
      BY <1>3, <2>1
    <2>3. 2 * n \in Nat
      OBVIOUS
    <2>4. t \in Seq(S) /\ Len(t) = 2 * n
      BY <2>2, <2>3
    <2> QED  BY <2>4 DEF S, IsText
  <1>7. ASSUME NEW j \in 1 .. n
        PROVE  HexValue(t[2 * j - 1]) = {b[j] \div 16} /\ HexValue(t[2 * j]) = {b[j] % 16}
    <2>1. 2 * j - 1 \in 1 .. 2 * n /\ 2 * j \in 1 .. 2 * n
      BY <1>7, HalfIndex
    <2>2. t[2 * j - 1] = HexDigit(b[j] \div 16, letter) /\ t[2 * j] = HexDigit(b[j] % 16, letter)
      BY <1>3, <1>4, <1>7, <2>1
    <2>3. b[j] \div 16 \in 0 .. 15 /\ b[j] % 16 \in 0 .. 15
      BY <1>4, <1>7
    <2> QED  BY <1>0, <2>2, <2>3
  <1> QED  BY <1>1, <1>2, <1>6, <1>7 DEF Spells

(* Text that spells bytes is their hexadecimal but for case.                *)
LEMMA UpperIs ==
    ASSUME NEW text, IsText(text), NEW b, IsOctets(b), Spells(text, b)
    PROVE  Hex(b, 65) = [i \in DOMAIN text |-> IF text[i] \in Lower THEN text[i] - 32 ELSE text[i]]
  <1> DEFINE U(i) == IF text[i] \in Lower THEN text[i] - 32 ELSE text[i]
             D(i) == HexDigit(IF i % 2 = 1 THEN b[(i + 1) \div 2] \div 16 ELSE b[i \div 2] % 16, 65)
  <1>1. PICK n \in Nat : n = Len(b)
    BY OctetsShape
  <1>2. Len(text) = 2 * n /\ DOMAIN text = 1 .. 2 * n
    BY <1>1, TextShape DEF Spells
  <1>3. ASSUME NEW j \in 1 .. n
        PROVE D(2 * j - 1) = U(2 * j - 1) /\ D(2 * j) = U(2 * j)
    <2>1. /\ (2 * j - 1) % 2 = 1 /\ ((2 * j - 1) + 1) \div 2 = j
          /\ (2 * j) % 2 # 1 /\ (2 * j) \div 2 = j
      BY <1>3, HalfIndex
    <2>2. D(2 * j - 1) = HexDigit(b[j] \div 16, 65) /\ D(2 * j) = HexDigit(b[j] % 16, 65)
      BY <2>1
    <2>3. HexValue(text[2 * j - 1]) = {b[j] \div 16} /\ HexValue(text[2 * j]) = {b[j] % 16}
      BY <1>1, <1>3 DEF Spells
    <2>4. 2 * j - 1 \in 1 .. 2 * n /\ 2 * j \in 1 .. 2 * n
      BY <1>3, HalfIndex
    <2>5. text[2 * j - 1] \in 0 .. 127 /\ text[2 * j] \in 0 .. 127
      BY <1>2, <2>4, TextShape
    <2> HIDE DEF D
    <2>6. HexDigit(b[j] \div 16, 65) = U(2 * j - 1) /\ HexDigit(b[j] % 16, 65) = U(2 * j)
      BY <2>3, <2>5, HexDigits
    <2> QED  BY <2>2, <2>6
  <1>4. Hex(b, 65) = [i \in 1 .. 2 * n |-> D(i)]
    BY <1>1 DEF Hex
  <1> HIDE DEF D, U
  <1>5. ASSUME NEW i \in 1 .. 2 * n  PROVE D(i) = U(i)
    <2>1. PICK j \in 1 .. n : i = 2 * j - 1 \/ i = 2 * j
      BY <1>5, HalfIndex
    <2> QED  BY <1>3, <2>1
  <1>6. [i \in 1 .. 2 * n |-> D(i)] = [i \in DOMAIN text |-> U(i)]
    BY <1>2, <1>5
  <1> QED  BY <1>4, <1>6 DEF U

(* A part of a text.                                                        *)
LEMMA TextPart ==
    ASSUME NEW t, IsText(t), NEW i \in Nat, NEW j \in Nat, i >= 1, j <= Len(t), i <= j + 1
    PROVE  /\ IsText(SubSeq(t, i, j)) /\ Len(SubSeq(t, i, j)) = j - i + 1
           /\ \A m \in 1 .. j - i + 1 : SubSeq(t, i, j)[m] = t[i + m - 1]
  <1> DEFINE S == 0 .. 127
  <1>1. t \in Seq(S) /\ Len(t) \in Nat
    BY TextShape DEF IsText
  <1> HIDE DEF S
  <1>2. \A m \in i .. j : t[m] \in S
    BY <1>1, ElementOfSeq
  <1>3. PICK v : v = SubSeq(t, i, j)
    OBVIOUS
  <1>4. /\ v \in Seq(S) /\ Len(v) = IF i <= j THEN j - i + 1 ELSE 0
        /\ \A m \in 1 .. j - i + 1 : v[m] = t[i + m - 1]
    BY <1>2, <1>3, SubSeqProperties
  <1>5. Len(v) = j - i + 1
    BY <1>4
  <1> QED  BY <1>3, <1>4, <1>5 DEF IsText, S

(* The halves of a text that spells two strings of a length spell each.     *)
LEMMA HalvesSpell ==
    ASSUME NEW text, IsText(text), NEW f \in Nat, Len(text) = 4 * f,
           NEW a, IsOctets(a), Len(a) = f, NEW b, IsOctets(b), Len(b) = f
    PROVE  /\ Spells(text, a \o b)
                <=> Spells(SubSeq(text, 1, 2 * f), a) /\ Spells(SubSeq(text, 2 * f + 1, 4 * f), b)
           /\ IsText(SubSeq(text, 1, 2 * f)) /\ IsText(SubSeq(text, 2 * f + 1, 4 * f))
           /\ Len(SubSeq(text, 1, 2 * f)) = 2 * f /\ Len(SubSeq(text, 2 * f + 1, 4 * f)) = 2 * f
  <1>1. PICK t, u, w : /\ t = SubSeq(text, 1, 2 * f) /\ u = SubSeq(text, 2 * f + 1, 4 * f)
                       /\ w = a \o b
    OBVIOUS
  <1>2. /\ 1 \in Nat /\ 2 * f \in Nat /\ 2 * f + 1 \in Nat /\ 4 * f \in Nat
        /\ 1 <= 2 * f + 1 /\ 2 * f <= 4 * f /\ 2 * f + 1 >= 1 /\ 2 * f + 1 <= 4 * f + 1
        /\ 2 * f - 1 + 1 = 2 * f /\ 4 * f - (2 * f + 1) + 1 = 2 * f
        /\ f + f = 2 * f /\ 4 * f = 2 * (2 * f)
    OBVIOUS
  <1>3. IsText(t) /\ Len(t) = 2 * f /\ \A m \in 1 .. 2 * f : t[m] = text[1 + m - 1]
    BY <1>1, <1>2, TextPart
  <1>4. IsText(u) /\ Len(u) = 2 * f /\ \A m \in 1 .. 2 * f : u[m] = text[2 * f + 1 + m - 1]
    BY <1>1, <1>2, TextPart
  <1>5. /\ Len(w) = 2 * f
        /\ \A j \in 1 .. f : w[j] = a[j] /\ w[f + j] = b[j]
    <2>1. /\ Len(a \o b) = Len(a) + Len(b)
          /\ \A i \in 1 .. Len(a) : (a \o b)[i] = a[i]
          /\ \A i \in 1 .. Len(b) : (a \o b)[Len(a) + i] = b[i]
      BY OctetsConcat, ZenonT(40)
    <2> QED  BY <1>1, <1>2, <2>1
  <1> DEFINE Good(s, k, v, j) == /\ HexValue(s[2 * k - 1]) = {v[j] \div 16}
                                 /\ HexValue(s[2 * k]) = {v[j] % 16}
  <1>6. ASSUME NEW j \in 1 .. f
        PROVE  /\ Good(text, j, w, j) <=> Good(t, j, a, j)
               /\ Good(text, f + j, w, f + j) <=> Good(u, j, b, j)
    <2>1. 2 * j - 1 \in 1 .. 2 * f /\ 2 * j \in 1 .. 2 * f
      OBVIOUS
    <2>2. t[2 * j - 1] = text[1 + (2 * j - 1) - 1] /\ t[2 * j] = text[1 + 2 * j - 1]
      BY <1>3, <2>1
    <2>3. u[2 * j - 1] = text[2 * f + 1 + (2 * j - 1) - 1] /\ u[2 * j] = text[2 * f + 1 + 2 * j - 1]
      BY <1>4, <2>1
    <2>4. /\ 1 + (2 * j - 1) - 1 = 2 * j - 1 /\ 1 + 2 * j - 1 = 2 * j
          /\ 2 * f + 1 + (2 * j - 1) - 1 = 2 * (f + j) - 1 /\ 2 * f + 1 + 2 * j - 1 = 2 * (f + j)
      OBVIOUS
    <2>5. t[2 * j - 1] = text[2 * j - 1] /\ t[2 * j] = text[2 * j]
      BY <2>2, <2>4
    <2>6. u[2 * j - 1] = text[2 * (f + j) - 1] /\ u[2 * j] = text[2 * (f + j)]
      BY <2>3, <2>4
    <2> QED  BY <1>5, <2>5, <2>6
  <1>7. Spells(text, w) <=> \A j \in 1 .. 2 * f : Good(text, j, w, j)
    BY <1>2, <1>5 DEF Spells
  <1>8. Spells(t, a) <=> \A j \in 1 .. f : Good(t, j, a, j)
    BY <1>3 DEF Spells
  <1>9. Spells(u, b) <=> \A j \in 1 .. f : Good(u, j, b, j)
    BY <1>4 DEF Spells
  <1> HIDE DEF Good
  <1>10. ASSUME Spells(text, w)  PROVE Spells(t, a) /\ Spells(u, b)
    <2>1. ASSUME NEW j \in 1 .. f  PROVE Good(t, j, a, j) /\ Good(u, j, b, j)
      <3>1. j \in 1 .. 2 * f /\ f + j \in 1 .. 2 * f
        OBVIOUS
      <3> QED  BY <1>6, <1>7, <1>10, <3>1
    <2> QED  BY <1>8, <1>9, <2>1
  <1>11. ASSUME Spells(t, a), Spells(u, b)  PROVE Spells(text, w)
    <2>1. ASSUME NEW i \in 1 .. 2 * f  PROVE Good(text, i, w, i)
      <3>1. CASE i \in 1 .. f
        BY <1>6, <1>8, <1>11, <3>1
      <3>2. CASE i \notin 1 .. f
        <4>1. PICK j \in 1 .. f : i = f + j
          <5>1. i - f \in 1 .. f /\ i = f + (i - f)
            BY <3>2
          <5> QED  BY <5>1
        <4>2. Good(text, f + j, w, f + j)
          BY <1>6, <1>9, <1>11
        <4> QED  BY <4>1, <4>2
      <3> QED  BY <3>1, <3>2
    <2> QED  BY <1>7, <2>1
  <1> QED  BY <1>1, <1>3, <1>4, <1>10, <1>11

(* What from_str reads is spelled by the text.                              *)
LEMMA StrIs ==
    ASSUME NEW K, IsCurve(K), NEW text, IsText(text), NEW g \in from_str(K, text)
    PROVE  g \in Sigs(K) /\ Spells(text, to_bytes(K, g))
  <1> DEFINE half(a, b) ==
                 {Value(bytes) : bytes \in mixed_decode(SubSeq(text, a, b))} \cap Scalars(K)
  <1>1. K.FB \in Nat
    BY DEF IsCurve
  <1>2. PICK f \in Nat : f = K.FB
    BY <1>1
  <1>3. PICK t, u : t = SubSeq(text, 1, 2 * f) /\ u = SubSeq(text, 2 * f + 1, 4 * f)
    OBVIOUS
  <1>4. /\ Len(text) = 4 * f
        /\ \E r \in half(1, 2 * f), s \in half(2 * f + 1, 4 * f) : g \in from_scalars(K, r, s)
    BY <1>2 DEF from_str
  <1>5. PICK a \in mixed_decode(t), b \in mixed_decode(u) :
            /\ Value(a) \in Scalars(K) /\ Value(b) \in Scalars(K)
            /\ g \in from_scalars(K, Value(a), Value(b))
    BY <1>3, <1>4
  <1>6. IsText(t) /\ Len(t) = 2 * f /\ IsText(u) /\ Len(u) = 2 * f
    <2>1. /\ 1 \in Nat /\ 2 * f \in Nat /\ 2 * f + 1 \in Nat /\ 4 * f \in Nat
          /\ 1 <= 2 * f + 1 /\ 2 * f <= 4 * f /\ 2 * f + 1 >= 1 /\ 2 * f + 1 <= 4 * f + 1
          /\ 2 * f - 1 + 1 = 2 * f /\ 4 * f - (2 * f + 1) + 1 = 2 * f
      OBVIOUS
    <2>2. IsText(t) /\ Len(t) = 2 * f - 1 + 1
      BY <1>3, <1>4, <2>1, TextPart
    <2>3. IsText(u) /\ Len(u) = 4 * f - (2 * f + 1) + 1
      BY <1>3, <1>4, <2>1, TextPart
    <2> QED  BY <2>1, <2>2, <2>3
  <1>7. IsOctets(a) /\ Spells(t, a) /\ IsOctets(b) /\ Spells(u, b)
    BY <1>5, <1>6, MixedRead
  <1>8. Len(a) = f /\ Len(b) = f
    <2>1. Len(a) \in Nat /\ Len(b) \in Nat
      BY <1>7, OctetsShape
    <2>2. 2 * Len(a) = 2 * f /\ 2 * Len(b) = 2 * f
      BY <1>6, <1>7 DEF Spells
    <2>3. \A m, n \in Nat : 2 * m = 2 * n => m = n
      OBVIOUS
    <2> QED  BY <2>1, <2>2, <2>3
  <1>9. Spells(text, a \o b)
    BY <1>3, <1>4, <1>7, <1>8, HalvesSpell
  <1>10. /\ Value(a) \in Nat /\ Octets(Value(a), f) = a
         /\ Value(b) \in Nat /\ Octets(Value(b), f) = b
    BY <1>7, <1>8, OctetsOfValue
  <1>11. g \in Sigs(K) /\ g.r = Value(a) /\ g.s = Value(b)
    <2>1. g \in Sigs(K) /\ g = [r |-> Value(a), s |-> Value(b)]
      BY <1>5, <1>10, FromScalars
    <2> QED  BY <2>1
  <1>12. to_bytes(K, g) = a \o b
    BY <1>2, <1>10, <1>11 DEF to_bytes
  <1> QED  BY <1>9, <1>11, <1>12

(* Characters of a text that spells bytes are letters and digits.           *)
LEMMA SpelledAlphabet ==
    ASSUME NEW text, IsText(text), NEW b, IsOctets(b), Spells(text, b)
    PROVE  \A i \in DOMAIN text : text[i] \in Digits \cup Upper \cup Lower
  <1>1. PICK n \in Nat : n = Len(b)
    BY OctetsShape
  <1>2. Len(text) = 2 * n /\ DOMAIN text = 1 .. 2 * n
    BY <1>1, TextShape DEF Spells
  <1> SUFFICES ASSUME NEW i \in 1 .. 2 * n  PROVE text[i] \in Digits \cup Upper \cup Lower
    BY <1>2
  <1>3. PICK j \in 1 .. n : i = 2 * j - 1 \/ i = 2 * j
    BY HalfIndex
  <1>4. \E v : HexValue(text[i]) = {v}
    <2>1. HexValue(text[2 * j - 1]) = {b[j] \div 16} /\ HexValue(text[2 * j]) = {b[j] % 16}
      BY <1>1 DEF Spells
    <2>2. CASE i = 2 * j - 1
      BY <2>1, <2>2
    <2>3. CASE i = 2 * j
      BY <2>1, <2>3
    <2> QED  BY <1>3, <2>2, <2>3
  <1>5. text[i] \in 0 .. 127
    BY <1>2, TextShape
  <1> QED  BY <1>4, <1>5, HexDigits

(* Text that spells the bytes of a signature is read as it.                 *)
LEMMA StrRead ==
    ASSUME NEW K, IsCurve(K), NEW g \in Sigs(K),
           NEW text, IsText(text), Spells(text, to_bytes(K, g))
    PROVE  from_str(K, text) = {g}
  <1> DEFINE half(a, b) ==
                 {Value(bytes) : bytes \in mixed_decode(SubSeq(text, a, b))} \cap Scalars(K)
  <1>1. g.r \in Scalars(K) /\ g.s \in Scalars(K) /\ g = [r |-> g.r, s |-> g.s]
    BY DEF Sigs
  <1>2. PICK a, b : a = Octets(g.r, K.FB) /\ b = Octets(g.s, K.FB)
    OBVIOUS
  <1>3. /\ IsOctets(a) /\ Len(a) = K.FB /\ Value(a) = g.r /\ g.r \in Nat /\ K.FB \in Nat
        /\ IsOctets(b) /\ Len(b) = K.FB /\ Value(b) = g.s /\ g.s \in Nat
    BY <1>1, <1>2, ScalarBytes
  <1>4. PICK f \in Nat : f = K.FB
    BY <1>3
  <1>5. to_bytes(K, g) = a \o b
    BY <1>2 DEF to_bytes
  <1>6. PICK t, u : t = SubSeq(text, 1, 2 * f) /\ u = SubSeq(text, 2 * f + 1, 4 * f)
    OBVIOUS
  <1>7. Len(text) = 4 * f
    <2>1. Len(text) = 2 * Len(to_bytes(K, g)) /\ Len(to_bytes(K, g)) = 2 * f
      BY <1>4, FixedRead DEF Spells
    <2>2. 2 * (2 * f) = 4 * f
      OBVIOUS
    <2> QED  BY <2>1, <2>2
  <1>8. IsText(t) /\ Spells(t, a) /\ IsText(u) /\ Spells(u, b)
    <2>1. Spells(text, a \o b)
      BY <1>5
    <2>2. Len(a) = f /\ Len(b) = f
      BY <1>3, <1>4
    <2>3. /\ Spells(SubSeq(text, 1, 2 * f), a) /\ Spells(SubSeq(text, 2 * f + 1, 4 * f), b)
          /\ IsText(SubSeq(text, 1, 2 * f)) /\ IsText(SubSeq(text, 2 * f + 1, 4 * f))
      BY <1>3, <1>7, <2>1, <2>2, HalvesSpell
    <2> QED  BY <1>6, <2>3
  <1>9. mixed_decode(t) = {a} /\ mixed_decode(u) = {b}
    BY <1>3, <1>8, MixedWritten
  <1>10. half(1, 2 * f) = {g.r} /\ half(2 * f + 1, 4 * f) = {g.s}
    BY <1>1, <1>3, <1>6, <1>9
  <1>11. \A i \in DOMAIN text : text[i] \in Digits \cup Upper \cup Lower
    BY FixedRead, SpelledAlphabet
  <1>12. from_str(K, text)
           = UNION {from_scalars(K, r, s) : r \in half(1, 2 * f), s \in half(2 * f + 1, 4 * f)}
    BY <1>4, <1>7, <1>11 DEF from_str
  <1> HIDE DEF half
  <1>13. from_str(K, text) = from_scalars(K, g.r, g.s)
    BY <1>10, <1>12
  <1>14. from_scalars(K, g.r, g.s) = {g}
    BY <1>1, <1>3, FromScalars
  <1> QED  BY <1>13, <1>14

(* The OIDs of different digests differ.                                    *)
LEMMA OidsApart ==
    /\ \A m, n : NIST_HASH(m) = NIST_HASH(n) => m = n
    /\ \A m, n \in Nat : ECDSA_OID(m) = ECDSA_OID(n) => m = n
  <1>1. ASSUME NEW m, NEW n, NIST_HASH(m) = NIST_HASH(n)  PROVE m = n
    <2>1. NIST_HASH(m)[9] = m /\ NIST_HASH(n)[9] = n
      BY DEF NIST_HASH
    <2> QED  BY <1>1, <2>1
  <1>2. ASSUME NEW m \in Nat, NEW n \in Nat, ECDSA_OID(m) = ECDSA_OID(n)  PROVE m = n
    <2>1. PICK p : p = ECDSA_PREFIX
      OBVIOUS
    <2>2. p \in Seq(Nat) /\ Len(p) = 6
      BY <2>1 DEF ECDSA_PREFIX
    <2>3. Append(p, m)[7] = m /\ Append(p, n)[7] = n
      <3>1. Append(p, m)[6 + 1] = m /\ Append(p, n)[6 + 1] = n
        <4> DEFINE S == Nat
        <4>1. p \in Seq(S) /\ m \in S /\ n \in S
          BY <2>2
        <4> HIDE DEF S
        <4>2. /\ Append(p, m)[Len(p) + 1] = m
              /\ Append(p, n)[Len(p) + 1] = n
          BY ONLY <4>1, AppendProperties
        <4> QED  BY <2>2, <4>2
      <3>2. 6 + 1 = 7
        OBVIOUS
      <3> QED  BY <3>1, <3>2
    <2> QED  BY <1>2, <2>1, <2>3 DEF ECDSA_OID
  <1> QED  BY <1>1, <1>2

(* The table that labels, by the names of the digests.                      *)
LEMMA LabelOf ==
    ASSUME NEW D \in {"sha224", "sha256", "sha384", "sha512", "sha3"}
    PROVE  /\ ecdsa_oid_for_digest(DigestOid(D)) =
                CASE D = "sha224" -> {ECDSA_OID(1)} [] D = "sha256" -> {ECDSA_OID(2)}
                  [] D = "sha384" -> {ECDSA_OID(3)} [] D = "sha512" -> {ECDSA_OID(4)}
                  [] D = "sha3" -> {}
           /\ \E n \in 1 .. 8 : DigestOid(D) = NIST_HASH(n)
  <1>1. \A m, n : NIST_HASH(m) = NIST_HASH(n) <=> m = n
    BY OidsApart
  <1>2. CASE D = "sha224"
    <2>1. DigestOid(D) = NIST_HASH(4)
      BY <1>2 DEF DigestOid
    <2>2. ecdsa_oid_for_digest(NIST_HASH(4)) = {ECDSA_OID(1)}
      BY <1>1 DEF ecdsa_oid_for_digest
    <2> QED  BY <1>2, <2>1, <2>2
  <1>3. CASE D = "sha256"
    <2>1. DigestOid(D) = NIST_HASH(1)
      BY <1>3 DEF DigestOid
    <2>2. ecdsa_oid_for_digest(NIST_HASH(1)) = {ECDSA_OID(2)}
      BY <1>1 DEF ecdsa_oid_for_digest
    <2> QED  BY <1>3, <2>1, <2>2
  <1>4. CASE D = "sha384"
    <2>1. DigestOid(D) = NIST_HASH(2)
      BY <1>4 DEF DigestOid
    <2>2. ecdsa_oid_for_digest(NIST_HASH(2)) = {ECDSA_OID(3)}
      BY <1>1 DEF ecdsa_oid_for_digest
    <2> QED  BY <1>4, <2>1, <2>2
  <1>5. CASE D = "sha512"
    <2>1. DigestOid(D) = NIST_HASH(3)
      BY <1>5 DEF DigestOid
    <2>2. ecdsa_oid_for_digest(NIST_HASH(3)) = {ECDSA_OID(4)}
      BY <1>1 DEF ecdsa_oid_for_digest
    <2> QED  BY <1>5, <2>1, <2>2
  <1>6. CASE D = "sha3"
    <2>1. DigestOid(D) = NIST_HASH(8)
      BY <1>6 DEF DigestOid
    <2>2. ecdsa_oid_for_digest(NIST_HASH(8)) = {}
      BY <1>1 DEF ecdsa_oid_for_digest
    <2> QED  BY <1>6, <2>1, <2>2
  <1> QED  BY <1>2, <1>3, <1>4, <1>5, <1>6

(* The table that verifies: the OID a digest gave leads back to it.         *)
LEMMA OidMeans ==
    ASSUME NEW D \in {"sha224", "sha256", "sha384", "sha512", "sha3"},
           NEW o \in ecdsa_oid_for_digest(DigestOid(D)), NEW K, NEW Q, NEW m, NEW g
    PROVE  verify_with_oid(K, Q, m, [signature |-> g, oid |-> o]) <=> verify_digest(K, Q, D, m, g)
  <1>1. \A i, j \in Nat : ECDSA_OID(i) = ECDSA_OID(j) <=> i = j
    BY OidsApart
  <1>2. PICK l : l = [signature |-> g, oid |-> o]
    OBVIOUS
  <1>3. l.signature = g /\ l.oid = o
    BY <1>2
  <1>4. CASE D = "sha224"
    <2>1. o = ECDSA_OID(1)
      BY <1>4, LabelOf
    <2>2. verify_with_oid(K, Q, m, l) <=> verify_digest(K, Q, "sha224", m, g)
      BY <1>1, <1>3, <2>1 DEF verify_with_oid
    <2> QED  BY <1>2, <1>4, <2>2
  <1>5. CASE D = "sha256"
    <2>1. o = ECDSA_OID(2)
      BY <1>5, LabelOf
    <2>2. verify_with_oid(K, Q, m, l) <=> verify_digest(K, Q, "sha256", m, g)
      BY <1>1, <1>3, <2>1 DEF verify_with_oid
    <2> QED  BY <1>2, <1>5, <2>2
  <1>6. CASE D = "sha384"
    <2>1. o = ECDSA_OID(3)
      BY <1>6, LabelOf
    <2>2. verify_with_oid(K, Q, m, l) <=> verify_digest(K, Q, "sha384", m, g)
      BY <1>1, <1>3, <2>1 DEF verify_with_oid
    <2> QED  BY <1>2, <1>6, <2>2
  <1>7. CASE D = "sha512"
    <2>1. o = ECDSA_OID(4)
      BY <1>7, LabelOf
    <2>2. verify_with_oid(K, Q, m, l) <=> verify_digest(K, Q, "sha512", m, g)
      BY <1>1, <1>3, <2>1 DEF verify_with_oid
    <2> QED  BY <1>2, <1>7, <2>2
  <1>8. CASE D = "sha3"
    BY <1>8, LabelOf
  <1> QED  BY <1>4, <1>5, <1>6, <1>7, <1>8

(* The OID of a hash begins with another arc than those of ECDSA.           *)
LEMMA HashOidRefused ==
    ASSUME NEW D \in {"sha224", "sha256", "sha384", "sha512", "sha3"}, NEW g
    PROVE  WithOid(g, DigestOid(D)) = {}
  <1>1. PICK n \in 1 .. 8 : DigestOid(D) = NIST_HASH(n)
    BY LabelOf
  <1>2. 1 \in DOMAIN ECDSA_PREFIX /\ ECDSA_PREFIX[1] = 1
    BY DEF ECDSA_PREFIX
  <1>3. 1 \in DOMAIN NIST_HASH(n) /\ NIST_HASH(n)[1] = 2
    BY DEF NIST_HASH
  <1> HIDE DEF ECDSA_PREFIX
  <1> QED  BY <1>1, <1>2, <1>3 DEF WithOid

(* Through TryFrom no signature comes back.                                 *)
LEMMA TraitRefuses ==
    ASSUME NEW K, NEW bytes, K.Digest \in {"sha224", "sha256", "sha384", "sha512", "sha3"}
    PROVE  try_from(K, bytes) = {}
  BY HashOidRefused DEF try_from

(* Signing with an OID labels what signing makes by the table.              *)
LEMMA SignedLabelled ==
    ASSUME NEW K, NEW g, NEW D, NEW m, NEW k, NEW ok \in try_sign_digest_with_oid(K, g, D, m, k)
    PROVE  \E p \in try_sign_digest(K, g, D, m, k) :
               /\ ok[1].signature = p[1] /\ ok[2] = p[2]
               /\ ok[1].oid \in ecdsa_oid_for_digest(DigestOid(D))
  <1>1. PICK p \in try_sign_digest(K, g, D, m, k), o \in ecdsa_oid_for_digest(DigestOid(D)) :
            \E l \in WithOid(p[1], o) : ok = <<l, p[2]>>
    BY DEF try_sign_digest_with_oid
  <1>2. ok = <<[signature |-> p[1], oid |-> o], p[2]>>
    BY <1>1 DEF WithOid
  <1> QED  BY <1>1, <1>2

-----------------------------------------------------------------------------
(* What is sent: bytes, or characters.                                      *)
Wires == ({"fixed", "der"} \X Seq(0 .. 255)) \cup ({"hex", "derhex"} \X Seq(0 .. 127))

(* A signature the key made of what was signed, normalised or not.          *)
Genuine(g) ==
    \E k \in Nonces[C.name] : \E ok \in sign_prehash(C, key, Prehash, k) :
        g \in {ok[1], normalize_s(C, ok[1])}

(* The two keys belong together.                                            *)
KeysInv ==
    /\ C \in Curves
    /\ key # None => \E d \in Scalars(C) : key = SigningKey(C, d)
    /\ vk # None => key # None /\ \E d \in Scalars(C) : key = SigningKey(C, d) /\ vk = d
    /\ origin \notin {"none", "refused"} => vk # None

(* The signature at hand, and what it was made of.                          *)
SigInv ==
    /\ origin \in {"none", "refused", "signed", "imported", "normalized", "received", "lost"}
    /\ id \in 0 .. 3 \cup {None}
    /\ sig # None => sig \in Sigs(C) /\ vk # None
    /\ origin \in {"signed", "imported", "normalized", "received"} => sig \in Sigs(C)
    /\ origin = "none" => sig = None /\ said = None /\ wire = None /\ sent = None /\ under = None
    /\ said \in Said[C.name] \cup {None}
    /\ origin = "signed" =>
         /\ said \in Said[C.name]
         /\ \E k \in Nonces[C.name] : \E ok \in sign_prehash(C, key, Prehash, k) :
                sig = ok[1] /\ id = ok[2]
    /\ said # None /\ sig # None /\ (origin = "received" => under # None) => Genuine(sig)
    /\ under # None => under \in Digests /\ oid \in ecdsa_oid_for_digest(DigestOid(under))

(* The wire, and what was sent.                                             *)
WireInv ==
    /\ wire # None => /\ wire \in Wires
                      /\ sent \in Sigs(C)
                      /\ said # None => Genuine(sent)
                      /\ origin # "received" => under = None
    /\ sent # None => wire # None
    /\ origin = "received" => wire # None /\ sig \in Parsed(wire[1], wire[2])
    /\ origin = "lost" => wire # None /\ Parsed(wire[1], wire[2]) = {}

(* The inductive invariant: what Next keeps, each part by the others.       *)
IInv == KeysInv /\ SigInv /\ WireInv
-----------------------------------------------------------------------------
(* The curve in use is one of those assumed, and the digests have names.    *)
LEMMA Assumed ==
    ASSUME C \in Curves
    PROVE  /\ IsCurve(C) /\ C.Digest \in Digests
           /\ Digests \subseteq {"sha224", "sha256", "sha384", "sha512", "sha3"}
           /\ None \notin Digests
           /\ Nonces[C.name] \subseteq Scalars(C) /\ Imports[C.name] \subseteq Nat
           /\ None \notin Sigs(C) /\ None \notin Wires
           /\ \A h \in Prehashes : IsOctets(h)
  <1>1. None \notin {"fixed", "der", "hex", "derhex"} \X Seq(0 .. 255)
    BY NoneAssumption
  <1>2. Seq(0 .. 127) \subseteq Seq(0 .. 255)
    <2> SUFFICES ASSUME NEW t, IsText(t)  PROVE t \in Seq(0 .. 255)
      BY DEF IsText
    <2> DEFINE S == 0 .. 255
    <2>1. PICK n \in Nat : n = Len(t) /\ DOMAIN t = 1 .. n /\ \A i \in 1 .. n : t[i] \in 0 .. 127
      BY TextShape
    <2>2. \A i \in 1 .. n : t[i] \in S
      BY <2>1
    <2>3. t = [i \in 1 .. n |-> t[i]]
      <3>1. t \in Seq(0 .. 127)
        BY DEF IsText
      <3> QED  BY <2>1, <3>1
    <2> HIDE DEF S
    <2>4. t \in [1 .. n -> S]
      BY <2>2, <2>3
    <2>5. t \in Seq(S)
      BY <2>4
    <2> QED  BY <2>5 DEF S
  <1>3. None \notin Wires
    BY <1>1, <1>2 DEF Wires
  <1> QED  BY <1>3, CurvesAssumption, ScalarsAssumption, TextsAssumption, DigestsAssumption,
              NoneAssumption DEF Sigs

(* What was signed has a prehash of bytes.                                  *)
LEMMA PrehashIsOctets ==
    ASSUME C \in Curves, said \in Said[C.name]
    PROVE  /\ IsOctets(Prehash)
           /\ said[1] # None => said[1] \in Digests /\ Prehash = Hash[said[1]][said[2]]
           /\ said[1] = None => Prehash = said[2]
  <1>1. said \in ({None} \X Prehashes) \cup (Digests \X Messages)
    BY TextsAssumption
  <1>2. CASE said \in {None} \X Prehashes
    BY <1>2, TextsAssumption DEF Prehash
  <1>3. CASE said \in Digests \X Messages
    <2>1. said[1] \in Digests /\ said[2] \in Messages /\ said[1] # None
      BY <1>3, DigestsAssumption
    <2>2. IsOctets(Hash[said[1]][said[2]])
      BY <2>1, TextsAssumption
    <2> QED  BY <2>1, <2>2 DEF Prehash
  <1> QED  BY <1>1, <1>2, <1>3

(* Each form a signature is sent in is read as that signature.              *)
LEMMA Reread ==
    ASSUME C \in Curves, NEW g \in Sigs(C), NEW w \in Written(g)
    PROVE  w \in Wires /\ Parsed(w[1], w[2]) = {g}
  <1>1. IsCurve(C)
    BY Assumed
  <1>2. IsOctets(to_bytes(C, g)) /\ from_slice(C, to_bytes(C, g)) = {g}
    BY <1>1, FixedRead
  <1>3. IsOctets(to_der(g)) /\ from_der(C, to_der(g)) = {g}
    BY <1>1, DerWritten
  <1>4. CASE w = <<"fixed", to_bytes(C, g)>>
    <2>1. w[1] = "fixed" /\ w[2] = to_bytes(C, g)
      BY <1>4
    <2>2. w \in Wires
      BY <1>2, <1>4 DEF Wires, IsOctets
    <2>3. Parsed(w[1], w[2]) = from_slice(C, w[2])
      BY <2>1 DEF Parsed
    <2> QED  BY <1>2, <2>1, <2>2, <2>3
  <1>5. CASE w = <<"der", to_der(g)>>
    <2>1. w[1] = "der" /\ w[2] = to_der(g)
      BY <1>5
    <2>2. w \in Wires
      BY <1>3, <1>5 DEF Wires, IsOctets
    <2>3. Parsed(w[1], w[2]) = from_der(C, w[2])
      BY <2>1 DEF Parsed
    <2> QED  BY <1>3, <2>1, <2>2, <2>3
  <1>6. ASSUME NEW letter \in {65, 97}, w = <<"hex", Hex(to_bytes(C, g), letter)>>
        PROVE  w \in Wires /\ Parsed(w[1], w[2]) = {g}
    <2>1. PICK t : t = Hex(to_bytes(C, g), letter)
      OBVIOUS
    <2>2. IsText(t) /\ Spells(t, to_bytes(C, g))
      BY <1>2, <2>1, HexSpells
    <2>3. w[1] = "hex" /\ w[2] = t
      BY <1>6, <2>1
    <2>4. w \in Wires
      BY <1>6, <2>1, <2>2 DEF Wires, IsText
    <2>5. Parsed(w[1], w[2]) = from_str(C, w[2])
      BY <2>3 DEF Parsed
    <2>6. from_str(C, t) = {g}
      BY <1>1, <2>2, StrRead
    <2> QED  BY <2>3, <2>4, <2>5, <2>6
  <1>7. CASE w = <<"derhex", Hex(to_der(g), 65)>>
    <2>1. PICK t : t = Hex(to_der(g), 65)
      OBVIOUS
    <2>2. IsText(t) /\ Spells(t, to_der(g))
      BY <1>3, <2>1, HexSpells
    <2>3. w[1] = "derhex" /\ w[2] = t
      BY <1>7, <2>1
    <2>4. w \in Wires
      BY <1>7, <2>1, <2>2 DEF Wires, IsText
    <2>5. Parsed(w[1], w[2]) = deserialize_der(C, w[2])
      BY <2>3 DEF Parsed
    <2>6. mixed_decode(t) = {to_der(g)}
      BY <1>3, <2>2, MixedWritten
    <2>7. deserialize_der(C, t) = {g}
      BY <1>3, <2>6 DEF deserialize_der
    <2> QED  BY <2>3, <2>4, <2>5, <2>7
  <1>8. \/ w = <<"fixed", to_bytes(C, g)>> \/ w = <<"der", to_der(g)>>
        \/ w = <<"hex", Hex(to_bytes(C, g), 97)>> \/ w = <<"hex", Hex(to_bytes(C, g), 65)>>
        \/ w = <<"derhex", Hex(to_der(g), 65)>>
    BY DEF Written, LowerHex, UpperHex
  <1> QED  BY <1>4, <1>5, <1>6, <1>7, <1>8

(* What is read from the wire is a signature, and the wire holds no other   *)
(* encoding of it.                                                          *)
LEMMA ReadIs ==
    ASSUME C \in Curves, NEW w \in Wires, NEW g \in Parsed(w[1], w[2])
    PROVE  /\ g \in Sigs(C)
           /\ w[1] = "fixed" => w[2] = to_bytes(C, g)
           /\ w[1] = "der" => w[2] = to_der(g)
           /\ w[1] = "hex" => IsText(w[2]) /\ Spells(w[2], to_bytes(C, g))
           /\ w[1] = "derhex" => mixed_decode(w[2]) = {to_der(g)}
  <1>1. IsCurve(C)
    BY Assumed
  <1>2. CASE w[1] = "fixed"
    <2>1. IsOctets(w[2]) /\ g \in from_slice(C, w[2])
      BY <1>2 DEF Parsed, Wires, IsOctets
    <2> QED  BY <1>1, <1>2, <2>1, FixedIs
  <1>3. CASE w[1] = "der"
    <2>1. IsOctets(w[2]) /\ g \in from_der(C, w[2])
      BY <1>3 DEF Parsed, Wires, IsOctets
    <2> QED  BY <1>1, <1>3, <2>1, DerRead
  <1>4. CASE w[1] = "hex"
    <2>1. IsText(w[2]) /\ g \in from_str(C, w[2])
      BY <1>4 DEF Parsed, Wires, IsText
    <2> QED  BY <1>1, <1>4, <2>1, StrIs
  <1>5. CASE w[1] = "derhex"
    <2>1. IsText(w[2]) /\ g \in deserialize_der(C, w[2])
      BY <1>5 DEF Parsed, Wires, IsText
    <2>2. PICK b \in mixed_decode(w[2]) : g \in from_der(C, b)
      BY <2>1 DEF deserialize_der
    <2>3. IsOctets(b) /\ Spells(w[2], b)
      BY <2>1, <2>2, MixedRead
    <2>4. g \in Sigs(C) /\ b = to_der(g)
      BY <1>1, <2>2, <2>3, DerRead
    <2>5. mixed_decode(w[2]) = {b}
      BY <2>1, <2>3, MixedWritten
    <2> QED  BY <1>5, <2>4, <2>5
  <1>6. w[1] \in {"fixed", "der", "hex", "derhex"}
    BY DEF Wires
  <1> QED  BY <1>2, <1>3, <1>4, <1>5, <1>6

(* A string stays one when an element is changed, cut off or added.         *)
LEMMA Damaged ==
    ASSUME NEW S, NEW b \in Seq(S), NEW wrong, wrong \subseteq S,
           NEW c \in {[b EXCEPT ![i] = x] : i \in DOMAIN b, x \in wrong}
                        \cup {SubSeq(b, 1, i) : i \in 0 .. Len(b) - 1}
                        \cup {Append(b, x) : x \in wrong}
    PROVE  c \in Seq(S)
  <1>1. CASE c \in {[b EXCEPT ![i] = x] : i \in DOMAIN b, x \in wrong}
    <2>1. PICK i \in DOMAIN b, x \in wrong : c = [b EXCEPT ![i] = x]
      BY <1>1
    <2>2. x \in S /\ i \in 1 .. Len(b)
      BY <2>1
    <2> QED  BY <2>1, <2>2, ExceptSeq
  <1>2. CASE c \in {SubSeq(b, 1, i) : i \in 0 .. Len(b) - 1}
    <2>1. PICK i \in 0 .. Len(b) - 1 : c = SubSeq(b, 1, i)
      BY <1>2
    <2>2. Len(b) \in Nat /\ i \in Nat /\ \A m \in 1 .. i : m \in 1 .. Len(b)
      BY <2>1
    <2>3. \A m \in 1 .. i : b[m] \in S
      BY <2>2, ElementOfSeq
    <2> QED  BY <2>1, <2>2, <2>3, SubSeqProperties
  <1>3. CASE c \in {Append(b, x) : x \in wrong}
    <2>1. PICK x \in wrong : c = Append(b, x)
      BY <1>3
    <2>2. x \in S
      BY <2>1
    <2> QED  BY <2>1, <2>2, AppendProperties
  <1> QED  BY <1>1, <1>2, <1>3

(* It holds before anything was done.                                       *)
LEMMA InitInv == Init => IInv
  BY DEF Init, IInv, KeysInv, SigInv, WireInv

(* Loading a key.                                                           *)
LEMMA LoadStep ==
    ASSUME IInv, NEW form, NEW given, Load(form, given)
    PROVE  IInv'
  <1> USE DEF IInv
  <1>1. /\ key = None /\ origin = "none" /\ origin' \in {"none", "refused"}
        /\ C' = C /\ vk' = vk /\ said' = said /\ sig' = sig /\ id' = id
        /\ oid' = oid /\ under' = under /\ wire' = wire /\ sent' = sent
    BY DEF Load
  <1>2. vk = None
    BY <1>1 DEF KeysInv
  <1>3. key' = key \/ \E d \in Scalars(C) : key' = SigningKey(C, d)
    <2>1. CASE UNCHANGED key
      BY <2>1
    <2>2. CASE key' \in SigningKey_from_slice(C, given) \cup from_pkcs8_der(C, given)
      BY <2>2, LoadedKey
    <2> QED  BY <2>1, <2>2 DEF Load
  <1>4. KeysInv'
    BY <1>1, <1>2, <1>3 DEF KeysInv
  <1>5. sig = None /\ said = None /\ wire = None /\ sent = None /\ under = None
    BY <1>1 DEF SigInv
  <1>6. SigInv'
    BY <1>1, <1>5 DEF SigInv
  <1>7. WireInv'
    BY <1>1, <1>5 DEF WireInv
  <1> QED  BY <1>4, <1>6, <1>7

(* What was signed, and how, stays when its variables do.                   *)
LEMMA GenuineKept ==
    ASSUME UNCHANGED <<C, key, said>>
    PROVE  \A g : Genuine(g) <=> Genuine(g)'
  BY DEF Genuine, Prehash

(* Handing the verifying key over.                                          *)
LEMMA PublishStep ==
    ASSUME IInv, Publish
    PROVE  IInv'
  <1> USE DEF IInv
  <1>1. /\ key # None
        /\ UNCHANGED <<C, key, said, sig, id, oid, under, origin, wire, sent>>
    BY DEF Publish
  <1>2. PICK d \in Scalars(C) : key = SigningKey(C, d)
    BY <1>1 DEF KeysInv
  <1>3. IsCurve(C)
    BY Assumed DEF KeysInv
  <1>4. key.verifying_key = d
    BY <1>2, <1>3, KeyFacts
  <1>5. vk' = d
    <2>1. ASSUME NEW c \in BOOLEAN, NEW Q \in from_sec1_bytes(C, to_encoded_point(C, d, c))
          PROVE  Q = d
      BY <1>3, <2>1, PointRead
    <2>2. from_public_key_der(C, to_public_key_der(C, d))
            \subseteq from_sec1_bytes(C, to_encoded_point(C, d, TRUE))
      BY DEF from_public_key_der, to_public_key_der
    <2>3. vk' \in from_sec1_bytes(C, to_encoded_point(C, d, TRUE))
                    \cup from_sec1_bytes(C, to_encoded_point(C, d, FALSE))
      BY <1>4, <2>2 DEF Publish
    <2>4. TRUE \in BOOLEAN /\ FALSE \in BOOLEAN
      OBVIOUS
    <2> QED  BY <2>1, <2>3, <2>4
  <1>6. KeysInv'
    <2>1. C' \in Curves /\ (key' # None => \E e \in Scalars(C') : key' = SigningKey(C', e))
      BY <1>1 DEF KeysInv
    <2>2. vk' # None => key' # None /\ \E e \in Scalars(C') : key' = SigningKey(C', e) /\ vk' = e
      BY <1>1, <1>2, <1>5
    <2>3. vk = None
      BY DEF Publish
    <2>4. origin' \notin {"none", "refused"} => vk' # None
      BY <1>1, <2>3 DEF KeysInv
    <2> QED  BY <2>1, <2>2, <2>4 DEF KeysInv
  <1>7. Prehash' = Prehash
    BY <1>1 DEF Prehash
  <1>8. \A g : Genuine(g)' <=> Genuine(g)
    BY <1>1, GenuineKept
  <1>9. SigInv'
    <2>1. sig = None
      BY DEF Publish, SigInv
    <2> QED  BY <1>1, <1>7, <1>8, <2>1 DEF SigInv
  <1>10. WireInv'
    BY <1>1, <1>8 DEF WireInv, Parsed
  <1> QED  BY <1>6, <1>9, <1>10

(* What a result of signing is.                                             *)
LEMMA SignedSigs ==
    ASSUME KeysInv, vk # None, NEW h, IsOctets(h), NEW k \in Nonces[C.name],
           NEW ok \in sign_prehash(C, key, h, k)
    PROVE  /\ ok[1] \in Sigs(C) /\ ok[2] \in 0 .. 3
           /\ C.NORMALIZE_S => ~is_high(C, ok[1].s)
           /\ verify_prehash(C, vk, h, ok[1])
           /\ recover_from_prehash(C, h, ok[1], ok[2]) = {vk}
           /\ trial_recovery_from_prehash(C, vk, h, ok[1]) = {ok[2]}
           /\ \A z \in bits2field(C, h) : verify_prehashed(C, vk, z, ok[1])
  <1>1. IsCurve(C) /\ k \in Scalars(C)
    BY Assumed DEF KeysInv
  <1>2. PICK d \in Scalars(C) : key = SigningKey(C, d) /\ vk = d
    BY DEF KeysInv
  <1>3. key.secret_scalar = d
    BY <1>1, <1>2, KeyFacts
  <1>4. PICK z \in bits2field(C, h) : ok \in sign_prehashed(C, d, k, z)
    BY <1>3 DEF sign_prehash
  <1>5. bits2field(C, h) = {z} /\ reduce(C, z) \in Nat
    BY <1>1, FieldBits
  <1>6. ok[1] \in Sigs(C) /\ ok[2] \in 0 .. 3 /\ (C.NORMALIZE_S => ~is_high(C, ok[1].s))
    BY <1>1, <1>4, <1>5, SignedFacts
  <1>7. /\ verify_prehash(C, d, h, ok[1])
        /\ recover_from_prehash(C, h, ok[1], ok[2]) = {d}
        /\ trial_recovery_from_prehash(C, d, h, ok[1]) = {ok[2]}
    BY <1>1, <1>4, <1>5, SignerFound
  <1>8. verify_prehashed(C, d, z, ok[1])
    BY <1>5, <1>7 DEF verify_prehash
  <1> QED  BY <1>2, <1>5, <1>6, <1>7, <1>8

(* Signing, with an OID or without.                                         *)
LEMMA SignStep ==
    ASSUME IInv, NEW what \in Said[C.name], NEW k \in Nonces[C.name],
           Sign(what, k) \/ SignWithOid(what, k)
    PROVE  IInv'
  <1> USE DEF IInv
  <1>1. /\ vk # None /\ origin = "none" /\ said' = what
        /\ C' = C /\ key' = key /\ vk' = vk /\ wire' = wire /\ sent' = sent
    BY DEF Sign, SignWithOid
  <1>2. /\ C \in Curves /\ None \notin Digests
        /\ sig = None /\ wire = None /\ sent = None /\ under = None
    BY <1>1, Assumed DEF KeysInv, SigInv
  <1>3. what \in ({None} \X Prehashes) \cup (Digests \X Messages)
    BY <1>2, TextsAssumption
  <1> DEFINE h == IF what[1] = None THEN what[2] ELSE Hash[what[1]][what[2]]
  <1>4. IsOctets(h)
    <2>1. CASE what \in {None} \X Prehashes
      BY <2>1, TextsAssumption
    <2>2. CASE what \in Digests \X Messages
      <3>1. what[1] \in Digests /\ what[2] \in Messages /\ what[1] # None
        BY <1>2, <2>2
      <3>2. IsOctets(Hash[what[1]][what[2]])
        BY <3>1, TextsAssumption
      <3> QED  BY <3>1, <3>2
    <2> QED  BY <1>3, <2>1, <2>2
  <1>5. Prehash' = h
    BY <1>1 DEF Prehash
  <1>6. \/ /\ origin' = "refused" /\ UNCHANGED <<sig, id, under>>
        \/ \E ok \in sign_prehash(C, key, h, k) :
               /\ sig' = ok[1] /\ id' = ok[2] /\ origin' = "signed"
               /\ \/ UNCHANGED <<oid, under>>
                  \/ /\ under' \in Digests
                     /\ oid' \in ecdsa_oid_for_digest(DigestOid(under'))
    <2>1. CASE Sign(what, k)
      <3> DEFINE result == IF what[1] = None THEN sign_prehash(C, key, what[2], k)
                           ELSE try_sign_digest(C, key, what[1], what[2], k)
      <3>1. result = sign_prehash(C, key, h, k)
        BY DEF try_sign_digest
      <3>2. /\ UNCHANGED <<oid, under>>
            /\ \/ origin' = "refused" /\ UNCHANGED <<sig, id>>
               \/ \E ok \in result : sig' = ok[1] /\ id' = ok[2] /\ origin' = "signed"
        BY <2>1 DEF Sign
      <3> HIDE DEF result, h
      <3> QED  BY <3>1, <3>2
    <2>2. CASE SignWithOid(what, k)
      <3> DEFINE result == try_sign_digest_with_oid(C, key, what[1], what[2], k)
      <3>1. /\ what[1] # None
            /\ \/ origin' = "refused" /\ UNCHANGED <<sig, id, oid, under>>
               \/ \E ok \in result :
                    /\ sig' = ok[1].signature /\ oid' = ok[1].oid /\ id' = ok[2]
                    /\ under' = what[1] /\ origin' = "signed"
        BY <2>2 DEF SignWithOid
      <3>2. CASE origin' = "refused" /\ UNCHANGED <<sig, id, oid, under>>
        BY <3>2
      <3>3. CASE \E ok \in result :
                    /\ sig' = ok[1].signature /\ oid' = ok[1].oid /\ id' = ok[2]
                    /\ under' = what[1] /\ origin' = "signed"
        <4>1. PICK ok \in result :
                    /\ sig' = ok[1].signature /\ oid' = ok[1].oid /\ id' = ok[2]
                    /\ under' = what[1] /\ origin' = "signed"
          BY <3>3
        <4>2. PICK p \in try_sign_digest(C, key, what[1], what[2], k) :
                  /\ ok[1].signature = p[1] /\ ok[2] = p[2]
                  /\ ok[1].oid \in ecdsa_oid_for_digest(DigestOid(what[1]))
          BY SignedLabelled
        <4>3. p \in sign_prehash(C, key, h, k) /\ what[1] \in Digests
          BY <1>3, <3>1, <4>2 DEF try_sign_digest
        <4> HIDE DEF result, h
        <4> QED  BY <4>1, <4>2, <4>3
      <3> QED  BY <3>1, <3>2, <3>3
    <2> QED  BY <2>1, <2>2
  <1> HIDE DEF h
  <1>7. KeysInv'
    BY <1>1 DEF KeysInv
  <1>8. CASE origin' = "refused" /\ UNCHANGED <<sig, id, under>>
    <2>1. SigInv'
      BY <1>1, <1>2, <1>8 DEF SigInv
    <2>2. WireInv'
      BY <1>1, <1>2, <1>8 DEF WireInv
    <2> QED  BY <1>7, <2>1, <2>2
  <1>9. ASSUME NEW ok \in sign_prehash(C, key, h, k),
               sig' = ok[1], id' = ok[2], origin' = "signed",
               \/ UNCHANGED <<oid, under>>
               \/ under' \in Digests /\ oid' \in ecdsa_oid_for_digest(DigestOid(under'))
        PROVE  IInv'
    <2>1. ok[1] \in Sigs(C) /\ ok[2] \in 0 .. 3
      BY <1>1, <1>4, SignedSigs
    <2>2. sign_prehash(C, key, h, k) = sign_prehash(C', key', Prehash', k)
      BY <1>1, <1>5
    <2>3. Genuine(sig)' /\ \E j \in Nonces[C'.name] : \E p \in sign_prehash(C', key', Prehash', j) :
                               sig' = p[1] /\ id' = p[2]
      BY <1>1, <1>9, <2>2 DEF Genuine
    <2>4. SigInv'
      BY <1>1, <1>2, <1>9, <2>1, <2>3 DEF SigInv
    <2>5. WireInv'
      BY <1>1, <1>2, <1>9 DEF WireInv
    <2> QED  BY <1>7, <2>4, <2>5
  <1> QED  BY <1>6, <1>8, <1>9

(* Taking two numbers for a signature.                                      *)
LEMMA ImportStep ==
    ASSUME IInv, NEW r \in Imports[C.name], NEW s \in Imports[C.name], Import(r, s)
    PROVE  IInv'
  <1> USE DEF IInv
  <1>1. /\ vk # None /\ origin = "none"
        /\ UNCHANGED <<C, key, vk, said, id, oid, under, wire, sent>>
        /\ \/ origin' = "refused" /\ UNCHANGED sig
           \/ sig' \in from_scalars(C, r, s) /\ origin' = "imported"
    BY DEF Import
  <1>2. IsCurve(C) /\ r \in Nat /\ s \in Nat
    BY Assumed DEF KeysInv
  <1>3. from_scalars(C, r, s) \subseteq Sigs(C)
    BY <1>2, FromScalars
  <1>4. sig = None /\ said = None /\ wire = None /\ sent = None /\ under = None
    BY <1>1 DEF SigInv
  <1>5. KeysInv'
    BY <1>1 DEF KeysInv
  <1>6. SigInv'
    BY <1>1, <1>3, <1>4 DEF SigInv
  <1>7. WireInv'
    BY <1>1, <1>4 DEF WireInv
  <1> QED  BY <1>5, <1>6, <1>7

(* Normalising the signature at hand.                                       *)
LEMMA NormalizeStep ==
    ASSUME IInv, Normalize
    PROVE  IInv'
  <1> USE DEF IInv
  <1>1. /\ origin \in {"signed", "imported"} /\ sig' = normalize_s(C, sig) /\ origin' = "normalized"
        /\ UNCHANGED <<C, key, vk, said, id, oid, under, wire, sent>>
    BY DEF Normalize
  <1>2. IsCurve(C) /\ sig \in Sigs(C) /\ None \notin Sigs(C)
    BY <1>1, Assumed DEF KeysInv, SigInv
  <1>3. sig' \in Sigs(C) /\ normalize_s(C, sig') = sig'
    <2>1. sig' \in Sigs(C) /\ ~is_high(C, sig'.s)
      BY <1>1, <1>2, NormalizedFacts
    <2> QED  BY <1>2, <2>1, NormalizedFacts
  <1>4. ASSUME said # None, Genuine(sig)  PROVE Genuine(sig)'
    <2>1. PICK k \in Nonces[C.name] : \E ok \in sign_prehash(C, key, Prehash, k) :
              sig \in {ok[1], normalize_s(C, ok[1])}
      BY <1>4 DEF Genuine
    <2>2. PICK ok \in sign_prehash(C, key, Prehash, k) : sig \in {ok[1], normalize_s(C, ok[1])}
      BY <2>1
    <2>3. ok[1] \in Sigs(C)
      <3>1. C \in Curves /\ said \in Said[C.name] /\ vk # None
        BY <1>1, <1>4 DEF KeysInv, SigInv
      <3>2. IsOctets(Prehash)
        BY <3>1, PrehashIsOctets
      <3> QED  BY <2>2, <3>1, <3>2, SignedSigs
    <2>4. sig' = normalize_s(C, ok[1])
      <3>1. CASE sig = ok[1]
        BY <1>1, <3>1
      <3>2. CASE sig = normalize_s(C, ok[1])
        <4>1. ~is_high(C, sig.s)
          BY <1>2, <2>3, <3>2, NormalizedFacts
        <4>2. normalize_s(C, sig) = sig
          BY <1>2, <4>1, NormalizedFacts
        <4> QED  BY <1>1, <3>2, <4>2
      <3> QED  BY <2>2, <3>1, <3>2
    <2>5. /\ sign_prehash(C', key', Prehash', k) = sign_prehash(C, key, Prehash, k)
          /\ k \in Nonces[C'.name]
      BY <1>1 DEF Prehash
    <2> QED  BY <1>1, <2>2, <2>4, <2>5 DEF Genuine
  <1>5. KeysInv'
    BY <1>1 DEF KeysInv
  <1>6. SigInv'
    <2>1. said' # None => Genuine(sig)'
      BY <1>1, <1>2, <1>4 DEF SigInv
    <2> QED  BY <1>1, <1>2, <1>3, <2>1 DEF SigInv
  <1>7. \A g : Genuine(g)' <=> Genuine(g)
    BY <1>1, GenuineKept
  <1>8. WireInv'
    BY <1>1, <1>7 DEF WireInv
  <1> QED  BY <1>5, <1>6, <1>8

(* Giving it an OID.                                                        *)
LEMMA LabelStep ==
    ASSUME IInv, Label
    PROVE  IInv'
  <1> USE DEF IInv
  <1>1. /\ sig # None /\ wire = None
        /\ UNCHANGED <<C, key, vk, said, sig, id, origin, wire, sent>>
    BY DEF Label
  <1>2. under' = None \/ (under' \in Digests /\ oid' \in ecdsa_oid_for_digest(DigestOid(under')))
    <2>1. CASE \E D \in Digests : oid' \in {l.oid : l \in WithDigest(sig, D)} /\ under' = D
      <3>1. PICK D \in Digests : oid' \in {l.oid : l \in WithDigest(sig, D)} /\ under' = D
        BY <2>1
      <3>2. oid' \in ecdsa_oid_for_digest(DigestOid(D))
        BY <3>1 DEF WithDigest
      <3> QED  BY <3>1, <3>2
    <2> QED  BY <2>1 DEF Label
  <1>3. origin \notin {"none", "received"}
    BY <1>1 DEF SigInv, WireInv
  <1>4. Prehash' = Prehash
    BY <1>1 DEF Prehash
  <1>5. \A g : Genuine(g)' <=> Genuine(g)
    BY <1>1, GenuineKept
  <1>6. KeysInv'
    BY <1>1 DEF KeysInv
  <1>7. SigInv'
    BY <1>1, <1>2, <1>3, <1>4, <1>5 DEF SigInv
  <1>8. WireInv'
    BY <1>1, <1>3, <1>5 DEF WireInv, Parsed
  <1> QED  BY <1>6, <1>7, <1>8

(* Sending it in one of its forms.                                          *)
LEMMA SendStep ==
    ASSUME IInv, Send
    PROVE  IInv'
  <1> USE DEF IInv
  <1>1. /\ origin \in {"signed", "imported", "normalized"}
        /\ wire' \in Written(sig) /\ sent' = sig /\ under' = None
        /\ UNCHANGED <<C, key, vk, said, sig, id, origin>>
    BY DEF Send
  <1>2. C \in Curves /\ sig \in Sigs(C) /\ sig # None /\ None \notin Wires
    BY <1>1, Assumed DEF KeysInv, SigInv
  <1>3. wire' \in Wires
    BY <1>1, <1>2, Reread
  <1>4. Prehash' = Prehash
    BY <1>1 DEF Prehash
  <1>5. \A g : Genuine(g)' <=> Genuine(g)
    BY <1>1, GenuineKept
  <1>6. said # None => Genuine(sig)
    BY <1>1, <1>2 DEF SigInv
  <1>7. KeysInv'
    BY <1>1 DEF KeysInv
  <1>8. SigInv'
    BY <1>1, <1>4, <1>5 DEF SigInv
  <1>9. Genuine(sent)' <=> Genuine(sig)
    BY <1>1, <1>4 DEF Genuine
  <1>10. WireInv'
    BY <1>1, <1>2, <1>3, <1>6, <1>9 DEF WireInv
  <1> QED  BY <1>7, <1>8, <1>10

(* Changing what is on the wire.                                            *)
LEMMA DamageStep ==
    ASSUME IInv, Damage
    PROVE  IInv'
  <1> USE DEF IInv
  <1> DEFINE wrong == IF wire[1] \in {"fixed", "der"} THEN Wrong ELSE WrongText
  <1>1. /\ sent # None /\ origin \notin {"received", "lost", "refused"}
        /\ UNCHANGED <<C, key, vk, said, sig, id, oid, under, origin, sent>>
    BY DEF Damage
  <1>2. PICK c \in {[wire[2] EXCEPT ![i] = b] : i \in DOMAIN wire[2], b \in wrong}
                      \cup {SubSeq(wire[2], 1, i) : i \in 0 .. Len(wire[2]) - 1}
                      \cup {Append(wire[2], b) : b \in wrong} :
            wire' = <<wire[1], c>>
    BY DEF Damage
  <1>3. wire # None /\ wire \in Wires /\ None \notin Wires
    BY <1>1, Assumed DEF KeysInv, WireInv
  <1>4. wire' \in Wires
    <2>1. CASE wire[1] \in {"fixed", "der"}
      <3> DEFINE S == 0 .. 255
      <3>1. wire[2] \in Seq(S) /\ wrong \subseteq S
        BY <1>3, <2>1, WrongAssumption DEF Wires
      <3> HIDE DEF S
      <3>2. PICK b, w : b = wire[2] /\ w = wrong
        OBVIOUS
      <3>3. c \in {[b EXCEPT ![i] = x] : i \in DOMAIN b, x \in w}
                    \cup {SubSeq(b, 1, i) : i \in 0 .. Len(b) - 1}
                    \cup {Append(b, x) : x \in w}
        BY <1>2, <3>2
      <3> HIDE DEF wrong
      <3>4. c \in Seq(S)
        BY <3>1, <3>2, <3>3, Damaged
      <3> QED  BY <1>2, <2>1, <3>4 DEF Wires, S
    <2>2. CASE wire[1] \notin {"fixed", "der"}
      <3> DEFINE S == 0 .. 127
      <3>1. wire[2] \in Seq(S) /\ wrong \subseteq S /\ wire[1] \in {"hex", "derhex"}
        BY <1>3, <2>2, WrongAssumption DEF Wires
      <3> HIDE DEF S
      <3>2. PICK b, w : b = wire[2] /\ w = wrong
        OBVIOUS
      <3>3. c \in {[b EXCEPT ![i] = x] : i \in DOMAIN b, x \in w}
                    \cup {SubSeq(b, 1, i) : i \in 0 .. Len(b) - 1}
                    \cup {Append(b, x) : x \in w}
        BY <1>2, <3>2
      <3> HIDE DEF wrong
      <3>4. c \in Seq(S)
        BY <3>1, <3>2, <3>3, Damaged
      <3> QED  BY <1>2, <3>1, <3>4 DEF Wires, S
    <2> QED  BY <2>1, <2>2
  <1>5. Prehash' = Prehash
    BY <1>1 DEF Prehash
  <1>6. \A g : Genuine(g)' <=> Genuine(g)
    BY <1>1, GenuineKept
  <1>7. KeysInv'
    BY <1>1 DEF KeysInv
  <1>8. origin # "none"
    BY <1>3 DEF SigInv
  <1>9. SigInv'
    BY <1>1, <1>5, <1>6, <1>8 DEF SigInv
  <1>10. WireInv'
    BY <1>1, <1>3, <1>4, <1>6 DEF WireInv
  <1> QED  BY <1>7, <1>9, <1>10

(* Reading the wire.                                                        *)
LEMMA ReceiveStep ==
    ASSUME IInv, Receive
    PROVE  IInv'
  <1> USE DEF IInv
  <1>1. /\ wire # None /\ origin \notin {"received", "lost", "refused"}
        /\ \/ Parsed(wire[1], wire[2]) = {} /\ origin' = "lost" /\ UNCHANGED sig
           \/ sig' \in Parsed(wire[1], wire[2]) /\ origin' = "received"
        /\ UNCHANGED <<C, key, vk, said, id, oid, under, wire, sent>>
    BY DEF Receive
  <1>2. /\ C \in Curves /\ wire \in Wires /\ under = None /\ origin # "none" /\ vk # None
        /\ None \notin Sigs(C)
    BY <1>1, Assumed DEF KeysInv, SigInv, WireInv
  <1>3. \A g \in Parsed(wire[1], wire[2]) : g \in Sigs(C)
    BY <1>2, ReadIs
  <1>4. Prehash' = Prehash
    BY <1>1 DEF Prehash
  <1>5. \A g : Genuine(g)' <=> Genuine(g)
    BY <1>1, GenuineKept
  <1>6. KeysInv'
    BY <1>1, <1>2 DEF KeysInv
  <1>7. SigInv'
    BY <1>1, <1>2, <1>3, <1>4, <1>5 DEF SigInv
  <1>8. Parsed(wire[1], wire[2])' = Parsed(wire[1], wire[2])
    BY <1>1 DEF Parsed
  <1>9. WireInv'
    BY <1>1, <1>2, <1>5, <1>8 DEF WireInv
  <1> QED  BY <1>6, <1>7, <1>9

(* What any reader with a digest or an OID gives: the signature that was    *)
(* sent, and an OID of the digest.                                          *)
LEMMA WithOidResults ==
    ASSUME IInv, ReceiveWithOid
    PROVE  \/ origin' = "refused" /\ UNCHANGED <<sig, oid, under>>
           \/ /\ sig' \in Parsed(wire[1], wire[2]) /\ origin' = "received"
              /\ \/ under' = None
                 \/ under' \in Digests /\ oid' \in ecdsa_oid_for_digest(DigestOid(under'))
  <1> DEFINE parsed  == Parsed(wire[1], wire[2])
             by(D)   == (UNION {WithDigest(p, D) : p \in parsed}) \X {D}
             of(o)   == (UNION {WithOid(p, o) : p \in parsed}) \X {None}
             trait   == IF wire[1] = "fixed" THEN try_from(C, wire[2]) \X {C.Digest} ELSE {}
             results == (UNION {by(D) : D \in Digests}) \cup trait
                           \cup (IF wire[1] = "der" THEN UNION {of(o) : o \in Oids} ELSE {})
  <1>1. \/ \E r \in results :
              sig' = r[1].signature /\ oid' = r[1].oid /\ under' = r[2] /\ origin' = "received"
        \/ origin' = "refused" /\ UNCHANGED <<sig, oid, under>>
    BY DEF ReceiveWithOid
  <1>2. trait = {}
    <2>1. try_from(C, wire[2]) = {}
      BY Assumed, TraitRefuses DEF IInv, KeysInv
    <2> QED  BY <2>1
  <1>3. ASSUME NEW r \in results
        PROVE  /\ r[1].signature \in parsed
               /\ \/ r[2] = None
                  \/ r[2] \in Digests /\ r[1].oid \in ecdsa_oid_for_digest(DigestOid(r[2]))
    <2>1. (\E D \in Digests : r \in by(D)) \/ (\E o \in Oids : r \in of(o))
      <3> HIDE DEF by, of, trait
      <3>1. \/ r \in UNION {by(D) : D \in Digests}
            \/ r \in trait
            \/ r \in (IF wire[1] = "der" THEN UNION {of(o) : o \in Oids} ELSE {})
        BY <1>3
      <3>2. r \in UNION {by(D) : D \in Digests} \/ r \in UNION {of(o) : o \in Oids}
        BY <1>2, <3>1
      <3>3. ASSUME r \in UNION {by(D) : D \in Digests}  PROVE \E D \in Digests : r \in by(D)
        BY <3>3
      <3>4. ASSUME r \in UNION {of(o) : o \in Oids}  PROVE \E o \in Oids : r \in of(o)
        BY <3>4
      <3> QED  BY <3>2, <3>3, <3>4
    <2>2. ASSUME NEW D \in Digests, r \in by(D)
          PROVE  /\ r[1].signature \in parsed /\ r[2] = D
                 /\ r[1].oid \in ecdsa_oid_for_digest(DigestOid(D))
      <3>1. r[2] = D /\ \E p \in parsed : r[1] \in WithDigest(p, D)
        BY <2>2
      <3> HIDE DEF parsed, by
      <3>2. PICK p \in parsed : r[1] \in WithDigest(p, D)
        BY <3>1
      <3> QED  BY <3>1, <3>2 DEF WithDigest
    <2>3. ASSUME NEW o \in Oids, r \in of(o)
          PROVE  r[1].signature \in parsed /\ r[2] = None
      <3>1. r[2] = None /\ \E p \in parsed : r[1] \in WithOid(p, o)
        BY <2>3
      <3> HIDE DEF parsed, of
      <3>2. PICK p \in parsed : r[1] \in WithOid(p, o)
        BY <3>1
      <3> QED  BY <3>1, <3>2 DEF WithOid
    <2> HIDE DEF results, by, of, parsed
    <2> QED  BY <2>1, <2>2, <2>3
  <1> HIDE DEF results
  <1> QED  BY <1>1, <1>3

(* Reading the wire, with a digest or an OID.                               *)
LEMMA ReceiveWithOidStep ==
    ASSUME IInv, ReceiveWithOid
    PROVE  IInv'
  <1> USE DEF IInv
  <1>1. /\ wire # None /\ Undamaged /\ origin \notin {"received", "lost", "refused"}
        /\ UNCHANGED <<C, key, vk, said, id, wire, sent>>
    BY DEF ReceiveWithOid
  <1>2. /\ C \in Curves /\ wire \in Wires /\ under = None /\ origin # "none" /\ vk # None
        /\ sent \in Sigs(C) /\ None \notin Sigs(C) /\ None \notin Digests
        /\ said # None => Genuine(sent)
    BY <1>1, Assumed DEF KeysInv, SigInv, WireInv
  <1>3. Parsed(wire[1], wire[2]) = {sent}
    BY <1>1, <1>2, Reread DEF Undamaged
  <1>4. \/ origin' = "refused" /\ UNCHANGED <<sig, oid, under>>
        \/ /\ sig' = sent /\ origin' = "received"
           /\ \/ under' = None
              \/ under' \in Digests /\ oid' \in ecdsa_oid_for_digest(DigestOid(under'))
    BY <1>3, WithOidResults
  <1>5. Prehash' = Prehash
    BY <1>1 DEF Prehash
  <1>6. \A g : Genuine(g)' <=> Genuine(g)
    BY <1>1, GenuineKept
  <1>7. KeysInv'
    BY <1>1, <1>2 DEF KeysInv
  <1>8. Parsed(wire[1], wire[2])' = {sent}
    BY <1>1, <1>3 DEF Parsed
  <1>9. CASE origin' = "refused" /\ UNCHANGED <<sig, oid, under>>
    <2>1. SigInv'
      BY <1>1, <1>2, <1>5, <1>6, <1>9 DEF SigInv
    <2>2. WireInv'
      BY <1>1, <1>2, <1>6, <1>9 DEF WireInv
    <2> QED  BY <1>7, <2>1, <2>2
  <1>10. CASE /\ sig' = sent /\ origin' = "received"
              /\ \/ under' = None
                 \/ under' \in Digests /\ oid' \in ecdsa_oid_for_digest(DigestOid(under'))
    <2>1. SigInv'
      <3>1. said' # None => Genuine(sig)'
        <4>1. Genuine(sig)' <=> Genuine(sent)
          BY <1>1, <1>5, <1>10 DEF Genuine
        <4> QED  BY <1>1, <1>2, <4>1
      <3> QED  BY <1>1, <1>2, <1>10, <3>1 DEF SigInv
    <2>2. WireInv'
      BY <1>1, <1>2, <1>6, <1>8, <1>10 DEF WireInv
    <2> QED  BY <1>7, <2>1, <2>2
  <1> QED  BY <1>4, <1>9, <1>10

(* A step that changes nothing.                                             *)
LEMMA Stutter ==
    ASSUME IInv, UNCHANGED vars
    PROVE  IInv'
  BY ZenonT(40) DEF vars, IInv, KeysInv, SigInv, WireInv, Genuine, Prehash, Parsed

(* The inductive invariant holds in every state.                            *)
THEOREM InductiveInvariant == Spec => []IInv
  <1>1. Init => IInv
    BY InitInv
  <1>2. IInv /\ [Next]_vars => IInv'
    <2> SUFFICES ASSUME IInv, [Next]_vars  PROVE IInv'
      OBVIOUS
    <2>1. ASSUME NEW form \in KeyForms[C.name], Load(form[1], form[2])  PROVE IInv'
      BY <2>1, LoadStep
    <2>2. CASE Publish
      BY <2>2, PublishStep
    <2>3. ASSUME NEW what \in Said[C.name], NEW k \in Nonces[C.name],
                 Sign(what, k) \/ SignWithOid(what, k)
          PROVE  IInv'
      BY <2>3, SignStep
    <2>4. ASSUME NEW r \in Imports[C.name], NEW s \in Imports[C.name], Import(r, s)  PROVE IInv'
      BY <2>4, ImportStep
    <2>5. CASE Normalize
      BY <2>5, NormalizeStep
    <2>6. CASE Label
      BY <2>6, LabelStep
    <2>7. CASE Send
      BY <2>7, SendStep
    <2>8. CASE Damage
      BY <2>8, DamageStep
    <2>9. CASE Receive
      BY <2>9, ReceiveStep
    <2>10. CASE ReceiveWithOid
      BY <2>10, ReceiveWithOidStep
    <2>11. CASE UNCHANGED vars
      BY <2>11, Stutter
    <2> QED  BY <2>1, <2>2, <2>3, <2>4, <2>5, <2>6, <2>7, <2>8, <2>9, <2>10, <2>11 DEF Next
  <1> QED  BY <1>1, <1>2, PTL DEF Spec

(* A signature in hand has both scalars in range, wherever it is from.      *)
THEOREM TypeCorrect == Spec => []TypeOK
  <1>1. IInv => TypeOK
    <2> SUFFICES ASSUME IInv  PROVE TypeOK
      OBVIOUS
    <2>1. sig # None => sig.r \in Scalars(C) /\ sig.s \in Scalars(C)
      BY DEF IInv, SigInv, Sigs
    <2>2. vk # None => vk = key.verifying_key
      BY Assumed, KeyFacts DEF IInv, KeysInv
    <2> QED  BY <2>1, <2>2 DEF IInv, SigInv, TypeOK
  <1> QED  BY <1>1, InductiveInvariant, PTL

(* Every entry point that verifies or recovers accepts what any entry point *)
(* signed, and leads back to the signer's key.                              *)
THEOREM SignerAlwaysRecovered == Spec => []SignerRecovered
  <1>1. IInv => SignerRecovered
    <2> SUFFICES ASSUME IInv, origin = "signed"
                 PROVE  LET D == said[1]
                            m == said[2]
                        IN  /\ verify_prehash(C, vk, Prehash, sig)
                            /\ recover_from_prehash(C, Prehash, sig, id) = {vk}
                            /\ trial_recovery_from_prehash(C, vk, Prehash, sig) = {id}
                            /\ D # None =>
                                 /\ verify_digest(C, vk, D, m, sig)
                                 /\ recover_from_digest(C, D, m, sig, id) = {vk}
                                 /\ trial_recovery_from_digest(C, vk, D, m, sig) = {id}
                            /\ D = C.Digest =>
                                 /\ verify(C, vk, m, sig)
                                 /\ verify_der(C, vk, m, to_der(sig))
                                 /\ recover_from_msg(C, m, sig, id) = {vk}
                                 /\ trial_recovery_from_msg(C, vk, m, sig) = {id}
                            /\ D # None /\ under = D => verify_with_oid(C, vk, m, Labelled)
      BY DEF SignerRecovered
    <2>1. /\ KeysInv /\ vk # None /\ said \in Said[C.name] /\ C \in Curves /\ sig \in Sigs(C)
          /\ \E k \in Nonces[C.name] : \E ok \in sign_prehash(C, key, Prehash, k) :
                 sig = ok[1] /\ id = ok[2]
      BY DEF IInv, KeysInv, SigInv
    <2>2. IsCurve(C) /\ C.Digest \in Digests /\ None \notin Digests
      BY <2>1, Assumed
    <2>3. /\ IsOctets(Prehash)
          /\ said[1] # None => said[1] \in Digests /\ Prehash = Hash[said[1]][said[2]]
      BY <2>1, PrehashIsOctets
    <2>4. /\ verify_prehash(C, vk, Prehash, sig)
          /\ recover_from_prehash(C, Prehash, sig, id) = {vk}
          /\ trial_recovery_from_prehash(C, vk, Prehash, sig) = {id}
      BY <2>1, <2>3, SignedSigs, SMTT(40)
    <2>5. ASSUME said[1] # None
          PROVE  /\ verify_digest(C, vk, said[1], said[2], sig)
                 /\ recover_from_digest(C, said[1], said[2], sig, id) = {vk}
                 /\ trial_recovery_from_digest(C, vk, said[1], said[2], sig) = {id}
      BY <2>3, <2>4, <2>5 DEF verify_digest, recover_from_digest, trial_recovery_from_digest
    <2>6. ASSUME said[1] = C.Digest
          PROVE  /\ verify(C, vk, said[2], sig)
                 /\ verify_der(C, vk, said[2], to_der(sig))
                 /\ recover_from_msg(C, said[2], sig, id) = {vk}
                 /\ trial_recovery_from_msg(C, vk, said[2], sig) = {id}
      <3>1. said[1] # None
        BY <2>2, <2>6
      <3>2. verify(C, vk, said[2], sig)
        BY <2>5, <2>6, <3>1 DEF verify
      <3>3. from_der(C, to_der(sig)) = {sig}
        BY <2>1, <2>2, DerWritten
      <3>4. verify_der(C, vk, said[2], to_der(sig))
        BY <3>2, <3>3 DEF verify_der
      <3> QED  BY <2>5, <2>6, <3>1, <3>2, <3>4 DEF recover_from_msg, trial_recovery_from_msg
    <2>7. ASSUME said[1] # None, under = said[1]
          PROVE  verify_with_oid(C, vk, said[2], Labelled)
      <3>1. under \in Digests /\ oid \in ecdsa_oid_for_digest(DigestOid(under))
        BY <2>7 DEF IInv, SigInv
      <3>2. under \in {"sha224", "sha256", "sha384", "sha512", "sha3"}
        BY <2>1, <3>1, Assumed
      <3> QED  BY <2>5, <2>7, <3>1, <3>2, OidMeans DEF Labelled
    <2> QED  BY <2>4, <2>5, <2>6, <2>7
  <1> QED  BY <1>1, InductiveInvariant, PTL

(* A key verifies a signature exactly when one of the four recovery ids     *)
(* gives it, for every signature in range.                                  *)
THEOREM VerifyAlwaysIffRecoverable == Spec => []VerifyIffRecoverable
  <1>1. IInv => VerifyIffRecoverable
    <2> SUFFICES ASSUME IInv, origin \in {"signed", "imported"}, NEW h \in Prehashes,
                        NEW z \in bits2field(C, h)
                 PROVE  LET recovered == UNION {recover_from_prehash_noverify(C, h, sig, i) :
                                                    i \in 0 .. 3}
                        IN  \A Q \in {vk, Neg(C, vk)} \cup recovered :
                                verify_prehashed(C, Q, z, sig) <=> Q \in recovered
      BY DEF VerifyIffRecoverable
    <2>1. C \in Curves /\ sig \in Sigs(C) /\ vk # None
      BY DEF IInv, KeysInv, SigInv
    <2>2. IsCurve(C) /\ IsOctets(h)
      BY <2>1, Assumed
    <2>3. bits2field(C, h) = {z} /\ reduce(C, z) \in Nat
      BY <2>2, FieldBits
    <2>4. vk \in Scalars(C)
      BY <2>1 DEF IInv, KeysInv
    <2>5. Neg(C, vk) \in Scalars(C)
      BY <2>2, <2>4, ScalarFacts
    <2> DEFINE recovered == UNION {recover_from_prehash_noverify(C, h, sig, i) : i \in 0 .. 3}
    <2>6. \A Q : Q \in recovered <=>
              \E i \in 0 .. 3 : Q \in recover_from_prehash_noverify(C, h, sig, i)
      OBVIOUS
    <2> HIDE DEF recovered
    <2>7. \A Q \in recovered : Q \in Scalars(C)
      BY <2>1, <2>2, <2>3, <2>6, RecoverMeans
    <2>8. ASSUME NEW Q \in Scalars(C)
          PROVE  verify_prehashed(C, Q, z, sig) <=> Q \in recovered
      BY <2>1, <2>2, <2>3, <2>6, VerifyRecover
    <2> QED  BY <2>4, <2>5, <2>7, <2>8 DEF recovered
  <1> QED  BY <1>1, InductiveInvariant, PTL

(* Normalising gives a low s and changes no verdict, so that where          *)
(* NORMALIZE_S is set one of s and its negation is accepted.                *)
THEOREM NormalizeAlwaysPreserves == Spec => []NormalizePreserves
  <1>1. IInv => NormalizePreserves
    <2> SUFFICES ASSUME IInv, origin \in {"signed", "imported"}
                 PROVE  LET low == normalize_s(C, sig)
                        IN  /\ ~is_high(C, low.s)
                            /\ \A h \in Prehashes :
                               \A z \in bits2field(C, h), Q \in {vk, Neg(C, vk)} :
                                 /\ verify_prehashed(C, Q, z, low) = verify_prehashed(C, Q, z, sig)
                                 /\ C.NORMALIZE_S =>
                                      (verify_prehash(C, Q, h, sig)
                                          <=> verify_prehashed(C, Q, z, sig) /\ sig = low)
      BY DEF NormalizePreserves
    <2>1. C \in Curves /\ sig \in Sigs(C) /\ vk # None
      BY DEF IInv, KeysInv, SigInv
    <2>2. IsCurve(C)
      BY <2>1, Assumed
    <2>3. PICK low : low = normalize_s(C, sig)
      OBVIOUS
    <2>4. ~is_high(C, low.s) /\ (is_high(C, sig.s) <=> low # sig)
      BY <2>1, <2>2, <2>3, NormalizedFacts
    <2>5. vk \in Scalars(C)
      BY <2>1 DEF IInv, KeysInv
    <2>6. Neg(C, vk) \in Scalars(C)
      BY <2>2, <2>5, ScalarFacts
    <2>7. ASSUME NEW h \in Prehashes, NEW z \in bits2field(C, h), NEW Q \in {vk, Neg(C, vk)}
          PROVE  /\ verify_prehashed(C, Q, z, low) = verify_prehashed(C, Q, z, sig)
                 /\ C.NORMALIZE_S =>
                      (verify_prehash(C, Q, h, sig)
                          <=> verify_prehashed(C, Q, z, sig) /\ sig = low)
      <3>1. IsOctets(h)
        BY <2>1, Assumed
      <3>2. bits2field(C, h) = {z} /\ reduce(C, z) \in Nat
        BY <2>2, <3>1, FieldBits
      <3>3. Q \in Nat
        BY <2>5, <2>6, <2>2, ScalarFacts
      <3>4. verify_prehashed(C, Q, z, low) <=> verify_prehashed(C, Q, z, sig)
        BY <2>1, <2>2, <2>3, <3>2, <3>3, NormalizedVerdict
      <3>5. verify_prehashed(C, Q, z, low) = verify_prehashed(C, Q, z, sig)
        BY <3>4 DEF verify_prehashed
      <3>6. verify_prehash(C, Q, h, sig)
              <=> ~(C.NORMALIZE_S /\ is_high(C, sig.s)) /\ verify_prehashed(C, Q, z, sig)
        BY <3>2 DEF verify_prehash
      <3> QED  BY <2>4, <3>5, <3>6
    <2> QED  BY <2>3, <2>4, <2>7
  <1> QED  BY <1>1, InductiveInvariant, PTL

(* A digest and the OID it gives mean the same hash in both tables.         *)
THEOREM OidAlwaysNamesHash == Spec => []OidNamesHash
  <1>1. IInv => OidNamesHash
    <2> SUFFICES ASSUME IInv, sig # None, under # None  PROVE OidNamesHash
      BY DEF OidNamesHash
    <2>1. /\ C \in Curves /\ sig \in Sigs(C)
          /\ said \in Said[C.name] \cup {None}
          /\ origin \notin {"none", "refused"} => vk # None
      BY DEF IInv, KeysInv, SigInv
    <2>4. ASSUME NEW m
          PROVE  verify_with_oid(C, vk, m, Labelled) <=> verify_digest(C, vk, under, m, sig)
      <3>1. under \in Digests /\ oid \in ecdsa_oid_for_digest(DigestOid(under))
        BY DEF IInv, SigInv
      <3>2. under \in {"sha224", "sha256", "sha384", "sha512", "sha3"}
        BY <2>1, <3>1, Assumed
      <3> QED  BY <3>1, <3>2, OidMeans DEF Labelled
    <2>5. ASSUME said # None, under = said[1], C.NORMALIZE_S => ~is_high(C, sig.s)
          PROVE  verify_digest(C, vk, under, said[2], sig)
      <3>1. Genuine(sig)
        BY <2>5 DEF IInv, SigInv
      <3>2. PICK k \in Nonces[C.name] : \E ok \in sign_prehash(C, key, Prehash, k) :
                sig \in {ok[1], normalize_s(C, ok[1])}
        BY <3>1 DEF Genuine
      <3>3. PICK ok \in sign_prehash(C, key, Prehash, k) : sig \in {ok[1], normalize_s(C, ok[1])}
        BY <3>2
      <3>4. IsOctets(Prehash) /\ Prehash = Hash[under][said[2]]
        BY <2>1, <2>5, PrehashIsOctets
      <3>5. vk # None /\ KeysInv /\ IsCurve(C)
        BY <2>1, Assumed DEF IInv, SigInv
      <3>9. \E z \in bits2field(C, Prehash) : TRUE
        <4>1. verify_prehash(C, vk, Prehash, ok[1])
          BY <3>3, <3>4, <3>5, SignedSigs
        <4> QED  BY <4>1 DEF verify_prehash
      <3>6. ok[1] \in Sigs(C) /\ \A z \in bits2field(C, Prehash) : verify_prehashed(C, vk, z, ok[1])
        BY <3>3, <3>4, <3>5, SignedSigs
      <3>7. vk \in Scalars(C)
        BY <3>5 DEF KeysInv
      <3>8. ASSUME NEW z \in bits2field(C, Prehash)  PROVE verify_prehashed(C, vk, z, sig)
        <4>1. reduce(C, z) \in Nat
          BY <3>4, <3>5, FieldBits
        <4>2. vk \in Nat
          BY <3>5, <3>7, ScalarFacts
        <4> QED  BY <3>3, <3>5, <3>6, <4>1, <4>2, NormalizedVerdict
      <3>10. verify_prehash(C, vk, Prehash, sig)
        BY <2>5, <3>8, <3>9 DEF verify_prehash
      <3> QED  BY <3>4, <3>10 DEF verify_digest
    <2> QED  BY <2>4, <2>5 DEF OidNamesHash
  <1> QED  BY <1>1, InductiveInvariant, PTL

(* What is read from the wire is written back to the same bytes: each       *)
(* signature has one encoding of a form, and unchanged bytes are read.      *)
THEOREM WireAlwaysCanonical == Spec => []WireCanonical
  <1>1. IInv => WireCanonical
    <2> SUFFICES ASSUME IInv  PROVE WireCanonical
      OBVIOUS
    <2>1. C \in Curves
      BY DEF IInv, KeysInv
    <2>2. IsCurve(C)
      BY <2>1, Assumed
    <2>3. ASSUME origin = "received"
          PROVE  /\ wire[1] = "fixed" => wire[2] = to_bytes(C, sig)
                 /\ wire[1] = "der" =>
                      /\ wire[2] = to_der(sig)
                      /\ \A b \in Wrong : decode(C, Append(wire[2], b)) = {<<sig, <<b>>>>}
                 /\ wire[1] = "hex" =>
                      /\ UpperHex(C, sig) = [i \in DOMAIN wire[2] |->
                            IF wire[2][i] \in Lower THEN wire[2][i] - 32 ELSE wire[2][i]]
                      /\ deserialize(C, wire[2]) = {sig}
                 /\ wire[1] = "derhex" => mixed_decode(wire[2]) = {to_der(sig)}
      <3>1. wire \in Wires /\ sig \in Parsed(wire[1], wire[2])
        BY <2>3 DEF IInv, WireInv
      <3>2. /\ sig \in Sigs(C)
            /\ wire[1] = "fixed" => wire[2] = to_bytes(C, sig)
            /\ wire[1] = "der" => wire[2] = to_der(sig)
            /\ wire[1] = "hex" => IsText(wire[2]) /\ Spells(wire[2], to_bytes(C, sig))
            /\ wire[1] = "derhex" => mixed_decode(wire[2]) = {to_der(sig)}
        BY <2>1, <3>1, ReadIs
      <3>3. ASSUME NEW b \in Wrong  PROVE decode(C, Append(to_der(sig), b)) = {<<sig, <<b>>>>}
        <4>1. b \in 0 .. 255
          BY WrongAssumption
        <4> QED  BY <2>2, <3>2, <4>1, DerLeaves
      <3>4. ASSUME wire[1] = "hex"
            PROVE  /\ UpperHex(C, sig) = [i \in DOMAIN wire[2] |->
                          IF wire[2][i] \in Lower THEN wire[2][i] - 32 ELSE wire[2][i]]
                   /\ deserialize(C, wire[2]) = {sig}
        <4>1. PICK t : t = wire[2]
          OBVIOUS
        <4>2. IsText(t) /\ Spells(t, to_bytes(C, sig))
          BY <3>2, <3>4, <4>1
        <4>3. IsOctets(to_bytes(C, sig)) /\ from_slice(C, to_bytes(C, sig)) = {sig}
          BY <2>2, <3>2, FixedRead
        <4>4. UpperHex(C, sig) = [i \in DOMAIN t |-> IF t[i] \in Lower THEN t[i] - 32 ELSE t[i]]
          BY <4>2, <4>3, UpperIs DEF UpperHex
        <4>5. mixed_decode(t) = {to_bytes(C, sig)}
          BY <4>2, <4>3, MixedWritten
        <4>6. deserialize(C, t) = {sig}
          BY <4>3, <4>5 DEF deserialize
        <4> QED  BY <4>1, <4>4, <4>6
      <3> QED  BY <3>2, <3>3, <3>4
    <2>4. ASSUME origin = "lost"  PROVE ~Undamaged
      <3>1. /\ wire \in Wires /\ sent \in Sigs(C) /\ Parsed(wire[1], wire[2]) = {}
        BY <2>4 DEF IInv, WireInv
      <3> SUFFICES ASSUME wire \in Written(sent)  PROVE FALSE
        BY DEF Undamaged
      <3>2. Parsed(wire[1], wire[2]) = {sent}
        BY <2>1, <3>1, Reread
      <3> QED  BY <3>1, <3>2
    <2> QED  BY <2>3, <2>4 DEF WireCanonical
  <1> QED  BY <1>1, InductiveInvariant, PTL
==============================================================================
