------------------------- MODULE SlhSession_proofs -------------------------
(***************************************************************************)
(* Proofs about SlhSession, for every size of hash, number and height of    *)
(* trees and layers, every key, message digest and pair signed.             *)
(*                                                                          *)
(* Six parts.  Runs: the loops of the algorithms are recursive functions of *)
(* their own, so each is shown to be one family of loops, Run, whose values *)
(* can be spoken of outside it.  WOTS+: the digits of a message are nibbles,*)
(* and a chain walked in two parts ends where it ends in one.  Trees: the   *)
(* nodes of an XMSS and of a FORS tree level by level, and the climb from a *)
(* signed leaf, which reaches the node above the leaf at each height.  Both *)
(* give that verification computes the root, whatever was signed.  Paths:   *)
(* the tree and leaf that a digest selects on every layer, and that the     *)
(* root of one layer is what the next one signs.  Encodings: a signature    *)
(* and a key are read as they were written.  The session: the invariants    *)
(* TInv, what the variables hold, and RInv, which says of the loops over    *)
(* the layers how far along the digest's path they are, what they carry and *)
(* which layers of the signature there are.                                 *)
(*                                                                          *)
(* All but type correctness rests on HashBytes: a hash function gives N     *)
(* octets whatever it is given.                                             *)
(***************************************************************************)
EXTENDS SlhSession, BasicFacts

(* The nodes of a level of an XMSS tree, and of the trees of a FORS key.    *)
Level(k) == 0 .. 2 ^ (HPrime - k) - 1
ForsLevel(k) == 0 .. K * 2 ^ (A - k) - 1

(* Leaves and nodes of an XMSS tree.                                        *)
TreeLeaf(sk, pk, a, n) == wots_pk_gen(sk, pk, [a EXCEPT !.word5 = n])
TreeNode(pk, a, k, n, x, y) == h(pk, [tree_adrs(a) EXCEPT !.word6 = k, !.word7 = n], x, y)

(* Leaves and nodes of the trees of a FORS key.                             *)
ForsAdrs(a, z, i) == [a EXCEPT !.word6 = z, !.word7 = i]
ForsLeaf(sk, pk, a, i) == f(pk, ForsAdrs(a, 0, i), fors_sk_gen(sk, pk, a, i))
ForsNode(pk, a, k, i, x, y) == h(pk, ForsAdrs(a, k, i), x, y)

(* The loops of the algorithms, each named by a tuple of what it is given:  *)
(* where it starts ...                                                      *)
Start(c) ==
    CASE c[1] = "chain"      -> c[2]
      [] c[1] = "tree"       -> [n \in Level(0) |-> TreeLeaf(c[2], c[3], c[4], n)]
      [] c[1] = "climb"      -> wots_pk_from_sig(c[3].sig, c[4], c[5], c[6])
      [] c[1] = "fors tree"  -> [i \in ForsLevel(0) |-> ForsLeaf(c[2], c[3], c[4], i)]
      [] c[1] = "fors climb" -> f(c[5], ForsAdrs(c[6], 0, c[2] \div 2 ^ 0), c[4].sk)
      [] c[1] = "digits"     -> [i |-> 0, bits |-> 0, total |-> 0, out |-> 0]
      [] c[1] = "sum"        -> 0

(* ... and what its k-th round makes of the value v before it.              *)
Step(c, k, v) ==
    CASE c[1] = "chain"      -> f(c[4], [c[5] EXCEPT !.word7 = c[3] + k - 1], v)
      [] c[1] = "tree"       -> [n \in Level(k) |->
                                    TreeNode(c[3], c[4], k, n, v[2 * n], v[2 * n + 1])]
      [] c[1] = "climb"      -> Join(c[5], [tree_adrs(c[6]) EXCEPT !.word6 = k,
                                                                   !.word7 = c[2] \div 2 ^ k],
                                     (c[2] \div 2 ^ (k - 1)) % 2, v, c[3].auth[k])
      [] c[1] = "fors tree"  -> [i \in ForsLevel(k) |->
                                    ForsNode(c[3], c[4], k, i, v[2 * i], v[2 * i + 1])]
      [] c[1] = "fors climb" -> Join(c[5], ForsAdrs(c[6], k, c[2] \div 2 ^ k),
                                     (c[3] \div 2 ^ (k - 1)) % 2, v, c[4].auth[k])
      [] c[1] = "digits"     ->
            LET fresh == IF v.bits < c[3] THEN DivCeil(c[3] - v.bits, 8) ELSE 0
                total == Value(<<v.total>> \o SubSeq(c[2], v.i + 1, v.i + fresh))
                bits  == v.bits + 8 * fresh - c[3]
            IN  [i |-> v.i + fresh, bits |-> bits, total |-> total % 2 ^ bits,
                 out |-> (total \div 2 ^ bits) % 2 ^ c[3]]
      [] c[1] = "sum"        -> v + W - 1 - c[2][k]

(* The values of the first L rounds, as a recursive function has them.      *)
IsRun(g, c, L) == g = [k \in 0 .. L |-> IF k = 0 THEN Start(c) ELSE Step(c, k, g[k - 1])]

(* Its value after L rounds.                                                *)
Run(c, L) == (CHOOSE g : IsRun(g, c, L))[L]

(* There is such a function ...                                             *)
LEMMA RunExists ==
    ASSUME NEW c, NEW L \in Nat
    PROVE  \E g : IsRun(g, c, L)
  <1> DEFINE S == {m \in 0 .. L : \E g : IsRun(g, c, m)}
  <1>1. 0 \in S
    <2> DEFINE g == [k \in 0 .. 0 |-> Start(c)]
    <2>1. IsRun(g, c, 0)
      BY DEF IsRun
    <2> QED  BY <2>1
  <1>2. ASSUME NEW m \in 0 .. L - 1, m \in S
        PROVE  m + 1 \in S
    <2>1. PICK g : IsRun(g, c, m)
      BY <1>2
    <2> DEFINE e == [k \in 0 .. m + 1 |-> IF k = m + 1 THEN Step(c, m + 1, g[m]) ELSE g[k]]
    <2>2. ASSUME NEW k \in 0 .. m + 1
          PROVE  e[k] = IF k = 0 THEN Start(c) ELSE Step(c, k, e[k - 1])
      <3>1. CASE k = m + 1
        <4>1. k # 0 /\ k - 1 = m /\ m \in 0 .. m + 1 /\ m # m + 1
          BY <3>1
        <4>2. e[m] = g[m]
          BY <4>1
        <4> QED  BY <3>1, <4>1, <4>2
      <3>2. CASE k # m + 1
        <4>1. k \in 0 .. m
          BY <3>2
        <4>2. g[k] = IF k = 0 THEN Start(c) ELSE Step(c, k, g[k - 1])
          BY <2>1, <4>1 DEF IsRun
        <4>3. e[k] = g[k]
          BY <3>2
        <4>4. k # 0 => k - 1 \in 0 .. m + 1 /\ k - 1 # m + 1 /\ e[k - 1] = g[k - 1]
          BY <4>1
        <4> QED  BY <4>2, <4>3, <4>4
      <3> QED  BY <3>1, <3>2
    <2>3. e = [k \in 0 .. m + 1 |-> e[k]]
      OBVIOUS
    <2> HIDE DEF e
    <2>4. IsRun(e, c, m + 1)
      BY <2>2, <2>3 DEF IsRun
    <2> QED  BY <2>4
  <1> HIDE DEF S
  <1>3. 0 .. L \subseteq S
    BY <1>1, <1>2, IntervalInduction
  <1>4. L \in S
    BY <1>3
  <1> QED  BY <1>4 DEF S

(* ... and it does not depend on how many rounds there are.                 *)
LEMMA RunUnique ==
    ASSUME NEW c, NEW L \in Nat, NEW M \in Nat, L <= M,
           NEW g, IsRun(g, c, L), NEW e, IsRun(e, c, M)
    PROVE  g[L] = e[L]
  <1> DEFINE S == {k \in 0 .. L : g[k] = e[k]}
  <1>1. 0 \in S
    BY DEF IsRun
  <1>2. ASSUME NEW k \in 0 .. L - 1, k \in S
        PROVE  k + 1 \in S
    <2>1. k + 1 \in 0 .. L /\ k + 1 \in 0 .. M /\ k + 1 # 0 /\ (k + 1) - 1 = k
      OBVIOUS
    <2>2. g[k + 1] = Step(c, k + 1, g[k]) /\ e[k + 1] = Step(c, k + 1, e[k])
      BY <2>1 DEF IsRun
    <2> QED  BY <1>2, <2>1, <2>2
  <1> HIDE DEF S
  <1>3. 0 .. L \subseteq S
    BY <1>1, <1>2, IntervalInduction
  <1>4. L \in S
    BY <1>3
  <1> QED  BY <1>4 DEF S

(* Any such function ends with the value named.                             *)
LEMMA RunIs ==
    ASSUME NEW c, NEW L \in Nat, NEW g, IsRun(g, c, L)
    PROVE  g[L] = Run(c, L)
  <1>1. PICK e : e = CHOOSE d : IsRun(d, c, L)
    OBVIOUS
  <1>2. IsRun(e, c, L)
    BY <1>1
  <1>3. g[L] = e[L]
    BY <1>2, RunUnique
  <1> QED  BY <1>1, <1>3 DEF Run

(* A loop of no round.                                                      *)
LEMMA RunStart ==
    ASSUME NEW c
    PROVE  Run(c, 0) = Start(c)
  <1>1. PICK g : IsRun(g, c, 0)
    BY RunExists
  <1>2. g[0] = Start(c)
    BY <1>1 DEF IsRun
  <1> QED  BY <1>1, <1>2, RunIs

(* One round more.                                                          *)
LEMMA RunStep ==
    ASSUME NEW c, NEW k \in Nat
    PROVE  Run(c, k + 1) = Step(c, k + 1, Run(c, k))
  <1>1. PICK g : IsRun(g, c, k + 1)
    BY RunExists
  <1>2. PICK e : IsRun(e, c, k)
    BY RunExists
  <1>3. e[k] = g[k]
    BY <1>1, <1>2, RunUnique
  <1>4. e[k] = Run(c, k) /\ g[k + 1] = Run(c, k + 1)
    BY <1>1, <1>2, RunIs
  <1>5. k + 1 \in 0 .. k + 1 /\ k + 1 # 0 /\ (k + 1) - 1 = k
    OBVIOUS
  <1>6. g[k + 1] = Step(c, k + 1, g[k])
    BY <1>1, <1>5 DEF IsRun
  <1> QED  BY <1>3, <1>4, <1>6

(* Each recursive function of the algorithms is one of these loops.         *)
LEMMA ChainRuns ==
    ASSUME NEW x, NEW i, NEW s \in Nat, NEW pk, NEW a
    PROVE  wots_chain(x, i, s, pk, a) = Run(<<"chain", x, i, pk, a>>, s)
  <1> DEFINE c == <<"chain", x, i, pk, a>>
             Is(g) == g = [k \in 0 .. s |-> IF k = 0 THEN x
                                            ELSE f(pk, [a EXCEPT !.word7 = i + k - 1], g[k - 1])]
             e == CHOOSE g : Is(g)
  <1>1. c[1] = "chain" /\ c[2] = x /\ c[3] = i /\ c[4] = pk /\ c[5] = a
    OBVIOUS
  <1>2. wots_chain(x, i, s, pk, a) = e[s]
    BY DEF wots_chain
  <1> HIDE DEF c
  <1>3. Start(c) = x /\ \A k, v : Step(c, k, v) = f(pk, [a EXCEPT !.word7 = i + k - 1], v)
    BY <1>1 DEF Start, Step
  <1>4. ASSUME NEW g  PROVE Is(g) <=> IsRun(g, c, s)
    BY <1>3, Zenon DEF IsRun
  <1>5. PICK g : Is(g)
    BY <1>4, RunExists
  <1>6. Is(e)
    BY <1>5
  <1> HIDE DEF e, Is
  <1>7. e[s] = Run(c, s)
    BY <1>4, <1>6, RunIs
  <1> QED  BY <1>2, <1>7 DEF c

(* The levels of an XMSS tree are a run.                                    *)
LEMMA TreeRuns ==
    ASSUME NEW sk, NEW n, NEW z \in 0 .. HPrime, NEW pk, NEW a
    PROVE  xmss_node(sk, n, z, pk, a) = Run(<<"tree", sk, pk, a>>, z)[n]
  <1> DEFINE c == <<"tree", sk, pk, a>>
             Node(k, m, v) == IF k = 0 THEN TreeLeaf(sk, pk, a, m)
                              ELSE TreeNode(pk, a, k, m, v[2 * m], v[2 * m + 1])
             Is(g) == g = [k \in 0 .. HPrime |-> [m \in Level(k) |-> Node(k, m, g[k - 1])]]
             e == CHOOSE g : Is(g)
  <1>1. c[1] = "tree" /\ c[2] = sk /\ c[3] = pk /\ c[4] = a
    OBVIOUS
  <1>2. xmss_node(sk, n, z, pk, a) = e[z][n]
    BY Zenon DEF xmss_node, Level, TreeLeaf, TreeNode
  <1> HIDE DEF c
  <1>3. ASSUME NEW v  PROVE Start(c) = [m \in Level(0) |-> Node(0, m, v)]
    <2>1. Start(c) = [m \in Level(0) |-> TreeLeaf(c[2], c[3], c[4], m)]
      BY <1>1, Zenon DEF Start
    <2> QED  BY <1>1, <2>1
  <1>4. ASSUME NEW k, NEW v, k # 0  PROVE Step(c, k, v) = [m \in Level(k) |-> Node(k, m, v)]
    <2>1. Step(c, k, v) =
              [m \in Level(k) |-> TreeNode(c[3], c[4], k, m, v[2 * m], v[2 * m + 1])]
      BY <1>1, Zenon DEF Step
    <2> QED  BY <1>1, <1>4, <2>1
  <1> HIDE DEF Node
  <1>5. ASSUME NEW g  PROVE IsRun(g, c, HPrime) <=> Is(g)
    <2>1. ASSUME NEW k  PROVE (IF k = 0 THEN Start(c) ELSE Step(c, k, g[k - 1]))
                                  = [m \in Level(k) |-> Node(k, m, g[k - 1])]
      <3>1. CASE k = 0
        <4>1. PICK v : v = g[k - 1]
          OBVIOUS
        <4>2. Start(c) = [m \in Level(0) |-> Node(0, m, v)]
          BY <1>3
        <4> QED  BY <3>1, <4>1, <4>2
      <3>2. CASE k # 0
        BY <1>4, <3>2, Zenon
      <3> QED  BY <3>1, <3>2
    <2> QED  BY <2>1, Zenon DEF IsRun
  <1>6. HPrime \in Nat
    BY SlhParameters
  <1>7. PICK g : Is(g)
    BY <1>5, <1>6, RunExists
  <1>8. Is(e)
    BY <1>7
  <1> HIDE DEF e, Is
  <1>9. IsRun(e, c, HPrime)
    BY <1>5, <1>8
  <1>10. PICK d : IsRun(d, c, z)
    BY RunExists
  <1>11. d[z] = e[z] /\ d[z] = Run(c, z)
    BY <1>6, <1>9, <1>10, RunUnique, RunIs
  <1> QED  BY <1>2, <1>11 DEF c

(* The walk up from a leaf of an XMSS tree is a run.                        *)
LEMMA ClimbRuns ==
    ASSUME NEW idx, NEW s, NEW m, NEW pk, NEW a
    PROVE  xmss_pk_from_sig(idx, s, m, pk, a)
               = Run(<<"climb", idx, s, m, pk, [a EXCEPT !.word5 = idx]>>, HPrime)
  <1>0. PICK b : b = [a EXCEPT !.word5 = idx]
    OBVIOUS
  <1> DEFINE c == <<"climb", idx, s, m, pk, b>>
             Is(g) == g = [k \in 0 .. HPrime |->
                              IF k = 0 THEN wots_pk_from_sig(s.sig, m, pk, b)
                              ELSE Join(pk, [tree_adrs(b) EXCEPT !.word6 = k,
                                                                 !.word7 = idx \div 2 ^ k],
                                        (idx \div 2 ^ (k - 1)) % 2, g[k - 1], s.auth[k])]
             e == CHOOSE g : Is(g)
  <1>1. c[1] = "climb" /\ c[2] = idx /\ c[3] = s /\ c[4] = m /\ c[5] = pk /\ c[6] = b
    OBVIOUS
  <1>2. xmss_pk_from_sig(idx, s, m, pk, a) = e[HPrime]
    BY <1>0, Zenon DEF xmss_pk_from_sig
  <1> HIDE DEF c
  <1>3. /\ Start(c) = wots_pk_from_sig(s.sig, m, pk, b)
        /\ \A k, v : Step(c, k, v) =
               Join(pk, [tree_adrs(b) EXCEPT !.word6 = k, !.word7 = idx \div 2 ^ k],
                    (idx \div 2 ^ (k - 1)) % 2, v, s.auth[k])
    BY <1>1, Zenon DEF Start, Step
  <1>4. ASSUME NEW g  PROVE Is(g) <=> IsRun(g, c, HPrime)
    BY <1>3, Zenon DEF IsRun
  <1>5. HPrime \in Nat
    BY SlhParameters
  <1>6. PICK g : Is(g)
    BY <1>4, <1>5, RunExists
  <1>7. Is(e)
    BY <1>6
  <1> HIDE DEF e, Is
  <1>8. e[HPrime] = Run(c, HPrime)
    BY <1>4, <1>5, <1>7, RunIs
  <1> QED  BY <1>0, <1>2, <1>8 DEF c

(* The levels of the trees of a FORS key are a run.                         *)
LEMMA ForsTreeRuns ==
    ASSUME NEW sk, NEW n, NEW z \in 0 .. A, NEW pk, NEW a
    PROVE  fors_node(sk, n, z, pk, a) = Run(<<"fors tree", sk, pk, a>>, z)[n]
  <1> DEFINE c == <<"fors tree", sk, pk, a>>
             Node(k, m, v) == IF k = 0 THEN ForsLeaf(sk, pk, a, m)
                              ELSE ForsNode(pk, a, k, m, v[2 * m], v[2 * m + 1])
             Is(g) == g = [k \in 0 .. A |-> [m \in ForsLevel(k) |-> Node(k, m, g[k - 1])]]
             e == CHOOSE g : Is(g)
  <1>1. c[1] = "fors tree" /\ c[2] = sk /\ c[3] = pk /\ c[4] = a
    OBVIOUS
  <1>2. fors_node(sk, n, z, pk, a) = e[z][n]
    BY ZenonT(40) DEF fors_node, ForsLevel, ForsAdrs, ForsLeaf, ForsNode
  <1> HIDE DEF c
  <1>3. ASSUME NEW v  PROVE Start(c) = [m \in ForsLevel(0) |-> Node(0, m, v)]
    <2>1. Start(c) = [m \in ForsLevel(0) |-> ForsLeaf(c[2], c[3], c[4], m)]
      BY <1>1, Zenon DEF Start
    <2> QED  BY <1>1, <2>1
  <1>4. ASSUME NEW k, NEW v, k # 0  PROVE Step(c, k, v) = [m \in ForsLevel(k) |-> Node(k, m, v)]
    <2>1. Step(c, k, v) =
              [m \in ForsLevel(k) |-> ForsNode(c[3], c[4], k, m, v[2 * m], v[2 * m + 1])]
      BY <1>1, Zenon DEF Step
    <2> QED  BY <1>1, <1>4, <2>1
  <1> HIDE DEF Node
  <1>5. ASSUME NEW g  PROVE IsRun(g, c, A) <=> Is(g)
    <2>1. ASSUME NEW k  PROVE (IF k = 0 THEN Start(c) ELSE Step(c, k, g[k - 1]))
                                  = [m \in ForsLevel(k) |-> Node(k, m, g[k - 1])]
      <3>1. CASE k = 0
        <4>1. PICK v : v = g[k - 1]
          OBVIOUS
        <4>2. Start(c) = [m \in ForsLevel(0) |-> Node(0, m, v)]
          BY <1>3
        <4> QED  BY <3>1, <4>1, <4>2
      <3>2. CASE k # 0
        BY <1>4, <3>2, Zenon
      <3> QED  BY <3>1, <3>2
    <2> QED  BY <2>1, Zenon DEF IsRun
  <1>6. A \in Nat
    BY SlhParameters
  <1>7. PICK g : Is(g)
    BY <1>5, <1>6, RunExists
  <1>8. Is(e)
    BY <1>7
  <1> HIDE DEF e, Is
  <1>9. IsRun(e, c, A)
    BY <1>5, <1>8
  <1>10. PICK d : IsRun(d, c, z)
    BY RunExists
  <1>11. d[z] = e[z] /\ d[z] = Run(c, z)
    BY <1>6, <1>9, <1>10, RunUnique, RunIs
  <1> QED  BY <1>2, <1>11 DEF c

-----------------------------------------------------------------------------
(* A chain not walked.                                                      *)
LEMMA ChainZero ==
    ASSUME NEW x, NEW i, NEW pk, NEW a
    PROVE  wots_chain(x, i, 0, pk, a) = x
  <1> DEFINE c == <<"chain", x, i, pk, a>>
  <1>1. c[1] = "chain" /\ c[2] = x
    OBVIOUS
  <1>2. wots_chain(x, i, 0, pk, a) = Run(c, 0)
    BY ChainRuns
  <1> HIDE DEF c
  <1>3. Start(c) = x
    BY <1>1, Zenon DEF Start
  <1> QED  BY <1>2, <1>3, RunStart

(* One more step of a chain.                                                *)
LEMMA ChainStep ==
    ASSUME NEW x, NEW i \in Nat, NEW s \in Nat, NEW pk, NEW a
    PROVE  wots_chain(x, i, s + 1, pk, a)
               = f(pk, [a EXCEPT !.word7 = i + s], wots_chain(x, i, s, pk, a))
  <1> DEFINE c == <<"chain", x, i, pk, a>>
  <1>1. c[1] = "chain" /\ c[2] = x /\ c[3] = i /\ c[4] = pk /\ c[5] = a
    OBVIOUS
  <1>2. /\ wots_chain(x, i, s, pk, a) = Run(c, s)
        /\ wots_chain(x, i, s + 1, pk, a) = Run(c, s + 1)
    BY ChainRuns
  <1> HIDE DEF c
  <1>4. i + (s + 1) - 1 = i + s
    OBVIOUS
  <1>5. Step(c, s + 1, Run(c, s)) = f(pk, [a EXCEPT !.word7 = i + (s + 1) - 1], Run(c, s))
    BY <1>1, Zenon DEF Step
  <1>6. Step(c, s + 1, Run(c, s)) = f(pk, [a EXCEPT !.word7 = i + s], Run(c, s))
    BY <1>4, <1>5
  <1> QED  BY <1>2, <1>6, RunStep

(* A chain walked in two parts.                                             *)
LEMMA ChainSplit ==
    ASSUME NEW x, NEW i \in Nat, NEW s \in Nat, NEW u \in Nat, NEW pk, NEW a
    PROVE  wots_chain(wots_chain(x, i, s, pk, a), i + s, u, pk, a)
               = wots_chain(x, i, s + u, pk, a)
  <1> DEFINE y == wots_chain(x, i, s, pk, a)
             S == {k \in 0 .. u : wots_chain(y, i + s, k, pk, a) = wots_chain(x, i, s + k, pk, a)}
  <1>0. i + s \in Nat /\ s + 0 = s
    OBVIOUS
  <1>1. 0 \in S
    <2>1. wots_chain(y, i + s, 0, pk, a) = y
      BY <1>0, ChainZero
    <2> QED  BY <1>0, <2>1
  <1>2. ASSUME NEW k \in 0 .. u - 1, k \in S
        PROVE  k + 1 \in S
    <2>1. k \in Nat /\ s + k \in Nat /\ (i + s) + k = i + (s + k) /\ (s + k) + 1 = s + (k + 1)
      OBVIOUS
    <2>2. wots_chain(y, i + s, k, pk, a) = wots_chain(x, i, s + k, pk, a)
      BY <1>2
    <2> HIDE DEF y
    <2>3. wots_chain(y, i + s, k + 1, pk, a)
              = f(pk, [a EXCEPT !.word7 = (i + s) + k], wots_chain(y, i + s, k, pk, a))
      BY <1>0, <2>1, ChainStep
    <2>4. wots_chain(x, i, (s + k) + 1, pk, a)
              = f(pk, [a EXCEPT !.word7 = i + (s + k)], wots_chain(x, i, s + k, pk, a))
      BY <2>1, ChainStep
    <2>5. wots_chain(y, i + s, k + 1, pk, a) = wots_chain(x, i, s + (k + 1), pk, a)
      BY <2>1, <2>2, <2>3, <2>4
    <2>6. k + 1 \in 0 .. u
      OBVIOUS
    <2> QED  BY <2>5, <2>6 DEF y
  <1> HIDE DEF S
  <1>3. 0 .. u \subseteq S
    BY <1>1, <1>2, IntervalInduction
  <1>4. u \in S
    BY <1>3
  <1> QED  BY <1>4 DEF S

(* The value of octets is a natural number.                                 *)
LEMMA ValueIsNat ==
    ASSUME NEW b \in Seq(Nat)
    PROVE  Value(b) \in Nat
  <1> DEFINE L == Len(b)
             c == CHOOSE g : IsHorner(g, b, L)
  <1>1. L \in Nat /\ \A i \in 1 .. L : b[i] \in Nat
    BY ElementOfSeq
  <1>2. Value(b) = c[L]
    BY DEF Value, IsHorner
  <1> HIDE DEF L
  <1>3. PICK g : Running(g, b, L)
    BY <1>1, Horner
  <1>4. IsHorner(c, b, L)
    BY <1>3 DEF Running
  <1> HIDE DEF c
  <1>5. Value(b) = g[L] /\ g \in [0 .. L -> Nat] /\ L \in 0 .. L
    BY <1>1, <1>2, <1>3, <1>4 DEF Running
  <1> QED  BY <1>5

(* A number before a part of a byte string.                                 *)
LEMMA PartIsNat ==
    ASSUME NEW x, IsOctets(x), NEW m \in Nat, NEW i \in Nat, NEW k \in Nat, i + k <= Len(x)
    PROVE  Value(<<m>> \o SubSeq(x, i + 1, i + k)) \in Nat
  <1> DEFINE S == 0 .. 255
  <1>1. x \in Seq(S) /\ Len(x) \in Nat
    BY DEF IsOctets
  <1>2. \A l \in 1 .. Len(x) : x[l] \in Nat
    <2>1. \A l \in 1 .. Len(x) : x[l] \in S
      BY <1>1, ElementOfSeq
    <2>2. \A v \in S : v \in Nat
      OBVIOUS
    <2> HIDE DEF S
    <2> QED  BY <2>1, <2>2
  <1> HIDE DEF S
  <1>3. SubSeq(x, i + 1, i + k) \in Seq(Nat)
    <2>1. \A l \in i + 1 .. i + k : x[l] \in Nat
      BY <1>1, <1>2
    <2> QED  BY <1>1, <2>1
  <1>4. <<m>> \in Seq(Nat)
    OBVIOUS
  <1>5. <<m>> \o SubSeq(x, i + 1, i + k) \in Seq(Nat)
    BY <1>3, <1>4
  <1> QED  BY <1>5, ValueIsNat

(* The digits of base_2b, round by round.                                   *)
LEMMA DigitsRun ==
    ASSUME NEW x, NEW n \in Nat, NEW b, NEW k \in 1 .. n
    PROVE  base_2b(x, n, b)[k] = Run(<<"digits", x, b>>, k).out
  <1> DEFINE c == <<"digits", x, b>>
             Zero == [i |-> 0, bits |-> 0, total |-> 0, out |-> 0]
             Round(v) ==
                 LET fresh == IF v.bits < b THEN DivCeil(b - v.bits, 8) ELSE 0
                     total == Value(<<v.total>> \o SubSeq(x, v.i + 1, v.i + fresh))
                     bits  == v.bits + 8 * fresh - b
                 IN  [i |-> v.i + fresh, bits |-> bits, total |-> total % 2 ^ bits,
                      out |-> (total \div 2 ^ bits) % 2 ^ b]
             Is(g) == g = [l \in 0 .. n |-> IF l = 0 THEN Zero ELSE Round(g[l - 1])]
             e == CHOOSE g : Is(g)
  <1>1. c[1] = "digits" /\ c[2] = x /\ c[3] = b
    OBVIOUS
  <1>2. base_2b(x, n, b) = [l \in 1 .. n |-> e[l].out]
    BY Zenon DEF base_2b
  <1> HIDE DEF c
  <1>3. Start(c) = Zero
    BY <1>1, Zenon DEF Start
  <1>4. ASSUME NEW l, NEW v  PROVE Step(c, l, v) = Round(v)
    BY <1>1, Zenon DEF Step
  <1> HIDE DEF Zero, Round
  <1>5. ASSUME NEW g  PROVE Is(g) <=> IsRun(g, c, n)
    BY <1>3, <1>4, Zenon DEF IsRun
  <1>6. PICK g : Is(g)
    BY <1>5, RunExists
  <1>7. Is(e)
    BY <1>6
  <1> HIDE DEF e, Is
  <1>8. IsRun(e, c, n)
    BY <1>5, <1>7
  <1>9. k \in Nat /\ k <= n
    OBVIOUS
  <1>10. PICK d : IsRun(d, c, k)
    BY <1>9, RunExists
  <1>11. d[k] = e[k] /\ d[k] = Run(c, k)
    BY <1>8, <1>9, <1>10, RunUnique, RunIs
  <1>12. base_2b(x, n, b)[k] = e[k].out
    BY <1>2
  <1> QED  BY <1>11, <1>12 DEF c

(* What a round leaves: bits left over, fewer than eight, of the bytes      *)
(* taken, and digits below the base.                                        *)
Taken(s, k, b) ==
    /\ s.i \in Nat /\ s.bits \in 0 .. 7 /\ s.total \in Nat
    /\ 8 * s.i = k * b + s.bits
    /\ k > 0 => s.out \in 0 .. 2 ^ b - 1

(* How many bytes a round takes.                                            *)
LEMMA FreshBytes ==
    ASSUME NEW b \in Nat, NEW m \in 0 .. 7,
           NEW e, e = IF m < b THEN DivCeil(b - m, 8) ELSE 0
    PROVE  e \in Nat /\ m + 8 * e - b \in 0 .. 7
  <1>1. CASE m < b
    <2>1. e = (b - m + 7) \div 8
      BY <1>1 DEF DivCeil
    <2> QED  BY <1>1, <2>1
  <1>2. CASE ~(m < b)
    BY <1>2
  <1> QED  BY <1>1, <1>2

(* What a round takes, it has taken for the digits so far and the bits left *)
(* over.                                                                    *)
LEMMA RoundBytes ==
    ASSUME NEW d \in Nat, NEW e \in Nat, NEW b \in Nat, NEW z \in Nat, NEW w \in Nat,
           NEW L \in Nat, NEW l \in 0 .. 7, NEW m \in 0 .. 7,
           m = l + 8 * e - b, 8 * d = z + l, z + b <= w, w <= 8 * L
    PROVE  8 * (d + e) = (z + b) + m /\ d + e <= L
  OBVIOUS

(* A round keeps what is said of it, as long as there are bytes.            *)
LEMMA DigitsRound ==
    ASSUME NEW x, IsOctets(x), NEW n \in Nat, NEW b \in Nat, n * b <= 8 * Len(x),
           NEW k \in 0 .. n - 1, Taken(Run(<<"digits", x, b>>, k), k, b)
    PROVE  Taken(Run(<<"digits", x, b>>, k + 1), k + 1, b)
  <1>0. PICK c : c = <<"digits", x, b>>
    OBVIOUS
  <1>1. c[1] = "digits" /\ c[2] = x /\ c[3] = b
    BY <1>0
  <1>2. PICK s : s = Run(c, k)
    OBVIOUS
  <1>3. Taken(s, k, b) /\ k \in Nat
    BY <1>0, <1>2
  <1>4. PICK e : e = IF s.bits < b THEN DivCeil(b - s.bits, 8) ELSE 0
    OBVIOUS
  <1>5. PICK m : m = s.bits + 8 * e - b
    OBVIOUS
  <1>6. e \in Nat /\ m \in 0 .. 7
    <2>1. s.bits \in 0 .. 7
      BY <1>3 DEF Taken
    <2> QED  BY <1>4, <1>5, <2>1, FreshBytes
  <1>7. PICK y : y = Value(<<s.total>> \o SubSeq(x, s.i + 1, s.i + e))
    OBVIOUS
  <1>8. Run(c, k + 1) = [i |-> s.i + e, bits |-> m, total |-> y % 2 ^ m,
                         out |-> (y \div 2 ^ m) % 2 ^ b]
    <2>1. Run(c, k + 1) = Step(c, k + 1, s)
      BY <1>2, <1>3, RunStep
    <2>2. Step(c, k + 1, s) =
              LET fresh == IF s.bits < c[3] THEN DivCeil(c[3] - s.bits, 8) ELSE 0
                  total == Value(<<s.total>> \o SubSeq(c[2], s.i + 1, s.i + fresh))
                  bits  == s.bits + 8 * fresh - c[3]
              IN  [i |-> s.i + fresh, bits |-> bits, total |-> total % 2 ^ bits,
                   out |-> (total \div 2 ^ bits) % 2 ^ c[3]]
      BY <1>1, Zenon DEF Step
    <2> QED  BY <1>1, <1>4, <1>5, <1>7, <2>1, <2>2, Zenon
  <1>9. PICK d \in Nat, l \in 0 .. 7 : d = s.i /\ l = s.bits /\ 8 * d = k * b + l
    BY <1>3, Zenon DEF Taken
  <1>10. 8 * (d + e) = (k + 1) * b + m /\ d + e <= Len(x)
    <2>1. PICK z \in Nat, w \in Nat, L \in Nat : z = k * b /\ w = n * b /\ L = Len(x)
      <3>1. Len(x) \in Nat
        BY DEF IsOctets
      <3>2. k * b \in Nat
        BY <1>3, Z3
      <3>3. n * b \in Nat
        BY Z3
      <3> QED  BY <3>1, <3>2, <3>3, Zenon
    <2>2. (k + 1) * b = z + b /\ z + b <= w
      <3>1. k + 1 \in Nat /\ k + 1 <= n
        BY <1>3
      <3>2. (k + 1) * b <= n * b
        BY <3>1, Z3
      <3>3. (k + 1) * b = k * b + b
        BY <1>3, Z3
      <3> QED  BY <2>1, <3>2, <3>3
    <2>3. 8 * d = z + l /\ w <= 8 * L /\ m = l + 8 * e - b
      BY <1>5, <1>9, <2>1
    <2>4. 8 * (d + e) = (z + b) + m /\ d + e <= L
      BY <1>6, <2>2, <2>3, RoundBytes
    <2> QED  BY <2>1, <2>2, <2>4
  <1>11. y \in Nat
    <2>1. s.total \in Nat /\ y = Value(<<s.total>> \o SubSeq(x, d + 1, d + e))
      BY <1>3, <1>7, <1>9, Zenon DEF Taken
    <2> QED  BY <1>6, <1>10, <2>1, PartIsNat
  <1>12. 2 ^ m \in Nat \ {0} /\ 2 ^ b \in Nat \ {0}
    BY <1>6, PowerIsNat
  <1>13. y % 2 ^ m \in Nat /\ (y \div 2 ^ m) % 2 ^ b \in 0 .. 2 ^ b - 1
    <2>1. PICK u \in Nat \ {0}, v \in Nat \ {0} : u = 2 ^ m /\ v = 2 ^ b
      BY <1>12
    <2>2. y % u \in Nat /\ y \div u \in Nat
      BY <1>11
    <2>3. (y \div u) % v \in 0 .. v - 1
      <3>1. PICK w \in Nat : w = y \div u
        BY <2>2
      <3>2. w % v \in 0 .. v - 1
        OBVIOUS
      <3> QED  BY <3>1, <3>2
    <2> QED  BY <2>1, <2>2, <2>3
  <1>14. PICK r : r = Run(c, k + 1)
    OBVIOUS
  <1>15. r.i = s.i + e /\ r.bits = m /\ r.total = y % 2 ^ m /\ r.out = (y \div 2 ^ m) % 2 ^ b
    BY <1>8, <1>14
  <1>16. r.i = d + e /\ d + e \in Nat
    <2>1. r.i = d + e
      BY <1>9, <1>15, Zenon
    <2>2. d + e \in Nat
      BY <1>6
    <2> QED  BY <2>1, <2>2
  <1>17. Taken(r, k + 1, b)
    BY <1>6, <1>10, <1>13, <1>15, <1>16 DEF Taken
  <1> QED  BY <1>0, <1>14, <1>17

(* Every digit of a string that is long enough is below the base.           *)
LEMMA DigitsBelow ==
    ASSUME NEW x, IsOctets(x), NEW n \in Nat, NEW b \in Nat, n * b <= 8 * Len(x),
           NEW i \in 1 .. n
    PROVE  base_2b(x, n, b)[i] \in 0 .. 2 ^ b - 1
  <1> DEFINE c == <<"digits", x, b>>
             S == {k \in 0 .. n : Taken(Run(c, k), k, b)}
  <1>1. 0 \in S
    <2>1. Run(c, 0) = [i |-> 0, bits |-> 0, total |-> 0, out |-> 0]
      <3>1. c[1] = "digits"
        OBVIOUS
      <3> HIDE DEF c
      <3>2. Start(c) = [i |-> 0, bits |-> 0, total |-> 0, out |-> 0]
        BY <3>1, Zenon DEF Start
      <3> QED  BY <3>2, RunStart
    <2> HIDE DEF c
    <2>2. 0 * b = 0 /\ 0 \in 0 .. n
      OBVIOUS
    <2>3. Taken(Run(c, 0), 0, b)
      BY <2>1, <2>2 DEF Taken
    <2> QED  BY <2>2, <2>3
  <1>2. ASSUME NEW k \in 0 .. n - 1, k \in S
        PROVE  k + 1 \in S
    <2>1. Taken(Run(c, k), k, b)
      BY <1>2
    <2>2. Taken(Run(c, k + 1), k + 1, b)
      BY <2>1, DigitsRound
    <2> QED  BY <2>2
  <1> HIDE DEF S
  <1>3. 0 .. n \subseteq S
    BY <1>1, <1>2, IntervalInduction
  <1>4. i \in S /\ i > 0
    BY <1>3
  <1>5. Run(c, i).out \in 0 .. 2 ^ b - 1
    BY <1>4 DEF S, Taken
  <1> QED  BY <1>5, DigitsRun

(* What a suite hashes to is N bytes.                                       *)
HashBytes == \A v : IsOctets(BytesOf(v)) /\ Len(BytesOf(v)) = N

(* The powers of two that nibbles and octets need.                          *)
LEMMA Sixteen == 2 ^ 4 = 16 /\ 2 ^ 8 = 256 /\ 2 ^ 0 = 1
  <1>1. 2 ^ 0 = 1
    BY FS_Interval, FS_SUBSET, FS_EmptySet
  <1> QED  BY <1>1, PowerStep

(* Functions of 1 .. n are sequences, and what their concatenation holds.   *)
LEMMA FunctionIsSeq ==
    ASSUME NEW S, NEW n \in Nat, NEW u \in [1 .. n -> S]
    PROVE  u \in Seq(S) /\ Len(u) = n
  OBVIOUS

(* What the parts of a string hold, the string holds.                       *)
LEMMA ConcatElements ==
    ASSUME NEW S, NEW n \in Nat, NEW l \in Nat, NEW u \in [1 .. n -> S],
           NEW v \in [1 .. l -> S], NEW i \in 1 .. n + l
    PROVE  (u \o v)[i] \in S
  <1>1. u \in Seq(S) /\ Len(u) = n /\ v \in Seq(S) /\ Len(v) = l
    BY FunctionIsSeq
  <1>2. u \o v \in Seq(S) /\ Len(u \o v) = n + l
    BY <1>1
  <1> QED  BY <1>2, ElementOfSeq

(* The digits are a function of 1 .. n.                                     *)
LEMMA DigitsForm ==
    ASSUME NEW x, NEW n, NEW b
    PROVE  base_2b(x, n, b) = [k \in 1 .. n |-> base_2b(x, n, b)[k]]
  <1> DEFINE Zero == [i |-> 0, bits |-> 0, total |-> 0, out |-> 0]
             Round(v) ==
                 LET fresh == IF v.bits < b THEN DivCeil(b - v.bits, 8) ELSE 0
                     total == Value(<<v.total>> \o SubSeq(x, v.i + 1, v.i + fresh))
                     bits  == v.bits + 8 * fresh - b
                 IN  [i |-> v.i + fresh, bits |-> bits, total |-> total % 2 ^ bits,
                      out |-> (total \div 2 ^ bits) % 2 ^ b]
             Is(g) == g = [l \in 0 .. n |-> IF l = 0 THEN Zero ELSE Round(g[l - 1])]
             e == CHOOSE g : Is(g)
  <1>1. base_2b(x, n, b) = [l \in 1 .. n |-> e[l].out]
    BY Zenon DEF base_2b
  <1> HIDE DEF e
  <1> QED  BY <1>1

(* The digits of a message, and of its checksum, are nibbles.               *)
LEMMA DigitsAreNibbles ==
    ASSUME HashBytes, NEW m, NEW i \in 1 .. WotsSigLen
    PROVE  WotsDigits(m)[i] \in 0 .. 15
  <1> DEFINE n == 2 * N
  <1>0. N \in Nat \ {0} /\ n \in Nat /\ WotsSigLen = n + 3
    BY SlhParameters DEF WotsSigLen, CK_LEN
  <1>1. PICK x : x = BytesOf(m)
    OBVIOUS
  <1>2. IsOctets(x) /\ Len(x) = N
    BY <1>1 DEF HashBytes
  <1> HIDE DEF n
  <1>3. PICK msg : msg = base_2b(x, n, 4)
    OBVIOUS
  <1>4. ASSUME NEW k \in 1 .. n  PROVE msg[k] \in 0 .. 15
    <2>1. n * 4 <= 8 * Len(x)
      BY <1>0, <1>2 DEF n
    <2>2. base_2b(x, n, 4)[k] \in 0 .. 2 ^ 4 - 1
      BY <1>0, <1>2, <2>1, DigitsBelow
    <2> QED  BY <1>3, <2>2, Sixteen
  <1> DEFINE Is(g) == g = [k \in 0 .. n |-> IF k = 0 THEN 0 ELSE g[k - 1] + W - 1 - msg[k]]
             e == CHOOSE g : Is(g)
             c == <<"sum", msg>>
             csum == (e[n] * 16) % 2 ^ 16
  <1>5. WotsDigits(m) = msg \o base_2b(Octets(csum, 2), 3, 4)
    BY <1>1, <1>3, Zenon DEF WotsDigits, LOG_W, CK_LEN, n
  <1>6. csum \in Nat
    <2>1. c[1] = "sum" /\ c[2] = msg
      OBVIOUS
    <2> HIDE DEF c
    <2>2. Start(c) = 0 /\ \A k, v : Step(c, k, v) = v + W - 1 - msg[k]
      BY <2>1, Zenon DEF Start, Step
    <2>3. ASSUME NEW g  PROVE Is(g) <=> IsRun(g, c, n)
      BY <2>2, Z3 DEF IsRun
    <2>4. PICK g : Is(g)
      BY <1>0, <2>3, RunExists
    <2>5. Is(e)
      BY <2>4
    <2> HIDE DEF e
    <2> DEFINE S == {k \in 0 .. n : e[k] \in Nat}
    <2>6. 0 \in S
      <3>1. 0 \in 0 .. n
        BY <1>0
      <3>2. e[0] = 0
        BY <2>5, <3>1
      <3> QED  BY <3>1, <3>2
    <2>7. ASSUME NEW k \in 0 .. n - 1, k \in S
          PROVE  k + 1 \in S
      <3>1. k + 1 \in 0 .. n /\ k + 1 # 0 /\ k + 1 \in 1 .. n /\ (k + 1) - 1 = k
        BY <1>0
      <3>2. e[k + 1] = e[k] + W - 1 - msg[k + 1]
        BY <2>5, <3>1
      <3>3. e[k] \in Nat /\ msg[k + 1] \in 0 .. 15
        BY <1>4, <2>7, <3>1
      <3>4. e[k + 1] \in Nat
        BY <3>2, <3>3 DEF W
      <3> QED  BY <3>1, <3>4
    <2> HIDE DEF S
    <2>8. 0 .. n \subseteq S
      BY <1>0, <2>6, <2>7, IntervalInduction
    <2>9. n \in S
      BY <1>0, <2>8
    <2>10. e[n] \in Nat
      BY <2>9 DEF S
    <2>11. PICK u \in Nat, v \in Nat \ {0} : u = e[n] * 16 /\ v = 2 ^ 16
      BY <2>10, PowerIsNat
    <2>12. u % v \in Nat
      OBVIOUS
    <2> QED  BY <2>11, <2>12
  <1> HIDE DEF csum
  <1>7. IsOctets(Octets(csum, 2)) /\ Len(Octets(csum, 2)) = 2
    <2>1. ASSUME NEW k \in 1 .. 2  PROVE (csum \div 2 ^ (8 * (2 - k))) % 256 \in 0 .. 255
      <3>1. csum \div 2 ^ (8 * (2 - k)) \in Nat
        <4>1. 8 * (2 - k) \in Nat
          OBVIOUS
        <4> QED  BY <1>6, <4>1, ShiftIsNat
      <3> QED  BY <3>1
    <2>2. Octets(csum, 2) = [k \in 1 .. 2 |-> (csum \div 2 ^ (8 * (2 - k))) % 256]
      BY DEF Octets
    <2>3. Octets(csum, 2) \in [1 .. 2 -> 0 .. 255]
      BY <2>1, <2>2
    <2>4. PICK o, S : o = Octets(csum, 2) /\ S = 0 .. 255
      OBVIOUS
    <2>5. o \in [1 .. 2 -> S] /\ 2 \in Nat
      BY <2>3, <2>4
    <2>6. o \in Seq(S) /\ Len(o) = 2
      BY <2>5, FunctionIsSeq
    <2> QED  BY <2>4, <2>6 DEF IsOctets
  <1>8. ASSUME NEW k \in 1 .. 3  PROVE base_2b(Octets(csum, 2), 3, 4)[k] \in 0 .. 15
    <2>1. 3 * 4 <= 8 * Len(Octets(csum, 2))
      BY <1>7
    <2>2. base_2b(Octets(csum, 2), 3, 4)[k] \in 0 .. 2 ^ 4 - 1
      BY <1>7, <2>1, DigitsBelow
    <2> QED  BY <2>2, Sixteen
  <1>9. PICK ck : ck = base_2b(Octets(csum, 2), 3, 4)
    OBVIOUS
  <1>10. msg \in [1 .. n -> 0 .. 15] /\ ck \in [1 .. 3 -> 0 .. 15]
    <2>1. msg = [k \in 1 .. n |-> msg[k]]
      BY <1>3, DigitsForm
    <2>2. ck = [k \in 1 .. 3 |-> ck[k]]
      <3>1. PICK o : o = Octets(csum, 2)
        OBVIOUS
      <3>2. base_2b(o, 3, 4) = [k \in 1 .. 3 |-> base_2b(o, 3, 4)[k]]
        BY DigitsForm
      <3> QED  BY <1>9, <3>1, <3>2
    <2>3. msg \in [1 .. n -> 0 .. 15]
      BY <1>4, <2>1
    <2>4. ck \in [1 .. 3 -> 0 .. 15]
      BY <1>8, <1>9, <2>2
    <2> QED  BY <2>3, <2>4
  <1>11. (msg \o ck)[i] \in 0 .. 15
    BY <1>0, <1>10, ConcatElements
  <1> QED  BY <1>5, <1>9, <1>11

(* Verification recovers the one-time key that signed, whatever is signed.  *)
LEMMA WotsRecovers ==
    ASSUME HashBytes, NEW m, NEW sk, NEW pk, NEW a
    PROVE  wots_pk_from_sig(wots_sign(m, sk, pk, a), m, pk, a) = wots_pk_gen(sk, pk, a)
  <1>1. PICK d : d = WotsDigits(m)
    OBVIOUS
  <1>2. PICK s : s = wots_sign(m, sk, pk, a)
    OBVIOUS
  <1>3. s = [i \in 1 .. WotsSigLen |-> SkChain(sk, d[i], pk, a, i)]
    BY <1>1, <1>2, Zenon DEF wots_sign
  <1>4. ASSUME NEW i \in 1 .. WotsSigLen
        PROVE  wots_chain(s[i], d[i], W - 1 - d[i], pk, ChainAdrs(a, i))
                   = SkChain(sk, W - 1, pk, a, i)
    <2>1. d[i] \in 0 .. 15
      BY <1>1, DigitsAreNibbles
    <2>2. PICK k \in 0 .. 15 : k = d[i]
      BY <2>1
    <2>3. s[i] = SkChain(sk, k, pk, a, i)
      BY <1>3, <2>2
    <2>4. k \in Nat /\ 15 - k \in Nat /\ 0 + k = k /\ k + (15 - k) = W - 1 /\ W - 1 - k = 15 - k
      BY DEF W
    <2>5. wots_chain(wots_chain(WotsSk(sk, pk, a, i), 0, k, pk, ChainAdrs(a, i)), 0 + k, 15 - k,
                     pk, ChainAdrs(a, i))
              = wots_chain(WotsSk(sk, pk, a, i), 0, k + (15 - k), pk, ChainAdrs(a, i))
      BY <2>4, ChainSplit
    <2> QED  BY <2>2, <2>3, <2>4, <2>5, Zenon DEF SkChain
  <1>5. wots_pk_from_sig(s, m, pk, a) =
            t(pk, pk_adrs(a), [i \in 1 .. WotsSigLen |->
                  wots_chain(s[i], d[i], W - 1 - d[i], pk, ChainAdrs(a, i))])
    BY <1>1, Zenon DEF wots_pk_from_sig
  <1>6. wots_pk_from_sig(s, m, pk, a) =
            t(pk, pk_adrs(a), [i \in 1 .. WotsSigLen |-> SkChain(sk, W - 1, pk, a, i)])
    BY <1>4, <1>5, Zenon
  <1> QED  BY <1>2, <1>6, Zenon DEF wots_pk_gen

-----------------------------------------------------------------------------
(* A node's number, its neighbour's and their parent's.                     *)
LEMMA Siblings ==
    ASSUME NEW y \in Nat, NEW p, p = y \div 2
    PROVE  /\ p \in Nat
           /\ y % 2 = 0 => y = 2 * p /\ Flip(y) = 2 * p + 1
           /\ y % 2 # 0 => y = 2 * p + 1 /\ Flip(y) = 2 * p
  BY DEF Flip

(* A shift of a number below a power of two stays below the lower power.    *)
LEMMA ShiftBelow ==
    ASSUME NEW n \in Nat, NEW z \in Nat, NEW l \in 0 .. z, n < 2 ^ z
    PROVE  n \div 2 ^ l \in 0 .. 2 ^ (z - l) - 1
  <1>1. l \in Nat /\ z - l \in Nat /\ l + (z - l) = z
    OBVIOUS
  <1>2. PICK d \in Nat \ {0}, e \in Nat \ {0} : d = 2 ^ l /\ e = 2 ^ (z - l)
    BY <1>1, PowerIsNat
  <1>3. 2 ^ z = d * e
    BY <1>1, <1>2, PowerAdd
  <1>4. PICK q \in Nat : q = n \div d
    OBVIOUS
  <1>5. d * q <= n
    BY <1>4
  <1>6. q < e
    <2> SUFFICES ASSUME e <= q  PROVE FALSE
      BY <1>4
    <2>1. d * e <= d * q
      BY Z3
    <2>2. d * e \in Nat /\ d * q \in Nat
      BY Z3
    <2> QED  BY <1>3, <1>5, <2>1, <2>2
  <1> QED  BY <1>2, <1>4, <1>6

(* The children of a node of the next level are nodes of a level.           *)
LEMMA Children ==
    ASSUME NEW k \in 0 .. HPrime - 1, NEW n \in Level(k + 1)
    PROVE  2 * n \in Level(k) /\ 2 * n + 1 \in Level(k)
  <1>1. HPrime \in Nat /\ HPrime - (k + 1) \in Nat /\ (HPrime - (k + 1)) + 1 = HPrime - k
    BY SlhParameters
  <1>2. 2 ^ (HPrime - k) = 2 * 2 ^ (HPrime - (k + 1))
    BY <1>1, PowerStep
  <1>3. PICK w \in Nat \ {0} : w = 2 ^ (HPrime - (k + 1))
    BY <1>1, PowerIsNat
  <1> QED  BY <1>2, <1>3 DEF Level

(* The nodes of a tree, level by level.                                     *)
LEMMA NodeAtLeaf ==
    ASSUME NEW sk, NEW pk, NEW a, NEW n \in Level(0)
    PROVE  xmss_node(sk, n, 0, pk, a) = TreeLeaf(sk, pk, a, n)
  <1> DEFINE c == <<"tree", sk, pk, a>>
  <1>1. c[1] = "tree" /\ c[2] = sk /\ c[3] = pk /\ c[4] = a
    OBVIOUS
  <1>2. xmss_node(sk, n, 0, pk, a) = Run(c, 0)[n]
    <2>1. 0 \in 0 .. HPrime
      BY SlhParameters
    <2> QED  BY <2>1, TreeRuns
  <1> HIDE DEF c
  <1>3. Start(c) = [m \in Level(0) |-> TreeLeaf(c[2], c[3], c[4], m)]
    BY <1>1, Zenon DEF Start
  <1>4. Start(c)[n] = TreeLeaf(sk, pk, a, n)
    BY <1>1, <1>3
  <1> QED  BY <1>2, <1>4, RunStart

(* A node above the leaves is the hash of its children.                     *)
LEMMA NodeAbove ==
    ASSUME NEW sk, NEW pk, NEW a, NEW k \in 0 .. HPrime - 1, NEW n \in Level(k + 1)
    PROVE  xmss_node(sk, n, k + 1, pk, a)
               = TreeNode(pk, a, k + 1, n, xmss_node(sk, 2 * n, k, pk, a),
                          xmss_node(sk, 2 * n + 1, k, pk, a))
  <1> DEFINE c == <<"tree", sk, pk, a>>
  <1>1. c[1] = "tree" /\ c[2] = sk /\ c[3] = pk /\ c[4] = a
    OBVIOUS
  <1>2. k \in Nat /\ k \in 0 .. HPrime /\ k + 1 \in 0 .. HPrime
    BY SlhParameters
  <1>3. PICK v : v = Run(c, k)
    OBVIOUS
  <1>4. \A m : xmss_node(sk, m, k, pk, a) = v[m]
    BY <1>2, <1>3, TreeRuns
  <1>5. xmss_node(sk, n, k + 1, pk, a) = Run(c, k + 1)[n]
    BY <1>2, TreeRuns
  <1> HIDE DEF c
  <1>6. Step(c, k + 1, v) =
            [m \in Level(k + 1) |-> TreeNode(c[3], c[4], k + 1, m, v[2 * m], v[2 * m + 1])]
    BY <1>1, Zenon DEF Step
  <1>7. Step(c, k + 1, v)[n] = TreeNode(pk, a, k + 1, n, v[2 * n], v[2 * n + 1])
    BY <1>1, <1>6
  <1>8. Run(c, k + 1) = Step(c, k + 1, v)
    BY <1>2, <1>3, RunStep
  <1> QED  BY <1>4, <1>5, <1>7, <1>8, Zenon

(* An address whose first word each leaf overwrites.                        *)
IsLayer(a) == \E l, u : a = Adrs(l, u, 0, 0, 0, 0)

(* A leaf of a layer has the layer's address, whatever leaf the address was *)
(* of.                                                                      *)
LEMMA LeafAddress ==
    ASSUME NEW a, IsLayer(a), NEW w, NEW n
    PROVE  /\ [[a EXCEPT !.word5 = w] EXCEPT !.word5 = n] = [a EXCEPT !.word5 = n]
           /\ tree_adrs([a EXCEPT !.word5 = w]) = tree_adrs(a)
  BY DEF IsLayer, Adrs, tree_adrs

(* An address with its leaf overwritten.                                    *)
IsLeaf(b, a, w) == b = [a EXCEPT !.word5 = w]

(* The nodes of a tree do not depend on the leaf an address is of.          *)
LEMMA NodeOfTree ==
    ASSUME NEW sk, NEW pk, NEW a, IsLayer(a), NEW w, NEW b, IsLeaf(b, a, w),
           NEW z \in 0 .. HPrime, NEW n \in Level(z)
    PROVE  xmss_node(sk, n, z, pk, b) = xmss_node(sk, n, z, pk, a)
  <1> DEFINE S == {k \in 0 .. HPrime : \A m \in Level(k) :
                       xmss_node(sk, m, k, pk, b) = xmss_node(sk, m, k, pk, a)}
  <1>1. 0 \in S
    <2>1. 0 \in 0 .. HPrime
      BY SlhParameters
    <2>2. ASSUME NEW m \in Level(0)
          PROVE  xmss_node(sk, m, 0, pk, b) = xmss_node(sk, m, 0, pk, a)
      <3>1. [b EXCEPT !.word5 = m] = [a EXCEPT !.word5 = m]
        BY LeafAddress DEF IsLeaf
      <3>2. TreeLeaf(sk, pk, b, m) = TreeLeaf(sk, pk, a, m)
        BY <3>1 DEF TreeLeaf
      <3> QED  BY <3>2, NodeAtLeaf
    <2> QED  BY <2>1, <2>2
  <1>2. ASSUME NEW k \in 0 .. HPrime - 1, k \in S
        PROVE  k + 1 \in S
    <2>1. ASSUME NEW m \in Level(k + 1)
          PROVE  xmss_node(sk, m, k + 1, pk, b) = xmss_node(sk, m, k + 1, pk, a)
      <3>1. 2 * m \in Level(k) /\ 2 * m + 1 \in Level(k)
        BY Children
      <3>2. PICK x, y : x = xmss_node(sk, 2 * m, k, pk, a) /\ y = xmss_node(sk, 2 * m + 1, k, pk, a)
        OBVIOUS
      <3>3. xmss_node(sk, 2 * m, k, pk, b) = x /\ xmss_node(sk, 2 * m + 1, k, pk, b) = y
        BY <1>2, <3>1, <3>2
      <3>4. xmss_node(sk, m, k + 1, pk, b) = TreeNode(pk, b, k + 1, m, x, y)
        BY <3>3, NodeAbove
      <3>5. xmss_node(sk, m, k + 1, pk, a) = TreeNode(pk, a, k + 1, m, x, y)
        BY <3>2, NodeAbove
      <3>6. tree_adrs(b) = tree_adrs(a)
        BY LeafAddress DEF IsLeaf
      <3> QED  BY <3>4, <3>5, <3>6 DEF TreeNode
    <2>2. k + 1 \in 0 .. HPrime
      BY SlhParameters
    <2> QED  BY <2>1, <2>2
  <1> HIDE DEF S
  <1>3. HPrime \in Nat
    BY SlhParameters
  <1>4. 0 .. HPrime \subseteq S
    BY ONLY <1>1, <1>2, <1>3, IntervalInduction
  <1>5. z \in S
    BY <1>4
  <1> QED  BY <1>5 DEF S

(* The path of a leaf: of each node on the way up, the neighbour.           *)
IsPath(auth, sk, pk, b, idx) ==
    auth = [l \in 1 .. HPrime |-> xmss_node(sk, Flip(idx \div 2 ^ (l - 1)), l - 1, pk, b)]

(* After k entries of its path the walk is at the node k levels above the   *)
(* leaf.                                                                    *)
Reached(sk, pk, b, m, s, idx, k) ==
    Run(<<"climb", idx, s, m, pk, b>>, k) = xmss_node(sk, idx \div 2 ^ k, k, pk, b)

(* The path signed with a leaf leads back to the root of its tree: after k  *)
(* entries the walk is at the node k levels above the leaf.                 *)
LEMMA ClimbStep ==
    ASSUME NEW sk, NEW pk, NEW b, NEW m, NEW s, NEW idx \in 0 .. 2 ^ HPrime - 1,
           IsPath(s.auth, sk, pk, b, idx),
           NEW k \in 0 .. HPrime - 1, Reached(sk, pk, b, m, s, idx, k)
    PROVE  Reached(sk, pk, b, m, s, idx, k + 1)
  <1>0. PICK c : c = <<"climb", idx, s, m, pk, b>>
    OBVIOUS
  <1>1. c[1] = "climb" /\ c[2] = idx /\ c[3] = s /\ c[5] = pk /\ c[6] = b
    BY <1>0
  <1>2. /\ HPrime \in Nat /\ k \in Nat /\ k \in 0 .. HPrime /\ k + 1 \in 0 .. HPrime
        /\ k + 1 \in 1 .. HPrime /\ (k + 1) - 1 = k
    BY SlhParameters
  <1>3. 2 ^ HPrime \in Nat /\ idx \in Nat /\ idx < 2 ^ HPrime
    BY <1>2, PowerIsNat
  <1>4. PICK y \in Nat : y = idx \div 2 ^ k
    BY <1>2, <1>3, ShiftIsNat
  <1>5. PICK p : p = idx \div 2 ^ (k + 1)
    OBVIOUS
  <1>6. p = y \div 2 /\ p \in Level(k + 1)
    <2>1. p = y \div 2
      BY <1>2, <1>3, <1>4, <1>5, ShiftStep
    <2>2. p \in 0 .. 2 ^ (HPrime - (k + 1)) - 1
      BY <1>2, <1>3, <1>5, ShiftBelow
    <2> QED  BY <2>1, <2>2 DEF Level
  <1>7. PICK v : v = Run(c, k)
    OBVIOUS
  <1>8. v = xmss_node(sk, y, k, pk, b)
    BY <1>0, <1>4, <1>7 DEF Reached
  <1>9. s.auth[k + 1] = xmss_node(sk, Flip(y), k, pk, b)
    <2>1. s.auth[k + 1] = xmss_node(sk, Flip(idx \div 2 ^ ((k + 1) - 1)), (k + 1) - 1, pk, b)
      BY <1>2 DEF IsPath
    <2> QED  BY <1>2, <1>4, <2>1
  <1>10. PICK ad : ad = [tree_adrs(b) EXCEPT !.word6 = k + 1, !.word7 = p]
    OBVIOUS
  <1>11. Run(c, k + 1) = Join(pk, ad, y % 2, v, s.auth[k + 1])
    <2>1. Run(c, k + 1) = Step(c, k + 1, v)
      BY <1>2, <1>7, RunStep
    <2>2. Step(c, k + 1, v) =
              Join(c[5], [tree_adrs(c[6]) EXCEPT !.word6 = k + 1,
                                                 !.word7 = c[2] \div 2 ^ (k + 1)],
                   (c[2] \div 2 ^ ((k + 1) - 1)) % 2, v, c[3].auth[k + 1])
      BY <1>1, Zenon DEF Step
    <2>3. Step(c, k + 1, v) = Join(pk, ad, (idx \div 2 ^ ((k + 1) - 1)) % 2, v, s.auth[k + 1])
      BY <1>1, <1>5, <1>10, <2>2, Zenon
    <2>4. idx \div 2 ^ ((k + 1) - 1) = y
      BY <1>2, <1>4
    <2> QED  BY <2>1, <2>3, <2>4
  <1>12. xmss_node(sk, p, k + 1, pk, b) =
             h(pk, ad, xmss_node(sk, 2 * p, k, pk, b), xmss_node(sk, 2 * p + 1, k, pk, b))
    <2>1. xmss_node(sk, p, k + 1, pk, b) =
              TreeNode(pk, b, k + 1, p, xmss_node(sk, 2 * p, k, pk, b),
                       xmss_node(sk, 2 * p + 1, k, pk, b))
      BY <1>6, NodeAbove
    <2> QED  BY <1>10, <2>1, Zenon DEF TreeNode
  <1>13. CASE y % 2 = 0
    <2>1. y = 2 * p /\ Flip(y) = 2 * p + 1
      BY <1>6, <1>13, Siblings
    <2>2. Run(c, k + 1) = h(pk, ad, v, s.auth[k + 1])
      BY <1>11, <1>13 DEF Join
    <2> QED  BY <1>0, <1>5, <1>8, <1>9, <1>12, <2>1, <2>2 DEF Reached
  <1>14. CASE y % 2 # 0
    <2>1. y = 2 * p + 1 /\ Flip(y) = 2 * p
      BY <1>6, <1>14, Siblings
    <2>2. Run(c, k + 1) = h(pk, ad, s.auth[k + 1], v)
      BY <1>11, <1>14, Zenon DEF Join
    <2> QED  BY <1>0, <1>5, <1>8, <1>9, <1>12, <2>1, <2>2 DEF Reached
  <1> QED  BY <1>13, <1>14

(* From a signature of a leaf, whatever it signs, verification computes the *)
(* root of the leaf's tree.                                                 *)
LEMMA XmssRecovers ==
    ASSUME HashBytes, NEW m, NEW sk, NEW pk, NEW a, IsLayer(a), NEW idx \in 0 .. 2 ^ HPrime - 1
    PROVE  xmss_pk_from_sig(idx, xmss_sign(m, sk, idx, pk, a), m, pk, a)
               = xmss_node(sk, 0, HPrime, pk, a)
  <1>1. PICK b : b = [a EXCEPT !.word5 = idx]
    OBVIOUS
  <1>2. PICK s : s = xmss_sign(m, sk, idx, pk, a)
    OBVIOUS
  <1>3. /\ s.sig = wots_sign(m, sk, pk, b)
        /\ IsPath(s.auth, sk, pk, b, idx)
    BY <1>1, <1>2 DEF xmss_sign, IsPath
  <1>4. PICK c : c = <<"climb", idx, s, m, pk, b>>
    OBVIOUS
  <1>5. xmss_pk_from_sig(idx, s, m, pk, a) = Run(c, HPrime)
    BY <1>1, <1>4, ClimbRuns
  <1>6. HPrime \in Nat /\ 2 ^ HPrime \in Nat \ {0} /\ idx \in Nat /\ idx < 2 ^ HPrime
    BY SlhParameters, PowerIsNat
  <1> DEFINE S == {k \in 0 .. HPrime : Run(c, k) = xmss_node(sk, idx \div 2 ^ k, k, pk, b)}
  <1>7. 0 \in S
    <2>1. c[1] = "climb" /\ c[3] = s /\ c[4] = m /\ c[5] = pk /\ c[6] = b
      BY <1>4
    <2>2. Start(c) = wots_pk_from_sig(s.sig, m, pk, b)
      BY <2>1, Zenon DEF Start
    <2>3. Start(c) = wots_pk_gen(sk, pk, b)
      BY <1>3, <2>2, WotsRecovers
    <2>4. idx \div 2 ^ 0 = idx /\ idx \in Level(0)
      BY <1>6, ShiftIsNat DEF Level
    <2>5. xmss_node(sk, idx, 0, pk, b) = TreeLeaf(sk, pk, b, idx)
      BY <2>4, NodeAtLeaf
    <2>6. [b EXCEPT !.word5 = idx] = b
      BY <1>1, LeafAddress
    <2>7. Run(c, 0) = xmss_node(sk, idx \div 2 ^ 0, 0, pk, b)
      BY <2>3, <2>4, <2>5, <2>6, RunStart DEF TreeLeaf
    <2> QED  BY <1>6, <2>7
  <1>8. ASSUME NEW k \in 0 .. HPrime - 1, k \in S
        PROVE  k + 1 \in S
    <2>1. Run(c, k + 1) = xmss_node(sk, idx \div 2 ^ (k + 1), k + 1, pk, b)
      <3>1. Reached(sk, pk, b, m, s, idx, k)
        BY <1>4, <1>8 DEF Reached
      <3>2. Reached(sk, pk, b, m, s, idx, k + 1)
        BY <1>3, <3>1, ClimbStep
      <3> QED  BY <1>4, <3>2 DEF Reached
    <2>2. k + 1 \in 0 .. HPrime
      BY <1>6
    <2> QED  BY <2>1, <2>2
  <1> HIDE DEF S
  <1>9. 0 .. HPrime \subseteq S
    BY <1>6, <1>7, <1>8, IntervalInduction
  <1>10. HPrime \in S
    BY <1>6, <1>9
  <1>11. Run(c, HPrime) = xmss_node(sk, idx \div 2 ^ HPrime, HPrime, pk, b)
    BY <1>10 DEF S
  <1>12. idx \div 2 ^ HPrime = 0 /\ 0 \in Level(HPrime)
    <2>1. HPrime \in 0 .. HPrime /\ HPrime - HPrime = 0 /\ 2 ^ 0 - 1 = 0
      BY <1>6, Sixteen
    <2>2. idx \div 2 ^ HPrime \in 0 .. 2 ^ (HPrime - HPrime) - 1
      BY <1>6, <2>1, ShiftBelow
    <2> QED  BY <2>1, <2>2 DEF Level
  <1>13. xmss_node(sk, 0, HPrime, pk, b) = xmss_node(sk, 0, HPrime, pk, a)
    <2>1. HPrime \in 0 .. HPrime
      BY <1>6
    <2>2. IsLeaf(b, a, idx)
      BY <1>1 DEF IsLeaf
    <2> QED  BY <1>12, <2>1, <2>2, NodeOfTree
  <1> QED  BY <1>2, <1>5, <1>11, <1>12, <1>13

-----------------------------------------------------------------------------
(* A quotient is known by what it leaves.                                   *)
LEMMA QuotientIs ==
    ASSUME NEW d \in Nat \ {0}, NEW q \in Nat, NEW r \in 0 .. d - 1, NEW n, n = d * q + r
    PROVE  n \div d = q
  <1>1. n \in Nat
    <2>1. d * q \in Nat
      BY Z3
    <2> QED  BY <2>1
  <1>2. PICK u \in Nat, v \in 0 .. d - 1 : u = n \div d /\ n = d * u + v
    BY <1>1
  <1>3. u <= q
    <2> SUFFICES ASSUME q + 1 <= u  PROVE FALSE
      BY <1>2
    <2>1. d * (q + 1) <= d * u
      BY <1>2, Z3
    <2>2. d * (q + 1) = d * q + d
      BY Z3
    <2>3. d * q \in Nat /\ d * u \in Nat
      BY <1>2, Z3
    <2> QED  BY <1>2, <2>1, <2>2, <2>3
  <1>4. q <= u
    <2> SUFFICES ASSUME u + 1 <= q  PROVE FALSE
      BY <1>2
    <2>1. d * (u + 1) <= d * q
      BY <1>2, Z3
    <2>2. d * (u + 1) = d * u + d
      BY <1>2, Z3
    <2>3. d * q \in Nat /\ d * u \in Nat
      BY <1>2, Z3
    <2> QED  BY <1>2, <2>1, <2>2, <2>3
  <1> QED  BY <1>2, <1>3, <1>4

(* A node of the i-th tree of a FORS key, from the leaf's number in it.     *)
LEMMA ForsIndex ==
    ASSUME NEW i \in 1 .. K, NEW x \in 0 .. 2 ^ A - 1, NEW k \in 0 .. A
    PROVE  /\ x \div 2 ^ k \in Nat
           /\ (FirstLeaf(i, 0) + x) \div 2 ^ k = FirstLeaf(i, k) + x \div 2 ^ k
           /\ FirstLeaf(i, k) + x \div 2 ^ k \in ForsLevel(k)
           /\ FirstLeaf(i, 0) + x \in Nat
  <1>1. /\ A \in Nat /\ K \in Nat /\ k \in Nat /\ A - k \in Nat /\ k + (A - k) = A /\ A - 0 = A
        /\ i - 1 \in Nat
    BY SlhParameters
  <1>2. PICK d \in Nat \ {0}, e \in Nat \ {0} : d = 2 ^ k /\ e = 2 ^ (A - k)
    BY <1>1, PowerIsNat
  <1>3. 2 ^ A = d * e /\ 2 ^ A \in Nat
    BY <1>1, <1>2, PowerAdd, PowerIsNat
  <1>4. x \in Nat /\ x < 2 ^ A
    BY <1>3
  <1>5. PICK y \in Nat, r \in 0 .. d - 1 : y = x \div d /\ r = x % d /\ x = d * y + r
    <2>1. x \div d \in Nat /\ x % d \in 0 .. d - 1
      BY <1>4
    <2>2. x = d * (x \div d) + (x % d)
      BY <1>4
    <2> QED  BY <2>1, <2>2, Zenon
  <1>6. y \in 0 .. e - 1
    <2>1. x \div 2 ^ k \in 0 .. 2 ^ (A - k) - 1
      BY <1>1, <1>4, ShiftBelow
    <2> QED  BY <1>2, <1>5, <2>1
  <1>7. PICK l \in Nat : l = (i - 1) * e
    BY <1>1, Z3
  <1>8. FirstLeaf(i, 0) = d * l
    <2>1. FirstLeaf(i, 0) = (i - 1) * (d * e)
      BY <1>1, <1>3 DEF FirstLeaf
    <2>2. (i - 1) * (d * e) = d * ((i - 1) * e)
      BY <1>1, Z3
    <2> QED  BY <1>7, <2>1, <2>2
  <1>9. FirstLeaf(i, k) = l
    BY <1>2, <1>7 DEF FirstLeaf
  <1>10. d * l + x = d * (l + y) + r
    <2>1. d * (l + y) = d * l + d * y
      BY Z3
    <2>2. d * l \in Nat /\ d * y \in Nat
      BY Z3
    <2> QED  BY <1>5, <2>1, <2>2
  <1>11. (d * l + x) \div d = l + y
    <2>1. PICK n, q \in Nat : n = d * l + x /\ q = l + y
      OBVIOUS
    <2>2. n = d * q + r
      BY <1>10, <2>1
    <2>3. n \div d = q
      BY <2>2, QuotientIs
    <2> QED  BY <2>1, <2>3
  <1>12. l + y \in 0 .. K * e - 1
    <2>1. i * e = l + e
      BY <1>1, <1>7, Z3
    <2>2. i * e <= K * e
      BY <1>1, Z3
    <2>3. K * e \in Nat /\ i * e \in Nat
      BY <1>1, Z3
    <2> QED  BY <1>6, <2>1, <2>2, <2>3
  <1>13. d * l + x \in Nat
    <2>1. d * l \in Nat
      BY Z3
    <2> QED  BY <1>4, <2>1
  <1> QED  BY <1>2, <1>5, <1>8, <1>9, <1>11, <1>12, <1>13 DEF ForsLevel

(* The nodes of the trees of a FORS key, level by level.                    *)
LEMMA ForsNodeAtLeaf ==
    ASSUME NEW sk, NEW pk, NEW a, NEW n \in ForsLevel(0)
    PROVE  fors_node(sk, n, 0, pk, a) = ForsLeaf(sk, pk, a, n)
  <1> DEFINE c == <<"fors tree", sk, pk, a>>
  <1>1. c[1] = "fors tree" /\ c[2] = sk /\ c[3] = pk /\ c[4] = a
    OBVIOUS
  <1>2. fors_node(sk, n, 0, pk, a) = Run(c, 0)[n]
    <2>1. 0 \in 0 .. A
      BY SlhParameters
    <2> QED  BY <2>1, ForsTreeRuns
  <1> HIDE DEF c
  <1>3. Start(c) = [m \in ForsLevel(0) |-> ForsLeaf(c[2], c[3], c[4], m)]
    BY <1>1, Zenon DEF Start
  <1>4. Start(c)[n] = ForsLeaf(sk, pk, a, n)
    BY <1>1, <1>3
  <1> QED  BY <1>2, <1>4, RunStart

(* A node above the leaves is the hash of its children.                     *)
LEMMA ForsNodeAbove ==
    ASSUME NEW sk, NEW pk, NEW a, NEW k \in 0 .. A - 1, NEW n \in ForsLevel(k + 1)
    PROVE  fors_node(sk, n, k + 1, pk, a)
               = ForsNode(pk, a, k + 1, n, fors_node(sk, 2 * n, k, pk, a),
                          fors_node(sk, 2 * n + 1, k, pk, a))
  <1> DEFINE c == <<"fors tree", sk, pk, a>>
  <1>1. c[1] = "fors tree" /\ c[2] = sk /\ c[3] = pk /\ c[4] = a
    OBVIOUS
  <1>2. k \in Nat /\ k \in 0 .. A /\ k + 1 \in 0 .. A
    BY SlhParameters
  <1>3. PICK v : v = Run(c, k)
    OBVIOUS
  <1>4. \A m : fors_node(sk, m, k, pk, a) = v[m]
    BY <1>2, <1>3, ForsTreeRuns
  <1>5. fors_node(sk, n, k + 1, pk, a) = Run(c, k + 1)[n]
    BY <1>2, ForsTreeRuns
  <1> HIDE DEF c
  <1>6. Step(c, k + 1, v) =
            [m \in ForsLevel(k + 1) |-> ForsNode(c[3], c[4], k + 1, m, v[2 * m], v[2 * m + 1])]
    BY <1>1, Zenon DEF Step
  <1>7. Step(c, k + 1, v)[n] = ForsNode(pk, a, k + 1, n, v[2 * n], v[2 * n + 1])
    BY <1>1, <1>6
  <1>8. Run(c, k + 1) = Step(c, k + 1, v)
    BY <1>2, <1>3, RunStep
  <1> QED  BY <1>4, <1>5, <1>7, <1>8, Zenon

(* What a FORS signature is made of, and the walk up from one of its leaves.*)
ForsClimb(x, index, bits, pk, a) == Run(<<"fors climb", index, bits, x, pk, a>>, A)

(* The walk up from a leaf of a FORS tree is a run.                         *)
LEMMA ForsClimbRuns ==
    ASSUME NEW s, NEW md, NEW pk, NEW a
    PROVE  fors_pk_from_sig(s, md, pk, a)
               = t(pk, fors_roots(a),
                   [i \in 1 .. K |->
                       ForsClimb(s[i], FirstLeaf(i, 0) + base_2b(md, K, A)[i],
                                 base_2b(md, K, A)[i], pk, a)])
  <1> DEFINE d == base_2b(md, K, A)
             Is(g, i) ==
                 g = [k \in 0 .. A |->
                         LET ad == [a EXCEPT !.word6 = k,
                                             !.word7 = (FirstLeaf(i, 0) + d[i]) \div 2 ^ k]
                         IN  IF k = 0 THEN f(pk, ad, s[i].sk)
                             ELSE Join(pk, ad, (d[i] \div 2 ^ (k - 1)) % 2, g[k - 1],
                                       s[i].auth[k])]
             Root(i) == (CHOOSE g : Is(g, i))[A]
  <1>1. fors_pk_from_sig(s, md, pk, a) = t(pk, fors_roots(a), [i \in 1 .. K |-> Root(i)])
    BY Zenon DEF fors_pk_from_sig
  <1> HIDE DEF Root, d
  <1>2. ASSUME NEW i \in 1 .. K
        PROVE  Root(i) = ForsClimb(s[i], FirstLeaf(i, 0) + d[i], d[i], pk, a)
    <2>0. PICK n : n = FirstLeaf(i, 0) + d[i]
      OBVIOUS
    <2> DEFINE c == <<"fors climb", n, d[i], s[i], pk, a>>
    <2>1. /\ c[1] = "fors climb" /\ c[2] = n /\ c[3] = d[i] /\ c[4] = s[i]
          /\ c[5] = pk /\ c[6] = a
      OBVIOUS
    <2> HIDE DEF c
    <2>2. /\ Start(c) = f(pk, ForsAdrs(a, 0, n \div 2 ^ 0), s[i].sk)
          /\ \A k, v : Step(c, k, v) =
                 Join(pk, ForsAdrs(a, k, n \div 2 ^ k), (d[i] \div 2 ^ (k - 1)) % 2, v,
                      s[i].auth[k])
      BY <2>1, Zenon DEF Start, Step
    <2>3. ASSUME NEW g  PROVE Is(g, i) <=> IsRun(g, c, A)
      <3>1. ASSUME NEW k
            PROVE  (IF k = 0 THEN Start(c) ELSE Step(c, k, g[k - 1]))
                     = LET ad == [a EXCEPT !.word6 = k,
                                           !.word7 = (FirstLeaf(i, 0) + d[i]) \div 2 ^ k]
                       IN  IF k = 0 THEN f(pk, ad, s[i].sk)
                           ELSE Join(pk, ad, (d[i] \div 2 ^ (k - 1)) % 2, g[k - 1], s[i].auth[k])
        <4>1. ForsAdrs(a, k, n \div 2 ^ k) =
                  [a EXCEPT !.word6 = k, !.word7 = (FirstLeaf(i, 0) + d[i]) \div 2 ^ k]
          BY <2>0, Zenon DEF ForsAdrs
        <4> QED  BY <2>2, <4>1, Zenon
      <3> QED  BY <3>1, Zenon DEF IsRun
    <2>4. A \in Nat
      BY SlhParameters
    <2>5. PICK g : Is(g, i)
      BY <2>3, <2>4, RunExists
    <2>6. PICK e : e = CHOOSE u : Is(u, i)
      OBVIOUS
    <2>7. Is(e, i)
      BY <2>5, <2>6
    <2> HIDE DEF Is
    <2>8. e[A] = Run(c, A)
      BY <2>3, <2>4, <2>7, RunIs
    <2> QED  BY <2>0, <2>6, <2>8 DEF c, ForsClimb, Root
  <1> QED  BY <1>1, <1>2, Zenon DEF d

(* The path of the leaf whose bits in its tree, the i-th, are x.            *)
IsForsPath(auth, sk, pk, a, i, x) ==
    auth = [l \in 1 .. A |->
               fors_node(sk, FirstLeaf(i, l - 1) + Flip(x \div 2 ^ (l - 1)), l - 1, pk, a)]

(* After k entries of its path the walk is at the node k levels above the   *)
(* leaf.                                                                    *)
ForsReached(sk, pk, a, s, i, x, k) ==
    Run(<<"fors climb", FirstLeaf(i, 0) + x, x, s, pk, a>>, k)
        = fors_node(sk, FirstLeaf(i, k) + x \div 2 ^ k, k, pk, a)

(* One more entry leads to the parent.                                      *)
LEMMA ForsClimbStep ==
    ASSUME NEW sk, NEW pk, NEW a, NEW s, NEW i \in 1 .. K, NEW x \in 0 .. 2 ^ A - 1,
           IsForsPath(s.auth, sk, pk, a, i, x),
           NEW k \in 0 .. A - 1, ForsReached(sk, pk, a, s, i, x, k)
    PROVE  ForsReached(sk, pk, a, s, i, x, k + 1)
  <1>0. PICK n : n = FirstLeaf(i, 0) + x
    OBVIOUS
  <1>1. PICK c : c = <<"fors climb", n, x, s, pk, a>>
    OBVIOUS
  <1>2. c[1] = "fors climb" /\ c[2] = n /\ c[3] = x /\ c[4] = s /\ c[5] = pk /\ c[6] = a
    BY <1>1
  <1>3. /\ A \in Nat /\ K \in Nat /\ k \in Nat /\ k \in 0 .. A /\ k + 1 \in 0 .. A
        /\ k + 1 \in 1 .. A /\ (k + 1) - 1 = k
        /\ A - (k + 1) \in Nat /\ (A - (k + 1)) + 1 = A - k /\ i - 1 \in Nat
    BY SlhParameters
  <1>4. x \in Nat
    BY <1>3, PowerIsNat
  <1>5. PICK y \in Nat, p \in Nat : y = x \div 2 ^ k /\ p = x \div 2 ^ (k + 1) /\ p = y \div 2
    <2>1. x \div 2 ^ k \in Nat /\ x \div 2 ^ (k + 1) \in Nat
      BY <1>3, ForsIndex
    <2>2. x \div 2 ^ (k + 1) = (x \div 2 ^ k) \div 2
      BY <1>3, <1>4, ShiftStep
    <2> QED  BY <2>1, <2>2, Zenon
  <1>6. PICK w \in Nat : w = FirstLeaf(i, k + 1) /\ FirstLeaf(i, k) = 2 * w
    <2>1. 2 ^ (A - k) = 2 * 2 ^ (A - (k + 1)) /\ 2 ^ (A - (k + 1)) \in Nat
      BY <1>3, PowerStep, PowerIsNat
    <2>2. PICK e \in Nat : e = 2 ^ (A - (k + 1))
      BY <2>1
    <2>3. (i - 1) * (2 * e) = 2 * ((i - 1) * e) /\ (i - 1) * e \in Nat
      BY <1>3, Z3
    <2>4. FirstLeaf(i, k + 1) = (i - 1) * e /\ FirstLeaf(i, k) = (i - 1) * (2 * e)
      BY <2>1, <2>2 DEF FirstLeaf
    <2> QED  BY <2>3, <2>4
  <1>7. w + p \in ForsLevel(k + 1) /\ n \div 2 ^ (k + 1) = w + p
    BY <1>0, <1>3, <1>5, <1>6, ForsIndex
  <1>8. PICK v : v = Run(c, k)
    OBVIOUS
  <1>9. v = fors_node(sk, 2 * w + y, k, pk, a)
    BY <1>0, <1>1, <1>5, <1>6, <1>8 DEF ForsReached
  <1>10. s.auth[k + 1] = fors_node(sk, 2 * w + Flip(y), k, pk, a)
    <2>1. s.auth[k + 1] =
              fors_node(sk, FirstLeaf(i, (k + 1) - 1) + Flip(x \div 2 ^ ((k + 1) - 1)),
                        (k + 1) - 1, pk, a)
      BY <1>3 DEF IsForsPath
    <2> QED  BY <1>3, <1>5, <1>6, <2>1
  <1>11. PICK ad : ad = ForsAdrs(a, k + 1, w + p)
    OBVIOUS
  <1>12. Run(c, k + 1) = Join(pk, ad, y % 2, v, s.auth[k + 1])
    <2>1. Run(c, k + 1) = Step(c, k + 1, v)
      BY <1>3, <1>8, RunStep
    <2>2. Step(c, k + 1, v) =
              Join(c[5], ForsAdrs(c[6], k + 1, c[2] \div 2 ^ (k + 1)),
                   (c[3] \div 2 ^ ((k + 1) - 1)) % 2, v, c[4].auth[k + 1])
      BY <1>2, Zenon DEF Step
    <2>3. Step(c, k + 1, v) = Join(pk, ad, (x \div 2 ^ ((k + 1) - 1)) % 2, v, s.auth[k + 1])
      BY <1>2, <1>7, <1>11, <2>2, Zenon
    <2>4. x \div 2 ^ ((k + 1) - 1) = y
      BY <1>3, <1>5
    <2> QED  BY <2>1, <2>3, <2>4
  <1>13. fors_node(sk, w + p, k + 1, pk, a) =
             h(pk, ad, fors_node(sk, 2 * (w + p), k, pk, a),
               fors_node(sk, 2 * (w + p) + 1, k, pk, a))
    <2>1. fors_node(sk, w + p, k + 1, pk, a) =
              ForsNode(pk, a, k + 1, w + p, fors_node(sk, 2 * (w + p), k, pk, a),
                       fors_node(sk, 2 * (w + p) + 1, k, pk, a))
      BY <1>7, ForsNodeAbove
    <2> QED  BY <1>11, <2>1, Zenon DEF ForsNode
  <1>14. Run(c, k + 1) = fors_node(sk, w + p, k + 1, pk, a)
    <2>1. CASE y % 2 = 0
      <3>1. y = 2 * p /\ Flip(y) = 2 * p + 1
        BY <1>5, <2>1, Siblings
      <3>2. 2 * w + y = 2 * (w + p) /\ 2 * w + Flip(y) = 2 * (w + p) + 1
        BY <3>1
      <3>3. Run(c, k + 1) = h(pk, ad, v, s.auth[k + 1])
        BY <1>12, <2>1 DEF Join
      <3> QED  BY <1>9, <1>10, <1>13, <3>2, <3>3
    <2>2. CASE y % 2 # 0
      <3>1. y = 2 * p + 1 /\ Flip(y) = 2 * p
        BY <1>5, <2>2, Siblings
      <3>2. 2 * w + y = 2 * (w + p) + 1 /\ 2 * w + Flip(y) = 2 * (w + p)
        BY <3>1
      <3>3. Run(c, k + 1) = h(pk, ad, s.auth[k + 1], v)
        BY <1>12, <2>2, Zenon DEF Join
      <3> QED  BY <1>9, <1>10, <1>13, <3>2, <3>3
    <2> QED  BY <2>1, <2>2
  <1> QED  BY <1>0, <1>1, <1>5, <1>6, <1>14 DEF ForsReached

(* The public key of the FORS key at an address: the roots of its trees.    *)
ForsPk(sk, pk, a) ==
    t(pk, fors_roots(a), [i \in 1 .. K |-> fors_node(sk, i - 1, A, pk, a)])

(* From what is signed of the i-th tree, verification computes the root of  *)
(* the tree.                                                                *)
LEMMA ForsTreeRecovers ==
    ASSUME NEW sk, NEW pk, NEW a, NEW s, NEW i \in 1 .. K, NEW x \in 0 .. 2 ^ A - 1,
           IsForsPath(s.auth, sk, pk, a, i, x),
           s.sk = fors_sk_gen(sk, pk, a, FirstLeaf(i, 0) + x)
    PROVE  ForsClimb(s, FirstLeaf(i, 0) + x, x, pk, a) = fors_node(sk, i - 1, A, pk, a)
  <1>0. PICK n : n = FirstLeaf(i, 0) + x
    OBVIOUS
  <1>1. PICK c : c = <<"fors climb", n, x, s, pk, a>>
    OBVIOUS
  <1>2. A \in Nat /\ i - 1 \in Nat /\ A - A = 0 /\ 2 ^ 0 = 1 /\ 2 ^ A \in Nat
    BY SlhParameters, Sixteen, PowerIsNat
  <1>3. x \in Nat
    BY <1>2
  <1> DEFINE S == {k \in 0 .. A : ForsReached(sk, pk, a, s, i, x, k)}
  <1>4. 0 \in S
    <2>1. c[1] = "fors climb" /\ c[2] = n /\ c[4] = s /\ c[5] = pk /\ c[6] = a
      BY <1>1
    <2>2. Start(c) = f(pk, ForsAdrs(a, 0, n \div 2 ^ 0), s.sk)
      BY <2>1, Zenon DEF Start
    <2>3. n \in Nat /\ n \in ForsLevel(0)
      <3>1. 0 \in 0 .. A
        BY <1>2
      <3>2. x \div 2 ^ 0 = x
        BY <1>3, ShiftIsNat
      <3> QED  BY <1>0, <3>1, <3>2, ForsIndex
    <2>4. n \div 2 ^ 0 = n /\ x \div 2 ^ 0 = x
      BY <1>3, <2>3, ShiftIsNat
    <2>5. fors_node(sk, n, 0, pk, a) = ForsLeaf(sk, pk, a, n)
      BY <2>3, ForsNodeAtLeaf
    <2>6. Start(c) = ForsLeaf(sk, pk, a, n)
      BY <1>0, <2>2, <2>4 DEF ForsLeaf
    <2>7. ForsReached(sk, pk, a, s, i, x, 0)
      BY <1>0, <1>1, <2>4, <2>5, <2>6, RunStart DEF ForsReached
    <2> QED  BY <1>2, <2>7
  <1>5. ASSUME NEW k \in 0 .. A - 1, k \in S
        PROVE  k + 1 \in S
    <2>1. ForsReached(sk, pk, a, s, i, x, k + 1)
      BY <1>5, ForsClimbStep
    <2>2. k + 1 \in 0 .. A
      BY <1>2
    <2> QED  BY <2>1, <2>2
  <1> HIDE DEF S
  <1>6. 0 .. A \subseteq S
    BY ONLY <1>2, <1>4, <1>5, IntervalInduction
  <1>7. A \in S
    BY <1>2, <1>6
  <1>8. ForsReached(sk, pk, a, s, i, x, A)
    BY <1>7 DEF S
  <1>9. FirstLeaf(i, A) + x \div 2 ^ A = i - 1
    <2>1. x \div 2 ^ A \in 0 .. 2 ^ (A - A) - 1
      <3>1. A \in 0 .. A /\ x < 2 ^ A
        BY <1>2
      <3> QED  BY <1>2, <1>3, <3>1, ShiftBelow
    <2>2. x \div 2 ^ A = 0 /\ FirstLeaf(i, A) = i - 1
      BY <1>2, <2>1 DEF FirstLeaf
    <2> QED  BY <1>2, <2>2
  <1> QED  BY <1>8, <1>9 DEF ForsReached, ForsClimb

(* From a FORS signature, whatever it signs, verification computes the      *)
(* public key of the address.                                               *)
LEMMA ForsRecovers ==
    ASSUME NEW sk, NEW pk, NEW a, NEW md, IsOctets(md), Len(md) = MD
    PROVE  fors_pk_from_sig(fors_sign(md, sk, pk, a), md, pk, a) = ForsPk(sk, pk, a)
  <1>1. PICK d : d = base_2b(md, K, A)
    OBVIOUS
  <1>2. PICK s : s = fors_sign(md, sk, pk, a)
    OBVIOUS
  <1>3. K * A <= 8 * Len(md)
    <2>1. PICK n \in Nat : n = K * A
      BY SlhParameters, Z3
    <2>2. MD = (n + 7) \div 8
      BY <2>1 DEF MD, DivCeil
    <2> QED  BY <2>1, <2>2
  <1>4. ASSUME NEW i \in 1 .. K
        PROVE  ForsClimb(s[i], FirstLeaf(i, 0) + d[i], d[i], pk, a)
                   = fors_node(sk, i - 1, A, pk, a)
    <2>1. d[i] \in 0 .. 2 ^ A - 1
      <3>1. K \in Nat /\ A \in Nat
        BY SlhParameters
      <3> QED  BY <1>1, <1>3, <3>1, DigitsBelow
    <2>2. s[i] = [sk   |-> fors_sk_gen(sk, pk, a, FirstLeaf(i, 0) + d[i]),
                  auth |-> [l \in 1 .. A |->
                      fors_node(sk, FirstLeaf(i, l - 1) + Flip(d[i] \div 2 ^ (l - 1)),
                                l - 1, pk, a)]]
      BY <1>1, <1>2 DEF fors_sign
    <2>3. s[i].sk = fors_sk_gen(sk, pk, a, FirstLeaf(i, 0) + d[i])
      BY <2>2
    <2>4. IsForsPath(s[i].auth, sk, pk, a, i, d[i])
      BY <2>2 DEF IsForsPath
    <2> QED  BY <2>1, <2>3, <2>4, ForsTreeRecovers
  <1>5. fors_pk_from_sig(s, md, pk, a) =
            t(pk, fors_roots(a), [i \in 1 .. K |->
                  ForsClimb(s[i], FirstLeaf(i, 0) + d[i], d[i], pk, a)])
    BY <1>1, ForsClimbRuns
  <1> QED  BY <1>2, <1>4, <1>5, Zenon DEF ForsPk

-----------------------------------------------------------------------------
(* The tree that a digest selects on a layer ...                            *)
TreeOf(dg, l) == split_digest(dg).idx_tree \div 2 ^ (HPrime * l)
(* ... and the leaf in it.                                                  *)
LeafOf(dg, l) == IF l = 0 THEN split_digest(dg).idx_leaf ELSE TreeOf(dg, l - 1) % 2 ^ HPrime

(* The address of a tree of a layer.                                        *)
LayerAdrs(l, u) == Adrs(l, u, 0, 0, 0, 0)

(* The root of a tree of a layer.                                           *)
TreeRoot(sk, pk, l, u) == xmss_node(sk, 0, HPrime, pk, LayerAdrs(l, u))

(* What the one-time key of a leaf signs: on the lowest layer the FORS key  *)
(* of the leaf, above it the root of the tree below the leaf.               *)
Below(sk, pk, l, u, n) ==
    IF l = 0 THEN ForsPk(sk, pk, ForsTreeNew(u, n)) ELSE TreeRoot(sk, pk, l - 1, u * 2 ^ HPrime + n)

(* The signature of a layer for a digest, of what its leaf signs.           *)
LayerSig(sk, pk, dg, l) ==
    xmss_sign(Below(sk, pk, l, TreeOf(dg, l), LeafOf(dg, l)), sk, LeafOf(dg, l), pk,
              LayerAdrs(l, TreeOf(dg, l)))

(* The signatures of the first n layers for a digest.                       *)
Layers(sk, pk, dg, n) == [i \in 1 .. n |-> LayerSig(sk, pk, dg, i - 1)]

(* The FORS signature for a digest.                                         *)
ForsOf(sk, pk, dg) ==
    LET s == split_digest(dg) IN fors_sign(s.md, sk, pk, ForsTreeNew(s.idx_tree, s.idx_leaf))

(* The signature for a digest, with the signatures of the first n layers.   *)
OwnSig(sk, pk, dg, n) ==
    [randomizer |-> Randomizer, fors_sig |-> ForsOf(sk, pk, dg), ht_sig |-> Layers(sk, pk, dg, n)]

-----------------------------------------------------------------------------
(* The phases in which a signature is at hand.                              *)
Working == {"ht_sign", "signed", "sent", "ht_verify", "done"}

(* The last layer whose round started.                                      *)
Done == IF j = 0 THEN 0 ELSE j - 1

(* The first invariant, of types: an address is that of the tree last       *)
(* entered, and a call at work has a digest and a pair that framing let     *)
(* through.                                                                 *)
TInv ==
    /\ TypeOK
    /\ adrs = LayerAdrs(Done, idx_tree)
    /\ phase \in Working => digest \in Digests /\ claim \in Claims /\ framed(claim) # {}
    /\ phase = "ht_sign" => made < MaxSigs

(* The key at hand holds the verifying key that was made with it.           *)
KeyForm ==
    key = [sk_seed |-> key.sk_seed, sk_prf |-> key.sk_prf,
           verifying_key |-> [pk_seed |-> pk_seed, pk_root |-> pk_root]]

(* The loops have got to the tree and leaf of the digest's path.            *)
OnPath == idx_tree = TreeOf(digest, Done) /\ idx_leaf = LeafOf(digest, Done)

(* What is carried up is what a leaf of the layer signs: first the FORS     *)
(* key, then the root below.                                                *)
Carried ==
    root = IF j = 0 THEN Below(key.sk_seed, pk_seed, 0, idx_tree, idx_leaf)
           ELSE TreeRoot(key.sk_seed, pk_seed, j - 1, idx_tree)

(* What the verifier is given was not changed and is for the pair signed.   *)
Own == ~altered /\ presented = claim

(* The second invariant: the key's root is the top of its hypertree, every  *)
(* value signed is the one its leaf has to sign, and the loops are on the   *)
(* digest's path with what belongs there, while signing, and while          *)
(* verifying what was sent unchanged.                                       *)
RInv ==
    /\ KeyForm
    /\ ~altered => pk_root = TreeRoot(key.sk_seed, pk_seed, D - 1, 0)
    /\ phase = "ready" => signed = {}
    /\ \A s \in signed :
           s[2] = Below(key.sk_seed, pk_seed, s[1][1], s[1][2], s[1][3])
    /\ phase = "ht_sign" =>
           /\ OnPath /\ (j = 0 \/ j = 1 \/ j < D => Carried)
           /\ sig = OwnSig(key.sk_seed, pk_seed, digest, j)
    /\ phase \in {"signed", "sent"} => sig = OwnSig(key.sk_seed, pk_seed, digest, D)
    /\ phase = "sent" /\ Own => wire = to_bytes(sig) /\ vk = {key.verifying_key}
    /\ phase = "ht_verify" /\ Own =>
           /\ OnPath /\ Carried /\ vk = {key.verifying_key}
           /\ sig = OwnSig(key.sk_seed, pk_seed, digest, D)
    /\ phase = "done" /\ Own => accepted

-----------------------------------------------------------------------------
(* The heights, and what is selected by a digest.                           *)
LEMMA Heights ==
    /\ HPrime \in Nat \ {0} /\ D \in Nat \ {0} /\ K \in Nat \ {0} /\ A \in Nat \ {0}
    /\ MD \in Nat /\ H - HPrime \in Nat /\ H - HPrime = HPrime * (D - 1)
    /\ 2 ^ HPrime \in Nat \ {0} /\ 2 ^ (H - HPrime) \in Nat \ {0}
  <1>1. HPrime \in Nat \ {0} /\ D \in Nat \ {0} /\ K \in Nat \ {0} /\ A \in Nat \ {0}
    BY SlhParameters
  <1>2. PICK n \in Nat : n = K * A
    BY <1>1, Z3
  <1>3. MD = (n + 7) \div 8
    BY <1>2 DEF MD, DivCeil
  <1>4. MD \in Nat
    BY <1>3
  <1>5. D - 1 \in Nat
    BY <1>1
  <1>6. HPrime * D - HPrime = HPrime * (D - 1)
    BY <1>1, Z3
  <1>7. HPrime * (D - 1) \in Nat
    BY <1>1, <1>5, Z3
  <1>8. H - HPrime \in Nat /\ H - HPrime = HPrime * (D - 1)
    BY <1>6, <1>7 DEF H
  <1> QED  BY <1>1, <1>4, <1>8, PowerIsNat

(* A part of a byte string is a byte string, and its value a number.        *)
LEMMA Part ==
    ASSUME NEW x, IsOctets(x), NEW i \in Nat, NEW k \in Nat, i + k <= Len(x)
    PROVE  /\ IsOctets(SubSeq(x, i + 1, i + k)) /\ Len(SubSeq(x, i + 1, i + k)) = k
           /\ Value(SubSeq(x, i + 1, i + k)) \in Nat
  <1>0. PICK S : S = 0 .. 255
    OBVIOUS
  <1>1. x \in Seq(S) /\ Len(x) \in Nat /\ \A v \in S : v \in Nat
    BY <1>0 DEF IsOctets
  <1>2. \A l \in 1 .. Len(x) : x[l] \in S
    BY <1>1, ElementOfSeq
  <1>3. \A l \in i + 1 .. i + k : l \in 1 .. Len(x)
    BY <1>1
  <1>4. SubSeq(x, i + 1, i + k) \in Seq(S) /\ Len(SubSeq(x, i + 1, i + k)) = k
    <2>1. \A l \in i + 1 .. i + k : x[l] \in S
      BY <1>2, <1>3
    <2>2. i + 1 \in Int /\ i + k \in Int /\ (i + k) - (i + 1) + 1 = k /\ k \in Nat
      OBVIOUS
    <2> QED  BY <1>1, <2>1, <2>2
  <1>5. SubSeq(x, i + 1, i + k) \in Seq(Nat)
    <2>1. \A l \in i + 1 .. i + k : x[l] \in Nat
      BY <1>1, <1>2, <1>3
    <2> QED  BY <1>1, <2>1
  <1>6. Value(SubSeq(x, i + 1, i + k)) \in Nat
    BY <1>5, ValueIsNat
  <1> QED  BY <1>0, <1>4, <1>6 DEF IsOctets

(* The indices that a digest selects are in range: a tree of the lowest     *)
(* layer and a leaf of it.                                                  *)
LEMMA Selected ==
    ASSUME NEW dg \in Digests
    PROVE  /\ IsOctets(split_digest(dg).md) /\ Len(split_digest(dg).md) = MD
           /\ split_digest(dg).idx_tree \in 0 .. 2 ^ (H - HPrime) - 1
           /\ split_digest(dg).idx_leaf \in 0 .. 2 ^ HPrime - 1
  <1> DEFINE tree == DivCeil(H - HPrime, 8)
             leaf == DivCeil(HPrime, 8)
  <1>1. IsOctets(dg) /\ Len(dg) = MD + tree + leaf
    BY DigestsAssumption
  <1>2. tree \in Nat /\ leaf \in Nat
    BY Heights DEF DivCeil
  <1>3. split_digest(dg) =
            [md       |-> SubSeq(dg, 1, MD),
             idx_tree |-> Value(SubSeq(dg, MD + 1, MD + tree)) % 2 ^ (H - HPrime),
             idx_leaf |-> Value(SubSeq(dg, MD + tree + 1, MD + tree + leaf)) % 2 ^ HPrime]
    BY DEF split_digest
  <1> HIDE DEF tree, leaf
  <1>4. MD \in Nat /\ MD + tree \in Nat
    BY <1>2, Heights
  <1>5. IsOctets(SubSeq(dg, 1, MD)) /\ Len(SubSeq(dg, 1, MD)) = MD
    <2>1. 0 + MD <= Len(dg) /\ 0 + MD = MD /\ 0 + 1 = 1
      BY <1>1, <1>2, <1>4
    <2>2. IsOctets(SubSeq(dg, 0 + 1, 0 + MD)) /\ Len(SubSeq(dg, 0 + 1, 0 + MD)) = MD
      <3>1. 0 \in Nat
        OBVIOUS
      <3> QED  BY <1>1, <1>4, <2>1, <3>1, Part, Zenon
    <2> QED  BY <2>1, <2>2
  <1>6. Value(SubSeq(dg, MD + 1, MD + tree)) \in Nat
    <2>1. MD + tree <= Len(dg)
      BY <1>1, <1>2, <1>4
    <2> QED  BY <1>1, <1>2, <1>4, <2>1, Part
  <1>7. Value(SubSeq(dg, MD + tree + 1, MD + tree + leaf)) \in Nat
    <2>1. (MD + tree) + leaf <= Len(dg)
      BY <1>1, <1>2, <1>4
    <2> QED  BY <1>1, <1>2, <1>4, <2>1, Part
  <1>8. \A v \in Nat, w \in Nat \ {0} : v % w \in 0 .. w - 1
    OBVIOUS
  <1>9. /\ Value(SubSeq(dg, MD + 1, MD + tree)) % 2 ^ (H - HPrime) \in 0 .. 2 ^ (H - HPrime) - 1
        /\ Value(SubSeq(dg, MD + tree + 1, MD + tree + leaf)) % 2 ^ HPrime \in 0 .. 2 ^ HPrime - 1
    BY <1>6, <1>7, <1>8, Heights
  <1>10. /\ split_digest(dg).md = SubSeq(dg, 1, MD)
         /\ split_digest(dg).idx_tree = Value(SubSeq(dg, MD + 1, MD + tree)) % 2 ^ (H - HPrime)
         /\ split_digest(dg).idx_leaf =
                Value(SubSeq(dg, MD + tree + 1, MD + tree + leaf)) % 2 ^ HPrime
    <2>1. PICK x, y, z :
              /\ x = SubSeq(dg, 1, MD)
              /\ y = Value(SubSeq(dg, MD + 1, MD + tree)) % 2 ^ (H - HPrime)
              /\ z = Value(SubSeq(dg, MD + tree + 1, MD + tree + leaf)) % 2 ^ HPrime
      OBVIOUS
    <2>2. split_digest(dg) = [md |-> x, idx_tree |-> y, idx_leaf |-> z]
      BY <1>3, <2>1, Zenon
    <2>3. PICK s : s = split_digest(dg)
      OBVIOUS
    <2>4. s.md = x /\ s.idx_tree = y /\ s.idx_leaf = z
      BY <2>2, <2>3
    <2> QED  BY <2>1, <2>3, <2>4, Zenon
  <1> QED  BY <1>5, <1>9, <1>10

(* An address moved to another layer and tree.                              *)
IsMoved(b, a, l, z) == b = [a EXCEPT !.layer = l, !.tree = z]

(* A layer's address, moved, is the address of the other layer.             *)
LEMMA LayerMoved ==
    ASSUME NEW a, NEW x, NEW y, a = LayerAdrs(x, y), NEW b, NEW l, NEW z, IsMoved(b, a, l, z)
    PROVE  b = LayerAdrs(l, z)
  <1> DEFINE Words(u, w) ==
                 [layer |-> u, tree |-> w, type |-> 0, word5 |-> 0, word6 |-> 0, word7 |-> 0]
  <1>1. \A u, w : LayerAdrs(u, w) = Words(u, w)
    BY Zenon DEF LayerAdrs, Adrs
  <1>2. [Words(x, y) EXCEPT !.layer = l] = Words(l, y)
    OBVIOUS
  <1>3. [Words(l, y) EXCEPT !.tree = z] = Words(l, z)
    OBVIOUS
  <1> HIDE DEF Words
  <1>4. [a EXCEPT !.layer = l, !.tree = z] = Words(l, z)
    BY <1>1, <1>2, <1>3, Zenon
  <1> QED  BY <1>1, <1>4, Zenon DEF IsMoved

(* A round of the loops over the layers.                                    *)
LEMMA EnterLayerStep ==
    ASSUME TInv, j < D, EnterLayer
    PROVE  /\ j' = j + 1 /\ j' \in 0 .. D /\ Done' = j /\ j \in 0 .. D - 1
           /\ idx_leaf' \in 0 .. 2 ^ HPrime - 1
           /\ idx_tree' \in 0 .. 2 ^ (H - HPrime) - 1
           /\ adrs' = LayerAdrs(j, idx_tree')
  <1>1. j \in 0 .. D /\ D \in Nat
    BY Heights DEF TInv, TypeOK
  <1>2. j \in 0 .. D - 1 /\ j + 1 \in 0 .. D /\ j + 1 # 0 /\ (j + 1) - 1 = j
    BY <1>1
  <1>3. j' = j + 1 /\ Done' = j
    BY <1>2 DEF EnterLayer, Done
  <1>4. PICK u \in Nat \ {0}, w \in Nat \ {0} : u = 2 ^ (H - HPrime) /\ w = 2 ^ HPrime
    BY Heights
  <1>5. idx_leaf \in 0 .. w - 1 /\ idx_tree \in 0 .. u - 1
    BY <1>4 DEF TInv, TypeOK
  <1>6. idx_tree % w \in 0 .. w - 1 /\ idx_tree \div w \in 0 .. u - 1
    <2>1. idx_tree \in Nat /\ idx_tree < u
      BY <1>5
    <2>2. idx_tree % w \in 0 .. w - 1 /\ idx_tree \div w \in Nat
      BY <2>1
    <2>3. idx_tree \div 2 ^ HPrime <= idx_tree
      BY <2>1, Heights, ShiftIsNat
    <2> QED  BY <1>4, <2>1, <2>2, <2>3
  <1>7. idx_leaf' \in 0 .. w - 1 /\ idx_tree' \in 0 .. u - 1
    BY <1>4, <1>5, <1>6 DEF EnterLayer
  <1>8. adrs' = LayerAdrs(j, idx_tree')
    <2>1. adrs = LayerAdrs(Done, idx_tree) /\ adrs' = [adrs EXCEPT !.layer = j, !.tree = idx_tree']
      BY DEF TInv, EnterLayer
    <2>2. PICK l : l = j
      OBVIOUS
    <2>3. IsMoved(adrs', adrs, l, idx_tree')
      BY <2>1, <2>2, Zenon DEF IsMoved
    <2>4. adrs' = LayerAdrs(l, idx_tree')
      <3>1. PICK a, b, x, y, z : a = adrs /\ b = adrs' /\ a = LayerAdrs(x, y) /\ z = idx_tree'
        BY <2>1
      <3>2. IsMoved(b, a, l, z)
        BY <2>3, <3>1
      <3>3. b = LayerAdrs(l, z)
        BY <3>1, <3>2, LayerMoved
      <3> QED  BY <3>1, <3>3
    <2> QED  BY <2>2, <2>4
  <1> QED  BY <1>2, <1>3, <1>4, <1>7, <1>8

(* The first invariant holds of a key just made.                            *)
LEMMA InitTInv == Init => TInv
  <1> SUFFICES ASSUME Init  PROVE TInv
    OBVIOUS
  <1>1. j = 0 /\ idx_tree = 0 /\ idx_leaf = 0 /\ Done = 0
    BY DEF Init, Done
  <1>2. adrs = LayerAdrs(Done, idx_tree)
    BY <1>1, Zenon DEF Init, WotsHashDefault, LayerAdrs
  <1>3. adrs.layer = 0 /\ adrs.tree = 0
    BY DEF Init, WotsHashDefault, Adrs
  <1>4. /\ 0 \in 0 .. D /\ 0 \in 0 .. D - 1 /\ 0 \in 0 .. 2 ^ HPrime - 1
        /\ 0 \in 0 .. 2 ^ (H - HPrime) - 1
    BY Heights
  <1>5. TypeOK
    <2>1. 0 \in 0 .. MaxSigs
      BY DigestsAssumption
    <2> QED  BY <1>1, <1>3, <1>4, <2>1 DEF Init, TypeOK
  <1>6. phase \notin Working
    BY DEF Init, Working
  <1> QED  BY <1>2, <1>5, <1>6 DEF TInv, Working

(* What the steps that start no round of a loop leave to be shown.          *)
LEMMA SameFrame ==
    ASSUME TInv, UNCHANGED frame
    PROVE  /\ j' \in 0 .. D /\ idx_leaf' \in 0 .. 2 ^ HPrime - 1
           /\ idx_tree' \in 0 .. 2 ^ (H - HPrime) - 1
           /\ adrs'.layer \in 0 .. D - 1 /\ adrs'.tree = idx_tree'
           /\ adrs' = LayerAdrs(Done', idx_tree')
  <1>1. UNCHANGED <<j, idx_tree, idx_leaf, adrs>>
    BY DEF frame
  <1>2. Done' = Done
    BY <1>1 DEF Done
  <1> QED  BY <1>1, <1>2 DEF TInv, TypeOK

(* What the steps leave to be shown that start a round of a loop.           *)
LEMMA NewFrame ==
    ASSUME Done' \in 0 .. D - 1, adrs' = LayerAdrs(Done', idx_tree')
    PROVE  adrs'.layer \in 0 .. D - 1 /\ adrs'.tree = idx_tree'
  BY DEF LayerAdrs, Adrs

(* What the steps leave to be shown that set the loops to their start.      *)
LEMMA StartFrame ==
    ASSUME NEW dg \in Digests, j' = 0, idx_tree' = split_digest(dg).idx_tree,
           idx_leaf' = split_digest(dg).idx_leaf,
           adrs' = [WotsHashDefault EXCEPT !.tree = split_digest(dg).idx_tree]
    PROVE  /\ j' \in 0 .. D /\ idx_leaf' \in 0 .. 2 ^ HPrime - 1
           /\ idx_tree' \in 0 .. 2 ^ (H - HPrime) - 1
           /\ adrs'.layer \in 0 .. D - 1 /\ adrs'.tree = idx_tree'
           /\ adrs' = LayerAdrs(Done', idx_tree')
  <1>1. /\ idx_leaf' \in 0 .. 2 ^ HPrime - 1
        /\ idx_tree' \in 0 .. 2 ^ (H - HPrime) - 1
    BY Selected
  <1>2. Done' = 0 /\ 0 \in 0 .. D - 1 /\ 0 \in 0 .. D
    BY Heights DEF Done
  <1>3. adrs' = LayerAdrs(0, idx_tree')
    <2>1. PICK x : x = split_digest(dg).idx_tree
      OBVIOUS
    <2>2. [WotsHashDefault EXCEPT !.tree = x] = LayerAdrs(0, x)
      BY DEF WotsHashDefault, LayerAdrs, Adrs
    <2> QED  BY <2>1, <2>2
  <1> QED  BY <1>1, <1>2, <1>3, NewFrame

(* Each step keeps it: reading a key from bytes,                            *)
LEMMA ReloadTInv ==
    ASSUME TInv, Reload
    PROVE  TInv'
  <1>1. phase = "ready" /\ UNCHANGED <<claim, digest, frame, accepted, made>>
    BY DEF Reload
  <1>2. phase' \in {"ready", "refused"} /\ altered' \in BOOLEAN
    BY <1>1 DEF Reload, TInv, TypeOK
  <1>3. phase' \notin Working
    BY <1>2 DEF Working
  <1>4. /\ claim' \in Claims \cup {None} /\ digest' \in Digests \cup {None}
        /\ accepted' \in BOOLEAN /\ made' \in 0 .. MaxSigs
    BY <1>1 DEF TInv, TypeOK
  <1>5. phase' # "ht_sign"
    BY <1>2
  <1> QED  BY <1>1, <1>2, <1>3, <1>4, <1>5, SameFrame DEF TInv, TypeOK

(* starting to sign,                                                        *)
LEMMA SignTInv ==
    ASSUME TInv, NEW pair \in Claims, NEW dg \in Digests, Sign(pair, dg)
    PROVE  TInv'
  <1>1. /\ phase' = "ht_sign" /\ claim' = pair /\ digest' = dg /\ framed(pair) # {}
        /\ UNCHANGED <<altered, accepted, made>>
        /\ j' = 0 /\ idx_tree' = split_digest(dg).idx_tree
        /\ idx_leaf' = split_digest(dg).idx_leaf
        /\ adrs' = [WotsHashDefault EXCEPT !.tree = split_digest(dg).idx_tree]
    BY DEF Sign
  <1>2. made < MaxSigs
    <2>1. made < IF Kept THEN MaxSigs ELSE 1
      BY DEF Sign
    <2>2. made \in 0 .. MaxSigs /\ MaxSigs \in Nat \ {0}
      BY DigestsAssumption DEF TInv, TypeOK
    <2>3. CASE Kept
      BY <2>1, <2>3
    <2>4. CASE ~Kept
      BY <2>1, <2>2, <2>4
    <2> QED  BY <2>3, <2>4
  <1>3. /\ j' \in 0 .. D /\ idx_leaf' \in 0 .. 2 ^ HPrime - 1
        /\ idx_tree' \in 0 .. 2 ^ (H - HPrime) - 1
        /\ adrs'.layer \in 0 .. D - 1 /\ adrs'.tree = idx_tree'
        /\ adrs' = LayerAdrs(Done', idx_tree')
    BY <1>1, StartFrame
  <1>4. altered' \in BOOLEAN /\ accepted' \in BOOLEAN /\ made' \in 0 .. MaxSigs
    BY <1>1 DEF TInv, TypeOK
  <1> QED  BY <1>1, <1>2, <1>3, <1>4 DEF TInv, TypeOK

(* refusing to,                                                             *)
LEMMA SignRefusedTInv ==
    ASSUME TInv, NEW pair \in Claims, SignRefused(pair)
    PROVE  TInv'
  <1>1. phase' = "refused" /\ UNCHANGED <<claim, digest, altered, frame, accepted, made>>
    BY DEF SignRefused
  <1>2. phase' \notin Working
    BY <1>1 DEF Working
  <1>3. /\ claim' \in Claims \cup {None} /\ digest' \in Digests \cup {None}
        /\ accepted' \in BOOLEAN /\ altered' \in BOOLEAN /\ made' \in 0 .. MaxSigs
    BY <1>1 DEF TInv, TypeOK
  <1> QED  BY <1>1, <1>2, <1>3, SameFrame DEF TInv, TypeOK

(* signing one layer,                                                       *)
LEMMA SignLayerTInv ==
    ASSUME TInv, SignLayer
    PROVE  TInv'
  <1>1. /\ phase = "ht_sign" /\ j < D /\ EnterLayer
        /\ UNCHANGED <<phase, claim, digest, altered, accepted, made>>
    BY DEF SignLayer
  <1>2. /\ j' \in 0 .. D /\ Done' \in 0 .. D - 1 /\ idx_leaf' \in 0 .. 2 ^ HPrime - 1
        /\ idx_tree' \in 0 .. 2 ^ (H - HPrime) - 1 /\ adrs' = LayerAdrs(Done', idx_tree')
    BY <1>1, EnterLayerStep
  <1>3. adrs'.layer \in 0 .. D - 1 /\ adrs'.tree = idx_tree'
    BY <1>2, NewFrame
  <1> QED  BY <1>1, <1>2, <1>3 DEF TInv, TypeOK

(* returning the signature,                                                 *)
LEMMA SignEndTInv ==
    ASSUME TInv, SignEnd
    PROVE  TInv'
  <1>1. /\ phase = "ht_sign" /\ phase' = "signed" /\ made' = made + 1
        /\ UNCHANGED <<claim, digest, altered, frame, accepted>>
    BY DEF SignEnd
  <1>2. made' \in 0 .. MaxSigs
    <2>1. made \in 0 .. MaxSigs /\ made < MaxSigs /\ MaxSigs \in Nat
      BY <1>1, DigestsAssumption DEF TInv, TypeOK
    <2> QED  BY <1>1, <2>1
  <1>3. digest \in Digests /\ claim \in Claims /\ framed(claim) # {}
    BY <1>1 DEF TInv, Working
  <1>4. altered' \in BOOLEAN /\ accepted' \in BOOLEAN
    BY <1>1 DEF TInv, TypeOK
  <1> QED  BY <1>1, <1>2, <1>3, <1>4, SameFrame DEF TInv, TypeOK

(* sending it,                                                              *)
LEMMA SendTInv ==
    ASSUME TInv, Send
    PROVE  TInv'
  <1>1. /\ phase = "signed" /\ phase' = "sent"
        /\ UNCHANGED <<claim, digest, frame, accepted, made>>
    BY DEF Send
  <1>2. altered' \in BOOLEAN
    BY DEF Send, TInv, TypeOK
  <1>3. digest \in Digests /\ claim \in Claims /\ framed(claim) # {}
    BY <1>1 DEF TInv, Working
  <1>4. accepted' \in BOOLEAN /\ made' \in 0 .. MaxSigs
    BY <1>1 DEF TInv, TypeOK
  <1> QED  BY <1>1, <1>2, <1>3, <1>4, SameFrame DEF TInv, TypeOK

(* refusing what arrives,                                                   *)
LEMMA VerifyRefusedTInv ==
    ASSUME TInv, VerifyRefused
    PROVE  TInv'
  <1>1. /\ phase = "sent" /\ phase' = "done" /\ accepted' = FALSE
        /\ UNCHANGED <<claim, digest, altered, frame, made>>
    BY DEF VerifyRefused
  <1>2. digest \in Digests /\ claim \in Claims /\ framed(claim) # {}
    BY <1>1 DEF TInv, Working
  <1>3. altered' \in BOOLEAN /\ made' \in 0 .. MaxSigs
    BY <1>1 DEF TInv, TypeOK
  <1> QED  BY <1>1, <1>2, <1>3, SameFrame DEF TInv, TypeOK

(* starting to verify it,                                                   *)
LEMMA VerifyTInv ==
    ASSUME TInv, Verify
    PROVE  TInv'
  <1>1. /\ phase = "sent" /\ phase' = "ht_verify" /\ j' = 0
        /\ UNCHANGED <<claim, digest, altered, accepted, made>>
    BY DEF Verify
  <1>2. digest \in Digests /\ claim \in Claims /\ framed(claim) # {}
    BY <1>1 DEF TInv, Working
  <1>3. PICK received, v, dg :
            /\ dg \in DigestsOf(received, v)
            /\ idx_tree' = split_digest(dg).idx_tree
            /\ idx_leaf' = split_digest(dg).idx_leaf
            /\ adrs' = [WotsHashDefault EXCEPT !.tree = split_digest(dg).idx_tree]
    BY DEF Verify
  <1>4. dg \in Digests
    BY <1>2, <1>3 DEF DigestsOf
  <1>5. altered' \in BOOLEAN /\ accepted' \in BOOLEAN /\ made' \in 0 .. MaxSigs
    BY <1>1 DEF TInv, TypeOK
  <1>6. /\ j' \in 0 .. D /\ idx_leaf' \in 0 .. 2 ^ HPrime - 1
        /\ idx_tree' \in 0 .. 2 ^ (H - HPrime) - 1
        /\ adrs'.layer \in 0 .. D - 1 /\ adrs'.tree = idx_tree'
        /\ adrs' = LayerAdrs(Done', idx_tree')
    BY <1>1, <1>3, <1>4, StartFrame
  <1> QED  BY <1>1, <1>2, <1>5, <1>6 DEF TInv, TypeOK

(* verifying one layer,                                                     *)
LEMMA VerifyLayerTInv ==
    ASSUME TInv, VerifyLayer
    PROVE  TInv'
  <1>1. /\ phase = "ht_verify" /\ j < D /\ EnterLayer
        /\ UNCHANGED <<phase, claim, digest, altered, accepted, made>>
    BY DEF VerifyLayer
  <1>2. /\ j' \in 0 .. D /\ Done' \in 0 .. D - 1 /\ idx_leaf' \in 0 .. 2 ^ HPrime - 1
        /\ idx_tree' \in 0 .. 2 ^ (H - HPrime) - 1 /\ adrs' = LayerAdrs(Done', idx_tree')
    BY <1>1, EnterLayerStep
  <1>3. adrs'.layer \in 0 .. D - 1 /\ adrs'.tree = idx_tree'
    BY <1>2, NewFrame
  <1> QED  BY <1>1, <1>2, <1>3 DEF TInv, TypeOK

(* and judging it.                                                          *)
LEMMA VerifyEndTInv ==
    ASSUME TInv, VerifyEnd
    PROVE  TInv'
  <1>1. /\ phase = "ht_verify" /\ phase' = "done"
        /\ UNCHANGED <<claim, digest, altered, frame, made>>
    BY DEF VerifyEnd
  <1>2. accepted' \in BOOLEAN
    BY DEF VerifyEnd
  <1>3. digest \in Digests /\ claim \in Claims /\ framed(claim) # {}
    BY <1>1 DEF TInv, Working
  <1>4. altered' \in BOOLEAN /\ made' \in 0 .. MaxSigs
    BY <1>1 DEF TInv, TypeOK
  <1> QED  BY <1>1, <1>2, <1>3, <1>4, SameFrame DEF TInv, TypeOK

(* Every step keeps the first invariant.                                    *)
LEMMA NextTInv == TInv /\ [Next]_vars => TInv'
  <1> SUFFICES ASSUME TInv, [Next]_vars  PROVE TInv'
    OBVIOUS
  <1>1. CASE Reload
    BY <1>1, ReloadTInv
  <1>2. ASSUME NEW pair \in Claims, NEW dg \in Digests, Sign(pair, dg)  PROVE TInv'
    BY <1>2, SignTInv
  <1>3. ASSUME NEW pair \in Claims, SignRefused(pair)  PROVE TInv'
    BY <1>3, SignRefusedTInv
  <1>4. CASE SignLayer
    BY <1>4, SignLayerTInv
  <1>5. CASE SignEnd
    BY <1>5, SignEndTInv
  <1>6. CASE Send
    BY <1>6, SendTInv
  <1>7. CASE VerifyRefused
    BY <1>7, VerifyRefusedTInv
  <1>8. CASE Verify
    BY <1>8, VerifyTInv
  <1>9. CASE VerifyLayer
    BY <1>9, VerifyLayerTInv
  <1>10. CASE VerifyEnd
    BY <1>10, VerifyEndTInv
  <1>11. CASE UNCHANGED vars
    <2>1. UNCHANGED <<phase, claim, digest, altered, frame, accepted, made>>
      BY <1>11 DEF vars
    <2> QED  BY <2>1, SameFrame DEF TInv, TypeOK
  <1> QED  BY <1>1, <1>2, <1>3, <1>4, <1>5, <1>6, <1>7, <1>8, <1>9, <1>10, <1>11 DEF Next

-----------------------------------------------------------------------------
(* What FlattenSeq puts together, at least one string, is joined.           *)
LEMMA FlattenJoins ==
    ASSUME NEW S, NEW c, NEW len \in Nat, NEW n \in Nat \ {0}, Len(c) = n,
           AreChunks(c, S, len, n)
    PROVE  HoldsChunks(FlattenSeq(c), c, S, len, n)
  <1> DEFINE Is(g) == g = [k \in 1 .. n |-> IF k = 1 THEN c[k] ELSE g[k - 1] \o c[k]]
             e == CHOOSE g : Is(g)
  <1>1. FlattenSeq(c) = e[n]
    BY DEF FlattenSeq
  <1>2. PICK q : q = JoinOf(c, n)
    OBVIOUS
  <1>3. IsJoined(q, c, n)
    BY <1>2, JoinExists
  <1>4. q[0] = <<>> /\ \A k \in 1 .. n : q[k] = q[k - 1] \o c[k]
    <2>1. 0 \in 0 .. n /\ \A k \in 1 .. n : k \in 0 .. n /\ k # 0
      OBVIOUS
    <2> QED  BY <1>3, <2>1 DEF IsJoined
  <1>5. q[1] = c[1]
    <2>1. 1 \in 1 .. n /\ 1 - 1 = 0 /\ c[1] \in Seq(S)
      BY DEF AreChunks
    <2>2. q[1] = <<>> \o c[1]
      BY <1>4, <2>1
    <2> QED  BY <2>1, <2>2
  <1>6. \E g : Is(g)
    <2>1. PICK g : g = [k \in 1 .. n |-> q[k]]
      OBVIOUS
    <2>2. ASSUME NEW k \in 1 .. n
          PROVE  g[k] = IF k = 1 THEN c[k] ELSE g[k - 1] \o c[k]
      <3>1. g[k] = q[k]
        BY <2>1
      <3>2. CASE k = 1
        BY <1>5, <3>1, <3>2
      <3>3. CASE k # 1
        <4>1. k - 1 \in 1 .. n
          BY <3>3
        <4>2. g[k - 1] = q[k - 1]
          BY <2>1, <4>1
        <4>3. q[k] = q[k - 1] \o c[k]
          BY <1>4
        <4> QED  BY <3>1, <3>3, <4>2, <4>3, Zenon
      <3> QED  BY <3>2, <3>3
    <2>3. [k \in 1 .. n |-> g[k]] = [k \in 1 .. n |-> IF k = 1 THEN c[k] ELSE g[k - 1] \o c[k]]
      BY <2>2, Zenon
    <2>4. g = [k \in 1 .. n |-> g[k]]
      BY <2>1
    <2>5. Is(g)
      BY <2>3, <2>4, Zenon
    <2> QED  BY <2>5, Zenon
  <1>7. Is(e)
    BY <1>6
  <1> HIDE DEF e
  <1>8. e[n] = q[n]
    <2> DEFINE Z == {k \in 1 .. n : e[k] = q[k]}
    <2>1. 1 \in Z
      <3>1. 1 \in 1 .. n
        OBVIOUS
      <3>2. e[1] = c[1]
        BY <1>7, <3>1
      <3> QED  BY <1>5, <3>1, <3>2
    <2>2. ASSUME NEW k \in 1 .. n - 1, k \in Z
          PROVE  k + 1 \in Z
      <3>1. k + 1 \in 1 .. n /\ k + 1 # 1 /\ (k + 1) - 1 = k
        OBVIOUS
      <3>2. e[k + 1] = e[k] \o c[k + 1]
        BY <1>7, <3>1
      <3>3. q[k + 1] = q[k] \o c[k + 1]
        BY <1>4, <3>1
      <3> QED  BY <2>2, <3>1, <3>2, <3>3
    <2> HIDE DEF Z
    <2>3. 1 .. n \subseteq Z
      BY <2>1, <2>2, IntervalInduction
    <2>4. n \in Z
      BY <2>3
    <2> QED  BY <2>4 DEF Z
  <1>9. HoldsChunks(JoinOf(c, n)[n], c, S, len, n)
    BY JoinHolds
  <1> QED  BY <1>1, <1>2, <1>8, <1>9

(* Strings of one length, put together, are cut out again.                  *)
GivesChunks(u, c, S, len, n) ==
    /\ u \in Seq(S) /\ Len(u) = n * len
    /\ \A k \in 1 .. n : SubSeq(u, (k - 1) * len + 1, k * len) = c[k]

(* FlattenSeq gives them so.                                                *)
LEMMA FlattenChunks ==
    ASSUME NEW S, NEW c, NEW len \in Nat, NEW n \in Nat \ {0}, Len(c) = n,
           AreChunks(c, S, len, n), NEW u, u = FlattenSeq(c)
    PROVE  GivesChunks(u, c, S, len, n)
  <1>2. HoldsChunks(u, c, S, len, n)
    BY FlattenJoins
  <1>3. u \in Seq(S) /\ Len(u) = n * len
    BY <1>2 DEF HoldsChunks
  <1>4. ASSUME NEW k \in 1 .. n
        PROVE  SubSeq(u, (k - 1) * len + 1, k * len) = c[k]
    <2>1. PICK a, b, v : a = (k - 1) * len /\ b = k * len /\ v = SubSeq(u, a + 1, b)
      OBVIOUS
    <2>2. a \in Nat /\ b = a + len /\ b <= n * len
      <3>1. (k - 1) * len \in Nat
        BY Z3
      <3>2. (k - 1) * len + len = k * len
        BY Z3
      <3>3. k * len <= n * len
        BY Z3
      <3> QED  BY <2>1, <3>1, <3>2, <3>3, Zenon
    <2>3. v \in Seq(S) /\ Len(v) = len /\ \A i \in 1 .. len : v[i] = u[a + i]
      <3>1. a + len <= Len(u)
        BY <1>3, <2>2
      <3>2. IsCut(SubSeq(u, a + 1, a + len), u, a, len, S)
        BY <1>3, <2>2, <3>1, CutOut
      <3> QED  BY <2>1, <2>2, <3>2, Zenon DEF IsCut
    <2>4. \A i \in 1 .. len : u[a + i] = c[k][i]
      BY <1>2, <2>1 DEF HoldsChunks
    <2>5. c[k] \in Seq(S) /\ Len(c[k]) = len
      BY DEF AreChunks
    <2>6. v = c[k]
      <3>1. Len(v) = Len(c[k]) /\ \A i \in 1 .. Len(v) : v[i] = c[k][i]
        BY <2>3, <2>4, <2>5
      <3> QED  BY <2>3, <2>5, <3>1, SeqEqual
    <2> QED  BY <2>1, <2>6, Zenon
  <1> QED  BY <1>3, <1>4 DEF GivesChunks

(* The tree of a layer is found in the tree and the leaf of the next, and   *)
(* on the last layer there is one tree.                                     *)
LEMMA Path ==
    ASSUME NEW dg \in Digests, NEW l \in Nat
    PROVE  /\ TreeOf(dg, l) \in Nat
           /\ TreeOf(dg, l + 1) = TreeOf(dg, l) \div 2 ^ HPrime
           /\ LeafOf(dg, l + 1) = TreeOf(dg, l) % 2 ^ HPrime
           /\ TreeOf(dg, l) = TreeOf(dg, l + 1) * 2 ^ HPrime + LeafOf(dg, l + 1)
           /\ LeafOf(dg, l) \in 0 .. 2 ^ HPrime - 1
  <1>1. PICK x : x = split_digest(dg).idx_tree
    OBVIOUS
  <1>2. x \in Nat
    BY <1>1, Selected
  <1>3. PICK w \in Nat \ {0} : w = 2 ^ HPrime
    BY Heights
  <1>4. ASSUME NEW m \in Nat
        PROVE  /\ TreeOf(dg, m) \in Nat
               /\ TreeOf(dg, m + 1) = TreeOf(dg, m) \div w
    <2>1. PICK a \in Nat : a = HPrime * m
      BY Heights, Z3
    <2>2. HPrime * (m + 1) = a + HPrime
      BY <2>1, Heights, Z3
    <2>3. TreeOf(dg, m) = x \div 2 ^ a /\ TreeOf(dg, m + 1) = x \div 2 ^ (a + HPrime)
      BY <1>1, <2>1, <2>2 DEF TreeOf
    <2>4. x \div 2 ^ (a + HPrime) = (x \div 2 ^ a) \div 2 ^ HPrime
      <3>1. HPrime \in Nat
        BY Heights
      <3> QED  BY <1>2, <3>1, ShiftAdd, ZenonT(40)
    <2>5. x \div 2 ^ a \in Nat
      BY <1>2, <2>1, ShiftIsNat
    <2> QED  BY <1>3, <2>3, <2>4, <2>5
  <1>5. ASSUME NEW m \in Nat
        PROVE  /\ LeafOf(dg, m + 1) = TreeOf(dg, m) % w
               /\ LeafOf(dg, m + 1) \in 0 .. w - 1
               /\ TreeOf(dg, m) = TreeOf(dg, m + 1) * w + LeafOf(dg, m + 1)
    <2>1. m + 1 # 0 /\ (m + 1) - 1 = m
      OBVIOUS
    <2>2. LeafOf(dg, m + 1) = TreeOf(dg, m) % w
      BY <1>3, <2>1 DEF LeafOf
    <2>3. PICK y \in Nat : y = TreeOf(dg, m)
      BY <1>4
    <2>4. y % w \in 0 .. w - 1 /\ y = (y \div w) * w + (y % w)
      OBVIOUS
    <2> QED  BY <1>4, <2>2, <2>3, <2>4
  <1>6. LeafOf(dg, l) \in 0 .. w - 1
    <2>1. CASE l = 0
      BY <1>3, <2>1, Selected DEF LeafOf
    <2>2. CASE l # 0
      <3>1. l - 1 \in Nat /\ (l - 1) + 1 = l
        BY <2>2
      <3>2. LeafOf(dg, (l - 1) + 1) \in 0 .. w - 1
        BY <1>5, <3>1
      <3> QED  BY <3>1, <3>2
    <2> QED  BY <2>1, <2>2
  <1> QED  BY <1>3, <1>4, <1>5, <1>6

(* A path starts in the tree and leaf selected and ends in the one tree of  *)
(* the last layer.                                                          *)
LEMMA PathEnds ==
    ASSUME NEW dg \in Digests
    PROVE  /\ TreeOf(dg, 0) = split_digest(dg).idx_tree
           /\ LeafOf(dg, 0) = split_digest(dg).idx_leaf
           /\ TreeOf(dg, D - 1) = 0
  <1>1. PICK x : x = split_digest(dg).idx_tree
    OBVIOUS
  <1>2. x \in 0 .. 2 ^ (H - HPrime) - 1
    BY <1>1, Selected
  <1>3. TreeOf(dg, 0) = x
    <2>1. HPrime * 0 = 0
      BY Heights
    <2>2. x \div 2 ^ 0 = x
      BY <1>2, Heights, ShiftIsNat
    <2> QED  BY <1>1, <2>1, <2>2 DEF TreeOf
  <1>4. TreeOf(dg, D - 1) = 0
    <2>1. PICK z \in Nat : z = H - HPrime
      BY Heights
    <2>2. TreeOf(dg, D - 1) = x \div 2 ^ z
      BY <1>1, <2>1, Heights DEF TreeOf
    <2>3. x \in Nat /\ x < 2 ^ z
      BY <1>2, <2>1, Heights
    <2>4. x \div 2 ^ z \in 0 .. 2 ^ (z - z) - 1
      BY <2>1, <2>3, ShiftBelow
    <2>5. z - z = 0 /\ 2 ^ 0 = 1
      BY <2>1
    <2> QED  BY <2>2, <2>4, <2>5
  <1> QED  BY <1>1, <1>3, <1>4 DEF LeafOf

(* What a leaf above the lowest layer signs is the root of the tree below.  *)
LEMMA BelowIsRoot ==
    ASSUME NEW sk, NEW pk, NEW dg \in Digests, NEW l \in Nat
    PROVE  Below(sk, pk, l + 1, TreeOf(dg, l + 1), LeafOf(dg, l + 1))
               = TreeRoot(sk, pk, l, TreeOf(dg, l))
  <1>1. l + 1 # 0 /\ (l + 1) - 1 = l
    OBVIOUS
  <1>2. TreeOf(dg, l + 1) * 2 ^ HPrime + LeafOf(dg, l + 1) = TreeOf(dg, l)
    BY Path
  <1> QED  BY <1>1, <1>2 DEF Below

(* The signature of a layer gives the root of the layer's tree.             *)
LEMMA LayerRecovers ==
    ASSUME HashBytes, NEW sk, NEW pk, NEW dg \in Digests, NEW l \in Nat
    PROVE  xmss_pk_from_sig(LeafOf(dg, l), LayerSig(sk, pk, dg, l),
                            Below(sk, pk, l, TreeOf(dg, l), LeafOf(dg, l)), pk,
                            LayerAdrs(l, TreeOf(dg, l)))
               = TreeRoot(sk, pk, l, TreeOf(dg, l))
  <1>1. PICK a, m, idx : /\ a = LayerAdrs(l, TreeOf(dg, l)) /\ idx = LeafOf(dg, l)
                         /\ m = Below(sk, pk, l, TreeOf(dg, l), LeafOf(dg, l))
    OBVIOUS
  <1>2. IsLayer(a)
    BY <1>1 DEF IsLayer, LayerAdrs
  <1>3. idx \in 0 .. 2 ^ HPrime - 1
    BY <1>1, Path
  <1>4. LayerSig(sk, pk, dg, l) = xmss_sign(m, sk, idx, pk, a)
    BY <1>1 DEF LayerSig
  <1>5. xmss_pk_from_sig(idx, xmss_sign(m, sk, idx, pk, a), m, pk, a)
            = xmss_node(sk, 0, HPrime, pk, a)
    BY <1>2, <1>3, XmssRecovers
  <1> QED  BY <1>1, <1>4, <1>5 DEF TreeRoot

(* The FORS signature of a digest gives the FORS key of its leaf.           *)
LEMMA ForsOfRecovers ==
    ASSUME NEW sk, NEW pk, NEW dg \in Digests
    PROVE  fors_pk_from_sig(ForsOf(sk, pk, dg), split_digest(dg).md, pk,
                            ForsTreeNew(split_digest(dg).idx_tree, split_digest(dg).idx_leaf))
               = Below(sk, pk, 0, TreeOf(dg, 0), LeafOf(dg, 0))
  <1>1. PICK md, a : /\ md = split_digest(dg).md
                     /\ a = ForsTreeNew(split_digest(dg).idx_tree, split_digest(dg).idx_leaf)
    OBVIOUS
  <1>2. ForsOf(sk, pk, dg) = fors_sign(md, sk, pk, a)
    BY <1>1 DEF ForsOf
  <1>3. IsOctets(md) /\ Len(md) = MD
    BY <1>1, Selected
  <1>4. fors_pk_from_sig(fors_sign(md, sk, pk, a), md, pk, a) = ForsPk(sk, pk, a)
    BY <1>3, ForsRecovers
  <1>5. Below(sk, pk, 0, TreeOf(dg, 0), LeafOf(dg, 0)) = ForsPk(sk, pk, a)
    BY <1>1, PathEnds DEF Below
  <1> QED  BY <1>1, <1>2, <1>4, <1>5

(* The root that key generation computes is the one of the last layer.      *)
LEMMA KeyRootIsTop ==
    ASSUME NEW sk, NEW pk
    PROVE  KeyRoot(sk, pk) = TreeRoot(sk, pk, D - 1, 0)
  <1>1. PICK l : l = D - 1
    OBVIOUS
  <1>2. [WotsHashDefault EXCEPT !.layer = l] = LayerAdrs(l, 0)
    BY DEF WotsHashDefault, LayerAdrs, Adrs
  <1> QED  BY <1>1, <1>2 DEF KeyRoot, TreeRoot

(* The shape of a signature, its blocks in S.                               *)
ForsFormed(fs, S) ==
    /\ fs = [i \in 1 .. K |-> fs[i]]
    /\ \A i \in 1 .. K :
           /\ fs[i] = [sk |-> fs[i].sk, auth |-> fs[i].auth]
           /\ fs[i].sk \in S /\ fs[i].auth \in Seq(S) /\ Len(fs[i].auth) = A

(* The shape of the signature of a layer.                                   *)
XmssFormed(x, S) ==
    /\ x = [sig |-> x.sig, auth |-> x.auth]
    /\ x.sig \in Seq(S) /\ Len(x.sig) = WotsSigLen
    /\ x.auth \in Seq(S) /\ Len(x.auth) = HPrime

(* The shape of the hypertree's signature.                                  *)
HtFormed(hs, S) ==
    hs = [l \in 1 .. D |-> hs[l]] /\ \A l \in 1 .. D : XmssFormed(hs[l], S)

(* The sizes of the parts of a signature, in blocks.                        *)
LEMMA Sizes ==
    /\ ForsSize \in Nat /\ XmssSize \in Nat /\ D * XmssSize \in Nat /\ SigLen \in Nat
    /\ SigLen = (1 + ForsSize) + D * XmssSize /\ WotsSigLen \in Nat
    /\ XmssSize = WotsSigLen + HPrime /\ A + 1 \in Nat
  <1>1. N \in Nat /\ HPrime \in Nat /\ D \in Nat /\ K \in Nat /\ A \in Nat
    BY SlhParameters
  <1>2. WotsSigLen \in Nat /\ A + 1 \in Nat
    BY <1>1 DEF WotsSigLen, CK_LEN
  <1>3. ForsSize \in Nat
    BY <1>1, <1>2, Z3 DEF ForsSize
  <1>4. XmssSize \in Nat
    BY <1>1, <1>2 DEF XmssSize
  <1>5. D * XmssSize \in Nat
    BY <1>1, <1>4, Z3
  <1> QED  BY <1>2, <1>3, <1>4, <1>5 DEF SigLen, XmssSize

(* A function of 1 .. n has length n.                                       *)
LEMMA LenOfFunction ==
    ASSUME NEW n \in Nat, NEW c, c = [i \in 1 .. n |-> c[i]]
    PROVE  Len(c) = n
  <1>1. PICK S : S = {c[i] : i \in 1 .. n}
    OBVIOUS
  <1>2. c \in [1 .. n -> S]
    BY <1>1
  <1>3. c \in Seq(S)
    BY <1>2
  <1> QED  BY <1>2, <1>3

(* A block before a string, and what is left without it.                    *)
LEMMA Behind ==
    ASSUME NEW S, NEW x \in S, NEW y \in Seq(S), NEW u, u = <<x>> \o y
    PROVE  /\ u \in Seq(S) /\ Len(u) = Len(y) + 1 /\ u[1] = x /\ Tail(u) = y
           /\ \A i \in 1 .. Len(y) : u[1 + i] = y[i]
  <1>1. <<x>> \in Seq(S) /\ Len(<<x>>) = 1 /\ <<x>>[1] = x
    OBVIOUS
  <1>2. PICK e : e = <<x>> /\ u = e \o y
    OBVIOUS
  <1>3. e \in Seq(S)
    BY <1>1, <1>2, Zenon
  <1>4. IsConcat(u, e, y, S)
    BY <1>2, <1>3, ConcatShape
  <1>5. /\ u \in Seq(S) /\ Len(u) = 1 + Len(y) /\ Len(y) \in Nat
        /\ u[1] = x
        /\ \A i \in 1 .. Len(y) : u[1 + i] = y[i]
    <2>1. Len(e) = 1 /\ e[1] = x
      BY <1>1, <1>2, Zenon
    <2> QED  BY <1>4, <2>1 DEF IsConcat
  <1>6. Tail(u) = y
    <2>1. PICK d : d = Tail(u)
      OBVIOUS
    <2>2. u # <<>>
      BY <1>5
    <2>3. d \in Seq(S) /\ Len(d) = Len(u) - 1 /\ \A i \in 1 .. Len(u) - 1 : d[i] = u[i + 1]
      BY <1>5, <2>1, <2>2
    <2>4. Len(d) = Len(y) /\ \A i \in 1 .. Len(d) : d[i] = y[i]
      BY <1>5, <2>3
    <2> QED  BY <2>1, <2>3, <2>4, SeqEqual
  <1>7. Len(u) = Len(y) + 1
    BY <1>5
  <1> QED  BY <1>5, <1>6, <1>7

(* The FORS signature is read as it is written.                             *)
LEMMA ForsRoundTrip ==
    ASSUME NEW S, NEW fs, ForsFormed(fs, S)
    PROVE  /\ ForsBlocks(fs) \in Seq(S) /\ Len(ForsBlocks(fs)) = ForsSize
           /\ ForsFrom(ForsBlocks(fs)) = fs
  <1>1. PICK c : c = [i \in 1 .. K |-> <<fs[i].sk>> \o fs[i].auth]
    OBVIOUS
  <1>2. PICK b : b = FlattenSeq(c)
    OBVIOUS
  <1>3. ForsBlocks(fs) = b
    BY <1>1, <1>2, Zenon DEF ForsBlocks
  <1>4. K \in Nat \ {0} /\ A + 1 \in Nat
    BY Heights
  <1>5. ASSUME NEW i \in 1 .. K
        PROVE  /\ c[i] \in Seq(S) /\ Len(c[i]) = A + 1
               /\ c[i][1] = fs[i].sk /\ Tail(c[i]) = fs[i].auth
    <2>1. fs[i].sk \in S /\ fs[i].auth \in Seq(S) /\ Len(fs[i].auth) = A
      BY DEF ForsFormed
    <2>2. c[i] = <<fs[i].sk>> \o fs[i].auth
      BY <1>1
    <2>3. PICK x, y : x = fs[i].sk /\ y = fs[i].auth
      OBVIOUS
    <2>4. PICK u : u = c[i]
      OBVIOUS
    <2>5. u = <<x>> \o y /\ x \in S /\ y \in Seq(S) /\ Len(y) = A
      BY <2>1, <2>2, <2>3, <2>4, Zenon
    <2>6. u \in Seq(S) /\ Len(u) = Len(y) + 1 /\ u[1] = x /\ Tail(u) = y
      BY <2>5, Behind
    <2> QED  BY <2>3, <2>4, <2>5, <2>6
  <1>6. Len(c) = K
    <2>1. c = [i \in 1 .. K |-> c[i]]
      BY <1>1
    <2> QED  BY <1>4, <2>1, LenOfFunction
  <1>7. AreChunks(c, S, A + 1, K)
    BY <1>5 DEF AreChunks
  <1>8. /\ b \in Seq(S) /\ Len(b) = K * (A + 1)
        /\ \A i \in 1 .. K : SubSeq(b, (i - 1) * (A + 1) + 1, i * (A + 1)) = c[i]
    <2>1. PICK len : len = A + 1
      OBVIOUS
    <2>2. len \in Nat /\ AreChunks(c, S, len, K)
      BY <1>4, <1>7, <2>1
    <2>3. GivesChunks(b, c, S, len, K)
      BY <1>2, <1>4, <1>6, <2>2, FlattenChunks
    <2> QED  BY <2>1, <2>3, Zenon DEF GivesChunks
  <1>9. ForsFrom(b) = fs
    <2>1. ASSUME NEW i \in 1 .. K
          PROVE  [sk |-> Chunk(b, A + 1, i)[1], auth |-> Tail(Chunk(b, A + 1, i))] = fs[i]
      <3>1. Chunk(b, A + 1, i) = c[i]
        BY <1>8, Zenon DEF Chunk
      <3>2. fs[i] = [sk |-> fs[i].sk, auth |-> fs[i].auth]
        BY DEF ForsFormed
      <3> QED  BY <1>5, <3>1, <3>2, Zenon
    <2>2. ForsFrom(b) = [i \in 1 .. K |-> fs[i]]
      BY <2>1, Zenon DEF ForsFrom
    <2> QED  BY <2>2, Zenon DEF ForsFormed
  <1> QED  BY <1>3, <1>8, <1>9, Zenon DEF ForsSize

(* The signature of one layer is read as it is written.                     *)
LEMMA XmssRoundTrip ==
    ASSUME NEW S, NEW x, XmssFormed(x, S)
    PROVE  /\ XmssBlocks(x) \in Seq(S) /\ Len(XmssBlocks(x)) = XmssSize
           /\ XmssFrom(XmssBlocks(x)) = x
  <1>1. PICK y, z : y = x.sig /\ z = x.auth
    OBVIOUS
  <1>2. y \in Seq(S) /\ Len(y) = WotsSigLen /\ z \in Seq(S) /\ Len(z) = HPrime
    BY <1>1 DEF XmssFormed
  <1>3. XmssSize = WotsSigLen + Len(z)
    BY <1>2, Sizes
  <1>4. PICK u : u = y \o z
    OBVIOUS
  <1>5. /\ SubSeq(u, 1, WotsSigLen) = y /\ SubSeq(u, WotsSigLen + 1, XmssSize) = z
        /\ u \in Seq(S) /\ Len(u) = XmssSize
    BY <1>2, <1>3, <1>4, CutApart, SMTT(40)
  <1>6. x = [sig |-> y, auth |-> z]
    BY <1>1, Zenon DEF XmssFormed
  <1> QED  BY <1>1, <1>4, <1>5, <1>6, Zenon DEF XmssBlocks, XmssFrom

(* The hypertree's signature is read as it is written.                      *)
LEMMA HtRoundTrip ==
    ASSUME NEW S, NEW hs, HtFormed(hs, S), NEW b,
           b = FlattenSeq([l \in 1 .. D |-> XmssBlocks(hs[l])])
    PROVE  /\ b \in Seq(S) /\ Len(b) = D * XmssSize
           /\ [l \in 1 .. D |-> XmssFrom(Chunk(b, XmssSize, l))] = hs
  <1>1. PICK c : c = [l \in 1 .. D |-> XmssBlocks(hs[l])]
    OBVIOUS
  <1>2. b = FlattenSeq(c)
    BY <1>1, Zenon
  <1>3. D \in Nat \ {0} /\ XmssSize \in Nat
    BY Heights, Sizes
  <1>4. ASSUME NEW l \in 1 .. D
        PROVE  c[l] \in Seq(S) /\ Len(c[l]) = XmssSize /\ XmssFrom(c[l]) = hs[l]
    <2>1. XmssFormed(hs[l], S)
      BY DEF HtFormed
    <2>2. c[l] = XmssBlocks(hs[l])
      BY <1>1
    <2> QED  BY <2>1, <2>2, XmssRoundTrip
  <1>5. Len(c) = D
    <2>1. c = [l \in 1 .. D |-> c[l]]
      BY <1>1
    <2> QED  BY <1>3, <2>1, LenOfFunction
  <1>6. AreChunks(c, S, XmssSize, D)
    BY <1>4 DEF AreChunks
  <1>7. /\ b \in Seq(S) /\ Len(b) = D * XmssSize
        /\ \A l \in 1 .. D : SubSeq(b, (l - 1) * XmssSize + 1, l * XmssSize) = c[l]
    <2>1. GivesChunks(b, c, S, XmssSize, D)
      BY <1>2, <1>3, <1>5, <1>6, FlattenChunks
    <2> QED  BY <2>1, Zenon DEF GivesChunks
  <1>8. \A l \in 1 .. D : XmssFrom(Chunk(b, XmssSize, l)) = hs[l]
    BY <1>4, <1>7, Zenon DEF Chunk
  <1> QED  BY <1>7, <1>8, Zenon DEF HtFormed

(* A signature is read as it is written.                                    *)
LEMMA RoundTrip ==
    ASSUME NEW S, NEW r \in S, NEW fs, ForsFormed(fs, S), NEW hs, HtFormed(hs, S), NEW s,
           s = [randomizer |-> r, fors_sig |-> fs, ht_sig |-> hs]
    PROVE  try_from(to_bytes(s)) = {s}
  <1>1. PICK u, v, b, m :
            /\ u = ForsBlocks(fs) /\ v = FlattenSeq([l \in 1 .. D |-> XmssBlocks(hs[l])])
            /\ b = (<<r>> \o u) \o v /\ m = 1 + ForsSize
    OBVIOUS
  <1>2. s.randomizer = r /\ s.fors_sig = fs /\ s.ht_sig = hs
    OBVIOUS
  <1>3. to_bytes(s) = b
    BY <1>1, <1>2, Zenon DEF to_bytes
  <1>4. u \in Seq(S) /\ Len(u) = ForsSize /\ ForsFrom(u) = fs
    BY <1>1, ForsRoundTrip, Zenon
  <1>5. /\ v \in Seq(S) /\ Len(v) = D * XmssSize
        /\ [l \in 1 .. D |-> XmssFrom(Chunk(v, XmssSize, l))] = hs
    BY <1>1, HtRoundTrip, Z3
  <1>6. PICK w : w = <<r>> \o u
    OBVIOUS
  <1>7. /\ w \in Seq(S) /\ Len(w) = m /\ w[1] = r
        /\ \A i \in 1 .. ForsSize : w[1 + i] = u[i]
    <2>1. /\ w \in Seq(S) /\ Len(w) = Len(u) + 1 /\ w[1] = r
          /\ \A i \in 1 .. Len(u) : w[1 + i] = u[i]
      BY <1>4, <1>6, Behind
    <2>2. Len(u) + 1 = m
      BY <1>1, <1>4, Sizes
    <2> QED  BY <1>4, <2>1, <2>2, Zenon
  <1>8. m \in Nat /\ m + 1 = 2 + ForsSize /\ SigLen = m + Len(v) /\ ForsSize \in Nat /\ 1 <= m
    <2>1. ForsSize \in Nat /\ SigLen = (1 + ForsSize) + D * XmssSize
      BY Sizes
    <2>2. m = 1 + ForsSize
      BY <1>1
    <2>3. Len(v) = D * XmssSize
      BY <1>5
    <2> QED  BY <2>1, <2>2, <2>3
  <1>9. /\ SubSeq(b, m + 1, SigLen) = v /\ b \in Seq(S) /\ Len(b) = SigLen
    <2>1. b = w \o v /\ m = Len(w)
      BY <1>1, <1>6, <1>7, Zenon
    <2>2. v \in Seq(S) /\ w \in Seq(S) /\ SigLen = m + Len(v)
      BY <1>5, <1>7, <1>8
    <2>3. PICK n : n = SigLen
      OBVIOUS
    <2>4. n = m + Len(v)
      BY <2>2, <2>3
    <2>5. SubSeq(b, m + 1, n) = v /\ b \in Seq(S) /\ Len(b) = n
      BY ONLY <2>1, <2>2, <2>4, CutApart
    <2> QED  BY <2>3, <2>5, Zenon
  <1>10. \A i \in 1 .. m : b[i] = w[i]
    <2>1. IsConcat(b, w, v, S)
      BY <1>1, <1>5, <1>6, <1>7, ConcatShape, Zenon
    <2> QED  BY <1>7, <2>1 DEF IsConcat
  <1>11. b[1] = r
    <2>1. 1 \in 1 .. m
      BY <1>8
    <2> QED  BY <1>7, <1>10, <2>1
  <1>12. SubSeq(b, 2, m) = u
    <2>1. PICK d : d = SubSeq(b, 1 + 1, 1 + ForsSize)
      OBVIOUS
    <2>2. d = SubSeq(b, 2, m)
      BY <1>1, <2>1
    <2>3. IsCut(d, b, 1, ForsSize, S)
      <3>1. 1 + ForsSize <= Len(b) /\ 1 \in Nat
        BY <1>1, <1>5, <1>8, <1>9, Sizes
      <3> QED  BY <1>8, <1>9, <2>1, <3>1, CutOut, Zenon
    <2>4. \A i \in 1 .. ForsSize : 1 + i \in 1 .. m
      BY <1>1, <1>8
    <2>5. d \in Seq(S) /\ Len(d) = Len(u) /\ \A i \in 1 .. Len(d) : d[i] = u[i]
      BY <1>4, <1>7, <1>10, <2>3, <2>4 DEF IsCut
    <2>6. d = u
      BY <1>4, <2>5, SeqEqual
    <2> QED  BY <2>2, <2>6
  <1>13. SubSeq(b, 2 + ForsSize, Len(b)) = v
    BY <1>8, <1>9
  <1>14. try_from(b) =
             {[randomizer |-> b[1], fors_sig |-> ForsFrom(SubSeq(b, 2, 1 + ForsSize)),
               ht_sig |-> [l \in 1 .. D |->
                   XmssFrom(Chunk(SubSeq(b, 2 + ForsSize, Len(b)), XmssSize, l))]]}
    BY <1>9, Zenon DEF try_from
  <1>15. SubSeq(b, 2, 1 + ForsSize) = u
    BY <1>1, <1>12, Zenon
  <1>16. try_from(b) = {[randomizer |-> r, fors_sig |-> fs, ht_sig |-> hs]}
    BY <1>4, <1>5, <1>11, <1>13, <1>14, <1>15, Zenon
  <1> QED  BY <1>3, <1>16, Zenon

-----------------------------------------------------------------------------
(* A function of 1 .. n is a sequence of its values.                        *)
LEMMA SeqOfFunction ==
    ASSUME NEW S, NEW n \in Nat, NEW c, c = [i \in 1 .. n |-> c[i]], \A i \in 1 .. n : c[i] \in S
    PROVE  c \in Seq(S) /\ Len(c) = n
  <1>1. c \in [1 .. n -> S]
    OBVIOUS
  <1>2. c \in Seq(S)
    BY <1>1
  <1> QED  BY <1>1, <1>2

(* The blocks of the signature of a FORS message and of a layer.            *)
IsForsSig(fs) ==
    /\ fs = [i \in 1 .. K |-> fs[i]]
    /\ \A i \in 1 .. K :
           /\ fs[i] = [sk |-> fs[i].sk, auth |-> fs[i].auth]
           /\ fs[i].auth = [z \in 1 .. A |-> fs[i].auth[z]]

(* The blocks of the signature of a layer.                                  *)
IsXmssSig(x) ==
    /\ x = [sig |-> x.sig, auth |-> x.auth]
    /\ x.sig = [i \in 1 .. WotsSigLen |-> x.sig[i]]
    /\ x.auth = [z \in 1 .. HPrime |-> x.auth[z]]

(* FORS signs with such blocks.                                             *)
LEMMA ForsSignShape ==
    ASSUME NEW md, NEW sk, NEW pk, NEW a, NEW fs, fs = fors_sign(md, sk, pk, a)
    PROVE  IsForsSig(fs)
  <1>1. PICK d : d = base_2b(md, K, A)
    OBVIOUS
  <1>2. fs = [i \in 1 .. K |->
            [sk   |-> fors_sk_gen(sk, pk, a, FirstLeaf(i, 0) + d[i]),
             auth |-> [z \in 1 .. A |->
                 fors_node(sk, FirstLeaf(i, z - 1) + Flip(d[i] \div 2 ^ (z - 1)), z - 1, pk, a)]]]
    BY <1>1, Zenon DEF fors_sign
  <1>3. fs = [i \in 1 .. K |-> fs[i]]
    BY <1>2
  <1>4. ASSUME NEW i \in 1 .. K
        PROVE  /\ fs[i] = [sk |-> fs[i].sk, auth |-> fs[i].auth]
               /\ fs[i].auth = [z \in 1 .. A |-> fs[i].auth[z]]
    <2>1. PICK x, e :
              /\ x = fors_sk_gen(sk, pk, a, FirstLeaf(i, 0) + d[i])
              /\ e = [z \in 1 .. A |->
                 fors_node(sk, FirstLeaf(i, z - 1) + Flip(d[i] \div 2 ^ (z - 1)), z - 1, pk, a)]
      OBVIOUS
    <2>2. fs[i] = [sk |-> x, auth |-> e]
      BY <1>2, <2>1, Zenon
    <2>3. e = [z \in 1 .. A |-> e[z]]
      BY <2>1
    <2>4. PICK y : y = fs[i]
      OBVIOUS
    <2>5. y.sk = x /\ y.auth = e
      BY <2>2, <2>4
    <2> QED  BY <2>2, <2>3, <2>4, <2>5, Zenon
  <1> QED  BY <1>3, <1>4, Zenon DEF IsForsSig

(* XMSS signs with such blocks.                                             *)
LEMMA XmssSignShape ==
    ASSUME NEW m, NEW sk, NEW idx, NEW pk, NEW a, NEW x, x = xmss_sign(m, sk, idx, pk, a)
    PROVE  IsXmssSig(x)
  <1>1. PICK leaf : leaf = [a EXCEPT !.word5 = idx]
    OBVIOUS
  <1>2. PICK s, e :
            /\ s = wots_sign(m, sk, pk, leaf)
            /\ e = [z \in 1 .. HPrime |->
                      xmss_node(sk, Flip(idx \div 2 ^ (z - 1)), z - 1, pk, leaf)]
    OBVIOUS
  <1>3. x = [sig |-> s, auth |-> e]
    BY <1>1, <1>2, Zenon DEF xmss_sign
  <1>4. e = [z \in 1 .. HPrime |-> e[z]]
    BY <1>2
  <1>5. s = [i \in 1 .. WotsSigLen |-> s[i]]
    <2>1. PICK d : d = WotsDigits(m)
      OBVIOUS
    <2>2. s = [i \in 1 .. WotsSigLen |-> SkChain(sk, d[i], pk, leaf, i)]
      BY <1>2, <2>1, Zenon DEF wots_sign
    <2> QED  BY <2>2
  <1>6. x.sig = s /\ x.auth = e
    BY <1>3
  <1> QED  BY <1>3, <1>4, <1>5, <1>6, Zenon DEF IsXmssSig

(* A signature of a key is read as it is written.                           *)
LEMMA OwnRoundTrip ==
    ASSUME NEW sk, NEW pk, NEW dg, NEW s, s = OwnSig(sk, pk, dg, D)
    PROVE  try_from(to_bytes(s)) = {s}
  <1>1. PICK fs, hs : fs = ForsOf(sk, pk, dg) /\ hs = Layers(sk, pk, dg, D)
    OBVIOUS
  <1>2. s = [randomizer |-> Randomizer, fors_sig |-> fs, ht_sig |-> hs]
    BY <1>1, Zenon DEF OwnSig
  <1>3. /\ fs = [i \in 1 .. K |-> fs[i]]
        /\ \A i \in 1 .. K :
                  /\ fs[i] = [sk |-> fs[i].sk, auth |-> fs[i].auth]
                  /\ fs[i].auth = [z \in 1 .. A |-> fs[i].auth[z]]
    <2>1. PICK md, a : fs = fors_sign(md, sk, pk, a)
      BY <1>1, Zenon DEF ForsOf
    <2>2. IsForsSig(fs)
      BY <2>1, ForsSignShape
    <2> QED  BY <2>2, Zenon DEF IsForsSig
  <1>4. hs = [l \in 1 .. D |-> hs[l]]
    BY <1>1 DEF Layers
  <1>5. ASSUME NEW l \in 1 .. D
        PROVE  /\ hs[l] = [sig |-> hs[l].sig, auth |-> hs[l].auth]
               /\ hs[l].sig = [i \in 1 .. WotsSigLen |-> hs[l].sig[i]]
               /\ hs[l].auth = [z \in 1 .. HPrime |-> hs[l].auth[z]]
    <2>1. hs[l] = LayerSig(sk, pk, dg, l - 1)
      BY <1>1 DEF Layers
    <2>2. PICK x, m, idx, a : x = hs[l] /\ x = xmss_sign(m, sk, idx, pk, a)
      BY <2>1, Zenon DEF LayerSig
    <2>3. IsXmssSig(x)
      BY <2>2, XmssSignShape
    <2> QED  BY <2>2, <2>3, Zenon DEF IsXmssSig
  <1> DEFINE S1 == {fs[i].sk : i \in 1 .. K}
             S2 == {fs[i].auth[z] : i \in 1 .. K, z \in 1 .. A}
             S3 == {hs[l].sig[i] : l \in 1 .. D, i \in 1 .. WotsSigLen}
             S4 == {hs[l].auth[z] : l \in 1 .. D, z \in 1 .. HPrime}
             S  == {Randomizer} \cup S1 \cup S2 \cup S3 \cup S4
  <1>6. /\ \A i \in 1 .. K : fs[i].sk \in S1
        /\ \A i \in 1 .. K, z \in 1 .. A : fs[i].auth[z] \in S2
        /\ \A l \in 1 .. D, i \in 1 .. WotsSigLen : hs[l].sig[i] \in S3
        /\ \A l \in 1 .. D, z \in 1 .. HPrime : hs[l].auth[z] \in S4
    OBVIOUS
  <1> HIDE DEF S1, S2, S3, S4
  <1>7. /\ Randomizer \in S /\ \A i \in 1 .. K : fs[i].sk \in S
        /\ \A i \in 1 .. K, z \in 1 .. A : fs[i].auth[z] \in S
        /\ \A l \in 1 .. D, i \in 1 .. WotsSigLen : hs[l].sig[i] \in S
        /\ \A l \in 1 .. D, z \in 1 .. HPrime : hs[l].auth[z] \in S
    BY <1>6
  <1> HIDE DEF S
  <1>8. ForsFormed(fs, S)
    <2>1. ASSUME NEW i \in 1 .. K
          PROVE  fs[i].auth \in Seq(S) /\ Len(fs[i].auth) = A
      <3>1. PICK c : c = fs[i].auth
        OBVIOUS
      <3>2. c = [z \in 1 .. A |-> c[z]] /\ \A z \in 1 .. A : c[z] \in S
        BY <1>3, <1>7, <3>1, Zenon
      <3>3. c \in Seq(S) /\ Len(c) = A
        <4>1. A \in Nat
          BY Heights
        <4> QED  BY <3>2, <4>1, SeqOfFunction
      <3> QED  BY <3>1, <3>3
    <2> QED  BY <1>3, <1>7, <2>1, Zenon DEF ForsFormed
  <1>9. HtFormed(hs, S)
    <2>1. ASSUME NEW l \in 1 .. D
          PROVE  XmssFormed(hs[l], S)
      <3>1. PICK x, c, e : x = hs[l] /\ c = x.sig /\ e = x.auth
        OBVIOUS
      <3>2. c = [z \in 1 .. WotsSigLen |-> c[z]] /\ \A z \in 1 .. WotsSigLen : c[z] \in S
        BY <1>5, <1>7, <3>1, Zenon
      <3>3. e = [z \in 1 .. HPrime |-> e[z]] /\ \A z \in 1 .. HPrime : e[z] \in S
        BY <1>5, <1>7, <3>1, Zenon
      <3>4. c \in Seq(S) /\ Len(c) = WotsSigLen
        BY <3>2, Sizes, SeqOfFunction
      <3>5. e \in Seq(S) /\ Len(e) = HPrime
        <4>1. HPrime \in Nat
          BY Heights
        <4> QED  BY <3>3, <4>1, SeqOfFunction
      <3>6. x = [sig |-> x.sig, auth |-> x.auth]
        BY <1>5, <3>1, Zenon
      <3> QED  BY <3>1, <3>4, <3>5, <3>6, Zenon DEF XmssFormed
    <2> QED  BY <1>4, <2>1, Zenon DEF HtFormed
  <1>10. PICK r : r = Randomizer
    OBVIOUS
  <1>11. r \in S /\ s = [randomizer |-> r, fors_sig |-> fs, ht_sig |-> hs]
    BY <1>2, <1>7, <1>10, Zenon
  <1> QED  BY <1>8, <1>9, <1>11, RoundTrip

(* One more layer is signed.                                                *)
LEMMA OneMoreLayer ==
    ASSUME NEW sk, NEW pk, NEW dg, NEW n \in Nat
    PROVE  Append(Layers(sk, pk, dg, n), LayerSig(sk, pk, dg, n)) = Layers(sk, pk, dg, n + 1)
  <1>1. PICK c, e, x : /\ c = Layers(sk, pk, dg, n) /\ e = Layers(sk, pk, dg, n + 1)
                       /\ x = LayerSig(sk, pk, dg, n)
    OBVIOUS
  <1>2. /\ c = [i \in 1 .. n |-> LayerSig(sk, pk, dg, i - 1)]
        /\ e = [i \in 1 .. n + 1 |-> LayerSig(sk, pk, dg, i - 1)]
    BY <1>1, Zenon DEF Layers
  <1>3. PICK S : S = {LayerSig(sk, pk, dg, i - 1) : i \in 1 .. n + 1}
    OBVIOUS
  <1>4. c \in Seq(S) /\ Len(c) = n
    <2>1. c = [i \in 1 .. n |-> c[i]]
      BY <1>2
    <2>2. \A i \in 1 .. n : c[i] \in S
      BY <1>2, <1>3
    <2> QED  BY <2>1, <2>2, SeqOfFunction
  <1>5. e \in Seq(S) /\ Len(e) = n + 1
    <2>1. e = [i \in 1 .. n + 1 |-> e[i]]
      BY <1>2
    <2>2. \A i \in 1 .. n + 1 : e[i] \in S
      BY <1>2, <1>3
    <2>3. n + 1 \in Nat
      OBVIOUS
    <2> QED  BY <2>1, <2>2, <2>3, SeqOfFunction
  <1>6. x = e[n + 1] /\ x \in S
    <2>1. n + 1 \in 1 .. n + 1 /\ (n + 1) - 1 = n
      OBVIOUS
    <2> QED  BY <1>1, <1>2, <1>3, <2>1
  <1>7. \A i \in 1 .. n : e[i] = c[i]
    BY <1>2
  <1>8. PICK u : u = Append(c, x)
    OBVIOUS
  <1>9. u \in Seq(S) /\ Len(u) = n + 1 /\ u[n + 1] = x /\ \A i \in 1 .. n : u[i] = c[i]
    BY <1>4, <1>6, <1>8
  <1>10. \A i \in 1 .. Len(u) : u[i] = e[i]
    <2>1. \A i \in 1 .. n + 1 : i \in 1 .. n \/ i = n + 1
      OBVIOUS
    <2> QED  BY <1>6, <1>7, <1>9, <2>1
  <1>11. u = e
    BY <1>5, <1>9, <1>10, SeqEqual
  <1> QED  BY <1>1, <1>8, <1>11

-----------------------------------------------------------------------------
(* A round of the loops goes on to the next layer of the digest's path, and *)
(* what was carried up is what the leaf there signs.                        *)
LEMMA EnterLayerPath ==
    ASSUME TInv, phase \in Working, OnPath, Carried, j < D, EnterLayer
    PROVE  /\ j \in Nat /\ digest \in Digests
           /\ idx_tree' = TreeOf(digest, j) /\ idx_leaf' = LeafOf(digest, j)
           /\ adrs' = LayerAdrs(j, TreeOf(digest, j)) /\ j' = j + 1 /\ Done' = j
           /\ root = Below(key.sk_seed, pk_seed, j, TreeOf(digest, j), LeafOf(digest, j))
  <1>1. digest \in Digests
    BY DEF TInv
  <1>2. /\ j' = j + 1 /\ Done' = j /\ j \in 0 .. D - 1
        /\ adrs' = LayerAdrs(j, idx_tree')
    BY EnterLayerStep
  <1>3. PICK sk, pk, dg, l :
            sk = key.sk_seed /\ pk = pk_seed /\ dg = digest /\ l = j
    OBVIOUS
  <1>4. dg \in Digests /\ l \in Nat
    BY <1>1, <1>2, <1>3
  <1>5. CASE l = 0
    <2>1. Done = 0 /\ idx_tree' = idx_tree /\ idx_leaf' = idx_leaf
      BY <1>3, <1>5 DEF Done, EnterLayer
    <2>2. idx_tree = TreeOf(dg, 0) /\ idx_leaf = LeafOf(dg, 0)
      BY <1>3, <2>1 DEF OnPath
    <2>3. root = Below(sk, pk, 0, idx_tree, idx_leaf)
      BY <1>3, <1>5 DEF Carried
    <2> QED  BY <1>1, <1>2, <1>3, <1>4, <1>5, <2>1, <2>2, <2>3
  <1>6. CASE l # 0
    <2>1. PICK k \in Nat : k = l - 1
      BY <1>4, <1>6
    <2>2. l = k + 1
      BY <1>4, <2>1
    <2>3. Done = k
      BY <1>3, <1>6, <2>1 DEF Done
    <2>4. idx_tree = TreeOf(dg, k)
      BY <1>3, <2>3 DEF OnPath
    <2>5. idx_leaf' = idx_tree % 2 ^ HPrime /\ idx_tree' = idx_tree \div 2 ^ HPrime
      BY <1>3, <1>6 DEF EnterLayer
    <2>6. TreeOf(dg, k + 1) = TreeOf(dg, k) \div 2 ^ HPrime
          /\ LeafOf(dg, k + 1) = TreeOf(dg, k) % 2 ^ HPrime
      BY <1>4, Path
    <2>7. idx_tree' = TreeOf(dg, l) /\ idx_leaf' = LeafOf(dg, l)
      BY <2>2, <2>4, <2>5, <2>6, Zenon
    <2>8. root = TreeRoot(sk, pk, k, idx_tree)
      BY <1>3, <1>6, <2>1 DEF Carried
    <2>9. Below(sk, pk, k + 1, TreeOf(dg, k + 1), LeafOf(dg, k + 1))
            = TreeRoot(sk, pk, k, TreeOf(dg, k))
      BY <1>4, BelowIsRoot
    <2>10. root = Below(sk, pk, l, TreeOf(dg, l), LeafOf(dg, l))
      BY <2>2, <2>4, <2>8, <2>9, Zenon
    <2> QED  BY <1>1, <1>2, <1>3, <1>4, <2>7, <2>10
  <1> QED  BY <1>5, <1>6

(* The second invariant holds of a key just made.                           *)
LEMMA InitRInv == Init => RInv
  <1> SUFFICES ASSUME Init  PROVE RInv
    OBVIOUS
  <1>1. /\ key = from_seed(SkSeed, SkPrf, PkSeed) /\ phase = "ready" /\ signed = {}
    BY DEF Init
  <1>2. PICK r : r = KeyRoot(SkSeed, PkSeed)
    OBVIOUS
  <1>3. key = [sk_seed |-> SkSeed, sk_prf |-> SkPrf,
               verifying_key |-> [pk_seed |-> PkSeed, pk_root |-> r]]
    BY <1>1, <1>2, Zenon DEF from_seed
  <1>4. /\ key.sk_seed = SkSeed /\ key.sk_prf = SkPrf /\ pk_seed = PkSeed /\ pk_root = r
    BY <1>3 DEF pk_seed, pk_root
  <1>5. KeyForm
    BY <1>3, <1>4, Zenon DEF KeyForm
  <1>6. pk_root = TreeRoot(key.sk_seed, pk_seed, D - 1, 0)
    BY <1>2, <1>4, KeyRootIsTop
  <1> QED  BY <1>1, <1>5, <1>6 DEF RInv

(* Four blocks in a row, each found at its place.                           *)
LEMMA FourBlocks ==
    ASSUME NEW x1, NEW x2, NEW x3, NEW x4
    PROVE  <<x1, x2>> \o <<x3, x4>> = <<x1, x2, x3, x4>>
  <1>1. PICK S, u, v, w :
            /\ S = {x1, x2, x3, x4} /\ u = <<x1, x2>> /\ v = <<x3, x4>> /\ w = u \o v
    OBVIOUS
  <1>2. /\ u \in Seq(S) /\ v \in Seq(S) /\ Len(u) = 2 /\ Len(v) = 2
        /\ u[1] = x1 /\ u[2] = x2 /\ v[1] = x3 /\ v[2] = x4
    BY <1>1
  <1>3. IsConcat(w, u, v, S)
    BY <1>1, <1>2, ConcatShape
  <1>4. /\ w \in Seq(S) /\ Len(w) = 4 /\ w[1] = x1 /\ w[2] = x2 /\ w[3] = x3 /\ w[4] = x4
    BY <1>2, <1>3 DEF IsConcat
  <1>5. PICK z : z = <<x1, x2, x3, x4>>
    OBVIOUS
  <1>6. /\ z \in Seq(S) /\ Len(z) = 4 /\ z[1] = x1 /\ z[2] = x2 /\ z[3] = x3 /\ z[4] = x4
    BY <1>1, <1>5
  <1>7. w = z
    <2>1. \A i \in 1 .. Len(w) : w[i] = z[i]
      BY <1>4, <1>6
    <2> QED  BY <1>4, <1>6, <2>1, SeqEqual
  <1> QED  BY <1>1, <1>5, <1>7, Zenon

(* A key is read from its blocks part by part.                              *)
LEMMA KeyBlocks ==
    ASSUME NEW b, NEW k, k \in sk_try_from(b)
    PROVE  /\ Len(b) = 4
           /\ k = [sk_seed |-> b[1], sk_prf |-> b[2],
                   verifying_key |-> [pk_seed |-> SubSeq(b, 3, Len(b))[1],
                                      pk_root |-> SubSeq(b, 3, Len(b))[2]]]
  <1>1. Len(b) = 4
    BY DEF sk_try_from
  <1>2. PICK e : e = SubSeq(b, 3, Len(b))
    OBVIOUS
  <1>3. PICK v \in vk_try_from(e) :
            k = [sk_seed |-> b[1], sk_prf |-> b[2], verifying_key |-> v]
    BY <1>1, <1>2, Zenon DEF sk_try_from
  <1>4. v = [pk_seed |-> e[1], pk_root |-> e[2]]
    BY <1>3 DEF vk_try_from
  <1> QED  BY <1>1, <1>2, <1>3, <1>4, Zenon

(* Reading a key from bytes keeps it: unless they were changed, the key is  *)
(* the one written.                                                         *)
LEMMA ReloadRInv ==
    ASSUME RInv, Reload
    PROVE  RInv'
  <1>1. phase = "ready" /\ signed' = signed /\ signed = {} /\ ~altered
    BY DEF Reload, RInv, Kept
  <1>2. PICK sk, prf, pk, r : sk = key.sk_seed /\ prf = key.sk_prf /\ pk = pk_seed /\ r = pk_root
    OBVIOUS
  <1>3. r = TreeRoot(sk, pk, D - 1, 0)
    BY <1>1, <1>2 DEF RInv
  <1>4. PICK written : written = <<sk, prf, pk, r>> /\ written = sk_to_bytes(key)
    <2>1. sk_to_bytes(key) = <<sk, prf>> \o <<pk, r>>
      BY <1>2, Zenon DEF sk_to_bytes, vk_to_bytes, pk_seed, pk_root
    <2>2. <<sk, prf>> \o <<pk, r>> = <<sk, prf, pk, r>>
      BY FourBlocks
    <2> QED  BY <2>1, <2>2, Zenon
  <1>5. PICK stored \in {written} \cup Damaged(written) :
               \/ /\ key' \in sk_try_from(stored)
                  /\ altered' = (\E i \in {1, 3, 4} : stored[i] # written[i])
                  /\ UNCHANGED phase
               \/ /\ sk_try_from(stored) = {}
                  /\ phase' = "refused"
                  /\ UNCHANGED <<key, altered>>
    BY <1>4 DEF Reload
  <1>6. CASE UNCHANGED <<key, altered>> /\ phase' = "refused"
    <2>1. KeyForm' /\ (~altered' => pk_root' = TreeRoot(key'.sk_seed, pk_seed', D - 1, 0))
      <3>1. key' = key /\ altered' = altered
        BY <1>6
      <3>2. pk_seed' = pk_seed /\ pk_root' = pk_root
        BY <3>1, Zenon DEF pk_seed, pk_root
      <3> QED  BY <3>1, <3>2, Zenon DEF RInv, KeyForm
    <2> QED  BY <1>1, <1>6, <2>1 DEF RInv
  <1>7. CASE /\ key' \in sk_try_from(stored)
             /\ altered' = (\E i \in {1, 3, 4} : stored[i] # written[i])
             /\ UNCHANGED phase
    <2>1. PICK k, e, v : k = key' /\ e = SubSeq(stored, 3, Len(stored))
                         /\ v = [pk_seed |-> e[1], pk_root |-> e[2]]
      OBVIOUS
    <2>2. Len(stored) = 4 /\ k = [sk_seed |-> stored[1], sk_prf |-> stored[2], verifying_key |-> v]
      BY <1>7, <2>1, KeyBlocks, Zenon
    <2>3. /\ k.sk_seed = stored[1] /\ k.sk_prf = stored[2] /\ k.verifying_key = v
          /\ v.pk_seed = e[1] /\ v.pk_root = e[2]
      BY <2>1, <2>2
    <2>4. /\ key'.sk_seed = stored[1] /\ key'.sk_prf = stored[2] /\ key'.verifying_key = v
          /\ pk_seed' = e[1] /\ pk_root' = e[2]
      BY <2>1, <2>3 DEF pk_seed, pk_root
    <2>5. KeyForm'
      BY <2>1, <2>2, <2>4, Zenon DEF KeyForm
    <2>6. ASSUME ~altered'
          PROVE  pk_root' = TreeRoot(key'.sk_seed, pk_seed', D - 1, 0)
      <3>1. stored[1] = written[1] /\ stored[3] = written[3] /\ stored[4] = written[4]
        BY <1>7, <2>6
      <3>2. stored[1] = sk /\ stored[3] = pk /\ stored[4] = r
        BY <1>4, <3>1
      <3>3. e[1] = stored[3] /\ e[2] = stored[4]
        <4>1. PICK S : stored \in Seq(S)
          <5>1. PICK T : T = {sk, prf, pk, r, Foreign}
            OBVIOUS
          <5>2. written \in Seq(T) /\ Foreign \in T
            BY <1>4, <5>1
          <5>3. CASE stored = written
            BY <5>2, <5>3
          <5>4. CASE stored \in {[written EXCEPT ![i] = Foreign] : i \in DOMAIN written}
            <6>1. PICK i \in DOMAIN written : stored = [written EXCEPT ![i] = Foreign]
              BY <5>4
            <6> QED  BY <5>2, <6>1
          <5>5. CASE stored \in {Front(written), Append(written, Foreign)}
            <6>1. Len(written) = 4
              BY <1>4
            <6>2. CASE stored = Front(written)
              <7>1. Len(stored) = 3
                BY <6>1, <6>2, <5>2 DEF Front
              <7> QED  BY <2>2, <7>1
            <6>3. CASE stored = Append(written, Foreign)
              BY <5>2, <6>3
            <6> QED  BY <5>5, <6>2, <6>3
          <5> QED  BY <1>5, <5>3, <5>4, <5>5 DEF Damaged
        <4>2. e = SubSeq(stored, 3, 4)
          BY <2>1, <2>2
        <4> QED  BY <2>2, <4>1, <4>2
      <3> QED  BY <1>3, <2>4, <3>2, <3>3, Zenon
    <2>7. phase' = "ready" /\ signed' = {}
      BY <1>1, <1>7
    <2> QED  BY <2>5, <2>6, <2>7 DEF RInv
  <1> QED  BY <1>5, <1>6, <1>7

(* Starting to sign keeps it: the FORS key of the leaf is what the lowest   *)
(* layer signs.                                                             *)
LEMMA SignRInv ==
    ASSUME TInv, RInv, NEW pair \in Claims, NEW dg \in Digests, Sign(pair, dg)
    PROVE  RInv'
  <1>1. /\ phase \in {"ready", "signed"} /\ phase' = "ht_sign" /\ digest' = dg /\ j' = 0
        /\ idx_tree' = split_digest(dg).idx_tree /\ idx_leaf' = split_digest(dg).idx_leaf
        /\ UNCHANGED <<key, altered, signed>>
    BY DEF Sign
  <1>2. PICK sk, pk : sk = key.sk_seed /\ pk = pk_seed
    OBVIOUS
  <1>3. key'.sk_seed = sk /\ pk_seed' = pk /\ pk_root' = pk_root
    BY <1>1, <1>2, Zenon DEF pk_seed, pk_root
  <1>4. KeyForm' /\ (~altered' => pk_root' = TreeRoot(key'.sk_seed, pk_seed', D - 1, 0))
    BY <1>1, <1>2, <1>3, Zenon DEF RInv, KeyForm
  <1>5. \A s \in signed' :
           s[2] = Below(key'.sk_seed, pk_seed', s[1][1], s[1][2], s[1][3])
    BY <1>1, <1>2, <1>3, Zenon DEF RInv
  <1>6. Done' = 0
    BY <1>1 DEF Done
  <1>7. idx_tree' = TreeOf(dg, 0) /\ idx_leaf' = LeafOf(dg, 0)
    BY <1>1, PathEnds
  <1>8. OnPath'
    BY <1>1, <1>6, <1>7 DEF OnPath
  <1>9. PICK fs : fs = ForsOf(sk, pk, dg)
    OBVIOUS
  <1>10. /\ root' = fors_pk_from_sig(fs, split_digest(dg).md, pk,
                       ForsTreeNew(split_digest(dg).idx_tree, split_digest(dg).idx_leaf))
         /\ sig' = [randomizer |-> Randomizer, fors_sig |-> fs, ht_sig |-> <<>>]
    BY <1>2, <1>9, Zenon DEF Sign, ForsOf
  <1>11. root' = Below(sk, pk, 0, TreeOf(dg, 0), LeafOf(dg, 0))
    BY <1>9, <1>10, ForsOfRecovers
  <1>12. Carried'
    BY <1>1, <1>3, <1>7, <1>11 DEF Carried
  <1>13. sig' = OwnSig(key'.sk_seed, pk_seed', digest', j')
    <2>1. Layers(sk, pk, dg, 0) = <<>>
      BY DEF Layers
    <2> QED  BY <1>1, <1>3, <1>9, <1>10, <2>1, Zenon DEF OwnSig
  <1> QED  BY <1>1, <1>4, <1>5, <1>8, <1>12, <1>13 DEF RInv

(* Refusing to sign keeps it.                                               *)
LEMMA SignRefusedRInv ==
    ASSUME RInv, NEW pair \in Claims, SignRefused(pair)
    PROVE  RInv'
  <1>1. phase' = "refused" /\ UNCHANGED <<key, altered, signed>>
    BY DEF SignRefused
  <1>2. pk_seed' = pk_seed /\ pk_root' = pk_root
    BY <1>1, Zenon DEF pk_seed, pk_root
  <1> QED  BY <1>1, <1>2 DEF RInv, KeyForm

(* Signing one layer keeps it: the signature of the layer is added, and the *)
(* root of the layer's tree, recovered from it, is carried up.              *)
LEMMA SignLayerRInv ==
    ASSUME HashBytes, TInv, RInv, SignLayer
    PROVE  RInv'
  <1>1. /\ phase = "ht_sign" /\ phase' = "ht_sign" /\ j < D /\ EnterLayer
        /\ UNCHANGED <<key, altered, digest>>
    BY DEF SignLayer
  <1>2. PICK sk, pk, dg, l :
            sk = key.sk_seed /\ pk = pk_seed /\ dg = digest /\ l = j
    OBVIOUS
  <1>3. key'.sk_seed = sk /\ pk_seed' = pk /\ pk_root' = pk_root
    BY <1>1, <1>2, Zenon DEF pk_seed, pk_root
  <1>4. KeyForm' /\ (~altered' => pk_root' = TreeRoot(key'.sk_seed, pk_seed', D - 1, 0))
    BY <1>1, <1>2, <1>3, Zenon DEF RInv, KeyForm
  <1>5. OnPath /\ Carried /\ sig = OwnSig(sk, pk, dg, l) /\ phase \in Working
    BY <1>1, <1>2 DEF RInv, Working
  <1>6. PICK u, n, r : u = TreeOf(dg, l) /\ n = LeafOf(dg, l) /\ r = root
    OBVIOUS
  <1>7. /\ l \in Nat /\ dg \in Digests /\ idx_tree' = u /\ idx_leaf' = n
        /\ adrs' = LayerAdrs(l, u) /\ j' = l + 1 /\ Done' = l
        /\ r = Below(sk, pk, l, u, n)
    BY <1>1, <1>2, <1>5, <1>6, EnterLayerPath
  <1>8. PICK x : x = LayerSig(sk, pk, dg, l)
    OBVIOUS
  <1>9. x = xmss_sign(r, sk, n, pk, LayerAdrs(l, u))
    BY <1>6, <1>7, <1>8, Zenon DEF LayerSig
  <1>10. xmss_sign(root, key.sk_seed, idx_leaf', pk_seed, adrs') = x
    BY <1>2, <1>6, <1>7, <1>9, Zenon
  <1>11. /\ sig' = [sig EXCEPT !.ht_sig = Append(@, x)]
         /\ root' = IF j > 0 /\ j = D - 1 THEN root
                    ELSE xmss_pk_from_sig(idx_leaf', x, root, pk_seed, adrs')
    BY <1>10, Zenon DEF SignLayer
  <1>12. OnPath'
    BY <1>1, <1>2, <1>6, <1>7 DEF OnPath
  <1>13. xmss_pk_from_sig(idx_leaf', x, root, pk_seed, adrs') = TreeRoot(sk, pk, l, u)
    <2>1. xmss_pk_from_sig(n, x, r, pk, LayerAdrs(l, u)) = TreeRoot(sk, pk, l, u)
      BY <1>6, <1>7, <1>8, LayerRecovers
    <2> QED  BY <1>2, <1>6, <1>7, <2>1, Zenon
  <1>14. j' = 0 \/ j' = 1 \/ j' < D => Carried'
    <2>1. SUFFICES ASSUME j' = 0 \/ j' = 1 \/ j' < D  PROVE Carried'
      OBVIOUS
    <2>2. ~(j > 0 /\ j = D - 1) /\ j' # 0 /\ j' - 1 = l
      BY <1>2, <1>7, <2>1, Heights
    <2>3. root' = TreeRoot(sk, pk, l, u)
      BY <1>11, <1>13, <2>2, Zenon
    <2> QED  BY <1>3, <1>7, <2>2, <2>3, Zenon DEF Carried
  <1>15. sig' = OwnSig(key'.sk_seed, pk_seed', digest', j')
    <2>1. PICK fs, hs, gs : /\ fs = ForsOf(sk, pk, dg) /\ hs = Layers(sk, pk, dg, l)
                            /\ gs = Layers(sk, pk, dg, l + 1)
      OBVIOUS
    <2>2. sig = [randomizer |-> Randomizer, fors_sig |-> fs, ht_sig |-> hs]
      BY <1>5, <2>1, Zenon DEF OwnSig
    <2>3. Append(hs, x) = gs
      BY <1>7, <1>8, <2>1, OneMoreLayer
    <2>4. PICK s : s = sig
      OBVIOUS
    <2>5. [s EXCEPT !.ht_sig = Append(@, x)]
              = [randomizer |-> Randomizer, fors_sig |-> fs, ht_sig |-> Append(hs, x)]
      BY <2>2, <2>4
    <2>6. sig' = [randomizer |-> Randomizer, fors_sig |-> fs, ht_sig |-> gs]
      BY <1>11, <2>3, <2>4, <2>5, Zenon
    <2> QED  BY <1>1, <1>2, <1>3, <1>7, <2>1, <2>6, Zenon DEF OwnSig
  <1>16. \A s \in signed' :
             s[2] = Below(key'.sk_seed, pk_seed', s[1][1], s[1][2], s[1][3])
    <2>1. PICK w, e : w = <<l, u, n>> /\ e = <<w, r>>
      OBVIOUS
    <2>2. e[1] = w /\ w[1] = l /\ w[2] = u /\ w[3] = n /\ e[2] = r
      BY <2>1
    <2>3. WotsKey = w
      <3>1. adrs'.layer = l /\ adrs'.tree = u
        BY <1>7 DEF LayerAdrs, Adrs
      <3> QED  BY <1>7, <2>1, <3>1, Zenon DEF WotsKey
    <2>4. signed' = signed \cup {e}
      BY <1>6, <2>1, <2>3, Zenon DEF SignLayer
    <2>5. \A s \in signed : s[2] = Below(sk, pk, s[1][1], s[1][2], s[1][3])
      BY <1>2, Zenon DEF RInv
    <2>6. e[2] = Below(sk, pk, e[1][1], e[1][2], e[1][3])
      BY <1>7, <2>2, Zenon
    <2> QED  BY <1>3, <2>4, <2>5, <2>6, Zenon
  <1> QED  BY <1>1, <1>4, <1>12, <1>14, <1>15, <1>16 DEF RInv

(* Returning the signature keeps it: every layer is signed.                 *)
LEMMA SignEndRInv ==
    ASSUME RInv, SignEnd
    PROVE  RInv'
  <1>1. /\ phase = "ht_sign" /\ phase' = "signed" /\ j = D
        /\ UNCHANGED <<key, altered, signed, digest, sig>>
    BY DEF SignEnd
  <1>2. pk_seed' = pk_seed /\ pk_root' = pk_root
    BY <1>1, Zenon DEF pk_seed, pk_root
  <1>3. sig = OwnSig(key.sk_seed, pk_seed, digest, D)
    BY <1>1 DEF RInv
  <1> QED  BY <1>1, <1>2, <1>3 DEF RInv, KeyForm

(* The verifying key is read as it is written.                              *)
LEMMA KeyRoundTrip ==
    ASSUME KeyForm
    PROVE  vk_try_from(vk_to_bytes(key.verifying_key)) = {key.verifying_key}
  <1>1. PICK v, x, y : v = key.verifying_key /\ x = pk_seed /\ y = pk_root
    OBVIOUS
  <1>2. v = [pk_seed |-> x, pk_root |-> y]
    <2>1. PICK k, u, w : /\ k = key /\ u = key.sk_seed /\ w = key.sk_prf
      OBVIOUS
    <2>2. k = [sk_seed |-> u, sk_prf |-> w, verifying_key |-> [pk_seed |-> x, pk_root |-> y]]
      BY <1>1, <2>1, Zenon DEF KeyForm
    <2>3. k.verifying_key = [pk_seed |-> x, pk_root |-> y]
      BY <2>2
    <2> QED  BY <1>1, <2>1, <2>3, Zenon
  <1>3. vk_to_bytes(v) = <<x, y>>
    BY <1>1, Zenon DEF vk_to_bytes, pk_seed, pk_root
  <1>4. vk_try_from(<<x, y>>) = {[pk_seed |-> x, pk_root |-> y]}
    BY DEF vk_try_from
  <1> QED  BY <1>1, <1>2, <1>3, <1>4, Zenon

(* Sending keeps it: the bytes of the signature and of the key, or others.  *)
LEMMA SendRInv ==
    ASSUME RInv, Send
    PROVE  RInv'
  <1>1. /\ phase = "signed" /\ phase' = "sent"
        /\ UNCHANGED <<key, signed, digest, sig, claim>>
    BY DEF Send
  <1>2. pk_seed' = pk_seed /\ pk_root' = pk_root
    BY <1>1, Zenon DEF pk_seed, pk_root
  <1>3. sig = OwnSig(key.sk_seed, pk_seed, digest, D)
    BY <1>1 DEF RInv
  <1>4. ~altered' => /\ ~altered /\ wire' = to_bytes(sig)
                     /\ vk' = vk_try_from(vk_to_bytes(key.verifying_key))
    BY Zenon DEF Send, Kept
  <1>5. vk_try_from(vk_to_bytes(key.verifying_key)) = {key.verifying_key}
    BY KeyRoundTrip DEF RInv
  <1>6. KeyForm' /\ (~altered' => pk_root' = TreeRoot(key'.sk_seed, pk_seed', D - 1, 0))
    BY <1>1, <1>2, <1>4, Zenon DEF RInv, KeyForm
  <1>7. Own' => wire' = to_bytes(sig') /\ vk' = {key'.verifying_key}
    BY <1>1, <1>4, <1>5, Zenon DEF Own
  <1>8. \A s \in signed' :
           s[2] = Below(key'.sk_seed, pk_seed', s[1][1], s[1][2], s[1][3])
    BY <1>1, <1>2, Zenon DEF RInv
  <1> QED  BY <1>1, <1>2, <1>3, <1>6, <1>7, <1>8 DEF RInv

(* What arrives unchanged for the pair signed is read as it was sent.       *)
LEMMA ReadsOwn ==
    ASSUME TInv, RInv, phase = "sent", Own
    PROVE  /\ try_from(wire) = {sig} /\ vk = {key.verifying_key}
           /\ sig = OwnSig(key.sk_seed, pk_seed, digest, D)
           /\ framed(presented) = framed(claim) /\ framed(claim) # {} /\ digest \in Digests
  <1>1. sig = OwnSig(key.sk_seed, pk_seed, digest, D) /\ wire = to_bytes(sig)
        /\ vk = {key.verifying_key}
    BY DEF RInv
  <1>2. PICK s, sk, pk, dg : s = sig /\ sk = key.sk_seed /\ pk = pk_seed /\ dg = digest
    OBVIOUS
  <1>3. s = OwnSig(sk, pk, dg, D)
    BY <1>1, <1>2
  <1>4. try_from(to_bytes(s)) = {s}
    BY <1>3, OwnRoundTrip
  <1> QED  BY <1>1, <1>2, <1>4 DEF Own, TInv, Working

(* Refusing what arrives keeps it: what was sent unchanged is not refused.  *)
LEMMA VerifyRefusedRInv ==
    ASSUME TInv, RInv, VerifyRefused
    PROVE  RInv'
  <1>1. /\ phase = "sent" /\ phase' = "done"
        /\ vk = {} \/ try_from(wire) = {} \/ framed(presented) = {}
        /\ UNCHANGED <<key, altered, signed, presented, claim>>
    BY DEF VerifyRefused
  <1>2. pk_seed' = pk_seed /\ pk_root' = pk_root
    BY <1>1, Zenon DEF pk_seed, pk_root
  <1>3. ~Own'
    <2>1. SUFFICES ASSUME Own  PROVE FALSE
      BY <1>1 DEF Own
    <2> QED  BY <1>1, <2>1, ReadsOwn
  <1>4. KeyForm' /\ (~altered' => pk_root' = TreeRoot(key'.sk_seed, pk_seed', D - 1, 0))
    BY <1>1, <1>2, Zenon DEF RInv, KeyForm
  <1>5. \A s \in signed' :
           s[2] = Below(key'.sk_seed, pk_seed', s[1][1], s[1][2], s[1][3])
    BY <1>1, <1>2, Zenon DEF RInv
  <1> QED  BY <1>1, <1>3, <1>4, <1>5 DEF RInv

(* Starting to verify keeps it: the FORS key that signed is recovered.      *)
LEMMA VerifyRInv ==
    ASSUME TInv, RInv, Verify
    PROVE  RInv'
  <1>1. /\ phase = "sent" /\ phase' = "ht_verify" /\ j' = 0
        /\ UNCHANGED <<key, altered, signed, presented, claim, digest, vk>>
    BY DEF Verify
  <1>2. pk_seed' = pk_seed /\ pk_root' = pk_root
    BY <1>1, Zenon DEF pk_seed, pk_root
  <1>3. KeyForm' /\ (~altered' => pk_root' = TreeRoot(key'.sk_seed, pk_seed', D - 1, 0))
    BY <1>1, <1>2, Zenon DEF RInv, KeyForm
  <1>4. \A s \in signed' :
           s[2] = Below(key'.sk_seed, pk_seed', s[1][1], s[1][2], s[1][3])
    BY <1>1, <1>2, Zenon DEF RInv
  <1>5. ASSUME Own
        PROVE  /\ OnPath' /\ Carried' /\ vk' = {key'.verifying_key}
               /\ sig' = OwnSig(key'.sk_seed, pk_seed', digest', D)
    <2>1. /\ try_from(wire) = {sig} /\ vk = {key.verifying_key}
          /\ sig = OwnSig(key.sk_seed, pk_seed, digest, D)
          /\ framed(presented) = framed(claim) /\ digest \in Digests
      BY <1>1, <1>5, ReadsOwn
    <2>2. PICK sk, pk, dg, s, v :
              sk = key.sk_seed /\ pk = pk_seed /\ dg = digest /\ s = sig /\ v = key.verifying_key
      OBVIOUS
    <2>3. DigestsOf(s, v) = {dg}
      BY <2>1, <2>2, Zenon DEF DigestsOf
    <2>4. v.pk_seed = pk
      BY <2>2 DEF pk_seed
    <2>5. /\ sig' = s
          /\ root' = fors_pk_from_sig(s.fors_sig, split_digest(dg).md, pk,
                                      ForsTreeNew(split_digest(dg).idx_tree,
                                                  split_digest(dg).idx_leaf))
          /\ idx_tree' = split_digest(dg).idx_tree /\ idx_leaf' = split_digest(dg).idx_leaf
      <3>0. PICK received \in try_from(wire), ww \in vk :
                \E d \in DigestsOf(received, ww) :
                    /\ sig' = received
                    /\ root' = fors_pk_from_sig(received.fors_sig, split_digest(d).md, ww.pk_seed,
                                                ForsTreeNew(split_digest(d).idx_tree,
                                                            split_digest(d).idx_leaf))
                    /\ idx_tree' = split_digest(d).idx_tree
                    /\ idx_leaf' = split_digest(d).idx_leaf
        BY Zenon DEF Verify
      <3>1. PICK d \in DigestsOf(received, ww) :
                /\ sig' = received
                /\ root' = fors_pk_from_sig(received.fors_sig, split_digest(d).md, ww.pk_seed,
                                            ForsTreeNew(split_digest(d).idx_tree,
                                                        split_digest(d).idx_leaf))
                /\ idx_tree' = split_digest(d).idx_tree
                /\ idx_leaf' = split_digest(d).idx_leaf
        BY <3>0
      <3>2. received = s /\ ww = v
        BY <2>1, <2>2, <3>0
      <3>3. d = dg
        BY <2>3, <3>1, <3>2
      <3> QED  BY <2>4, <3>1, <3>2, <3>3, Zenon
    <2>6. s.fors_sig = ForsOf(sk, pk, dg)
      <3>1. PICK x, y : x = ForsOf(sk, pk, dg) /\ y = Layers(sk, pk, dg, D)
        OBVIOUS
      <3>2. s = [randomizer |-> Randomizer, fors_sig |-> x, ht_sig |-> y]
        BY <2>1, <2>2, <3>1, Zenon DEF OwnSig
      <3> QED  BY <3>1, <3>2
    <2>7. root' = Below(sk, pk, 0, TreeOf(dg, 0), LeafOf(dg, 0))
      BY <2>1, <2>2, <2>5, <2>6, ForsOfRecovers
    <2>8. idx_tree' = TreeOf(dg, 0) /\ idx_leaf' = LeafOf(dg, 0)
      BY <2>1, <2>2, <2>5, PathEnds
    <2>9. Done' = 0
      BY <1>1 DEF Done
    <2>10. OnPath'
      BY <1>1, <2>2, <2>8, <2>9 DEF OnPath
    <2>11. Carried'
      BY <1>1, <1>2, <2>2, <2>7, <2>8 DEF Carried
    <2> QED  BY <1>1, <1>2, <2>1, <2>2, <2>5, <2>10, <2>11
  <1>6. Own' => Own
    BY <1>1 DEF Own
  <1> QED  BY <1>1, <1>3, <1>4, <1>5, <1>6 DEF RInv

(* Verifying one layer keeps it: from the signature of the layer its root   *)
(* is recovered.                                                            *)
LEMMA VerifyLayerRInv ==
    ASSUME HashBytes, TInv, RInv, VerifyLayer
    PROVE  RInv'
  <1>1. /\ phase = "ht_verify" /\ phase' = "ht_verify" /\ j < D /\ EnterLayer
        /\ UNCHANGED <<key, altered, signed, presented, claim, digest, vk, sig>>
    BY DEF VerifyLayer
  <1>2. pk_seed' = pk_seed /\ pk_root' = pk_root
    BY <1>1, Zenon DEF pk_seed, pk_root
  <1>3. KeyForm' /\ (~altered' => pk_root' = TreeRoot(key'.sk_seed, pk_seed', D - 1, 0))
    BY <1>1, <1>2, Zenon DEF RInv, KeyForm
  <1>4. \A s \in signed' :
           s[2] = Below(key'.sk_seed, pk_seed', s[1][1], s[1][2], s[1][3])
    BY <1>1, <1>2, Zenon DEF RInv
  <1>5. ASSUME Own
        PROVE  /\ OnPath' /\ Carried' /\ vk' = {key'.verifying_key}
               /\ sig' = OwnSig(key'.sk_seed, pk_seed', digest', D)
    <2>1. /\ OnPath /\ Carried /\ vk = {key.verifying_key} /\ phase \in Working
          /\ sig = OwnSig(key.sk_seed, pk_seed, digest, D)
      BY <1>1, <1>5 DEF RInv, Working
    <2>2. PICK sk, pk, dg, l, s :
              sk = key.sk_seed /\ pk = pk_seed /\ dg = digest /\ l = j /\ s = sig
      OBVIOUS
    <2>3. PICK u, n, r : u = TreeOf(dg, l) /\ n = LeafOf(dg, l) /\ r = root
      OBVIOUS
    <2>4. /\ l \in Nat /\ dg \in Digests /\ idx_tree' = u /\ idx_leaf' = n
          /\ adrs' = LayerAdrs(l, u) /\ j' = l + 1 /\ Done' = l
          /\ r = Below(sk, pk, l, u, n)
      BY <1>1, <2>1, <2>2, <2>3, EnterLayerPath
    <2>5. PICK x : x = LayerSig(sk, pk, dg, l)
      OBVIOUS
    <2>6. s.ht_sig[l + 1] = x
      <3>1. PICK y, hs : y = ForsOf(sk, pk, dg) /\ hs = Layers(sk, pk, dg, D)
        OBVIOUS
      <3>2. s = [randomizer |-> Randomizer, fors_sig |-> y, ht_sig |-> hs]
        BY <2>1, <2>2, <3>1, Zenon DEF OwnSig
      <3>3. s.ht_sig = hs
        BY <3>2
      <3>4. l + 1 \in 1 .. D /\ (l + 1) - 1 = l
        BY <1>1, <2>2, <2>4, Heights
      <3>5. hs[l + 1] = LayerSig(sk, pk, dg, (l + 1) - 1)
        BY <3>1, <3>4, Zenon DEF Layers
      <3> QED  BY <2>5, <3>3, <3>4, <3>5
    <2>7. root' = xmss_pk_from_sig(n, x, r, pk, LayerAdrs(l, u))
      <3>1. PICK v \in vk :
                root' = xmss_pk_from_sig(idx_leaf', sig.ht_sig[j + 1], root, v.pk_seed, adrs')
        BY Zenon DEF VerifyLayer
      <3>2. v.pk_seed = pk
        BY <2>1, <2>2, <3>1 DEF pk_seed
      <3> QED  BY <2>2, <2>3, <2>4, <2>6, <3>1, <3>2, Zenon
    <2>8. root' = TreeRoot(sk, pk, l, u)
      BY <2>3, <2>4, <2>5, <2>7, LayerRecovers
    <2>9. OnPath'
      BY <1>1, <2>2, <2>3, <2>4 DEF OnPath
    <2>10. Carried'
      <3>1. j' # 0 /\ j' - 1 = l
        BY <2>4
      <3> QED  BY <1>1, <1>2, <2>2, <2>4, <2>8, <3>1, Zenon DEF Carried
    <2> QED  BY <1>1, <1>2, <2>1, <2>9, <2>10
  <1>6. Own' => Own
    BY <1>1 DEF Own
  <1> QED  BY <1>1, <1>3, <1>4, <1>5, <1>6 DEF RInv

(* Judging keeps it: what was carried to the top is the root of the key.    *)
LEMMA VerifyEndRInv ==
    ASSUME TInv, RInv, VerifyEnd
    PROVE  RInv'
  <1>1. /\ phase = "ht_verify" /\ phase' = "done" /\ j = D
        /\ accepted' = (\E v \in vk : root = v.pk_root)
        /\ UNCHANGED <<key, altered, signed, presented, claim>>
    BY DEF VerifyEnd
  <1>2. pk_seed' = pk_seed /\ pk_root' = pk_root
    BY <1>1, Zenon DEF pk_seed, pk_root
  <1>3. KeyForm' /\ (~altered' => pk_root' = TreeRoot(key'.sk_seed, pk_seed', D - 1, 0))
    BY <1>1, <1>2, Zenon DEF RInv, KeyForm
  <1>4. \A s \in signed' :
           s[2] = Below(key'.sk_seed, pk_seed', s[1][1], s[1][2], s[1][3])
    BY <1>1, <1>2, Zenon DEF RInv
  <1>5. ASSUME Own
        PROVE  accepted'
    <2>1. /\ OnPath /\ Carried /\ vk = {key.verifying_key} /\ ~altered /\ digest \in Digests
      BY <1>1, <1>5 DEF RInv, Own, TInv, Working
    <2>2. PICK sk, pk, dg : sk = key.sk_seed /\ pk = pk_seed /\ dg = digest
      OBVIOUS
    <2>3. j # 0 /\ Done = D - 1
      BY <1>1, Heights DEF Done
    <2>4. idx_tree = TreeOf(dg, D - 1) /\ TreeOf(dg, D - 1) = 0
      BY <2>1, <2>2, <2>3, PathEnds DEF OnPath
    <2>5. root = TreeRoot(sk, pk, D - 1, 0)
      BY <1>1, <2>1, <2>2, <2>3, <2>4 DEF Carried
    <2>6. pk_root = TreeRoot(sk, pk, D - 1, 0)
      BY <2>1, <2>2 DEF RInv
    <2> QED  BY <1>1, <2>1, <2>5, <2>6 DEF pk_root
  <1>6. Own' => Own
    BY <1>1 DEF Own
  <1> QED  BY <1>1, <1>3, <1>4, <1>5, <1>6 DEF RInv

(* Every step keeps the second invariant.                                   *)
LEMMA NextRInv == HashBytes /\ TInv /\ RInv /\ [Next]_vars => RInv'
  <1> SUFFICES ASSUME HashBytes, TInv, RInv, [Next]_vars  PROVE RInv'
    OBVIOUS
  <1>1. CASE Reload
    BY <1>1, ReloadRInv
  <1>2. ASSUME NEW pair \in Claims, NEW dg \in Digests, Sign(pair, dg)  PROVE RInv'
    BY <1>2, SignRInv
  <1>3. ASSUME NEW pair \in Claims, SignRefused(pair)  PROVE RInv'
    BY <1>3, SignRefusedRInv
  <1>4. CASE SignLayer
    BY <1>4, SignLayerRInv
  <1>5. CASE SignEnd
    BY <1>5, SignEndRInv
  <1>6. CASE Send
    BY <1>6, SendRInv
  <1>7. CASE VerifyRefused
    BY <1>7, VerifyRefusedRInv
  <1>8. CASE Verify
    BY <1>8, VerifyRInv
  <1>9. CASE VerifyLayer
    BY <1>9, VerifyLayerRInv
  <1>10. CASE VerifyEnd
    BY <1>10, VerifyEndRInv
  <1>11. CASE UNCHANGED vars
    BY <1>11 DEF vars, frame, RInv, KeyForm, pk_seed, pk_root, OnPath, Carried, Own, Done
  <1> QED  BY <1>1, <1>2, <1>3, <1>4, <1>5, <1>6, <1>7, <1>8, <1>9, <1>10, <1>11 DEF Next

-----------------------------------------------------------------------------
(* The loops over the layers never pass the last one, indices stay within   *)
(* the trees and leaves there are, whatever the digest, and the address is  *)
(* that of the tree last entered (hypertree.rs:57-128, util.rs:21-51).      *)
THEOREM TypeCorrect == Spec => []TypeOK
  <1>1. TInv => TypeOK
    BY DEF TInv
  <1> QED  BY <1>1, InitTInv, NextTInv, PTL DEF Spec

(* In every state of a session, signer and verifier (hypertree.rs:57-128)   *)
(* are on the path the digest selects, in the layer j, with what its leaf   *)
(* signs, a root or a FORS key, in hand.                                    *)
THEOREM InductiveInvariant == HashBytes /\ Spec => [](TInv /\ RInv)
  <1> SUFFICES ASSUME HashBytes  PROVE Spec => [](TInv /\ RInv)
    BY Zenon DEF HashBytes
  <1>1. Init => TInv /\ RInv
    BY InitTInv, InitRInv
  <1>2. TInv /\ RInv /\ [Next]_vars => (TInv /\ RInv)'
    BY NextTInv, NextRInv
  <1> QED  BY <1>1, <1>2, PTL DEF Spec

(* The invariants give CarriesTreeRoot.                                     *)
LEMMA CarriesFollows == TInv /\ RInv => CarriesTreeRoot
  <1> SUFFICES ASSUME TInv, RInv, phase = "ht_sign", j > 0, j = 1 \/ j < D
               PROVE  root = xmss_node(key.sk_seed, 0, HPrime, pk_seed, adrs)
    BY DEF CarriesTreeRoot
  <1>1. j # 0 /\ Carried
    BY DEF RInv
  <1>2. adrs = LayerAdrs(j - 1, idx_tree)
    BY <1>1 DEF TInv, Done
  <1> QED  BY <1>1, <1>2 DEF Carried, TreeRoot

(* The root that ht_sign computes from the signature it just made of a      *)
(* layer (hypertree.rs:57-93) is always the root of that layer's tree,      *)
(* computed from its leaves.                                                *)
THEOREM AlwaysCarriesTreeRoot == HashBytes /\ Spec => []CarriesTreeRoot
  BY InductiveInvariant, CarriesFollows, PTL

(* The second invariant gives OneValuePerKey.                               *)
LEMMA OneValueFollows == RInv => OneValuePerKey
  BY DEF RInv, OneValuePerKey

(* No one-time key of the hypertree ever signs two values                   *)
(* (hypertree.rs:57-93): what the leaf of a layer signs is determined by    *)
(* the layer, the tree and the leaf.                                        *)
THEOREM AlwaysOneValuePerKey == HashBytes /\ Spec => []OneValuePerKey
  BY InductiveInvariant, OneValueFollows, PTL

(* The second invariant gives AcceptsOwn.                                   *)
LEMMA AcceptsFollows == RInv => AcceptsOwn
  BY DEF RInv, AcceptsOwn, Own

(* A signature that arrives as it was made, for the pair it was made for    *)
(* and under the key it was made with, is always accepted                   *)
(* (verifying_key.rs:53-88, hypertree.rs:98-128).                           *)
THEOREM AlwaysAcceptsOwn == HashBytes /\ Spec => []AcceptsOwn
  BY InductiveInvariant, AcceptsFollows, PTL
==============================================================================
