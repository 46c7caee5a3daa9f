------------------------------- MODULE SlhDsa -------------------------------
(***************************************************************************)
(* The algorithms of slh-dsa/src over symbolic hashes: WOTS+, XMSS, one     *)
(* layer of the hypertree at a time, and FORS.  An N-byte value is the term *)
(* of the hash that made it: the public seed, the address, compressed, and  *)
(* the inputs.  The functions of the hash suites are those of SHA-2, which  *)
(* hash the least of an address; SHAKE hashes all of it.                    *)
(***************************************************************************)
EXTENDS Octets

CONSTANTS
    N,           \* the length of a hash in bytes
    HPrime, D,   \* the height of a tree, the number of layers
    K, A,        \* FORS: the number of trees and their height
    BytesOf(_)   \* the N bytes of a value

ASSUME SlhParameters == {N, HPrime, D, K, A} \subseteq Nat \ {0}

-----------------------------------------------------------------------------
(* The hash addresses of slh-dsa/src/address.rs.  The seven structs share   *)
(* one layout of words: the layer, the tree (tree_adrs_high is never set),  *)
(* the type, and three words each type uses in its own way:                 *)
(*    type            word5          word6        word7                    *)
(*    0 WotsHash      key_pair_adrs  chain_adrs   hash_adrs                *)
(*    1 WotsPk        key_pair_adrs  0            0                        *)
(*    2 HashTree      0              tree_height  tree_index               *)
(*    3 ForsTree      key_pair_adrs  tree_height  tree_index               *)
(*    4 ForsRoots     key_pair_adrs  0            0                        *)
(*    5 WotsPrf       key_pair_adrs  chain_adrs   0                        *)
(*    6 ForsPrf       key_pair_adrs  0            tree_index               *)
Adrs(layer, tree, type, word5, word6, word7) ==
    [layer |-> layer, tree |-> tree, type |-> type,
     word5 |-> word5, word6 |-> word6, word7 |-> word7]

WotsHashDefault == Adrs(0, 0, 0, 0, 0, 0)

ForsTreeNew(tree, key_pair) == Adrs(0, tree, 3, key_pair, 0, 0)

(* mutant of prf_adrs: the type is left as it was                           *)
prf_adrs_SameType(a) == Adrs(a.layer, a.tree, 0, a.word5, 0, 0)

(* The only transitions the code makes, in place of setTypeAndClear.        *)
prf_adrs(a)      == Adrs(a.layer, a.tree, 5, a.word5, 0, 0)
pk_adrs(a)       == Adrs(a.layer, a.tree, 1, a.word5, 0, 0)
tree_adrs(a)     == Adrs(a.layer, a.tree, 2, 0, 0, 0)
fors_prf_adrs(a) == Adrs(0, a.tree, 6, a.word5, 0, a.word7)
fors_roots(a)    == Adrs(0, a.tree, 4, a.word5, 0, 0)

(* What the SHA-2 suites hash: of the layer and of the type one byte each.  *)
compressed(a) == <<a.layer % 256, a.tree, a.type % 256, a.word5, a.word6, a.word7>>
-----------------------------------------------------------------------------
(* The functions of a suite are one function of inputs of different         *)
(* lengths: nothing but address and input keeps their values apart.  Some   *)
(* suites have two functions here; no property is given the difference.     *)
t(pk_seed, adrs, m)           == [pk_seed |-> pk_seed, adrs |-> compressed(adrs), in |-> m]
h(pk_seed, adrs, m1, m2)      == t(pk_seed, adrs, <<m1, m2>>)
f(pk_seed, adrs, m)           == t(pk_seed, adrs, <<m>>)
prf_sk(pk_seed, sk_seed, adrs) == t(pk_seed, adrs, <<sk_seed>>)

DivCeil(a, b) == (a + b - 1) \div b

Flip(n) == IF n % 2 = 0 THEN n + 1 ELSE n - 1     \* n ^ 1
-----------------------------------------------------------------------------
(* n digits of b bits: bytes are taken from x when the bits left over in    *)
(* total do not suffice, and the bits used are cleared from it.             *)
base_2b(x, n, b) ==
    LET step[k \in 0 .. n] ==
            IF k = 0 THEN [i |-> 0, bits |-> 0, total |-> 0, out |-> 0]
            ELSE LET s     == step[k - 1]
                     fresh == IF s.bits < b THEN DivCeil(b - s.bits, 8) ELSE 0
                     total == Value(<<s.total>> \o SubSeq(x, s.i + 1, s.i + fresh))
                     bits  == s.bits + 8 * fresh - b
                 IN  [i |-> s.i + fresh, bits |-> bits, total |-> total % 2 ^ bits,
                      out |-> (total \div 2 ^ bits) % 2 ^ b]
    IN  [k \in 1 .. n |-> step[k].out]

MD == DivCeil(K * A, 8)
H  == HPrime * D

(* mutant of split_digest: the leaf's byte is taken whole                   *)
split_digest_NoMask(digest) ==
    LET tree == DivCeil(H - HPrime, 8)
    IN  [md       |-> SubSeq(digest, 1, MD),
         idx_tree |-> Value(SubSeq(digest, MD + 1, MD + tree)) % 2 ^ (H - HPrime),
         idx_leaf |-> digest[MD + tree + 1]]

(* The digest in the FORS message, the tree index and the leaf index.       *)
split_digest(digest) ==
    LET tree == DivCeil(H - HPrime, 8)
        leaf == DivCeil(HPrime, 8)
    IN  [md       |-> SubSeq(digest, 1, MD),
         idx_tree |-> Value(SubSeq(digest, MD + 1, MD + tree)) % 2 ^ (H - HPrime),
         idx_leaf |-> Value(SubSeq(digest, MD + tree + 1, MD + tree + leaf)) % 2 ^ HPrime]
-----------------------------------------------------------------------------
LOG_W  == 4
W      == 16
CK_LEN == 3
WotsSigLen == 2 * N + CK_LEN

(* A message's nibbles and those of its checksum, shifted by 4 in 16 bits.  *)
WotsDigits(m) ==
    LET msg  == base_2b(BytesOf(m), 2 * N, LOG_W)
        sum[k \in 0 .. 2 * N] == IF k = 0 THEN 0 ELSE sum[k - 1] + W - 1 - msg[k]
        csum == (sum[2 * N] * 16) % 2 ^ 16
    IN  msg \o base_2b(Octets(csum, 2), CK_LEN, LOG_W)

wots_chain(x, i, s, pk_seed, adrs) ==
    LET tmp[j \in 0 .. s] ==
            IF j = 0 THEN x ELSE f(pk_seed, [adrs EXCEPT !.word7 = i + j - 1], tmp[j - 1])
    IN  tmp[s]

WotsSk(sk_seed, pk_seed, adrs, i) ==
    prf_sk(pk_seed, sk_seed, [prf_adrs(adrs) EXCEPT !.word6 = i - 1])

ChainAdrs(adrs, i) == [adrs EXCEPT !.word6 = i - 1]

(* One chain of the key at an address, s steps from its start.              *)
SkChain(sk_seed, s, pk_seed, adrs, i) ==
    wots_chain(WotsSk(sk_seed, pk_seed, adrs, i), 0, s, pk_seed, ChainAdrs(adrs, i))

wots_pk_gen(sk_seed, pk_seed, adrs) ==
    t(pk_seed, pk_adrs(adrs),
      [i \in 1 .. WotsSigLen |-> SkChain(sk_seed, W - 1, pk_seed, adrs, i)])

wots_sign(m, sk_seed, pk_seed, adrs) ==
    LET digits == WotsDigits(m)
    IN  [i \in 1 .. WotsSigLen |-> SkChain(sk_seed, digits[i], pk_seed, adrs, i)]

wots_pk_from_sig(sig, m, pk_seed, adrs) ==
    LET digits == WotsDigits(m)
    IN  t(pk_seed, pk_adrs(adrs),
          [i \in 1 .. WotsSigLen |->
              wots_chain(sig[i], digits[i], W - 1 - digits[i], pk_seed, ChainAdrs(adrs, i))])
-----------------------------------------------------------------------------
(* The node of the given index and height, from the leaves up.              *)
xmss_node(sk_seed, index, height, pk_seed, adrs) ==
    LET level[z \in 0 .. HPrime] ==
            [n \in 0 .. 2 ^ (HPrime - z) - 1 |->
                IF z = 0 THEN wots_pk_gen(sk_seed, pk_seed, [adrs EXCEPT !.word5 = n])
                ELSE h(pk_seed, [tree_adrs(adrs) EXCEPT !.word6 = z, !.word7 = n],
                       level[z - 1][2 * n], level[z - 1][2 * n + 1])]
    IN  level[height][index]

xmss_sign(m, sk_seed, idx, pk_seed, adrs) ==
    LET leaf == [adrs EXCEPT !.word5 = idx]
    IN  [sig  |-> wots_sign(m, sk_seed, pk_seed, leaf),
         auth |-> [j \in 1 .. HPrime |->
                      xmss_node(sk_seed, Flip(idx \div 2 ^ (j - 1)), j - 1, pk_seed, leaf)]]

(* The parent at the address a of a node and its path entry; bit is the     *)
(* node's last bit.                                                         *)
Join(pk_seed, a, bit, node, entry) ==
    IF bit = 0 THEN h(pk_seed, a, node, entry) ELSE h(pk_seed, a, entry, node)

(* mutant of xmss_pk_from_sig: tree_index is set before the index is shifted*)
xmss_pk_from_sig_Late(idx, sig, m, pk_seed, adrs) ==
    LET leaf == [adrs EXCEPT !.word5 = idx]
        node[j \in 0 .. HPrime] ==
            IF j = 0 THEN wots_pk_from_sig(sig.sig, m, pk_seed, leaf)
            ELSE Join(pk_seed,
                      [tree_adrs(leaf) EXCEPT !.word6 = j, !.word7 = idx \div 2 ^ (j - 1)],
                      (idx \div 2 ^ (j - 1)) % 2, node[j - 1], sig.auth[j])
    IN  node[HPrime]

xmss_pk_from_sig(idx, sig, m, pk_seed, adrs) ==
    LET leaf == [adrs EXCEPT !.word5 = idx]
        node[j \in 0 .. HPrime] ==
            IF j = 0 THEN wots_pk_from_sig(sig.sig, m, pk_seed, leaf)
            ELSE Join(pk_seed, [tree_adrs(leaf) EXCEPT !.word6 = j, !.word7 = idx \div 2 ^ j],
                      (idx \div 2 ^ (j - 1)) % 2, node[j - 1], sig.auth[j])
    IN  node[HPrime]
-----------------------------------------------------------------------------
fors_sk_gen(sk_seed, pk_seed, adrs, idx) ==
    prf_sk(pk_seed, sk_seed, [fors_prf_adrs(adrs) EXCEPT !.word7 = idx])

fors_node(sk_seed, index, height, pk_seed, adrs) ==
    LET level[z \in 0 .. A] ==
            [i \in 0 .. K * 2 ^ (A - z) - 1 |->
                LET a == [adrs EXCEPT !.word6 = z, !.word7 = i]
                IN  IF z = 0 THEN f(pk_seed, a, fors_sk_gen(sk_seed, pk_seed, adrs, i))
                    ELSE h(pk_seed, a, level[z - 1][2 * i], level[z - 1][2 * i + 1])]
    IN  level[height][index]

(* The trees are numbered from 1 here; tree i starts at the leaf below.     *)
FirstLeaf(i, z) == (i - 1) * 2 ^ (A - z)

fors_sign(md, sk_seed, pk_seed, adrs) ==
    LET indices == base_2b(md, K, A)
    IN  [i \in 1 .. K |->
            [sk   |-> fors_sk_gen(sk_seed, pk_seed, adrs, FirstLeaf(i, 0) + indices[i]),
             auth |-> [j \in 1 .. A |->
                 fors_node(sk_seed, FirstLeaf(i, j - 1) + Flip(indices[i] \div 2 ^ (j - 1)),
                           j - 1, pk_seed, adrs)]]]

fors_pk_from_sig(sig, md, pk_seed, adrs) ==
    LET indices == base_2b(md, K, A)
        root(i) ==
            LET index == FirstLeaf(i, 0) + indices[i]
                node[j \in 0 .. A] ==
                    LET a == [adrs EXCEPT !.word6 = j, !.word7 = index \div 2 ^ j]
                    IN  IF j = 0 THEN f(pk_seed, a, sig[i].sk)
                        ELSE Join(pk_seed, a, (indices[i] \div 2 ^ (j - 1)) % 2,
                                  node[j - 1], sig[i].auth[j])
            IN  node[A]
    IN  t(pk_seed, fors_roots(adrs), [i \in 1 .. K |-> root(i)])
-----------------------------------------------------------------------------
(* The wire format, in blocks of N bytes.                                   *)
ForsBlocks(sig) == FlattenSeq([i \in 1 .. K |-> <<sig[i].sk>> \o sig[i].auth])
XmssBlocks(sig) == sig.sig \o sig.auth

to_bytes(s) ==
    <<s.randomizer>> \o ForsBlocks(s.fors_sig)
        \o FlattenSeq([j \in 1 .. D |-> XmssBlocks(s.ht_sig[j])])

ForsSize == K * (A + 1)
XmssSize == WotsSigLen + HPrime
SigLen   == 1 + ForsSize + D * XmssSize

(* The i-th of the chunks of equal size that blocks consists of.            *)
Chunk(blocks, size, i) == SubSeq(blocks, (i - 1) * size + 1, i * size)

ForsFrom(blocks) ==
    [i \in 1 .. K |-> LET c == Chunk(blocks, A + 1, i) IN [sk |-> c[1], auth |-> Tail(c)]]
XmssFrom(blocks) ==
    [sig |-> SubSeq(blocks, 1, WotsSigLen), auth |-> SubSeq(blocks, WotsSigLen + 1, XmssSize)]

(* The signature read from blocks, or none.                                 *)
try_from(blocks) ==
    LET ht_bytes == SubSeq(blocks, 2 + ForsSize, Len(blocks))
    IN  IF Len(blocks) # SigLen THEN {}
        ELSE {[randomizer |-> blocks[1],
               fors_sig   |-> ForsFrom(SubSeq(blocks, 2, 1 + ForsSize)),
               ht_sig     |-> [j \in 1 .. D |-> XmssFrom(Chunk(ht_bytes, XmssSize, j))]]}
-----------------------------------------------------------------------------
(* SigningKey::from_seed: the root of the only tree of the top layer.       *)
KeyRoot(sk_seed, pk_seed) ==
    xmss_node(sk_seed, 0, HPrime, pk_seed, [WotsHashDefault EXCEPT !.layer = D - 1])

from_seed(sk_seed, sk_prf, pk_seed) ==
    [sk_seed |-> sk_seed, sk_prf |-> sk_prf,
     verifying_key |-> [pk_seed |-> pk_seed, pk_root |-> KeyRoot(sk_seed, pk_seed)]]

(* Keys as their blocks of N bytes, and the keys read from blocks: a key is *)
(* read from any blocks of the right number, its root as it is found.       *)
vk_to_bytes(vk) == <<vk.pk_seed, vk.pk_root>>
sk_to_bytes(sk) == <<sk.sk_seed, sk.sk_prf>> \o vk_to_bytes(sk.verifying_key)

vk_try_from(blocks) ==
    IF Len(blocks) # 2 THEN {} ELSE {[pk_seed |-> blocks[1], pk_root |-> blocks[2]]}

sk_try_from(blocks) ==
    IF Len(blocks) # 4 THEN {}
    ELSE {[sk_seed |-> blocks[1], sk_prf |-> blocks[2], verifying_key |-> vk] :
              vk \in vk_try_from(SubSeq(blocks, 3, Len(blocks)))}
=============================================================================
