----------------------------- MODULE LmsVerify -----------------------------
(***************************************************************************)
(* Verifier::verify of an LMS verifying key, loop iteration by loop         *)
(* iteration and call after call, against the authentication path that      *)
(* try_sign_with_rng puts in a signature (lms/src/lms/{public,private}.rs). *)
(* The tree is any whose entries are the hashes RFC 8554 prescribes.        *)
(***************************************************************************)
EXTENDS SymbolicHash

CONSTANTS
    Height,       \* Mode::H
    Id,           \* the identifier of the key
    OtsPubHash,   \* OtsPubHash[q]: k of the q-th one-time key of the key
    Presented,    \* the signatures presented: records [q, key, leaf, swap] of
                  \* the leaf number claimed, the leaf whose one-time key
                  \* recover_pubkey finds, the leaf whose path comes along,
                  \* and <<level, node>> where an entry is another node's, or
                  \* NoSwap
    NoSwap,
    None          \* no signature yet

LEAVES == 2 ^ Height
Nodes  == 1 .. 2 * LEAVES - 1
Leaves == 0 .. LEAVES - 1

ASSUME HeightAssumption == Height \in Nat

(* A parsed signature has q < 2^H and H path entries (lms/signature.rs).    *)
ASSUME PresentedAssumption ==
    \A p \in Presented : p.q \in Leaves

VARIABLES
    tree,       \* tree[n]: the entry of node n, auth_tree[n - 1] of the code;
                \* the verifying key's k is tree[1]
    sig,        \* the signature being verified
    i,          \* the number of path entries consumed
    node_num,   \* the node whose hash tmp should be
    tmp,        \* the candidate hash
    verdict     \* "idle" before the first call, "pending" in a call, "ok" or
                \* "error" after it

locals == <<sig, i, node_num, tmp, verdict>>
verifyVars == <<tree, sig, i, node_num, tmp, verdict>>

(* The tree of the key.                                                     *)
IsTree ==
    /\ \A q \in Leaves : tree[q + LEAVES] = LeafHash(Id, q + LEAVES, OtsPubHash[q])
    /\ \A n \in 1 .. LEAVES - 1 : tree[n] = NodeHash(Id, n, tree[2 * n], tree[2 * n + 1])

(* What try_sign_with_rng collects for index q: path[l] is the sibling of   *)
(* the ancestor of leaf q at level l, auth_tree[((r >> l) ^ 1) - 1].        *)
AuthPath(q) ==
    [l \in 0 .. Height - 1 |-> tree[Sibling((q + LEAVES) \div 2 ^ l)]]

SignatureOf(p) ==
    [q    |-> p.q,
     k    |-> OtsPubHash[p.key],
     path |-> IF p.swap = NoSwap THEN AuthPath(p.leaf)
              ELSE [AuthPath(p.leaf) EXCEPT ![p.swap[1]] = tree[p.swap[2]]]]

Idle ==
    /\ sig = None
    /\ i = 0
    /\ node_num = 0
    /\ tmp = None
    /\ verdict = "idle"

VerifyInit == IsTree /\ Idle

(* mutant of Begin: leaves numbered from 0 instead of LEAVES                *)
Begin_NoOffset(s) ==
    /\ verdict # "pending"
    /\ sig' = s
    /\ i' = 0
    /\ node_num' = s.q
    /\ tmp' = LeafHash(Id, s.q, s.k)
    /\ verdict' = "pending"
    /\ UNCHANGED tree

(* A call with signature s, up to the head of the loop.                     *)
Begin(s) ==
    /\ verdict # "pending"
    /\ sig' = s
    /\ i' = 0
    /\ node_num' = s.q + LEAVES
    /\ tmp' = LeafHash(Id, s.q + LEAVES, s.k)
    /\ verdict' = "pending"
    /\ UNCHANGED tree

(* mutant of Fold: path entry and running hash always in the same order     *)
Fold_OneOrder ==
    /\ verdict = "pending"
    /\ i < Height
    /\ tmp' = NodeHash(Id, node_num \div 2, tmp, sig.path[i])
    /\ node_num' = node_num \div 2
    /\ i' = i + 1
    /\ UNCHANGED <<tree, sig, verdict>>

(* One iteration: the parity of the node decides which child tmp is.        *)
Fold ==
    /\ verdict = "pending"
    /\ i < Height
    /\ tmp' = Parent(Id, node_num, tmp, sig.path[i])
    /\ node_num' = node_num \div 2
    /\ i' = i + 1
    /\ UNCHANGED <<tree, sig, verdict>>

(* After the loop: the candidate root against k of the verifying key.       *)
Compare ==
    /\ verdict = "pending"
    /\ i = Height
    /\ verdict' = IF tree[1] = tmp THEN "ok" ELSE "error"
    /\ UNCHANGED <<tree, sig, i, node_num, tmp>>

Call == \E p \in Presented : Begin(SignatureOf(p))

VerifyNext == Call \/ Fold \/ Compare

VerifySpec == VerifyInit /\ [][VerifyNext]_verifyVars
-----------------------------------------------------------------------------
(* The locals of a call stay in range, call after call: no shift or index   *)
(* leaves the tree (public.rs:68-90).                                       *)
TypeOK ==
    /\ i \in 0 .. Height
    /\ verdict \in {"idle", "pending", "ok", "error"}
    /\ verdict # "idle" => sig.q \in Leaves /\ node_num \in Nodes

(* The path entries consumed so far are those of the signed leaf.           *)
MatchesUpTo(s, n) ==
    /\ s.k = OtsPubHash[s.q]
    /\ \A l \in 0 .. n - 1 : s.path[l] = AuthPath(s.q)[l]

(* The running hash is the tree's entry exactly as long as the one-time key *)
(* and every entry so far match: no later entry can repair a mismatch.      *)
RunningHash ==
    verdict # "idle" => ((tmp = tree[node_num]) <=> MatchesUpTo(sig, i))

(* verify accepts the one-time key of leaf q with the path the signer       *)
(* collects for q, and nothing else: not another leaf's key or path, nor a  *)
(* path with one entry changed (public.rs:58-98, private.rs:121-123).       *)
AcceptsExactlySigned ==
    verdict \in {"ok", "error"} => (verdict = "ok" <=> MatchesUpTo(sig, Height))
=============================================================================
