------------------------------ MODULE LmsTree ------------------------------
(***************************************************************************)
(* SigningKey::gen_pk_tree (lms/src/lms/private.rs): the tree of an LMS key *)
(* filled in one pass over the leaves, climbing from a leaf as long as it   *)
(* completes a subtree.  The code's auth_tree[n - 1] is tree[n] here, so    *)
(* the root is tree[1] and the children of n are 2n and 2n + 1.             *)
(***************************************************************************)
EXTENDS SymbolicHash

CONSTANTS
    Height,       \* Mode::H
    Id,           \* the identifier of the key
    OtsPubHash,   \* OtsPubHash[i]: k of the i-th one-time key of the key
    Zero          \* what Array::default() puts in every entry

VARIABLES
    tree,      \* auth_tree
    i,         \* the leaf of the outer loop
    r,         \* the node last written
    j,         \* what is left of i above r
    pc         \* "leaf": at the head of the for loop; "climb": of the while
               \* loop; "done"

vars == <<tree, i, r, j, pc>>

LEAVES == 2 ^ Height
Nodes  == 1 .. 2 * LEAVES - 1

Init ==
    /\ tree = [n \in Nodes |-> Zero]
    /\ i = 0
    /\ r = 0
    /\ j = 0
    /\ pc = "leaf"

(* The head of the for loop, then the leaf of a new iteration.              *)
Leaf ==
    /\ pc = "leaf"
    /\ i < LEAVES
    /\ r' = i + LEAVES
    /\ j' = i
    /\ tree' = [tree EXCEPT ![r'] = LeafHash(Id, r', OtsPubHash[i])]
    /\ pc' = "climb"
    /\ UNCHANGED i

(* mutant of Climb: the left child alone decides how far to climb           *)
Climb_Even ==
    /\ pc = "climb"
    /\ r > 1
    /\ j % 2 = 0
    /\ r' = r \div 2
    /\ j' = j \div 2
    /\ tree' = [tree EXCEPT ![r'] = NodeHash(Id, r', tree[2 * r'], tree[2 * r' + 1])]
    /\ UNCHANGED <<i, pc>>

(* One iteration of the while loop: node r was a right child, so its parent *)
(* can be filled from both children.                                        *)
Climb ==
    /\ pc = "climb"
    /\ j % 2 = 1
    /\ r' = (r - 1) \div 2
    /\ j' = (j - 1) \div 2
    /\ tree' = [tree EXCEPT ![r'] = NodeHash(Id, r', tree[2 * r'], tree[2 * r' + 1])]
    /\ UNCHANGED <<i, pc>>

(* mutant of NextLeaf: the leaf is not advanced                             *)
NextLeaf_Stuck ==
    /\ pc = "climb"
    /\ j % 2 = 0
    /\ pc' = "leaf"
    /\ UNCHANGED <<tree, i, r, j>>

(* The end of an iteration of the for loop.                                 *)
NextLeaf ==
    /\ pc = "climb"
    /\ j % 2 = 0
    /\ i' = i + 1
    /\ pc' = "leaf"
    /\ UNCHANGED <<tree, r, j>>

Return ==
    /\ pc = "leaf"
    /\ i = LEAVES
    /\ pc' = "done"
    /\ UNCHANGED <<tree, i, r, j>>

Next == Leaf \/ Climb \/ NextLeaf \/ Return

Spec == Init /\ [][Next]_vars
-----------------------------------------------------------------------------
(* The tree RFC 8554 defines, node by node from the root down.              *)
Reference ==
    LET T[n \in Nodes] ==
            IF n >= LEAVES THEN LeafHash(Id, n, OtsPubHash[n - LEAVES])
                           ELSE NodeHash(Id, n, T[2 * n], T[2 * n + 1])
    IN  T

(* No entry is computed from an unfilled one: what is filled is the node of *)
(* the reference tree, all the way down; and at the end all of it is, the   *)
(* root included, which the last leaf's climb alone fills (private.rs:65-88)*)
FilledCorrectly ==
    /\ \A n \in Nodes : tree[n] \in {Zero, Reference[n]}
    /\ pc = "done" => tree = Reference
=============================================================================
