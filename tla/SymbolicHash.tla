---------------------------- MODULE SymbolicHash ----------------------------
(***************************************************************************)
(* The hash of the LMS crate as a free constructor: a hash value is the     *)
(* term of its input, so equal values have equal inputs.  An input is the   *)
(* tuple of the fields chained into the hasher; the third one is the        *)
(* two-byte number that separates the uses (lms/src/constants.rs).          *)
(***************************************************************************)
EXTENDS Integers

H(input) == [hash |-> input]

D_PBLC == 32896   \* 0x8080
D_MESG == 33153   \* 0x8181
D_LEAF == 33410   \* 0x8282
D_INTR == 33667   \* 0x8383

(* A leaf and an inner node of the Merkle tree, at index node (root 1).     *)
LeafHash(id, node, k)         == H(<<id, node, D_LEAF, k>>)
NodeHash(id, node, left, right) == H(<<id, node, D_INTR, left, right>>)

(* One level of verification: the hash tmp of a node and a path entry make  *)
(* the hash of the parent, in the order the parity of the node gives.       *)
Parent(id, node, tmp, entry) ==
    IF node % 2 = 1 THEN NodeHash(id, node \div 2, entry, tmp)
                    ELSE NodeHash(id, node \div 2, tmp, entry)

(* n ^ 1 for a node index: the other child of the same parent.              *)
Sibling(n) == IF n % 2 = 0 THEN n + 1 ELSE n - 1
=============================================================================
