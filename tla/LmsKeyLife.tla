----------------------------- MODULE LmsKeyLife -----------------------------
(***************************************************************************)
(* An LMS key from its first leaf to its verifying key in use: gen_pk_tree  *)
(* (LmsTree) fills the tree, whose root becomes the verifying key and whose *)
(* nodes become the paths of signatures; verify (LmsVerify) then judges     *)
(* signatures under that root.                                              *)
(***************************************************************************)
EXTENDS LmsVerify

CONSTANT Zero     \* what Array::default() puts in every entry of the tree

VARIABLES leaf, r, j, pc      \* the locals of gen_pk_tree

Keygen == INSTANCE LmsTree WITH i <- leaf

keygenLocals == <<leaf, r, j, pc>>
lifeVars == <<verifyVars, keygenLocals>>

LifeInit == Keygen!Init /\ Idle

Generate == Keygen!Next /\ UNCHANGED locals

Verify == pc = "done" /\ VerifyNext /\ UNCHANGED keygenLocals

LifeNext == Generate \/ Verify

(* Each loop belongs to one call, which nothing but its own steps delays;   *)
(* nobody has to call verify.                                               *)
LifeSpec ==
    /\ LifeInit
    /\ [][LifeNext]_lifeVars
    /\ WF_lifeVars(Generate)
    /\ WF_lifeVars(pc = "done" /\ (Fold \/ Compare) /\ UNCHANGED keygenLocals)
-----------------------------------------------------------------------------
(* No entry is hashed from an unfilled one: what is filled is the node of   *)
(* the reference tree, and when gen_pk_tree returns all of it is, which is  *)
(* what verification asks of the tree (private.rs:65-88).                   *)
FilledCorrectly == Keygen!FilledCorrectly /\ (pc = "done" => IsTree)

(* The loops of key generation end, the inner one at the first even j, and  *)
(* every call of verify returns (private.rs:65-88, public.rs:75-97).        *)
Terminates == <>(pc = "done") /\ (verdict = "pending" ~> verdict \in {"ok", "error"})
=============================================================================
