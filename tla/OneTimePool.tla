---------------------------- MODULE OneTimePool ----------------------------
(***************************************************************************)
(* What a stateful hash-based signer promises, for LM-OTS (Capacity = 1)    *)
(* and LMS (Capacity = 2^H) alike: every key has Capacity one-time indices, *)
(* an index is spent on at most one message, and a request is refused only  *)
(* when no index is left.                                                   *)
(***************************************************************************)
EXTENDS Integers

CONSTANTS
    Keys,        \* the key objects
    Messages,    \* what may be signed
    Capacity     \* the number of one-time indices of a key

VARIABLES
    spent,       \* spent[k]: the set of <<index, message>> signed by key k
    reply        \* what the last call returned

vars == <<spent, reply>>

Index == 0 .. Capacity - 1

Used(k) == {p[1] : p \in spent[k]}

Init ==
    /\ spent = [k \in Keys |-> {}]
    /\ reply = "none"

(* A signature: an index never used before is spent on the message.         *)
Issue(k, i, msg) ==
    /\ i \notin Used(k)
    /\ spent' = [spent EXCEPT ![k] = @ \cup {<<i, msg>>}]
    /\ reply' = "signed"

(* A refusal, which only an exhausted key gives.                            *)
Refuse(k) ==
    /\ Used(k) = Index
    /\ reply' = "refused"
    /\ UNCHANGED spent

(* A call that ends without a signature and without spending an index, and  *)
(* every other call (key generation, export, import, reading the key).      *)
Fail  == reply' = "failed" /\ UNCHANGED spent
Other == reply' = "none" /\ UNCHANGED spent

Next ==
    \/ \E k \in Keys, i \in Index, msg \in Messages : Issue(k, i, msg)
    \/ \E k \in Keys : Refuse(k)
    \/ Fail
    \/ Other

Spec == Init /\ [][Next]_vars
=============================================================================
