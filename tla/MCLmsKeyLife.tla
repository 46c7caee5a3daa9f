---------------------------- MODULE MCLmsKeyLife ----------------------------
(* A tree of thirty-two leaves, the smallest height of the crate; crossed   *)
(* leaf numbers, keys and paths, and paths with one entry replaced.         *)
EXTENDS LmsKeyLife

MCHeight == 5
MCOtsPubHash == [q \in 0 .. 2 ^ MCHeight - 1 |-> <<"k", q>>]

Probe == {0, 1, 10, 21, 31}

MCPresented ==
    [q : Probe, key : Probe, leaf : Probe \cup {20, 30}, swap : {NoSwap}]
    \cup {[q |-> q, key |-> q, leaf |-> q, swap |-> <<l, n>>] :
              q \in {0, 21, 31}, l \in 0 .. MCHeight - 1, n \in {1, 2, 12, 43, 63}}
=============================================================================
