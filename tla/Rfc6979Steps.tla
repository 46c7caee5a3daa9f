---------------------------- MODULE Rfc6979Steps ----------------------------
(***************************************************************************)
(* The nonce of RFC 6979, section 3.2, as the documentation of generate_k   *)
(* and of dsa's secret_number_rfc6979 promises it.  The steps are named by  *)
(* the letters of that section, which rfc6979/src/lib.rs cites.  HMAC is a  *)
(* random function: the bytes of a value are chosen when first drawn.       *)
(***************************************************************************)
EXTENDS HmacDrbg, Octets

CONSTANTS
    Requests, \* what may be asked: [x, h, data, q] with x and h the octets of
              \* int2octets(x) and bits2octets(h1), data the extra data, q > 1
    HLEN,     \* bytes of an HMAC value
    Blocks,   \* the possible values of one
    NoNonce   \* no request in progress, or none answered

VARIABLES
    request,  \* the request in progress
    tries,    \* candidates found out of range so far
    drawn,    \* blocks of the current candidate drawn so far
    sampled,  \* the bytes of every HMAC value drawn so far
    answer    \* the last nonce

vars == <<request, tries, drawn, sampled, answer>>

Seed(r) == r.x \o r.h \o r.data

(* Steps b to g.                                                            *)
Start(r) ==
    LET K1 == Mac(ZEROS, <<ONES, 0>> \o Seed(r))
        V1 == Mac(K1, <<ONES>>)
        K2 == Mac(K1, <<V1, 1>> \o Seed(r))
    IN  [K |-> K2, V |-> Mac(K2, <<V1>>)]

qlen(r)        == BitLength(r.q)
BlocksNeeded(r) == CHOOSE n \in 1 .. qlen(r) :
                      8 * HLEN * n >= qlen(r) /\ 8 * HLEN * (n - 1) < qlen(r)

(* Step h.2: block j of the candidate started in state s.                   *)
Block(s, j) ==
    LET V[i \in 0 .. j] == IF i = 0 THEN s.V ELSE Mac(s.K, <<V[i - 1]>>)
    IN  V[j]

(* The state before candidate n (from 0); step h.3 leads to the next.       *)
State(r, n) ==
    LET st[i \in 0 .. n] ==
            IF i = 0 THEN Start(r)
            ELSE LET V == Block(st[i - 1], BlocksNeeded(r))
                     K == Mac(st[i - 1].K, <<V, 0>>)
                 IN  [K |-> K, V |-> Mac(K, <<V>>)]
    IN  st[n]

Bit(T, i) == (T[(i + 7) \div 8] \div 2 ^ ((8 - i) % 8)) % 2

(* bits2int of the candidate T: its leftmost qlen bits.                     *)
Candidate(r, n) ==
    LET T == FlattenSeq([j \in 1 .. BlocksNeeded(r) |-> sampled[Block(State(r, n), j)]])
    IN  FoldLeft(LAMBDA k, i : 2 * k + Bit(T, i), 0, [i \in 1 .. qlen(r) |-> i])

InRange(r, n) == Candidate(r, n) \in 1 .. r.q - 1
-----------------------------------------------------------------------------
Init ==
    /\ request = NoNonce
    /\ tries = 0
    /\ drawn = 0
    /\ sampled = <<>>
    /\ answer = NoNonce

Ask(r) ==
    /\ request = NoNonce
    /\ request' = r
    /\ tries' = 0
    /\ drawn' = 0
    /\ UNCHANGED <<sampled, answer>>

Draw ==
    /\ request # NoNonce
    /\ drawn < BlocksNeeded(request)
    /\ LET V == Block(State(request, tries), drawn + 1)
       IN  \/ V \in DOMAIN sampled /\ sampled' = sampled
           \/ /\ V \notin DOMAIN sampled
              /\ DOMAIN sampled' = DOMAIN sampled \cup {V}
              /\ \A t \in DOMAIN sampled : sampled'[t] = sampled[t]
              /\ sampled'[V] \in Blocks
    /\ drawn' = drawn + 1
    /\ UNCHANGED <<request, tries, answer>>

Accept ==
    /\ request # NoNonce
    /\ drawn = BlocksNeeded(request)
    /\ InRange(request, tries)
    /\ answer' = Candidate(request, tries)
    /\ request' = NoNonce
    /\ UNCHANGED <<tries, drawn, sampled>>

Reject ==
    /\ request # NoNonce
    /\ drawn = BlocksNeeded(request)
    /\ ~InRange(request, tries)
    /\ tries' = tries + 1
    /\ drawn' = 0
    /\ UNCHANGED <<request, sampled, answer>>

Next == (\E r \in Requests : Ask(r)) \/ Draw \/ Accept \/ Reject

Spec == Init /\ [][Next]_vars
=============================================================================
