-------------------------- MODULE WinternitzExpand --------------------------
(***************************************************************************)
(* Calls of LmsOtsMode::expand: one behaviour per mode and message hash.    *)
(* At the end, the modes the lms crate ships (lms/src/{ots,lms}/modes.rs),  *)
(* with every number their type aliases and assertions spell out beside the *)
(* one the algorithms compute: an array's type and the constant that        *)
(* indexes it are separate parameters of the same alias.                    *)
(***************************************************************************)
EXTENDS Winternitz, FiniteSets

CONSTANTS
    Modes,       \* the LM-OTS modes under study, a set of [N, W] records
    Hashes(_)    \* Hashes(m): the message hashes (N-byte strings) tried in mode m

ASSUME ModesAssumption ==
    \A m \in Modes : ValidMode(m) /\ Hashes(m) \subseteq [1 .. m.N -> Byte]

VARIABLES
    mode,       \* the mode of the current or last call
    message,    \* the hash it was given
    arr         \* the coefficients it returned; empty before the call

expandVars == <<mode, message, arr>>

ExpandInit ==
    /\ mode \in Modes
    /\ message \in Hashes(mode)
    /\ arr = <<>>

(* One call of expand on the hash at hand.                                  *)
Expand ==
    /\ arr = <<>>
    /\ arr' = expand(mode, message)
    /\ UNCHANGED <<mode, message>>

ExpandSpec == ExpandInit /\ [][Expand]_expandVars
-----------------------------------------------------------------------------
(* The fields from .. to of s read as one number in base 2^w.               *)
Pack(s, from, to, w) ==
    LET n[i \in from - 1 .. to] ==
            IF i < from THEN 0 ELSE n[i - 1] * 2 ^ w + s[i]
    IN  n[to]

(* One-time signatures are unforgeable only because no hash's expansion is  *)
(* at or above another's in every chain: whoever holds the chain values at  *)
(* arr can walk every chain forward but never backward.  This is what the   *)
(* checksum is for (the comment at ots/modes.rs:48-51).                     *)
NoDomination ==
    arr # <<>> =>
      \A other \in Hashes(mode) \ {message} :
          LET b == expand(mode, other)
          IN  \E i \in 1 .. P(mode) : b[i] < arr[i]

(* Neither the u16 sum nor the shift by LS drops a bit: the last V          *)
(* coefficients, read as a number in base 2^W, are exactly the sum of the   *)
(* negated chunks (ots/modes.rs:54-66, with V and LS of lines 96-98).       *)
ChecksumLossless ==
    LET sum[i \in 0 .. U(mode)] ==
            IF i = 0 THEN 0 ELSE sum[i - 1] + Top(mode) - arr[i]
    IN  arr # <<>> => sum[U(mode)] = Pack(arr, U(mode) + 1, P(mode), mode.W)
-----------------------------------------------------------------------------
(* LmsOtsModeInternal<Sha256, W, PLen, TC>, and what is asserted of it.     *)
OtsMode(W, PLen, TC, LSAsserted, SIG_LEN) ==
    [N |-> 32, W |-> W, PLen |-> PLen, TC |-> TC, LS |-> LSAsserted, SIG_LEN |-> SIG_LEN]

OtsModes ==
    {OtsMode(1, 265, 1, 7, 8516), OtsMode(2, 133, 2, 6, 4292),
     OtsMode(4, 67, 3, 4, 2180), OtsMode(8, 34, 4, 0, 1124)}

(* LmsModeInternal<OtsMode, Sha256, HLen, M, H, TC>.                        *)
LmsMode(HLen, M, H, TC) == [HLen |-> HLen, M |-> M, H |-> H, TC |-> TC]

LmsModes ==
    {LmsMode(5, 32, 5, 5), LmsMode(10, 32, 10, 6), LmsMode(15, 32, 15, 7),
     LmsMode(20, 32, 20, 8), LmsMode(25, 32, 25, 9)}

SigLen(m)     == 4 + m.N * (P(m) + 1)
LEAVES(m)     == 2 ^ m.H
TREE_NODES(m) == 2 ^ (m.H + 1) - 1
TreeLen(m)    == 2 ^ (m.HLen + 1) - 1

(* No array is shorter or longer than what is written to it and no number   *)
(* leaves its type: expand fills its array, the checksum's chunks fit u16   *)
(* and its shift does not underflow, positions fit a byte, the tree's array *)
(* has its nodes, node numbers fit u32, and a typecode names one mode.      *)
ASSUME ModesConsistent ==
    /\ \A m \in OtsModes :
          /\ m.PLen = P(m) /\ m.LS = LS(m) /\ m.SIG_LEN = SigLen(m)
          /\ m.LS \in 0 .. 15 /\ 8 % m.W = 0
          /\ Top(m) * U(m) * 2 ^ m.LS < U16 /\ Top(m) <= 255
    /\ \A m \in LmsModes :
          /\ m.HLen = m.H /\ TreeLen(m) = TREE_NODES(m)
          /\ TREE_NODES(m) = 2 * LEAVES(m) - 1
          /\ 2 * LEAVES(m) <= 2 ^ 30
          /\ \A ots \in OtsModes : m.M = ots.N
    /\ Cardinality({m.TC : m \in OtsModes}) = Cardinality(OtsModes)
    /\ Cardinality({m.TC : m \in LmsModes}) = Cardinality(LmsModes)
=============================================================================
