----------------------------- MODULE SlhParams -----------------------------
(***************************************************************************)
(* The twelve parameter sets of slh-dsa/src, as their types spell them out: *)
(* lengths and heights that the code derives nowhere, and slices, masks and *)
(* arrays by.                                                               *)
(***************************************************************************)
EXTENDS Integers, TLC

Params(N, M, WotsMsgLen, WotsSigLen, HPrime, D, H, K, A, MD) ==
    [N |-> N, M |-> M, WotsMsgLen |-> WotsMsgLen, WotsSigLen |-> WotsSigLen,
     HPrime |-> HPrime, D |-> D, H |-> H, K |-> K, A |-> A, MD |-> MD]

Sha2L1Sets ==
    [Sha2_128s |-> Params(16, 30, 32, 35, 9, 7, 63, 14, 12, (12 * 14 + 7) \div 8),
     Sha2_128f |-> Params(16, 34, 32, 35, 3, 22, 66, 33, 6, 25)]

Sha2L35Sets ==
    [Sha2_192s |-> Params(24, 39, 24 * 2, 24 * 2 + 3, 9, 7, 63, 17, 14, (14 * 17 + 7) \div 8),
     Sha2_192f |-> Params(24, 42, 24 * 2, 24 * 2 + 3, 3, 22, 66, 33, 8, (33 * 8 + 7) \div 8),
     Sha2_256s |-> Params(32, 47, 32 * 2, 32 * 2 + 3, 8, 8, 64, 22, 14, (14 * 22 + 7) \div 8),
     Sha2_256f |-> Params(32, 49, 32 * 2, 32 * 2 + 3, 4, 17, 68, 35, 9, (35 * 9 + 7) \div 8)]

ShakeSets ==
    [Shake128s |-> Params(16, 30, 32, 35, 9, 7, 63, 14, 12, (12 * 14 + 7) \div 8),
     Shake128f |-> Params(16, 34, 32, 35, 3, 22, 66, 33, 6, 25),
     Shake192s |-> Params(24, 39, 24 * 2, 24 * 2 + 3, 9, 7, 63, 17, 14, (14 * 17 + 7) \div 8),
     Shake192f |-> Params(24, 42, 24 * 2, 24 * 2 + 3, 3, 22, 66, 33, 8, (33 * 8 + 7) \div 8),
     Shake256s |-> Params(32, 47, 32 * 2, 32 * 2 + 3, 8, 8, 64, 22, 14, (14 * 22 + 7) \div 8),
     Shake256f |-> Params(32, 49, 32 * 2, 32 * 2 + 3, 4, 17, 68, 35, 9, (35 * 9 + 7) \div 8)]

SigLens ==
    [Shake128s |-> 7856, Shake128f |-> 17088, Shake192s |-> 16224, Shake192f |-> 35664,
     Shake256s |-> 29792, Shake256f |-> 49856, Sha2_128s |-> 7856, Sha2_128f |-> 17088,
     Sha2_192s |-> 16224, Sha2_192f |-> 35664, Sha2_256s |-> 29792, Sha2_256f |-> 49856]

(* The lengths of the keys, by N.                                           *)
VkLens == (16 :> 32) @@ (24 :> 48) @@ (32 :> 64)
SkLens == (16 :> 4 * 16) @@ (24 :> 4 * 24) @@ (32 :> 4 * 32)

NoBytes(value) == <<>>

(* The algorithms with the parameters of P.                                 *)
With(P) == INSTANCE SlhDsa WITH
    N <- P.N, HPrime <- P.HPrime, D <- P.D, K <- P.K, A <- P.A, BytesOf <- NoBytes

(* Every length written down is the one the algorithms need: the digest is  *)
(* split without a rest, each digit of base_2b fits 16 bits and has its     *)
(* bytes, the tree's index fits 64 bits and the WOTS+ checksum 16, and the  *)
(* lengths of signatures and keys are those of their parts.                 *)
ASSUME ParameterSetsConsistent ==
    LET sets == Sha2L1Sets @@ Sha2L35Sets @@ ShakeSets
    IN  /\ DOMAIN sets = DOMAIN SigLens
        /\ \A name \in DOMAIN sets :
               LET P == sets[name]
               IN  /\ P.H = With(P)!H
                   /\ P.MD = With(P)!MD
                   /\ P.M = P.MD + With(P)!DivCeil(P.H - P.HPrime, 8)
                                 + With(P)!DivCeil(P.HPrime, 8)
                   /\ P.H - P.HPrime <= 64 /\ P.A <= 16
                   /\ P.WotsMsgLen = 2 * P.N
                   /\ P.WotsSigLen = With(P)!WotsSigLen
                   /\ P.WotsMsgLen * 15 * 16 < 2 ^ 16
                   /\ SigLens[name] = P.N * With(P)!SigLen
                   /\ VkLens[P.N] = 2 * P.N /\ SkLens[P.N] = 2 * P.N + VkLens[P.N]
=============================================================================
