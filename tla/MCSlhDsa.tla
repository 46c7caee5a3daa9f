------------------------------ MODULE MCSlhDsa ------------------------------
(***************************************************************************)
(* Two-byte hashes and small trees.  The bytes of a value are a digest of   *)
(* its term modulo a 16-bit prime: no two values these runs sign collide.   *)
(***************************************************************************)
EXTENDS SlhSession, SlhParams

AtomCode(atom) ==
    CASE atom = SkSeed -> 2 [] atom = SkPrf -> 3 [] atom = PkSeed -> 5
      [] atom = Randomizer -> 11 [] OTHER -> 13

RECURSIVE Mix(_)
Mix(value) ==
    IF value \in Atoms THEN AtomCode(value)
    ELSE LET words == Len(value.adrs)
             mixed[i \in 0 .. words + Len(value.in)] ==
                 IF i = 0 THEN Mix(value.pk_seed)
                 ELSE (mixed[i - 1] * 32717
                         + (IF i <= words THEN value.adrs[i] + 1
                            ELSE Mix(value.in[i - words]))) % 65521
         IN  mixed[words + Len(value.in)]

MCBytesOf(value) == Octets(Mix(value), 2)

(* Short and longest contexts, and one that is too long.                    *)
MCClaims == {<<0, 256>>, <<255, 1>>, <<256, 0>>}

(* One byte of FORS message, then the tree's index and the leaf's, with     *)
(* bits set above them.  Two messages meet in one leaf.                     *)
MCDigests == {<<228, 0, 0>>, <<27, 6, 3>>, <<177, 13, 254>>, <<94, 240, 4>>}

-----------------------------------------------------------------------------
(* The hashes behind a value, found by descending into its inputs.          *)
RECURSIVE HashCalls(_)
HashCalls(value) ==
    IF value \in Atoms THEN {}
    ELSE {value} \cup UNION {HashCalls(value.in[i]) : i \in DOMAIN value.in}

(* "A different ADRS value is used for each call to each function"          *)
(* (address.rs:4-6): over all values of the key and of its signatures, two  *)
(* hashes of one compressed address are the same hash of the same input.    *)
AddressesUnshared ==
    phase = "signed" =>
        LET values == {KeyRoot(key.sk_seed, pk_seed)} \cup {s[2] : s \in signed}
                          \cup Range(to_bytes(sig))
            calls  == UNION {HashCalls(value) : value \in values}
        IN  Cardinality({call.adrs : call \in calls}) = Cardinality(calls)
=============================================================================
