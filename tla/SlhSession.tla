----------------------------- MODULE SlhSession -----------------------------
(***************************************************************************)
(* One key, perhaps read back from bytes, signs messages with contexts; the *)
(* verifying key and a signature are sent, may be changed on their way, and *)
(* the signature is verified for some message and context.  The loops over  *)
(* the layers of the hypertree, ht_sign and ht_verify, are one action per   *)
(* layer and share the variables of one call frame.                         *)
(*                                                                          *)
(* A context and a message are runs of one and the same byte, written as    *)
(* their lengths: the strings that a framing tells apart least.             *)
(***************************************************************************)
EXTENDS SlhDsa, FiniteSets

CONSTANTS
    SkSeed, SkPrf, PkSeed,     \* the random bytes of the key
    Randomizer,  \* the output of prf_msg, different for each signature's random bytes
    Foreign,     \* another value of N bytes, made by no hash of this key
    Claims,      \* pairs of a context and a message
    Digests,     \* outputs of h_msg
    MaxSigs      \* bound: the number of signatures made

None == <<>>

Atoms == {SkSeed, SkPrf, PkSeed, Randomizer, Foreign}
ASSUME AtomsDistinct == Cardinality(Atoms) = 5

(* A digest has the bytes split_digest takes from it; a signature is made.  *)
ASSUME DigestsAssumption ==
    /\ \A dg \in Digests :
           IsOctets(dg) /\ Len(dg) = MD + DivCeil(H - HPrime, 8) + DivCeil(HPrime, 8)
    /\ None \notin Digests /\ None \notin Claims
    /\ MaxSigs \in Nat \ {0}

VARIABLES
    key,                   \* the signing key
    vk,                    \* the verifying key as the verifier reads it, if it can
    phase,                 \* what is being done, or was done last
    claim,                 \* the pair signed
    digest,                \* its digest
    sig,                   \* the signature, as far as it is made or read
    wire,                  \* the blocks sent
    altered,               \* whether some block was changed that matters (history)
    presented,             \* the pair the signature is presented for
    j, idx_tree, idx_leaf, adrs, root,     \* the frame of ht_sign and ht_verify
    accepted,
    signed,                \* what each WOTS+ key signed (history)
    made                   \* the number of signatures made (history)

frame == <<j, idx_tree, idx_leaf, adrs, root>>
vars  == <<key, vk, phase, claim, digest, sig, wire, altered, presented, frame, accepted,
           signed, made>>

pk_seed == key.verifying_key.pk_seed
pk_root == key.verifying_key.pk_root

(* Bound: a key read from damaged bytes signs once, and nothing else is     *)
(* damaged then.                                                            *)
Kept == ~altered /\ key.sk_prf = SkPrf

Init ==
    /\ key = from_seed(SkSeed, SkPrf, PkSeed)
    /\ vk = {}
    /\ phase = "ready"
    /\ claim = None /\ digest = None /\ sig = None /\ wire = None /\ presented = None
    /\ j = 0 /\ idx_tree = 0 /\ idx_leaf = 0 /\ adrs = WotsHashDefault /\ root = None
    /\ accepted = FALSE /\ altered = FALSE
    /\ signed = {}
    /\ made = 0

(* Blocks with a foreign one among them, one less, or one more.             *)
Damaged(blocks) ==
    {[blocks EXCEPT ![i] = Foreign] : i \in DOMAIN blocks}
        \cup {Front(blocks), Append(blocks, Foreign)}

(* Blocks with one of them replaced by its neighbour.                       *)
Repeated(blocks) ==
    {[blocks EXCEPT ![i] = blocks[(i % Len(blocks)) + 1]] : i \in DOMAIN blocks}

(* The new key is written and read back, from the bytes written or damaged  *)
(* ones.  What goes into random bytes only, sk_prf, does not matter.        *)
Reload ==
    LET written == sk_to_bytes(key)
    IN  /\ phase = "ready"
        /\ Kept
        /\ \E stored \in {written} \cup Damaged(written) :
               \/ /\ key' \in sk_try_from(stored)
                  /\ altered' = (\E i \in {1, 3, 4} : stored[i] # written[i])
                  /\ UNCHANGED phase
               \/ /\ sk_try_from(stored) = {}
                  /\ phase' = "refused"
                  /\ UNCHANGED <<key, altered>>
        /\ UNCHANGED <<vk, claim, digest, sig, wire, presented, frame, accepted, signed, made>>

(* mutant of framed: the length of a long context loses its high byte       *)
framed_Truncated(pair) == {<<0, pair[1] % 256, pair[1] + pair[2]>>}

(* The bytes hashed for a context and a message: 0, the length of the       *)
(* context in one byte, and the two run together; none for a long context.  *)
framed(pair) == IF pair[1] > 255 THEN {} ELSE {<<0, pair[1], pair[1] + pair[2]>>}

(* mutant of EnterLayer: the leaf is taken from the index already shifted   *)
EnterLayer_ShiftFirst ==
    /\ idx_tree' = IF j = 0 THEN idx_tree ELSE idx_tree \div 2 ^ HPrime
    /\ idx_leaf' = IF j = 0 THEN idx_leaf ELSE idx_tree' % 2 ^ HPrime
    /\ adrs' = [adrs EXCEPT !.layer = j, !.tree = idx_tree']
    /\ j' = j + 1

(* A round of the loops over the layers starts: past the first layer, the   *)
(* last bits of the tree's index are the leaf, the others the tree above.   *)
EnterLayer ==
    /\ idx_leaf' = IF j = 0 THEN idx_leaf ELSE idx_tree % 2 ^ HPrime
    /\ idx_tree' = IF j = 0 THEN idx_tree ELSE idx_tree \div 2 ^ HPrime
    /\ adrs' = [adrs EXCEPT !.layer = j, !.tree = idx_tree']
    /\ j' = j + 1

WotsKey == <<adrs'.layer, adrs'.tree, idx_leaf'>>

(* try_sign_with_context up to the call of ht_sign.                         *)
Sign(pair, dg) ==
    LET s == split_digest(dg)
        a == ForsTreeNew(s.idx_tree, s.idx_leaf)
        fors_sig == fors_sign(s.md, key.sk_seed, pk_seed, a)
    IN  /\ phase \in {"ready", "signed"}
        /\ made < IF Kept THEN MaxSigs ELSE 1
        /\ framed(pair) # {}
        /\ phase' = "ht_sign"
        /\ claim' = pair
        /\ digest' = dg
        /\ sig' = [randomizer |-> Randomizer, fors_sig |-> fors_sig, ht_sig |-> <<>>]
        /\ root' = fors_pk_from_sig(fors_sig, s.md, pk_seed, a)
        /\ j' = 0
        /\ idx_tree' = s.idx_tree
        /\ idx_leaf' = s.idx_leaf
        /\ adrs' = [WotsHashDefault EXCEPT !.tree = s.idx_tree]
        /\ UNCHANGED <<key, vk, wire, altered, presented, accepted, signed, made>>

(* The context does not fit its length byte.                                *)
SignRefused(pair) ==
    /\ phase = "ready"
    /\ framed(pair) = {}
    /\ phase' = "refused"
    /\ UNCHANGED <<key, vk, claim, digest, sig, wire, altered, presented, frame, accepted,
                   signed, made>>

(* One layer of ht_sign: the value below is signed, and the tree's root     *)
(* computed from the signature; past the first layer, the last one is not.  *)
SignLayer ==
    /\ phase = "ht_sign"
    /\ j < D
    /\ EnterLayer
    /\ LET x == xmss_sign(root, key.sk_seed, idx_leaf', pk_seed, adrs')
       IN  /\ sig' = [sig EXCEPT !.ht_sig = Append(@, x)]
           /\ root' = IF j > 0 /\ j = D - 1 THEN root
                      ELSE xmss_pk_from_sig(idx_leaf', x, root, pk_seed, adrs')
    /\ signed' = signed \cup {<<WotsKey, root>>}
    /\ UNCHANGED <<key, vk, phase, claim, digest, wire, altered, presented, accepted, made>>

SignEnd ==
    /\ phase = "ht_sign"
    /\ j = D
    /\ phase' = "signed"
    /\ made' = made + 1
    /\ UNCHANGED <<key, vk, claim, digest, sig, wire, altered, presented, frame, accepted,
                   signed>>

(* The signature and the verifying key are sent as they are, the signature  *)
(* for any pair, or one thing is changed: one block of either, or the       *)
(* number of its blocks.                                                    *)
Send ==
    LET blocks   == to_bytes(sig)
        vk_bytes == vk_to_bytes(key.verifying_key)
    IN  /\ phase = "signed"
        /\ phase' = "sent"
        /\ \/ /\ presented' \in IF Kept THEN Claims ELSE {claim}
              /\ wire' = blocks
              /\ vk' = vk_try_from(vk_bytes)
              /\ UNCHANGED altered
           \/ /\ Kept
              /\ presented' = claim
              /\ wire' \in Damaged(blocks) \cup Repeated(blocks)
              /\ vk' = vk_try_from(vk_bytes)
              /\ altered' = (wire' # blocks)
           \/ /\ Kept
              /\ presented' = claim
              /\ wire' = blocks
              /\ \E stored \in Damaged(vk_bytes) : vk' = vk_try_from(stored)
              /\ altered' = TRUE
        /\ UNCHANGED <<key, claim, digest, sig, frame, accepted, signed, made>>

(* A parser or the test of the context says no.                             *)
VerifyRefused ==
    /\ phase = "sent"
    /\ vk = {} \/ try_from(wire) = {} \/ framed(presented) = {}
    /\ phase' = "done"
    /\ accepted' = FALSE
    /\ UNCHANGED <<key, vk, claim, digest, sig, wire, altered, presented, frame, signed, made>>

(* h_msg of the same randomizer, key and bytes gives the same digest, and   *)
(* of others one that selects something else.                               *)
DigestsOf(s, v) ==
    IF /\ s.randomizer = sig.randomizer /\ v = key.verifying_key
       /\ framed(presented) = framed(claim)
    THEN {digest}
    ELSE {dg \in Digests : split_digest(dg) # split_digest(digest)}

(* try_verify_with_context up to the call of ht_verify.                     *)
Verify ==
    /\ phase = "sent"
    /\ framed(presented) # {}
    /\ \E received \in try_from(wire), v \in vk : \E dg \in DigestsOf(received, v) :
           LET s == split_digest(dg)
           IN  /\ sig' = received
               /\ root' = fors_pk_from_sig(received.fors_sig, s.md, v.pk_seed,
                                           ForsTreeNew(s.idx_tree, s.idx_leaf))
               /\ idx_tree' = s.idx_tree
               /\ idx_leaf' = s.idx_leaf
               /\ adrs' = [WotsHashDefault EXCEPT !.tree = s.idx_tree]
    /\ j' = 0
    /\ wire' = None
    /\ phase' = "ht_verify"
    /\ UNCHANGED <<key, vk, claim, digest, altered, presented, accepted, signed, made>>

(* One layer of ht_verify.                                                  *)
VerifyLayer ==
    /\ phase = "ht_verify"
    /\ j < D
    /\ EnterLayer
    /\ \E v \in vk :
           root' = xmss_pk_from_sig(idx_leaf', sig.ht_sig[j + 1], root, v.pk_seed, adrs')
    /\ UNCHANGED <<key, vk, phase, claim, digest, sig, wire, altered, presented, accepted,
                   signed, made>>

VerifyEnd ==
    /\ phase = "ht_verify"
    /\ j = D
    /\ accepted' = (\E v \in vk : root = v.pk_root)
    /\ phase' = "done"
    /\ UNCHANGED <<key, vk, claim, digest, sig, wire, altered, presented, frame, signed, made>>

Next ==
    \/ Reload
    \/ \E pair \in Claims, dg \in Digests : Sign(pair, dg)
    \/ \E pair \in Claims : SignRefused(pair)
    \/ SignLayer
    \/ SignEnd
    \/ Send
    \/ VerifyRefused
    \/ Verify
    \/ VerifyLayer
    \/ VerifyEnd

Spec == Init /\ [][Next]_vars
-----------------------------------------------------------------------------
(* Indices stay inside their trees, and the address of a layer is the one   *)
(* of the tree worked on (hypertree.rs:79-87, util.rs:37-46).               *)
TypeOK ==
    /\ phase \in {"ready", "refused", "ht_sign", "signed", "sent", "ht_verify", "done"}
    /\ claim \in Claims \cup {None} /\ digest \in Digests \cup {None}
    /\ j \in 0 .. D
    /\ idx_leaf \in 0 .. 2 ^ HPrime - 1
    /\ idx_tree \in 0 .. 2 ^ (H - HPrime) - 1
    /\ adrs.layer \in 0 .. D - 1 /\ adrs.tree = idx_tree
    /\ accepted \in BOOLEAN /\ altered \in BOOLEAN
    /\ made \in 0 .. MaxSigs

(* A signature arriving as it was made, for the pair it was made for and    *)
(* with the key it was made under, is accepted: the verifier retraces every *)
(* index, address and hash of the signer through all layers, and what was   *)
(* written is read in place (verifying_key.rs:53-88, hypertree.rs:98-128).  *)
AcceptsOwn == phase = "done" /\ ~altered /\ presented = claim => accepted

(* Nothing else is: not for another pair, nor with a block of the signature *)
(* or of a key changed, although no parser compares the parts of a key      *)
(* (verifying_key.rs:53-88, 131-146, signing_key.rs:180-195).               *)
AcceptsNothingElse == phase = "done" /\ accepted => ~altered /\ presented = claim

(* What ht_sign carries up from the signature of a layer is the root of the *)
(* layer's tree, as key generation computes it (hypertree.rs:70-96).        *)
CarriesTreeRoot ==
    phase = "ht_sign" /\ j > 0 /\ (j = 1 \/ j < D) => 
        root = xmss_node(key.sk_seed, 0, HPrime, pk_seed, adrs)

(* Over all messages, each WOTS+ key signs one value only: the trees above  *)
(* stay what they are, and so does the FORS key of a position.              *)
OneValuePerKey ==
    \A s1, s2 \in signed : s1[1] = s2[1] => s1[2] = s2[2]
=============================================================================
