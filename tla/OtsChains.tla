----------------------------- MODULE OtsChains -----------------------------
(***************************************************************************)
(* The LM-OTS computations over symbolic hashes (lms/src/ots/{private,      *)
(* signature,public}.rs).  A hash value is the term of its input, so two    *)
(* values are equal exactly when every hashed field is.  The hash of a      *)
(* message is also needed as bytes, to be expanded: Digest gives them.      *)
(***************************************************************************)
EXTENDS Winternitz, SymbolicHash

CONSTANTS
    Digest(_),   \* the N bytes of the message hash with a given input
    ZeroId,      \* the identifier made of zero bytes
    ZeroHash     \* a hash output made of zero bytes

(* Chain i (from 0) walked from position a to position b, starting at v.    *)
Chain(id, q, i, a, b, v) ==
    LET tmp[j \in a .. b] ==
            IF j = a THEN v ELSE H(<<id, q, i, j - 1, tmp[j - 1]>>)
    IN  tmp[b]

(* SigningKey::new_from_seed.  x[i] here is the code's x[i - 1].            *)
OtsNewFromSeed(m, q, id, seed) ==
    [q |-> q, id |-> id, valid |-> TRUE,
     x |-> [i \in 1 .. P(m) |-> H(<<id, q, i - 1, 255, seed>>)]]

(* SigningKey::public: every chain to its end, then one hash of the ends.   *)
OtsPublic(m, key) ==
    [q |-> key.q, id |-> key.id,
     k |-> H(<<key.id, key.q, D_PBLC,
               [i \in 1 .. P(m) |->
                   Chain(key.id, key.q, i - 1, 0, Top(m), key.x[i])]>>)]

MessageHash(id, q, c, msg) == Digest(<<id, q, D_MESG, c, msg>>)

(* mutant of OtsSign: the checksum chains are not advanced                  *)
OtsSign_NoChecksum(m, key, c, msg) ==
    LET a == expand(m, MessageHash(key.id, key.q, c, msg))
    IN  [c |-> c,
         y |-> [i \in 1 .. P(m) |->
                   Chain(key.id, key.q, i - 1, 0, IF i > U(m) THEN 0 ELSE a[i], key.x[i])]]

(* The signature try_sign_with_rng computes from the key before it zeroes   *)
(* it: chain i walked to the i-th coefficient of the message hash.          *)
OtsSign(m, key, c, msg) ==
    LET a == expand(m, MessageHash(key.id, key.q, c, msg))
    IN  [c |-> c,
         y |-> [i \in 1 .. P(m) |-> Chain(key.id, key.q, i - 1, 0, a[i], key.x[i])]]

(* mutant of OtsSpent: only the flag is cleared                             *)
OtsSpent_FlagOnly(m, key) == [key EXCEPT !.valid = FALSE]

(* mutant of OtsSpent: the secrets are dropped instead of zeroed            *)
OtsSpent_Emptied(m, key) == [q |-> 0, id |-> ZeroId, valid |-> FALSE, x |-> <<>>]

(* The key after a signature: all fields zeroed, no longer valid.           *)
OtsSpent(m, key) ==
    [q |-> 0, id |-> ZeroId, valid |-> FALSE, x |-> [i \in 1 .. P(m) |-> ZeroHash]]

(* Signature::recover_pubkey: the rest of every chain, then the same hash.  *)
RecoverPubkey(m, sig, id, q, msg) ==
    LET a == expand(m, MessageHash(id, q, sig.c, msg))
    IN  [q |-> q, id |-> id,
         k |-> H(<<id, q, D_PBLC,
                   [i \in 1 .. P(m) |-> Chain(id, q, i - 1, a[i], Top(m), sig.y[i])]>>)]

(* Verifier::verify of an LM-OTS verifying key.                             *)
OtsVerify(m, pk, msg, sig) == RecoverPubkey(m, sig, pk.id, pk.q, msg).k = pk.k
=============================================================================
