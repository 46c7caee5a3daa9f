# A TLA+ verification of `bifurcation/signatures`

The repository is a Rust workspace of digital signature crates. This directory holds
TLA+ models of its stateful and algorithmic cores, the TLC configurations that check
them on small instances, and proofs, checked by TLAPS, of the properties that matter
most. Sources are cited as `crate/src/file.rs:line`, relative to the repository root.

## 1. The system

| component | state it keeps | operations | what is hard | correct when |
|---|---|---|---|---|
| LM-OTS (`lms/src/ots`) | a signing key `q, id, x, valid` | `new`, `new_from_seed`, `public`, `try_sign_with_rng`, `verify` | the key must be gone after one signature, and a call may fail in the middle | one signature per key; it verifies, and only it |
| Winternitz encoding (`ots/modes.rs`, `ots/util.rs`) | none | `coefs`, `expand` | 16-bit checksum, its shift, partial coefficients | no two messages have comparable encodings |
| LMS tree (`lms/private.rs`, `gen_pk_tree`) | the tree array under construction | two nested loops | reads of entries that are not filled yet | every entry filled from its children |
| LMS verification (`lms/public.rs`) | running hash, node number | the path loop | left or right by parity; untrusted `q` | accepts exactly what the signer sends for an index |
| LMS signer (`lms/private.rs`) | `id, seed, q, tree` | `new_from_seed`, `try_sign_with_rng`, to bytes, from bytes | counter, exhaustion, failing generator | within one object, no one-time key signs twice |
| LMS wire formats | none | five `From`/`TryFrom` pairs | nested lengths, type codes, indices | round trip; nothing else accepted |
| RFC 6979 (`rfc6979/src`) | `HmacDrbg { k, v }` | `new`, `fill_bytes`, `generate_k_mut` | state between rejected candidates, byte-wise arithmetic | the nonce of the RFC, in range, of one call for one q only |
| DSA (`dsa/src`) | `p, q, g, x, y` | parameter and key generation, sign, verify, DER | bounds of `x`, `k`, zero `r` or `s`, hash truncation | signatures verify; values in range |
| ECDSA (`ecdsa/src`) | scalars and points of another crate | keys and signatures to and from bytes, hexadecimal and documents; sign, verify, recover, normalise; OIDs | recovery id after the low-s flip and when `R.x` exceeds the order; three tables of OIDs | the recovered key is the signer's; one encoding per signature; one hash per OID |
| SLH-DSA (`slh-dsa/src`) | a key of two secret seeds, a public one and a root; an ADRS handed from function to function | WOTS+, XMSS, hypertree and FORS keys, signatures; keys to and from bytes | addresses copied and changed by callee after callee | no address twice with two inputs; each WOTS+ key signs one value; exactly what was signed verifies |
| Ed25519, Ed448 (`ed25519/src`, `ed448/src`) | signatures, key pairs and public keys of fixed-size bytes | components, hexadecimal, tuples, PKCS#8 and SPKI, conversions | an optional public key; two crates that differ in sizes and an OID | only spellings of an object read as it; parts follow it; the crates stay apart |
| ML-DSA (`ml-dsa/src`) | none | none: an empty crate | - | - |

Interactions are plain calls. LMS calls LM-OTS once per leaf to build its tree and once
per signature; `verify` rebuilds the one-time public key and folds it up the path. DSA and
ECDSA call `rfc6979::generate_k(_mut)` once per signature. SLH-DSA signs a digest with
FORS, the FORS key with the lowest XMSS tree, and every tree's root with the next one.
There are no threads and no messages. What makes the code hard to test is (a) long
sequences of legal calls on an object whose keys are one-time, (b) calls that fail half
way, (c) state copied through serialisation, (d) loops over index arithmetic, and
(e) fixed-width arithmetic at its boundaries. `PROJECT.json` lists each at its line.

## 2. Modules and plan

Written, in order:

1. `Winternitz`, `WinternitzExpand` - the encoding and the shipped modes.
2. `SymbolicHash`, `OtsChains`, `LmOts` - LM-OTS, refining `OneTimePool`; `MCLmOts` runs 1
   and 2; `OtsChains_proofs`, and `LmOts_proofs` on 1 and 2.
3. `LmsTree` - tree construction.
4. `LmsVerify` - the verification loop; `LmsKeyLife`, `MCLmsKeyLife` - 3 and 4 composed, a
   key from its first leaf to signatures judged.
5. `LmsBytes`, `LmsCodec`, `MCLmsCodec` - wire formats; `Lms_proofs` on 3, 4 and 5.
6. `LmsSigner`, `MCLmsSigner` - the signer, composed of 1, 2 and the tree's result, refining
   `OneTimePool`; `LmsSigner_proofs`.
7. `HmacDrbg`, `Octets`, `Rfc6979`, `MCRfc6979` - deterministic nonces of both callers,
   refining `Rfc6979Steps`, the steps of the RFC.
8. `Octets`, `Ecdsa`, `EcdsaKeys`, `EcdsaDer`, `EcdsaSession`, `MCEcdsa` - ECDSA over
   small curves: keys, recovery, five forms of a signature, OIDs; `EcdsaSession_proofs`.
9. `SlhDsa`, `SlhSession`, `MCSlhDsa` - SLH-DSA: addresses, the four constructions, and a
   session of signing and verifying; `SlhParams` - the twelve parameter sets;
   `SlhSession_proofs`.
10. `Dsa`, `DsaSession`, `MCDsa` - DSA over small groups: parameters, keys, signatures and
    documents; `DsaSession_proofs`.
11. `EdContainers`, `Ed448`, `EdSession`, `MCEdSession` - the containers of both Edwards
    curve crates.

`BasicFacts` has the facts about numbers and strings that the proofs share.

Left, in this order:

12. For DSA: the nonces of `Rfc6979` fed into `DsaSession`, in place of any nonce in range;
    the proof that generation is sound, which needs that a prime field has a generator.
13. For SLH-DSA: the proof that addresses are not shared, over a definition of the hashes
    behind a value that is not recursive.

## 3. How the models correspond to the code

**Hashes are terms.** `SymbolicHash!H(input)` is the term of its input, so equal hashes
have equal inputs: collisions are outside the model, everything the code feeds to a hash
is inside. Only the message hash is also needed as bytes, to be expanded into chain
positions: the constant operator `Digest` gives them.

**`Winternitz`** computes on real byte values: `coefs` with its masks and shifts, the
checksum modulo 2^16 with its left shift, `expand`. `WinternitzExpand` makes pairs of
hashes its states (`ExpandSpec`; its names differ from those of `LmOts`, as one module
runs and one proves both). It also writes down the shipped modes as the type aliases and
`const_assert`s of `ots/modes.rs` and `lms/modes.rs` do; an assumption compares every
number there with the one the algorithms compute, and TLC evaluates it.

**`LmOts`**: an object's `key[o]` is the struct `SigningKey`; `NewFromSeed`, `Public`,
`Sign` (the whole of `try_sign_with_rng` including the zeroing), `SignRefused` (the
early return) and `SignInterrupted` (the caller's generator panics in `fill_bytes` and
the caller survives) are its methods. Methods take `&mut self`, so each is one step.

**`LmsTree`** has one action per iteration of each loop of `gen_pk_tree`; the array is
one-based as `pk_tree` is used, and `EMPTY` stands for the zeroed entry. 

**`LmsVerify`** (`VerifySpec`) has one action per round of the path loop. The start of a
call chooses the leaf the key and path come from, the index claimed and one altered entry;
calls follow one another without end. The tree is a variable that verification leaves alone:
in **`LmsKeyLife`** it is the array that `LmsTree` has filled.

**`LmsBytes`** parses sequences of bytes field by field, with every early return, in the
code's order; a slice index out of range or an `unwrap` of an error is `Panic`.
`LmsCodec` starts from an encoded value, alters the bytes and parses them in a mode.

**`LmsSigner`** keeps the struct's fields per object plus the set of byte images written.
Its key is a record whose tree is the result `LmsTree` is checked to compute.
`SignatureOf` collects the path the way the loop at `lms/private.rs:121-123` does, `Load`
is the parser: a panic, as the code does (see the findings), so an image never becomes
a key, and what two keys read from the same bytes would sign is not reached. `OneTimeUse`
claims nothing of them: `lms/README.md:57-61` leaves it to the program not to read a key
twice. `sigs` and `origin` are history.

**`HmacDrbg`** keeps an HMAC as the term of its key and of what was absorbed since the last
reset, with the two calls that reset it apart. **`Rfc6979`** computes `lt`, `is_zero`,
`leading_zeros` and `rshift` on real bytes, borrow and carry included. It has one action per
round of `HmacDrbg::new`, per block of `fill_bytes`, and per turn of the rejection loops of
`generate_k_mut` and of `dsa`'s `secret_number_rfc6979`. The bytes of an HMAC term are chosen
when first looked at and stay. `Rfc6979Steps` does the same from the text of RFC 6979 with
integers: octets, truncation to the bits of q, comparison.

**`Ecdsa`** takes a curve as a table of the points' coordinates, indexed by their
discrete logarithm, so that scalars act on points by multiplication modulo the order;
field arithmetic is another crate's. It translates `hazmat.rs` and `recovery.rs`
function by function; an `Err` is an empty set of results. **`EcdsaKeys`** reads and writes
keys as slices, SEC1 points and documents (records of a curve and bytes). It also has the
constants and the table of OIDs, `SignatureWithOid`'s constructors and parser, and the
entry points that hash: a digest is a name, a constant operator gives the hash of a message.
**`EcdsaDer`** writes and parses fixed-width and DER forms and their hexadecimal on real
bytes; `Octets` has the INTEGERs of the `der` crate. **`EcdsaSession`** loads a key,
publishes it in one of three forms, signs through one of the entry points or imports two
numbers, normalises, labels with an OID, sends, damages and reads. `under` is history: the
digest an OID was taken from.

**`EdContainers`** is written once, over the sizes and the OID; `EdSession` takes it for
Ed25519 and, as **`Ed448`**, with that crate's numbers and the functions it has.
**`EdSession`** holds one object, writes it in any form, alters what was written (at most
`MaxAlterations` times), reads it with either crate, and goes on with what was read.
`first` and `replaced` are history: the object held at first, and the parts altered since.

**`SlhDsa`** has the struct layouts as words of one record and the transitions between them,
and translates each algorithm; a hash is the term of the public seed, its compressed address
and inputs, the same term whatever suite function made it, and what WOTS+ signs is the bytes
a constant operator gives a term. **`SlhSession`** has one action per round of the loops of
`ht_sign` and `ht_verify`, with `idx_tree`, `idx_leaf`, `adrs` and `root` as the functions'
locals; the code before the loops is one action. `Reload` writes the signing key and reads it
back, with one block replaced or their number changed. `Send` is the channel: it replaces a
block of the signature or of the verifying key by a foreign one or by its neighbour, changes
their number, or presents the signature for something else. A digest is drawn when first
asked for. `AddressesUnshared`, which descends into the terms, is in `MCSlhDsa`.

**`SlhParams`** writes down the parameter sets as the types in `hashes/sha2.rs` and
`hashes/shake.rs` do. Its assumption compares every length written there, and those of
signatures and keys, with the length `SlhDsa` derives from the heights; TLC evaluates it.

**`Dsa`** computes on real integers of up to eleven bits, function by function: what a
random generator may lead to is a set (the primes `common` may find, the nonces that
`secret_number` and the RFC 6979 loop may return), an `Err` an empty set. **`DsaSession`**
generates or takes parameters, then a key; it signs with any nonce possible, assembles a
signature from two numbers, or exports the key; signatures and the fields of key documents
are real DER bytes, damaged and read. The phases `panicked` and `hung` are the `expect`s
of key generation and the loop of `secret_number_rfc6979` without a nonce to find: both
are reached for given parameters, which the code does not check for the order of `g` or
the size of `q`, and never for generated ones of at least eight bits. Loops that retry
until a random draw is good are one step to their result.

**`OneTimePool`** is the abstract specification: a pool of `Capacity` indices, each
spent on at most one message, in the order of the index; calls are answered by a
signature while an index is left and refused afterwards.

## 4. Runs

| run | what it asks | bounds, and why they are enough |
|---|---|---|
| `lm_ots` | no encoding dominates another; checksum and shift lose nothing; the shipped modes are consistent; one signature per key, key zeroed, published keys verify, refinement | all one-byte hashes against all others, in the four windows, and hashes of the shipped sizes at their boundary values: the checksum is linear, so its extremes are at all-zero and all-one hashes; two objects, two seeds (equal or not), two indices, randomizers and messages: two keys are what a confusion needs (`MCSpec` does the one or the other) |
| `lms_key_life` | the array is filled correctly and entirely; acceptance is exactly the signer's path, call after call; every loop ends | thirty-two leaves, the smallest shipped height; indices, keys and paths of first, last, neighbouring and far leaves crossed; every level's entry replaced by nodes of every level |
| `lms_codec` | round trip, sizes, modes, ranges | every parser, in units of four-byte words; three modes that differ in the tree's height (1 or 2) or in the number of chains (3 or 2); hashes of two words; words from 0 to 5, among which are type codes and indices at and beyond the last leaf |
| `lms_codec_signing_key` | finding: the signing key parser | the same |
| `lms_signer` | counter, one-time use, verification, refinement | two objects and trees of four leaves: exhaustion is reached on both, with failures and saves in between |
| `rfc6979` | both nonce loops compute the RFC's nonce; different calls draw a common HMAC value only for values of q of two widths | two calls, one rejection each, two-byte digests; q of 7 to 24 bits (8 and 16 for DSA), so that a candidate is part of a block, a block, or more than one, shifted or not; extra data of none and two bytes; a pair of calls that seed alike for q of two widths; blocks that make candidates of zero, q, and next to q |
| `rfc6979_dsa_short_key` | finding: the unpadded secret key | the same, a key with a leading zero byte |
| `ecdsa` | every entry point accepts what the others sign; recovery id; agreement of verification and recovery; normalisation; encodings; OIDs | three curves: order below the field (points whose x exceeds it), above it (points with x = 0), and 8 bits (DER's leading zero); all nonces and pairs of scalars on the small ones; keys of every value up to the order, short, empty, long, and of another curve; signatures travel and get OIDs on the curves of `Wired`, with one byte or character damaged (`Wrong`, `WrongText`), cut or added; messages of `Said` under the curve's own digest, others of the table, and one without OID |
| `ecdsa_trait` | finding: a signature's bytes read as one with the curve's OID | the same |
| `slh_dsa` | exactly what was signed is accepted, under the key as it was made; addresses and WOTS+ keys are not shared | two signatures; three layers of four leaves and three FORS trees of four, the smallest with a middle layer and paths of two levels; digests with bits above every mask, two of them in one leaf; every block of signature and keys altered; a key read from damaged bytes signs once (`Kept`) |
| `eddsa` | only spellings of an object read as it; its parts follow it; the crates stay apart | both crates in their real sizes; two alterations anywhere in a chain of conversions; positions at and around the boundaries of the headers and the smaller crate's parts (`Positions`); letters in and beyond the hexadecimal ones, both cases, a sign |
| `dsa` | generation is sound; exactly the signatures of the equation verify; documents keep their content | all parameters of 6 and 4 bits and of 10 and 8 bits that generation can find; given ones with `g` of another order, 1, `p` and beyond, composite `p` and `q`, a `q` of nine bits; every `r` and `s` up to two beyond `q` where `q` has four bits (`SmallQ`); keys and signatures travel for five values of `p` (`Wired`), one of them with a `q` that needs DER's leading zero |

Deadlock is off only where the program may stop: objects are exhausted, loops end, the
bounds `MaxCalls` and `MaxTries` are reached, a signature is judged. Each cfg says which.

`AcceptsNothingElse` in `slh_dsa` asks of its instance that no two values that are signed have
the same two bytes; an honest collision would show as an accepted alteration, and none occurs.

Where a type invariant could only say what the operators say themselves (`lms_codec`,
`rfc6979`, `eddsa`) none is run; the other properties are violated by values out of range.

**Fairness.** `LmsKeyLife` asks weak fairness of the steps of `gen_pk_tree` and, separately,
of the rounds of a call of `verify` that has begun: the thread that runs a function keeps
running. Starting a call is not fair: nobody owes one. Nothing else uses fairness.

## 5. Proofs

Eight modules hold theorems; what is said here is proved for every value of the constants.

**`BasicFacts`** has no theorem about the code. Induction is stated there of sets of numbers
(`LeastElement`, `IntervalInduction`, `DownwardInduction`), which the provers can instantiate
where an operator they cannot, and the powers of two come from the cardinality of the set of
subsets. It also has the bits of a number, the running values of a byte string, congruence,
and what is cut out of strings put together. A recursive function is a `CHOOSE`: before a proof
uses its recursion it shows, by that induction, that such a function exists.

**`OtsChains_proofs`** is what the LMS proofs rest on. Of the encoding it shows that the
coefficients `coefs` takes out by masks and shifts are the fields of the bytes, that the
checksum of any hash fits in its V coefficients, that its shift drops no bit, and so
what `expand` returns. Of the chains it shows that a value is reached from one key, chain and
position only: every hash names all three, and the hash that makes a secret has a position
after all others. `KeyRecovered` follows: a one-time public key recovered from a
signature is that of a key made from an identifier, index and seed exactly when that key made
the signature, on a message of the same hash. Any chain walked from another position, or of
another key, ends elsewhere, and equal positions in all chains are equal hashes.

**`LmOts_proofs`** begins with the encoding's two promises, for every mode that compiles:
`ChecksumLossless`, that the V coefficients packed are the sum of the negated coefficients,
and `NoDomination`, that no encoding is at or above another in every chain. The second is the
first and an order turned round: coefficients at or above others have a sum at or below,
packing keeps the order, so both are equal. Then the keys: type correctness, `OneTimeUse`,
`PublishedKeyVerifies`, and that LM-OTS implements `OneTimePool`. `IInv` adds that a key in
memory is either the whole key its object was made as or the zeroed one, never a part of it,
that a zeroed key has signed, and that what was signed or published was the object's own.

**`Lms_proofs`** has three parts. Of key generation it proves that `gen_pk_tree` fills every
entry from its children and reads none before that (`FilledCorrectly`), and that under the
tree it leaves, over any number of calls, `verify` accepts exactly the one-time key and path
the signer collects for the index. `FilledCorrectly` is not inductive: `GenInv` says which
entries are filled between two iterations, level by level, the ones up to the ancestor of
the last finished leaf. For verification, `VerifyInv` says that `tmp` is the tree's entry at
the node reached exactly when everything consumed so far matched it (`RunningHash`);
acceptance follows at the root. The composed specification's `LifeInv` is the first until
the tree is complete, and both after.

Of the wire formats it proves that the four types that can be read at all are read back from
their bytes, bytes that were cut, extended or written in a mode of other constants are
refused, and that an accepted index is a leaf's. `IInv` ties the bytes to those written, as
far as the damage says. The argument goes by layout: where each field stands in the bytes,
what each parser answers to any bytes at all, and what both say of bytes that agree as far
as they go. `LmsSkNever` shows the first finding for every input: no bytes are ever accepted
as a signing key.

**`LmsSigner_proofs`**: type correctness, that the counter of a live key equals the number
of its signatures and they used exactly the indices below it, `OneTimeUse`,
`SignaturesVerify`, and that the signer implements `OneTimePool`. One-time use alone is not
inductive: it needs to know which indices a key has used
(`CounterMatchesSignatures`) and that signatures belong to made keys. It is claimed of an
object as long as no other has its identifier and seed, whether made again or read from kept
bytes: nothing in the code can notice that, and `lms/README.md:57-61` leaves it to the
program. That no image becomes a key (the parser's panic) is used for the counters only:
a key read back would start above 0 without a signature. For `SignaturesVerify`,
`VInv` adds that a live key's tree and a published root are the ones
computed from identifier and seed, and that every signature was made from its
object's; folding a signature's path meets that root by induction over levels, and a root
met by a foreign one would be a collision.

**`EcdsaSession_proofs`** states six properties for every curve of prime order and cofactor
one: `TypeOK`, `SignerRecovered`, `VerifyIffRecoverable`, `NormalizePreserves`,
`OidNamesHash` and `WireCanonical`. The first four rest on one equation, `s R = z + r Q`
modulo the order (`Fits`): signing makes a solution, `verify_prehashed` asks for one whose
point has the x coordinate `r` stands for, recovery solves for `Q`. Each of point and key
determines the other; a recovery id names one point, and negating `s` negates the point and
flips the id's parity, which is what the low-s step does. The encodings are shown to be
exact: a number has one form as a DER INTEGER, a pair of INTEGERs one as a SEQUENCE, a byte
one as two digits up to their case, and each reader accepts just what its writer wrote.
`IInv` has three parts: whose the keys are (`KeysInv`); that a signature at hand is in range
and, when signed, comes from `sign_prehash` on what was said with some nonce (`SigInv`); and
what the wire may hold (`WireInv`). The properties alone are not inductive: that a signature
read from undamaged bytes verifies needs to know that the one sent did.

**`DsaSession_proofs`** states `TypeOK` and `VerifyIffEquation` for every parameter, key and hash,
generated or given. `modpow` is repeated squaring; its homomorphism (`PowerSum`, `PowerPower`)
is proved by induction over the bits, so that with `g^q = 1` exponents count modulo q
(`PowerOrder`). A number below a prime has an inverse by descent on remainders. The verifier's
`g^u1 y^u2` is then `g` to the nonce `s` was made with, and the equation of the signer is
all it tests. `TypeOK` is not about types only: `SigningKey::from_components` allows
`x = q`, and the proof is that such a key is never sound, its public component being 1.
`IInv` says that the parameters, key and signature at hand passed their constructors
and that a signature made here is what this key gives for the hash and some nonce.

**`SlhSession_proofs`** states `TypeOK`, `CarriesTreeRoot`, `OneValuePerKey` and `AcceptsOwn`
for every length of hash, number and height of trees and layers, and every key, message digest
and pair. Each loop of the algorithms is shown to be a member of one family of loops (`Run`), by
whose rounds the inductions go. A chain walked in two parts ends where it ends in one, and the
digits of N bytes and of their checksum are nibbles, so that verification recovers the one-time
key from a signature of anything (`WotsRecovers`). A climb with the path a signature carries
reaches, after k entries, the node k levels above the leaf, in an XMSS tree (`XmssRecovers`) and
in each of the FORS trees, where leaf and offset shift together (`ForsRecovers`). So what is
recovered depends on the address alone, not on what was signed: that is why a one-time key
never signs two values. The tree and leaf of a layer are those of the layer below, divided; at
the last layer the tree is 0 (`Path`, `PathEnds`). Signatures and keys are read as they are
written, block by block (`RoundTrip`). The properties are not inductive: `TInv` says that the
address in the frame is that of the tree last entered; `RInv` that the loops of `ht_sign` and
`ht_verify` are on the digest's path and carry what the leaf there signs, that the signature has
exactly the layers done, that every value signed is its leaf's, and, if nothing was altered on
the way, that the verifier has the signer's signature and key.

**What the proofs assume.** Hashes are terms, hence injective. `ModesAssumption` (and
`ModeAssumption`): a mode is one that compiles, with the widths its `const_assert`s and type
aliases fix; in `LmsCodec`, a type code determines its mode's numbers, as in the tables of
`ots/modes.rs` and `lms/modes.rs`. `DigestAssumption`: a message hash has N bytes, and under
one leaf and randomizer no two of the messages in use have the same. `AbsentAssumption`: the
values that stand for no key are not keys. `PresentedAssumption`: a parsed signature's index
is a leaf's, which `Lms_proofs` shows of the parser (`IndexCorrect`). `CurvesAssumption`:
scalars other than 0 have inverses, each x coordinate belongs to a point and its negative,
whose y coordinates differ in parity, and is below twice the order (Hasse's bound, for
curves of cofactor one); a field element has at most 60 bytes, so that the length of a
SEQUENCE is one byte: P-256, P-384 and secp256k1 are covered, P-521 is not.
`ScalarsAssumption`, `TextsAssumption`, `DigestsAssumption`, `WrongAssumption`,
`NoneAssumption`: nonces are scalars, imported numbers natural, hashes bytes, the names of
digests those of the table, damage bytes or characters. DSA has `NumbersAssumption` only:
what is given are natural numbers, and hashes are bytes; that p and q are what they should
be is part of the properties, as `Sound`. SLH-DSA has `SlhParameters`, sizes and heights
above 0, and its own `DigestsAssumption`, that a digest has the bytes `split_digest` takes
from it. Its theorems other than type correctness have the hypothesis `HashBytes`, that the
bytes of every value are N octets: the return type of the suites' functions, `Array<u8, N>`.
It ranges over all values, so TLC cannot evaluate it; the bytes of the run's terms
(`MCBytesOf`) are such. Sets of objects, messages, seeds and identifiers are arbitrary. TLC
evaluates each of the assumptions on the runs' instances.

**Only model-checked.**

* `Terminates` of `LmsKeyLife`: liveness under fairness is out of the prover's reach.
* RFC 6979: `NoncesUnshared`, stated for values of q of one width, rests on a term never
  containing itself, an axiom of foundation the provers do not have, and the refinement of
  `Rfc6979Steps` on folds over bytes.
* DSA: `GenerationSound` needs Fermat's theorem and an element of order q, and with them
  products over a whole field; `Interchange`, whose DER lengths are right below 128 bytes only,
  is a statement about the small numbers of the run.
* SLH-DSA: `AcceptsNothingElse` holds of N-byte hashes only as far as no two values that are
  signed have the same bytes, which the run's instance has and no theorem can assume of N bytes.
  The operator that lists the hashes for `AddressesUnshared` is `RECURSIVE`, which the module of
  a theorem may not reach.
* Ed25519 and Ed448: hexadecimal and byte strings are built by folds.

## 6. Findings

* `lms/src/lms/private.rs:179` splits a signing key's bytes at `ID_LEN` where the type
  code has four bytes; the `unwrap` after it panics for every well-formed input.
* `dsa/src/generate/secret_number.rs:47` seeds the generator with the secret key's bytes
  without leading zeroes, where RFC 6979 hashes as many octets as q has: for about
  one key in 256 the nonces are not the RFC's.
* `ecdsa/src/lib.rs:745`, `TryFrom<&[u8]> for SignatureWithOid`, said at lines 730-734 to
  assume the curve's default digest, hands the OID of the hash to `new`, which wants one that
  begins with `1.2.840.10045.4.3`: no signature is ever parsed.

Noted while modelling, without a run of their own.

LMS: a repaired parser of signing keys would make two keys of one state out of bytes read
twice, which `lms/README.md:57-61` warns of. `SigningKey::public` of a spent LM-OTS key is the
key of zeroed fields, and rejects the signature just made.

RFC 6979: the seed runs `x`, `h` and `data` together, and the asserts at
`rfc6979/src/lib.rs:94-96` tie the first two to the width of `q` only, so that calls of
`generate_k` for values of `q` of two widths may seed alike, as `x = 00 07`, `q = 03 ff`,
`h = 02 00`, `data = 09 05` and `x = 00 07 02`, `q = ff 00 ff`, `h = 00 09 05`, no data, do. The
run has this pair; `NoncesUnshared` excludes it for one width.

ECDSA: `new`, said at `ecdsa/src/lib.rs:557` to ask for the prefix `1.2.840.10045.4`, compares
one arc more, and takes an OID shorter than the prefix if it begins it.

Ed25519 and Ed448: `ed448/src/lib.rs:136` says that anything but 64 bytes is an error, and
`ed448/src/serde.rs:29` and 77 that 64 bytes are expected, where code and tests read and
write 114 (`ReadsOwnWritings` follows the code; the words are those of Ed25519). A key pair
document whose public key has unused bits is read without it; a tuple longer than a
signature reads as one.

DSA: a `p` generated for `l` bits may have fewer, when the draw is less than 2q above the
lower bound (in the `dsa` run half of the 10-bit ones do; for the shipped sizes the draw is
next to impossible); a key pair asked for over given parameters with `g` = 1 panics, and
deterministic signing over a given `q` below 128 never returns; a key document's public key
is not compared with `x`.

## 7. Not modelled

Hash functions, field and curve arithmetic are other crates, as are the readers and writers
of DER, PKCS#8, SPKI, SEC1 and hexadecimal but for the parts the models take from them: the
outer structures of key documents are records. `Debug` formatting, error wording, PEM and
zeroisation of memory on drop are left out.

That DSA's loops end is not claimed: each ends with the probability of its draws. SLH-DSA's
64-bit tree indices (the wrapping mask of `util.rs:41`) exceed TLC's integers, and its hash
suites are terms: which bytes of the SHA-2 and SHAKE inputs are padding is not looked at.
Keys with neighbouring parts exchanged are tried for signatures' blocks only, since a root
used as a seed makes terms too large to check. ML-DSA is an empty crate.
