------------------------------ MODULE LmsBytes ------------------------------
(***************************************************************************)
(* The wire formats of the LMS crate: the two LM-OTS types and three LMS    *)
(* types that convert to bytes and back (lms/src/{ots,lms}/*.rs).           *)
(* A byte string is a sequence of 4-byte words, which every field is a      *)
(* multiple of: lengths below are in words, and a string too short to hold  *)
(* a typecode has no word.  A mode is a record of the constants of an       *)
(* LmsMode with its OtsMode: [TC, M, H, OtsTC, N, P].                       *)
(***************************************************************************)
EXTENDS Integers, Sequences

ID_LEN == 4       \* 16 bytes

(* A word is a u32 or the n-th word of a named string of opaque bytes.      *)
U32(n)         == [tag |-> "u32", n |-> n]
Opaque(s, len) == [n \in 1 .. len |-> [tag |-> s, n |-> n]]

(* Opaque bytes read as a u32 are some large number.                        *)
ReadU32(w) == IF w.tag = "u32" THEN w.n ELSE 2 ^ 30 + w.n

Ok(v)  == <<"ok", v>>
Err(e) == <<"err", e>>
Panic  == <<"panic">>

Take(bytes, n) == SubSeq(bytes, 1, n)
Drop(bytes, n) == SubSeq(bytes, n + 1, Len(bytes))

(* bytes as count consecutive strings of len words.                         *)
Chunks(bytes, len, count) ==
    [k \in 1 .. count |-> SubSeq(bytes, (k - 1) * len + 1, k * len)]

Join(chunks) ==
    LET all[k \in 0 .. Len(chunks)] == IF k = 0 THEN <<>> ELSE all[k - 1] \o chunks[k]
    IN  all[Len(chunks)]

(* mutant of Sized: what is too long is not refused                         *)
Sized_AtLeast(bytes, expected, next) ==
    IF Len(bytes) < expected THEN Err("TooShort") ELSE next

(* The length test most parsers make: an error, or go on with next.         *)
Sized(bytes, expected, next) ==
    CASE Len(bytes) < expected -> Err("TooShort")
      [] Len(bytes) > expected -> Err("TooLong")
      [] OTHER                 -> next
-----------------------------------------------------------------------------
(* LM-OTS verifying key: typecode, id, q, k.                                *)
OtsVkBytes_QFirst(m, v) == <<U32(m.OtsTC), U32(v.q)>> \o v.id \o v.k   \* mutant

OtsVkBytes(m, v) == <<U32(m.OtsTC)>> \o v.id \o <<U32(v.q)>> \o v.k

ParseOtsVk(m, bytes) ==
    IF Len(bytes) < 1 THEN Err("NoAlgorithm")
    ELSE IF ReadU32(bytes[1]) # m.OtsTC THEN Err("WrongAlgorithm")
    ELSE LET pk == Drop(bytes, 1)
             qk == Drop(pk, ID_LEN)
         IN  Sized(pk, m.N + ID_LEN + 1,
                   Ok([id |-> Take(pk, ID_LEN), q |-> ReadU32(qk[1]), k |-> Drop(qk, 1)]))

(* LM-OTS signature: typecode, c, y[0] .. y[p - 1].                         *)
OtsSigBytes(m, v) == <<U32(m.OtsTC)>> \o v.c \o Join(v.y)

OtsSigLen(m) == 1 + m.N * (m.P + 1)

ParseOtsSig(m, bytes) ==
    IF Len(bytes) < 1 THEN Err("NoAlgorithm")
    ELSE IF ReadU32(bytes[1]) # m.OtsTC THEN Err("WrongAlgorithm")
    ELSE LET sig == Drop(bytes, 1)
         IN  Sized(sig, m.N * (m.P + 1),
                   Ok([c |-> Take(sig, m.N), y |-> Chunks(Drop(sig, m.N), m.N, m.P)]))

(* LMS verifying key: typecode, LM-OTS typecode, id, k.                     *)
LmsVkBytes(m, v) == <<U32(m.TC), U32(m.OtsTC)>> \o v.id \o v.k

ParseLmsVk_AnyOts(m, bytes) ==     \* mutant: the LM-OTS typecode is not checked
    Sized(bytes, m.M + ID_LEN + 2,
        IF ReadU32(bytes[1]) # m.TC THEN Err("WrongAlgorithm")
        ELSE LET idk == Drop(bytes, 2)
             IN  Ok([id |-> Take(idk, ID_LEN), k |-> Drop(idk, ID_LEN)]))

ParseLmsVk(m, bytes) ==
    Sized(bytes, m.M + ID_LEN + 2,
        IF ReadU32(bytes[1]) # m.TC THEN Err("WrongAlgorithm")
        ELSE IF ReadU32(bytes[2]) # m.OtsTC THEN Err("WrongAlgorithm")
        ELSE LET idk == Drop(bytes, 2)
             IN  Ok([id |-> Take(idk, ID_LEN), k |-> Drop(idk, ID_LEN)]))

(* LMS signature: q, the LM-OTS signature, typecode, path.                  *)
LmsSigBytes(m, v) ==
    <<U32(v.q)>> \o OtsSigBytes(m, v.ots) \o <<U32(m.TC)>> \o Join(v.path)

LmsSigLen(m) == 2 + OtsSigLen(m) + m.M * m.H

ParseLmsSig_QTooLarge(m, bytes) ==     \* mutant: ">" for ">=" in the test of q
    LET q    == ReadU32(bytes[1])
        ots  == ParseOtsSig(m, SubSeq(bytes, 2, OtsSigLen(m) + 1))
        rest == Drop(bytes, OtsSigLen(m) + 1)
    IN  Sized(bytes, LmsSigLen(m),
            IF q > 2 ^ m.H THEN Err("InvalidQ")
            ELSE IF ots[1] # "ok" THEN ots
            ELSE IF ReadU32(rest[1]) # m.TC THEN Err("WrongAlgorithm")
            ELSE Ok([q |-> q, ots |-> ots[2], path |-> Chunks(Drop(rest, 1), m.M, m.H)]))

ParseLmsSig(m, bytes) ==
    LET q    == ReadU32(bytes[1])
        ots  == ParseOtsSig(m, SubSeq(bytes, 2, OtsSigLen(m) + 1))
        rest == Drop(bytes, OtsSigLen(m) + 1)
    IN  Sized(bytes, LmsSigLen(m),
            IF q >= 2 ^ m.H THEN Err("InvalidQ")
            ELSE IF ots[1] # "ok" THEN ots
            ELSE IF ReadU32(rest[1]) # m.TC THEN Err("WrongAlgorithm")
            ELSE Ok([q |-> q, ots |-> ots[2], path |-> Chunks(Drop(rest, 1), m.M, m.H)]))

(* LMS signing key: typecode, LM-OTS typecode, q, id, seed.                 *)
LmsSkBytes(m, v) == <<U32(m.TC), U32(m.OtsTC), U32(v.q)>> \o v.id \o v.seed

(* The parser splits the LM-OTS typecode off at ID_LEN instead of at one    *)
(* word, so what it converts to a u32 is not four bytes: unwrap panics.     *)
ParseLmsSk(m, bytes) ==
    IF Len(bytes) < 1 THEN Err("NoAlgorithm")
    ELSE IF ReadU32(bytes[1]) # m.TC THEN Err("WrongAlgorithm")
    ELSE LET pk      == Drop(bytes, 1)
             otstype == Take(pk, ID_LEN)
             qk      == Drop(pk, ID_LEN)
             idseed  == Drop(qk, 1)
         IN  Sized(pk, m.M + ID_LEN + 2,
                IF Len(otstype) # 1 THEN Panic
                ELSE IF ReadU32(otstype[1]) # m.OtsTC THEN Err("WrongAlgorithm")
                ELSE Ok([q |-> ReadU32(qk[1]), id |-> Take(idseed, ID_LEN),
                         seed |-> Drop(idseed, ID_LEN)]))
=============================================================================
