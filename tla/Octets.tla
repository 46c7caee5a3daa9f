------------------------------- MODULE Octets -------------------------------
(* Big-endian byte strings as integers, as hexadecimal text, and as DER's    *)
(* INTEGERs, and back.                                                       *)
EXTENDS Integers, Sequences, SequencesExt

IsOctets(bytes) == bytes \in Seq(0 .. 255)

Value(bytes) ==
    LET value[i \in 0 .. Len(bytes)] == IF i = 0 THEN 0 ELSE 256 * value[i - 1] + bytes[i]
    IN  value[Len(bytes)]

(* n in exactly len bytes.                                                  *)
Octets(n, len) == [i \in 1 .. len |-> (n \div 2 ^ (8 * (len - i))) % 256]

(* Without the leading zeros; sought among few numbers.                     *)
BitLength(n) ==
    CHOOSE b \in 0 .. 16 + n \div 2 ^ 16 : n < 2 ^ b /\ (b = 0 \/ 2 ^ (b - 1) <= n)
-----------------------------------------------------------------------------
(* Characters are their ASCII codes.                                        *)
Digits == 48 .. 57
Upper  == 65 .. 90
Lower  == 97 .. 122

HexDigit(v, letter) == IF v < 10 THEN 48 + v ELSE letter + v - 10

(* letter is the code of the digit ten: 65 or 97.                           *)
Hex(bytes, letter) ==
    [i \in 1 .. 2 * Len(bytes) |->
        HexDigit(IF i % 2 = 1 THEN bytes[(i + 1) \div 2] \div 16 ELSE bytes[i \div 2] % 16,
                 letter)]

(* One digit in either case.                                                *)
HexValue(c) ==
    IF c \in Digits THEN {c - 48} ELSE IF c \in 65 .. 70 THEN {c - 55}
    ELSE IF c \in 97 .. 102 THEN {c - 87} ELSE {}
-----------------------------------------------------------------------------
(* What the ecdsa and dsa crates use of the der crate: a SEQUENCE of        *)
(* INTEGERs that are not negative.  Lengths stay below 128, where DER has   *)
(* one form.                                                                *)
SEQUENCE == 48
INTEGER  == 2

(* UintRef: encoded without needless zeros, with one where the top bit of   *)
(* the first byte would make the INTEGER negative.                          *)
EncodeUint(n) ==
    LET len  == IF n = 0 THEN 1 ELSE (BitLength(n) + 7) \div 8
        body == Octets(n, IF Octets(n, len)[1] >= 128 THEN len + 1 ELSE len)
    IN  <<INTEGER, Len(body)>> \o body

(* UintRef::decode of the INTEGER at byte start: where its digits begin and *)
(* where they end.                                                          *)
DecodeUint(bytes, start) ==
    LET len  == bytes[start + 1]
        body == start + 2
        end  == body + len - 1
    IN  IF /\ Len(bytes) > start
           /\ bytes[start] = INTEGER
           /\ len \in 1 .. 127
           /\ end <= Len(bytes)
           /\ bytes[body] < 128
           /\ len > 1 /\ bytes[body] = 0 => bytes[body + 1] >= 128
        THEN {<<IF len > 1 /\ bytes[body] = 0 THEN body + 1 ELSE body, end>>}
        ELSE {}

(* UintRef::from_der: one INTEGER and nothing after it, as its value.       *)
UintFromDer(bytes) ==
    {Value(SubSeq(bytes, r[1], r[2])) : r \in {t \in DecodeUint(bytes, 1) : t[2] = Len(bytes)}}

EncodeSequence(numbers) ==
    LET body == FlattenSeq([i \in DOMAIN numbers |-> EncodeUint(numbers[i])])
    IN  <<SEQUENCE, Len(body)>> \o body

(* The byte ranges of count INTEGERs, when the bytes are one SEQUENCE of    *)
(* them and of nothing else.                                                *)
DecodeSequence(bytes, count) ==
    LET read[i \in 0 .. count] ==
            IF i = 0 THEN {<<>>}
            ELSE UNION {{Append(rs, r) :
                            r \in DecodeUint(bytes, IF i = 1 THEN 3 ELSE rs[i - 1][2] + 1)}
                          : rs \in read[i - 1]}
    IN  IF Len(bytes) < 2 \/ bytes[1] # SEQUENCE \/ bytes[2] # Len(bytes) - 2 THEN {}
        ELSE {rs \in read[count] : rs[count][2] = Len(bytes)}
=============================================================================
