------------------------------ MODULE LmsCodec ------------------------------
(***************************************************************************)
(* A value of one of the five types is written in one mode, its bytes may   *)
(* be damaged on the way, and they are parsed in the same or another mode.  *)
(***************************************************************************)
EXTENDS LmsBytes

CONSTANTS
    Modes,      \* the LMS modes, each with its LM-OTS mode
    Qs          \* the numbers tried for q, in values and as damage

(* A typecode names one set of constants, as in the modes the crate ships.  *)
ASSUME ModesAssumption ==
    /\ Modes \subseteq [TC : Nat, H : Nat \ {0}, M : Nat \ {0},
                        OtsTC : Nat, P : Nat \ {0}, N : Nat \ {0}]
    /\ \A m, n \in Modes :
           /\ m.TC = n.TC => m.M = n.M /\ m.H = n.H
           /\ m.OtsTC = n.OtsTC => m.N = n.N /\ m.P = n.P

ASSUME QsAssumption == Qs \subseteq Nat

VARIABLES
    mode,       \* the mode the value was written in
    kind,       \* its type
    value,      \* the value
    bytes,      \* its bytes, as they are when parsed
    damage,     \* "none", "shorter", "longer" or "word"
    result      \* what parsing returned; <<>> before
    
vars == <<mode, kind, value, bytes, damage, result>>

Kinds == {"OtsVk", "OtsSig", "LmsVk", "LmsSig", "LmsSk"}

(* The values of a type: q is the only field a parser looks into.           *)
Values(m, k) ==
    LET id   == Opaque("id", ID_LEN)
        ots  == [c |-> Opaque("c", m.N), y |-> [i \in 1 .. m.P |-> Opaque(<<"y", i>>, m.N)]]
        path == [i \in 1 .. m.H |-> Opaque(<<"path", i>>, m.M)]
    IN  CASE k = "OtsVk"  -> {[id |-> id, q |-> q, k |-> Opaque("k", m.N)] : q \in Qs}
          [] k = "OtsSig" -> {ots}
          [] k = "LmsVk"  -> {[id |-> id, k |-> Opaque("k", m.M)]}
          [] k = "LmsSig" -> {[q |-> q, ots |-> ots, path |-> path] :
                                  q \in Qs \cap 0 .. 2 ^ m.H - 1}
          [] k = "LmsSk"  -> {[q |-> q, id |-> id, seed |-> Opaque("seed", m.M)] :
                                  q \in Qs \cap 0 .. 2 ^ m.H}

Encode(m, k, v) ==
    CASE k = "OtsVk"  -> OtsVkBytes(m, v)
      [] k = "OtsSig" -> OtsSigBytes(m, v)
      [] k = "LmsVk"  -> LmsVkBytes(m, v)
      [] k = "LmsSig" -> LmsSigBytes(m, v)
      [] k = "LmsSk"  -> LmsSkBytes(m, v)

Decode(m, k, b) ==
    CASE k = "OtsVk"  -> ParseOtsVk(m, b)
      [] k = "OtsSig" -> ParseOtsSig(m, b)
      [] k = "LmsVk"  -> ParseLmsVk(m, b)
      [] k = "LmsSig" -> ParseLmsSig(m, b)
      [] k = "LmsSk"  -> ParseLmsSk(m, b)

Init ==
    /\ mode \in Modes
    /\ kind \in Kinds
    /\ value \in Values(mode, kind)
    /\ bytes = Encode(mode, kind, value)
    /\ damage = "none"
    /\ result = <<>>

Intact == damage = "none" /\ result = <<>>

Truncate ==
    /\ Intact
    /\ \E n \in 0 .. Len(bytes) - 1 : bytes' = Take(bytes, n)
    /\ damage' = "shorter"
    /\ UNCHANGED <<mode, kind, value, result>>

Extend ==
    /\ Intact
    /\ \E q \in Qs : bytes' = Append(bytes, U32(q))
    /\ damage' = "longer"
    /\ UNCHANGED <<mode, kind, value, result>>

Overwrite ==
    /\ Intact
    /\ \E n \in 1 .. Len(bytes), q \in Qs :
           /\ bytes[n] # U32(q)
           /\ bytes' = [bytes EXCEPT ![n] = U32(q)]
    /\ damage' = "word"
    /\ UNCHANGED <<mode, kind, value, result>>

Parse(m) ==
    /\ result = <<>>
    /\ result' = <<m, Decode(m, kind, bytes)>>
    /\ UNCHANGED <<mode, kind, value, bytes, damage>>

Next == Truncate \/ Extend \/ Overwrite \/ \E m \in Modes : Parse(m)

Spec == Init /\ [][Next]_vars
-----------------------------------------------------------------------------
Parsed    == result # <<>>
Under     == result[1]
Outcome   == result[2]

Errors == {"NoAlgorithm", "WrongAlgorithm", "TooShort", "TooLong", "InvalidQ"}

(* Writing and parsing in the same mode gives the value back, for the four  *)
(* types other than the signing key.                                        *)
RoundTrip ==
    Parsed /\ damage = "none" /\ Under = mode /\ kind # "LmsSk"
        => Outcome = Ok(value)

(* A prefix and an extension of an encoding are refused with an error that  *)
(* says so, unless an earlier test already told the mode is another.        *)
ResizedRefused ==
    Parsed => /\ damage = "shorter" =>
                     Outcome \in {Err(e) : e \in {"NoAlgorithm", "TooShort"}
                                          \cup IF Under = mode THEN {} ELSE Errors}
              /\ damage = "longer" =>
                     Outcome \in {Err(e) : e \in {"TooLong"}
                                          \cup IF Under = mode THEN {} ELSE Errors}

(* Bytes written in one mode are never accepted in another: the typecodes   *)
(* are what tells apart encodings of one length (ots/signature.rs:75,       *)
(* lms/public.rs:136,144, lms/signature.rs:121).                            *)
SameModes(m, n, k) ==
    IF k \in {"OtsVk", "OtsSig"} THEN m.OtsTC = n.OtsTC ELSE m = n

OtherModeRefused ==
    Parsed /\ damage # "word" /\ Outcome[1] = "ok" => SameModes(Under, mode, kind)

(* An accepted signature names a leaf of the tree, whatever its bytes were: *)
(* verify and its node numbers rely on it (lms/signature.rs:101-104).       *)
AcceptedIndexInTree ==
    Parsed /\ kind = "LmsSig" /\ Outcome[1] = "ok" => Outcome[2].q \in 0 .. 2 ^ Under.H - 1

(* lms/private.rs:178: once its length is right, "pk is now guaranteed to   *)
(* be of the form otstype || q || id || seed", which the parser then reads: *)
(* a signing key written in a mode and parsed in it is the same key.        *)
SigningKeyRoundTrip ==
    Parsed /\ damage = "none" /\ Under = mode /\ kind = "LmsSk"
        => Outcome = Ok(value)
=============================================================================
