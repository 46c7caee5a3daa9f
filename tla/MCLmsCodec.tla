----------------------------- MODULE MCLmsCodec -----------------------------
(* Modes that differ in one constant at a time, as the shipped ones do:     *)
(* same hash, another height; same height, another window.                  *)
EXTENDS LmsCodec

MCMode(tc, h, otstc, p) ==
    [TC |-> tc, H |-> h, M |-> 2, OtsTC |-> otstc, P |-> p, N |-> 2]

MCModes == {MCMode(5, 1, 3, 3), MCMode(6, 2, 3, 3), MCMode(5, 1, 4, 2)}
=============================================================================
