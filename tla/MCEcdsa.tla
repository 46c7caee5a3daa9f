------------------------------ MODULE MCEcdsa ------------------------------
(***************************************************************************)
(* Three real curves y^2 = x^3 + a x + b of prime order n over a small      *)
(* field of p elements: one whose order is less than p, with points of x    *)
(* equal to n, and of x and x - n both; one whose order exceeds p, with     *)
(* points of x = 0; and one with scalars whose top bit is set.              *)
(***************************************************************************)
EXTENDS EcdsaSession

InvMod(m) == [a \in 1 .. m - 1 |-> CHOOSE i \in 1 .. m - 1 : (a * i) % m = 1]

(* The curve with generator G, from the group law.                          *)
MkCurve(name, p, a, b, n, G, FB, normalize, digest) ==
    LET inv == InvMod(p)
        mod(v) == v % p
        plus(P, Q) ==
            LET slope == IF P = Q THEN mod((3 * P[1] * P[1] + a) * inv[mod(2 * P[2])])
                                  ELSE mod((Q[2] - P[2]) * inv[mod(Q[1] - P[1])])
                x == mod(slope * slope - P[1] - Q[1])
            IN  <<x, mod(slope * (P[1] - x) - P[2])>>
        multiple[i \in 1 .. n - 1] ==
            IF i = 1 THEN G
            ELSE IF i % 2 = 1 THEN plus(multiple[i - 1], G)
            ELSE LET half == multiple[i \div 2] IN plus(half, half)
        points == [i \in 1 .. n - 1 |-> multiple[i]]
    IN  [name |-> name, n |-> n, FB |-> FB, MIN_SIZE |-> 1, NORMALIZE_S |-> normalize,
         Digest |-> digest, inv |-> InvMod(n),
         x |-> [i \in 1 .. n - 1 |-> points[i][1]],
         y |-> [i \in 1 .. n - 1 |-> points[i][2]],
         odd |-> [i \in 1 .. n - 1 |-> points[i][2] % 2 = 1]]

MCCurves ==
    {MkCurve("c11", 17, 2, 11, 11, <<4, 7>>, 2, TRUE, "sha256"),
     MkCurve("c17", 11, 2, 4, 17, <<0, 2>>, 1, FALSE, "sha3"),
     MkCurve("c211", 199, 0, 3, 211, <<1, 2>>, 2, TRUE, "sha384")}

(* Keys as slices and documents: whole, short, empty and long slices, zero,  *)
(* the order, and documents of another curve.                               *)
Slices(bytes) == {<<"slice", b>> : b \in bytes}
MCKeyForms ==
    [c11  |-> Slices({<<0, d>> : d \in 1 .. 11} \cup {<<>>, <<3>>, <<0, 0>>, <<0, 0, 4>>})
                \cup {<<"pkcs8", [curve |-> name, bytes |-> <<0, 5>>]>> : name \in {"c11", "c211"}},
     c17  |-> Slices({<<1>>, <<2>>, <<9>>, <<16>>, <<17>>}),
     c211 |-> Slices({<<0, 105>>})]

MCNonces == [c11 |-> 1 .. 10, c17 |-> 1 .. 16, c211 |-> {1, 77}]

MCImports == [c11 |-> 0 .. 11, c17 |-> 0 .. 17, c211 |-> {0, 1, 127, 128, 210, 211}]

(* Empty, short, of one and of two bytes, beyond every order, longer.       *)
MCPrehashes == {<<>>, <<7>>, <<0, 12>>, <<255, 254, 1>>}

MCMessages == {"m1", "m2"}
MCHash ==
    [sha224 |-> [m1 |-> <<17>>, m2 |-> <<200>>],
     sha256 |-> [m1 |-> <<9, 31>>, m2 |-> <<254, 7>>],
     sha384 |-> [m1 |-> <<0, 77, 5>>, m2 |-> <<33, 0, 8>>],
     sha512 |-> [m1 |-> <<4, 4, 4, 4>>, m2 |-> <<255, 1, 0, 0>>],
     sha3   |-> [m1 |-> <<140, 6>>, m2 |-> <<3, 3>>]]

MCSaid ==
    LET raw == {<<None, h>> : h \in MCPrehashes}
    IN  [c11  |-> raw \cup {"sha224", "sha256", "sha512"} \X {"m1"},
         c17  |-> raw \cup {"sha3", "sha384"} \X {"m1", "m2"},
         c211 |-> {<<None, <<0, 12>>>>, <<"sha384", "m1">>, <<"sha512", "m2">>}]

(* An OID of the table, a longer and two shorter ones, and those of others. *)
MCOids == {ECDSA_OID(2), Append(ECDSA_OID(1), 7), <<1, 2>>, <<1, 2, 840, 10045, 4>>,
           ECDSA_OID(9), NIST_HASH(1)}
=============================================================================
