---------------------------- MODULE MCEdSession ----------------------------
(* Real sizes.  One signature of many letters and one of a single letter in *)
(* hexadecimal; key pairs with and without a public key.                    *)
EXTENDS EdSession

Bytes(size, seed, step) == [i \in 1 .. size |-> (seed + step * i) % 256]

Objects1(c, size) ==
    {<<c, [kind |-> "signature", value |-> [R |-> Bytes(size, 7, 37), s |-> Bytes(size, 171, 11)]]>>,
     <<c, [kind |-> "signature", value |-> [R |-> [Bytes(size, 18, 0) EXCEPT ![1] = 26],
                                            s |-> Bytes(size, 0, 0)]]>>,
     <<c, [kind |-> "keypair", value |-> [secret_key |-> Bytes(size, 1, 1),
                                          public_key |-> {Bytes(size, 100, 1)}]]>>,
     <<c, [kind |-> "keypair", value |-> [secret_key |-> Bytes(size, 1, 1), public_key |-> {}]]>>,
     <<c, [kind |-> "public", value |-> Bytes(size, 100, 1)]>>}

MCObjects == Objects1("ed25519", 32) \cup Objects1("ed448", 57)
MCForeignKey == [c \in Crates |-> Bytes(IF c = "ed25519" THEN 32 ELSE 57, 9, 5)]

(* A digit, hexadecimal letters and one beyond them in both cases, a sign.  *)
MCWrongCharacters == {48, 65, 97, 71, 103, 43}
=============================================================================
