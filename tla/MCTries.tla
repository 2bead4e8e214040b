------------------------------- MODULE MCTries -------------------------------
(***************************************************************************)
(* Tries over bytes of four bits: a byte has two nibbles of two bits and a *)
(* branch four ways on.                                                    *)
(***************************************************************************)
EXTENDS Tries

\* The encodings of the first positions of a list, 0 to 6, of which three are
\* taken, and two keys of which one is the beginning of another key.
MCListKeys == {encode(Number("Uint", n)) : n \in 0 .. 6}
MCKeys == {encode(Number("Uint", n)) : n \in {0, 4, 5}} \union {<<4, 1>>, <<5>>}

\* Digests of the keys: fixed length, different, with a common beginning.
MCKeyDigest ==
  [k \in MCKeys |-> LET n == CHOOSE i \in 1 .. 5 : SetToSeq(MCKeys)[i] = k
                    IN <<3, (7 * n) % 16, n>>]

\* A value that keeps a leaf inlined, one around the length of a digest, an
\* empty one and one that is no bytes.
MCValues ==
  {Bytes(<<1>>), Bytes([i \in 1 .. 10 |-> 2]), Bytes(<<>>), Number("U256", 5)}
==============================================================================
