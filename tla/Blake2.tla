------------------------------- MODULE Blake2 --------------------------------
(***************************************************************************)
(* The compression function of EllipticCurvesPy/blake2.py, on words of     *)
(* Octets bytes; Python lists count from 0, sequences from 1.              *)
(***************************************************************************)
EXTENDS Integers, Sequences, SequencesExt, Bitwise

CONSTANTS
  Octets,            \* 8 in the code: the bytes of a word
  R1, R2, R3, R4,    \* 32, 24, 16 and 63: the rotations
  IV,                \* the eight initial words
  sigma              \* the permutations of the message words, one a round

max_word == 2 ^ (8 * Octets)
mask_bits == max_word - 1

ASSUME BlakeAssumption ==
  /\ Octets \in Nat \ {0}
  /\ \A R \in {R1, R2, R3, R4} : R \in 1 .. 8 * Octets - 1
  /\ IV \in [1 .. 8 -> 0 .. mask_bits]
  /\ \A i \in DOMAIN sigma : Range(sigma[i]) = 0 .. 15 /\ Len(sigma[i]) = 16

\* The bytes of a slice data[start:end], and what they are read as.
Slice(data, start, end) == SubSeq(data, start + 1, end)
BigEndianValue(bytes) == FoldLeft(LAMBDA n, byte : n * 256 + byte, 0, bytes)
LittleEndianValue(bytes) == BigEndianValue(Reverse(bytes))

spit_le_to_uint(data, start, num_words) ==
  [i \in 1 .. num_words |->
     LittleEndianValue(Slice(data, start + (i - 1) * Octets, start + i * Octets))]

\* Four bytes of rounds, 8 words of state, 16 of message, 2 of offset, a flag;
\* 4, 68, 196 and 212 in the code.
DataLength == 4 + 26 * Octets + 1
get_blake2_parameters(data) ==
  [rounds |-> BigEndianValue(Slice(data, 0, 4)),
   h |-> spit_le_to_uint(data, 4, 8),
   m |-> spit_le_to_uint(data, 4 + 8 * Octets, 16),
   t |-> spit_le_to_uint(data, 4 + 24 * Octets, 2),
   f |-> BigEndianValue(Slice(data, 4 + 26 * Octets, Len(data)))]

\* A word rotated to the right, as (n >> R) ^ (n << (w - R)) % max_word.
RotatedRight(n, R) ==
  (n \div 2 ^ R) ^^ ((n * (2 ^ (8 * Octets - R))) % max_word)

\* One half of G: indices from 0, a word of the message, two rotations.
HalfG(v, a, b, c, d, x, R, S) ==
  LET va == (v[a + 1] + v[b + 1] + x) % max_word
      vd == RotatedRight(v[d + 1] ^^ va, R)
      vc == (v[c + 1] + vd) % max_word
      vb == RotatedRight(v[b + 1] ^^ vc, S)
  IN [v EXCEPT ![a + 1] = va, ![b + 1] = vb, ![c + 1] = vc, ![d + 1] = vd]
\* mutant: both halves mix in the same word of the message
G_SameWord(v, a, b, c, d, x, y) ==
  HalfG(HalfG(v, a, b, c, d, x, R1, R2), a, b, c, d, x, R3, R4)
G(v, a, b, c, d, x, y) ==
  HalfG(HalfG(v, a, b, c, d, x, R1, R2), a, b, c, d, y, R3, R4)

\* The quarters that the columns and then the diagonals of v are mixed in.
Quarters ==
  <<<<0, 4, 8, 12>>, <<1, 5, 9, 13>>, <<2, 6, 10, 14>>, <<3, 7, 11, 15>>,
    <<0, 5, 10, 15>>, <<1, 6, 11, 12>>, <<2, 7, 8, 13>>, <<3, 4, 9, 14>>>>

\* The vector before the first round: seven places are replaced by the eight
\* words of IV, so that a seventeenth word stays behind.
InitialVector(h, t, f) ==
  LET v == h \o IV \o <<0>>
  IN [v EXCEPT ![13] = t[1] ^^ IV[5], ![14] = t[2] ^^ IV[6],
               ![15] = IF f # 0 THEN v[15] ^^ mask_bits ELSE v[15]]

\* The round r, from 0; the schedule wraps around.
Round(v, m, r) ==
  LET s == sigma[(r % Len(sigma)) + 1]
  IN FoldLeft(LAMBDA mixed, k :
                LET q == Quarters[k]
                IN G(mixed, q[1], q[2], q[3], q[4], m[s[2 * k - 1] + 1], m[s[2 * k] + 1]),
              v, <<1, 2, 3, 4, 5, 6, 7, 8>>)

\* The words of the result, and their bytes, the lowest first.
ResultWords(h, v) == [i \in 1 .. 8 |-> (h[i] ^^ v[i]) ^^ v[i + 8]]
Packed(words) ==
  [i \in 1 .. Len(words) * Octets |->
     (words[(i - 1) \div Octets + 1] \div (256 ^ ((i - 1) % Octets))) % 256]
==============================================================================
