---------------------------- MODULE MCPrecompiles ----------------------------
(***************************************************************************)
(* The curves with the smallest prime that the family of alt_bn128 has:    *)
(* y^2 = x^3 + 5 over the integers modulo 103, with 97 points, and i + 2   *)
(* in the place of i + 9; words of 16 bits for Blake2; groups of order 5   *)
(* for KZG.  The multiple in Miller's loop is 6u + 2 = 8 modulo the order; *)
(* its representative 105 has bits of both kinds.                          *)
(***************************************************************************)
EXTENDS Precompiles

MCFinalExponent ==
  <<0, 0, 0, 0, 0, 1, 0, 1, 1, 1, 0, 1, 1, 0, 1, 0, 0, 1, 0, 0, 1, 0, 0, 0, 1,
    0, 1, 1, 0, 1, 1, 1, 0, 1, 0, 0, 1, 0, 0, 1, 0, 1, 1, 1, 0, 1, 1, 1, 1, 1,
    0, 0, 1, 0, 0, 1, 1, 1, 1, 1, 0, 0, 1, 1, 0, 0, 1, 1, 1, 0, 0, 0, 1, 1>>

\* Generators of the two groups.
P1 == Point(<<2>>, <<42>>)
Q1 == Point(<<4, 61>>, <<18, 65>>)
Words1(p) == <<p.x[1], p.y[1]>>
Words2(q) == <<q.x[2], q.x[1], q.y[2], q.y[1]>>

BnCall(script, words, logs, bad) ==
  [script |-> script, words |-> words, logs |-> logs, generator |-> P1, bad |-> bad]
AddCall(a, b, M1) ==
  BnCall("bn_add", Words1(M1[a]) \o Words1(M1[b]), <<a, b>>, FALSE)
MulCall(a, n, M1) == BnCall("bn_mul", Words1(M1[a]) \o <<n>>, <<a>>, FALSE)

\* M1 and M2 have the multiples of the generators.
AddCalls(M1) == {AddCall(a, b, M1) : a \in 0 .. 96, b \in 0 .. 96}
MulCalls(M1) ==
  {MulCall(a, n, M1) : a \in {0, 1, 2, 61, 96},
                       n \in 0 .. 20 \union 94 .. 100 \union {194, 255}}

\* An abscissa and an ordinate out of the field that reduce to a point, and
\* points off the curve, among them one with a zero.
BadPoints == {<<2 + 103, 42>>, <<2, 42 + 103>>, <<103, 0>>, <<2, 43>>, <<0, 1>>}
BadCalls == {BnCall("bn_add", bad \o Words1(P1), <<>>, TRUE) : bad \in BadPoints}
              \union {BnCall("bn_add", Words1(P1) \o bad, <<>>, TRUE) : bad \in BadPoints}
              \union {BnCall("bn_mul", bad \o <<2>>, <<>>, TRUE) : bad \in BadPoints}

SnarkvCall(words, rest, logs, bad) ==
  [script |-> "snarkv", words |-> words, rest |-> rest, logs |-> logs, bad |-> bad]
Pair(log, M1, M2) == Words1(M1[log[1]]) \o Words2(M2[log[2]])
Pairs(logs, M1, M2) ==
  SnarkvCall(FoldLeft(LAMBDA words, log : words \o Pair(log, M1, M2), <<>>, logs),
             0, logs, FALSE)
GoodPairs(M1, M2) ==
  {Pairs(logs, M1, M2) : logs \in {
     <<>>, <<<<0, 1>>>>, <<<<1, 0>>>>, <<<<1, 1>>>>, <<<<96, 5>>>>, <<<<5, 96>>>>,
     <<<<1, 1>>, <<96, 1>>>>, <<<<1, 1>>, <<1, 96>>>>, <<<<2, 3>>, <<91, 1>>>>,
     <<<<2, 3>>, <<92, 1>>>>, <<<<3, 2>>, <<2, 94>>>>, <<<<7, 12>>, <<0, 4>>>>,
     <<<<8, 9>>, <<5, 5>>>>, <<<<1, 2>>, <<3, 4>>, <<83, 1>>>>,
     <<<<1, 2>>, <<0, 3>>, <<95, 1>>>>, <<<<1, 2>>, <<3, 4>>, <<83, 2>>>>}}

\* Points of the twist that are not in the subgroup, parts that are swapped,
\* coordinates out of the field, and inputs with a wrong length.
Swapped(words) == <<words[2], words[1], words[4], words[3]>>
OnePair == Words1(P1) \o Words2(Q1)
BadPairs ==
  {SnarkvCall(OnePair \o words, 0, <<>>, TRUE) : words \in {
     Words1(P1) \o <<1, 0, 95, 13>>, <<0, 0, 1, 0, 95, 13>>,
     Words1(P1) \o Swapped(Words2(Q1)), <<2, 43>> \o Words2(Q1),
     Words1(P1) \o <<61 + 103, 4, 65, 18>>, <<2 + 103, 42>> \o Words2(Q1), <<2, 42>>}}
    \union {SnarkvCall(OnePair, 1, <<>>, TRUE)}
    \union {SnarkvCall(Words1(P1) \o <<1, 0, 95, 13>> \o OnePair, 0, <<>>, TRUE)}

\* The schedule of the code, and the first 16 bits of its constants.
MCsigma ==
  << <<0, 1, 2, 3, 4, 5, 6, 7, 8, 9, 10, 11, 12, 13, 14, 15>>,
     <<14, 10, 4, 8, 9, 15, 13, 6, 1, 12, 0, 2, 11, 7, 5, 3>>,
     <<11, 8, 12, 0, 5, 2, 15, 13, 10, 14, 3, 6, 7, 1, 9, 4>>,
     <<7, 9, 3, 1, 13, 12, 11, 14, 2, 6, 5, 10, 4, 0, 15, 8>>,
     <<9, 0, 5, 7, 2, 4, 10, 15, 14, 1, 11, 12, 6, 8, 3, 13>>,
     <<2, 12, 6, 10, 0, 11, 8, 3, 4, 13, 7, 5, 15, 14, 1, 9>>,
     <<12, 5, 1, 15, 14, 13, 4, 10, 0, 7, 6, 3, 9, 2, 8, 11>>,
     <<13, 11, 7, 14, 12, 1, 3, 9, 5, 0, 15, 4, 8, 6, 2, 10>>,
     <<6, 15, 14, 9, 11, 3, 0, 8, 12, 2, 13, 7, 1, 4, 10, 5>>,
     <<10, 2, 8, 4, 7, 6, 1, 5, 15, 11, 9, 14, 3, 12, 13, 0>> >>
MCIV == <<27145, 47975, 15470, 42319, 20750, 39685, 8067, 23520>>

BlakeData(rounds, seed, flag) ==
  <<0, 0, 0, rounds>> \o [i \in 1 .. 52 |-> (seed * i * i + 31 * i) % 256] \o <<flag>>
BlakeCalls ==
  {[script |-> "blake2_f", data |-> data] : data \in
     {BlakeData(rounds, 7, flag) : rounds \in {0, 1, 12}, flag \in 0 .. 2}
       \union {BlakeData(12, seed, 1) : seed \in {0, 100}}
       \union {Append(BlakeData(1, 7, 1), 0), Tail(BlakeData(1, 7, 1)), <<>>}}

\* Polynomials a + bX + cX^2, the honest proof of the value at z, and what can
\* be wrong with it.
KzgCall(length, hashed, z, y, commitment, proof, value, bad) ==
  [script |-> "point_evaluation", length |-> length,
   versioned_hash |-> kzg_commitment_to_versioned_hash(hashed), z |-> z, y |-> y,
   commitment |-> commitment, proof |-> proof, value |-> value, bad |-> bad]
Secret == KZG_SETUP_G2_MONOMIAL_1
Quotient(b, c, z) == (b + c * (Secret + z)) % BLS_MODULUS
Value(a, b, c, x) == (a + b * x + c * x * x) % BLS_MODULUS
HonestCall(a, b, c, z, y) ==
  LET commitment == Value(a, b, c, Secret)
  IN KzgCall(192, commitment, z, y, commitment, Quotient(b, c, z),
             Value(a, b, c, z), z >= BLS_MODULUS \/ y >= BLS_MODULUS)
\* The value at z with any proof point: only the honest one is right, but at the
\* secret, where the quotient counts for nothing.
ForgedCall(a, b, c, z, proof) ==
  LET commitment == Value(a, b, c, Secret)
  IN KzgCall(192, commitment, z, Value(a, b, c, z), commitment, proof,
             Value(a, b, c, z), proof # Quotient(b, c, z) /\ z # Secret)
KzgCalls ==
  {HonestCall(a, b, c, z, y) : a \in 0 .. 4, b \in 0 .. 4, c \in 0 .. 2, z \in 0 .. 5, y \in 0 .. 5}
    \union {ForgedCall(a, b, c, z, proof) :
              a \in 0 .. 4, b \in 0 .. 4, c \in 0 .. 2, z \in 0 .. 4, proof \in 0 .. 4}
    \union {KzgCall(191, 3, 1, 3, 3, 0, 3, TRUE), KzgCall(192, 2, 1, 3, 3, 0, 3, TRUE),
            KzgCall(192, NoPoint, 1, 3, NoPoint, 0, 3, TRUE),
            KzgCall(192, 3, 1, 3, 3, NoPoint, 3, TRUE)}

Multiples(p) == [n \in 0 .. 96 |-> mul_by[p, n]]
GroupCalls(M1, M2) ==
  AddCalls(M1) \union MulCalls(M1) \union GoodPairs(M1, M2)
MCCalls ==
  BadCalls \union BadPairs \union BlakeCalls \union KzgCalls
    \union UNION {GroupCalls(M1, M2) : M1 \in {Multiples(P1)}, M2 \in {Multiples(Q1)}}
==============================================================================
