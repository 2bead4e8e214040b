----------------------------- MODULE Precompiles -----------------------------
(***************************************************************************)
(* The scripts behind the precompiled contracts: bn_add.py, bn_mul.py,     *)
(* snarkv.py, blake2_f.py and point_evaluation.py.  The interpreter starts *)
(* one with the input as its argument and reads what it prints, 'error' or *)
(* the bytes of the answer.  One process runs one call; the pairing and    *)
(* the compression, whose loops carry state, run step by step.             *)
(***************************************************************************)
EXTENDS AltBn128, Blake2, Kzg

CONSTANTS
  Calls,                   \* the calls: a script, its input and what is meant
  FinalExponent,           \* (PRIME ^ 12 - 1) / ALT_BN128_CURVE_ORDER, as bits
  FIELD_ELEMENTS_PER_BLOB

VARIABLES
  call,    \* the call that the process serves
  pc,      \* "start", "pairs", "miller", "frobenius", "power", "rounds", "done"
  output,  \* what it has printed
  pair,    \* snarkv: how many pairs are done
  result,  \* snarkv: the product of the pairings
  points,  \* miller_loop: q, p and the multiple r of q
  f,       \* miller_loop: the product of the lines; then, the square to come
  power,   \* miller_loop: the part of the final power that is there
  at,      \* the counter of the loop that runs
  v        \* blake2: the working vector

pairingVars == <<pair, result, points, f, power>>
vars == <<call, pc, output, pairingVars, at, v>>

Nothing == [kind |-> "nothing"]
Error == [kind |-> "error"]
Crash == [kind |-> "crash"]   \* an exception that no handler takes
Answer(value) == [kind |-> "answer", value |-> value]

Printed(what) == output' = what /\ pc' = "done"
Started(script) == pc = "start" /\ call.script = script
NoPairing == UNCHANGED pairingVars

Init ==
  /\ call \in Calls
  /\ pc = "start" /\ output = Nothing
  /\ pair = 0 /\ result = one(12) /\ power = one(12) /\ f = one(12)
  /\ points = [q |-> point_at_infinity(12), p |-> point_at_infinity(12),
               r |-> point_at_infinity(12)]
  /\ at = 0 /\ v = <<>>

----------------------------------------------------------------------------
(* The curve *)

OutOfField(words) == \E i \in DOMAIN words : words[i] >= PRIME
BnPoint(x, y) == Point(<<x % PRIME>>, <<y % PRIME>>)

BnAdd ==
  LET p0 == BnPoint(call.words[1], call.words[2])
      p1 == BnPoint(call.words[3], call.words[4])
  IN /\ Started("bn_add")
     /\ Printed(IF OutOfField(call.words) \/ (\E p \in {p0, p1} : ~IsOnCurve(p))
              THEN Error ELSE Answer(plus[p0, p1]))
     /\ NoPairing /\ UNCHANGED <<call, at, v>>

BnMul ==
  LET p0 == BnPoint(call.words[1], call.words[2])
  IN /\ Started("bn_mul")
     /\ Printed(IF OutOfField(SubSeq(call.words, 1, 2)) \/ ~IsOnCurve(p0)
              THEN Error ELSE Answer(mul_by[p0, call.words[3]]))
     /\ NoPairing /\ UNCHANGED <<call, at, v>>

\* The words of the pair; the imaginary parts come first.
PairWords == SubSeq(call.words, 6 * pair + 1, 6 * pair + 6)
PairP == BnPoint(PairWords[1], PairWords[2])
PairQ == Point(<<PairWords[4] % PRIME, PairWords[3] % PRIME>>,
               <<PairWords[6] % PRIME, PairWords[5] % PRIME>>)
OrderMultiples == {mul_by[p, ALT_BN128_CURVE_ORDER] : p \in {PairP, PairQ}}
InSubgroup == OrderMultiples = {point_at_infinity(degree) : degree \in {1, 2}}

SnarkvStart ==
  /\ Started("snarkv")
  /\ IF call.rest # 0 \/ Len(call.words) % 6 # 0
     THEN Printed(Error) ELSE pc' = "pairs" /\ UNCHANGED output
  /\ NoPairing /\ UNCHANGED <<call, at, v>>

PairToCome == pc = "pairs" /\ 6 * pair < Len(call.words)
PairIsGood == ~OutOfField(PairWords) /\ (\A p \in {PairP, PairQ} : IsOnCurve(p))

RefusePair ==
  /\ PairToCome
  /\ IF ~PairIsGood THEN Printed(Error)
     ELSE /\ ~InSubgroup
          /\ Printed(IF RaisedPoint \in OrderMultiples THEN Crash ELSE Error)
  /\ NoPairing /\ UNCHANGED <<call, at, v>>

AcceptPair ==
  LET q == twist(PairQ)
  IN /\ PairToCome /\ PairIsGood /\ InSubgroup
     /\ IF PairP = point_at_infinity(1) \/ PairQ = point_at_infinity(2)
        THEN pair' = pair + 1 /\ UNCHANGED <<pc, points, f, power, at>>
        ELSE /\ points' = [q |-> q, p |-> bnp_to_bnp12(PairP), r |-> q]
             /\ f' = one(12) /\ power' = one(12)
             /\ at' = ATE_PAIRING_COUNT_BITS
             /\ pc' = "miller" /\ UNCHANGED pair
     /\ UNCHANGED <<call, output, result, v>>

MillerStep ==
  /\ pc = "miller" /\ at >= 0
  /\ f' = MillerValue(f, points.r, points.q, points.p, at)
  /\ points' = [points EXCEPT !.r = MillerPoint(points.r, points.q, at)]
  /\ at' = at - 1
  /\ UNCHANGED <<call, pc, output, pair, result, power, v>>

\* The assertion on r, and the constructor's test of the image of q, hold or
\* end the process.
MillerEnd ==
  /\ pc = "miller" /\ at < 0
  /\ IF points.r = mul_by[points.q, Multiple] /\ IsOnCurve(Frobenius[points.q])
     THEN /\ f' = FrobeniusLines(f, points.r, points.q, points.p)
          /\ pc' = "power" /\ at' = 1 /\ UNCHANGED output
     ELSE Printed(Crash) /\ UNCHANGED <<f, at>>
  /\ UNCHANGED <<call, pair, result, points, power, v>>

\* f ** FinalExponent, a bit at a time.
PowerStep ==
  /\ pc = "power" /\ at <= Len(FinalExponent)
  /\ power' = IF FinalExponent[at] = 1 THEN times[power, f] ELSE power
  /\ f' = times[f, f]
  /\ at' = at + 1
  /\ UNCHANGED <<call, pc, output, pair, result, points, v>>

PairDone ==
  /\ pc = "power" /\ at > Len(FinalExponent)
  /\ result' = times[result, power]
  /\ pair' = pair + 1 /\ pc' = "pairs"
  /\ UNCHANGED <<call, output, points, f, power, at, v>>

SnarkvEnd ==
  /\ pc = "pairs" /\ 6 * pair = Len(call.words)
  /\ Printed(Answer(IF result = one(12) THEN 1 ELSE 0))
  /\ NoPairing /\ UNCHANGED <<call, at, v>>

----------------------------------------------------------------------------
(* The compression and the proof *)

Parameters == get_blake2_parameters(call.data)
Blake2Start ==
  /\ Started("blake2_f")
  /\ IF Len(call.data) # DataLength \/ Parameters.f \notin {0, 1}
     THEN Printed(Error) /\ UNCHANGED v
     ELSE /\ v' = InitialVector(Parameters.h, Parameters.t, Parameters.f)
          /\ pc' = "rounds" /\ UNCHANGED output
  /\ NoPairing /\ UNCHANGED <<call, at>>
Blake2Round ==
  /\ pc = "rounds" /\ at < Parameters.rounds
  /\ v' = Round(v, Parameters.m, at)
  /\ at' = at + 1
  /\ NoPairing /\ UNCHANGED <<call, pc, output>>
Blake2End ==
  /\ pc = "rounds" /\ at = Parameters.rounds
  /\ Printed(Answer(Packed(ResultWords(Parameters.h, v))))
  /\ NoPairing /\ UNCHANGED <<call, at, v>>

PointEvaluation ==
  /\ Started("point_evaluation")
  /\ Printed(IF /\ call.length = 192
              /\ kzg_commitment_to_versioned_hash(call.commitment) = call.versioned_hash
              /\ verify_kzg_proof(call.commitment, call.z, call.y, call.proof)
           THEN Answer(<<FIELD_ELEMENTS_PER_BLOB, BLS_MODULUS>>) ELSE Error)
  /\ NoPairing /\ UNCHANGED <<call, at, v>>

Next ==
  \/ BnAdd \/ BnMul
  \/ SnarkvStart \/ RefusePair \/ AcceptPair \/ MillerStep \/ MillerEnd
  \/ PowerStep \/ PairDone \/ SnarkvEnd
  \/ Blake2Start \/ Blake2Round \/ Blake2End
  \/ PointEvaluation

Spec == Init /\ [][Next]_vars

----------------------------------------------------------------------------
(* Properties.  What a call means is given with it: the logarithms of its  *)
(* points to a generator, or that its input is bad.                        *)

Ended(script) == pc = "done" /\ call.script = script

\* bn_add and bn_mul are the group: adding and multiplying points adds and
\* multiplies their logarithms modulo the order, with the point at infinity,
\* equal points, opposite points and multipliers beyond the order; and a
\* coordinate out of the field or a point off the curve is refused.
GroupLaw ==
  LET log == IF call.script = "bn_add" THEN call.logs[1] + call.logs[2]
             ELSE call.logs[1] * call.words[3]
  IN Ended("bn_add") \/ Ended("bn_mul") =>
       output = IF call.bad THEN Error
                ELSE Answer(mul_by[call.generator, log % ALT_BN128_CURVE_ORDER])

\* snarkv answers 1 exactly when the products of the logarithms of its pairs
\* add up to zero: its pairing is bilinear and not degenerate, over however
\* many pairs, and no valid pair makes it fail.  A pair with a point out of the
\* field, off the curve or out of the subgroup is refused wherever it stands.
PairingCheck ==
  Ended("snarkv") =>
    output = IF call.bad THEN Error
             ELSE LET sum == MapThenSumSet(LAMBDA i : call.logs[i][1] * call.logs[i][2],
                                           DOMAIN call.logs)
                  IN Answer(IF sum % ALT_BN128_CURVE_ORDER = 0 THEN 1 ELSE 0)

\* A round undone: the halves of G backwards, rotating to the left.
UndoneHalf(u, q, x, R, S) ==
  LET a == q[1] + 1  b == q[2] + 1  c == q[3] + 1  d == q[4] + 1
      Left(n, k) == RotatedRight(n, 8 * Octets - k)
      ub == Left(u[b], S) ^^ u[c]
      uc == (u[c] - u[d]) % max_word
      ud == Left(u[d], R) ^^ u[a]
  IN [u EXCEPT ![a] = (u[a] - ub - x) % max_word, ![b] = ub, ![c] = uc, ![d] = ud]
UndoneRound(u, m, s) ==
  FoldLeft(LAMBDA w1, k :
             UndoneHalf(UndoneHalf(w1, Quarters[k], m[s[2 * k] + 1], R3, R4),
                        Quarters[k], m[s[2 * k - 1] + 1], R1, R2),
           u, <<8, 7, 6, 5, 4, 3, 2, 1>>)

\* The bytes of the input, read as RFC 7693 has them.
Word(i) == MapThenSumSet(LAMBDA j : call.data[4 + i * Octets + j + 1] * (256 ^ j),
                         0 .. Octets - 1)

\* The compression loses nothing but by its last step: from the working vector
\* all rounds can be undone with the message words of the input, in the order
\* of the schedule however often it wraps around, and give the state words,
\* the constants and the offset words of the input.
BlakeReversible ==
  LET message == [i \in 1 .. 16 |-> Word(7 + i)]
      Schedule(r) == sigma[((r - 1) % Len(sigma)) + 1]
      undone[r \in 0 .. at] ==
        IF r = at THEN v ELSE UndoneRound(undone[r + 1], message, Schedule(r + 1))
      u == undone[0]
  IN pc = "rounds" =>
       /\ \A i \in 1 .. 8 : u[i] = Word(i - 1)
       /\ \A i \in 1 .. 4 : u[8 + i] = IV[i]
       /\ u[13] ^^ IV[5] = Word(24) /\ u[14] ^^ IV[6] = Word(25)
       /\ u[15] \in {IV[7], mask_bits - IV[7]} /\ u[16] = IV[8]

\* A proof is accepted when it is the honest proof that the polynomial has the
\* value y at z, and with another y, another point z, another point for the
\* proof, a number that is no field element, bytes that are no point or a wrong
\* hash it is refused.
KzgSound ==
  Ended("point_evaluation") =>
    ((output.kind = "answer") <=> ~call.bad /\ call.y = call.value)
==============================================================================
