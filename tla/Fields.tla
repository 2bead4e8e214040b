------------------------------- MODULE Fields --------------------------------
(***************************************************************************)
(* The fields of EllipticCurvesPy/finite_field.py as alt_bn128.py uses     *)
(* them: BNF, the integers modulo PRIME; BNF2, BNF with a square root i of *)
(* -1; BNF12, BNF2 with a sixth root w of i + NINE.                        *)
(*                                                                         *)
(* An element is the sequence of its coefficients, one, two or twelve: its *)
(* length tells its field.  An exception is the empty sequence.  What      *)
(* calculates with elements is a function, whose arguments are values.     *)
(***************************************************************************)
EXTENDS Integers, Sequences, FiniteSetsExt

CONSTANTS
  PRIME,  \* ALT_BN128_PRIME
  NINE    \* 9 in the code: i + NINE has neither a square nor a cube root

ASSUME FieldAssumption == PRIME \in Nat /\ PRIME > 3 /\ NINE \in 0 .. PRIME - 1

Raised == <<>>
Elements == Seq(0 .. PRIME - 1)

\* An element from the coefficients of the powers 0 to degree - 1.  The empty
\* concatenation makes it a sequence, where a function would be an expression.
Element(degree, Coefficient(_)) ==
  [i \in 1 .. degree |-> Coefficient(i - 1) % PRIME] \o <<>>

from_int(degree, n) == Element(degree, LAMBDA k : IF k = 0 THEN n ELSE 0)
zero(degree) == from_int(degree, 0)
one(degree) == from_int(degree, 1)

add[x \in Elements, y \in Elements] == Element(Len(x), LAMBDA k : x[k + 1] + y[k + 1])
sub[x \in Elements, y \in Elements] == Element(Len(x), LAMBDA k : x[k + 1] - y[k + 1])
neg[x \in Elements] == Element(Len(x), LAMBDA k : -x[k + 1])
scalar_mul[x \in Elements, n \in Int] == Element(Len(x), LAMBDA k : x[k + 1] * n)

\* The coefficients of the defining polynomial but the leading one.
MODULUS(degree) ==
  CASE degree = 2 -> <<1, 0>>
    [] degree = 12 ->
         <<NINE * NINE + 1, 0, 0, 0, 0, 0, -2 * NINE, 0, 0, 0, 0, 0>>

\* The coefficient of the power k in the product of two polynomials.
Convolution(x, y, k) ==
  MapThenSumSet(LAMBDA i : x[i + 1] * y[k - i + 1],
                {i \in 0 .. Len(x) - 1 : k - i \in 0 .. Len(x) - 1})

\* GaloisField.__mul__: the high powers are replaced from the top down; the
\* coefficient mul[i] is final when its turn comes.
GaloisMul(x, y) ==
  LET d == Len(x)
      mul[k \in 0 .. 2 * d - 1] ==
        Convolution(x, y, k) -
          MapThenSumSet(LAMBDA i : (mul[i] * MODULUS(d)[k - i + d + 1]) % PRIME,
                        {i \in d .. 2 * d - 1 : k < i /\ i <= k + d})
  IN Element(d, LAMBDA k : mul[k])

\* BNF12.__mul__, the special case for the sparse polynomial.
BNF12Mul(x, y) ==
  LET mul[k \in 0 .. 22] ==
        Convolution(x, y, k)
          + (IF k + 6 \in 12 .. 22 THEN mul[k + 6] * (2 * NINE) ELSE 0)
          - (IF k + 12 \in 12 .. 22 THEN mul[k + 12] * (NINE * NINE + 1) ELSE 0)
  IN Element(12, LAMBDA k : mul[k])

times[x \in Elements, y \in Elements] ==
  CASE Len(x) = 1 -> <<(x[1] * y[1]) % PRIME>>
    [] Len(x) = 2 -> GaloisMul(x, y)
    [] Len(x) = 12 -> BNF12Mul(x, y)

\* pow(n, -1, PRIME) of an int.
IntInverse(n) == CHOOSE m \in 1 .. PRIME - 1 : (n * m) % PRIME = 1

deg(x) == CHOOSE i \in 0 .. Len(x) - 1 :
            x[i + 1] # 0 /\ \A j \in i + 1 .. Len(x) - 1 : x[j + 1] = 0

\* x minus q times y, with y shifted up.
Eliminated[x \in Elements, y \in Elements, q \in Int, shift \in Nat] ==
  Element(Len(x), LAMBDA k : x[k + 1] - (IF k < shift THEN 0 ELSE q * y[k - shift + 1]))

\* The loop of the Euclidean algorithm.  When the second polynomial becomes
\* constant first, its list of coefficients is repeated instead of multiplied,
\* and only a factor of one leaves a list of the right length.
Euclid[x1 \in Elements, f1 \in Elements, x2 \in Elements, f2 \in Elements] ==
  LET d1 == deg(x1)
      d2 == deg(x2)
      q1 == (x2[d2 + 1] * IntInverse(x1[d1 + 1])) % PRIME
      q2 == (x1[d1 + 1] * IntInverse(x2[d2 + 1])) % PRIME
  IN CASE d1 = 0 -> scalar_mul[f1, IntInverse(x1[1])]
       [] d1 # 0 /\ d2 = 0 -> IF x2[1] = 1 THEN f2 ELSE Raised
       [] d1 # 0 /\ d2 # 0 /\ d1 < d2 ->
            Euclid[x1, f1, Eliminated[x2, x1, q1, d2 - d1], Eliminated[f2, f1, q1, d2 - d1]]
       [] d2 # 0 /\ d1 >= d2 ->
            Euclid[Eliminated[x1, x2, q2, d1 - d2], Eliminated[f1, f2, q2, d1 - d2], x2, f2]

\* Zero has no inverse in any field.  In a Galois field the first step divides
\* the defining polynomial, whose leading coefficient is not stored.
multiplicative_inverse[x \in Elements] ==
  LET d == Len(x)
      q_0 == IntInverse(x[deg(x) + 1])
      modulus == Element(d, LAMBDA k : MODULUS(d)[k + 1])
  IN CASE x = zero(d) -> Raised
       [] x # zero(d) /\ d = 1 -> <<IntInverse(x[1])>>
       [] x # zero(d) /\ d > 1 ->
            Euclid[Eliminated[modulus, x, q_0, d - deg(x)],
                   Eliminated[zero(d), one(d), q_0, d - deg(x)], x, one(d)]

truediv[x \in Elements, y \in Elements] ==
  LET Product[inverse \in Elements] ==
        IF inverse = Raised THEN Raised ELSE times[x, inverse]
  IN Product[multiplicative_inverse[y]]

\* GaloisField.__pow__ and PrimeField.__pow__, of an exponent not negative.
pow[x \in Elements, exponent \in Nat] ==
  LET Loop[res \in Elements, s \in Elements, e \in Nat] ==
        IF e = 0 THEN res
        ELSE Loop[IF e % 2 = 1 THEN times[res, s] ELSE res, times[s, s], e \div 2]
  IN Loop[one(Len(x)), x, exponent]

\* x ** PRIME, by the powers of the generator alone.
calculate_frobenius_coefficients(degree) ==
  [i \in 1 .. degree |->
     pow[Element(degree, LAMBDA k : IF k = i - 1 THEN 1 ELSE 0), PRIME]] \o <<>>
frobenius[x \in Elements] ==
  LET Image[FROBENIUS_COEFFICIENTS \in Seq(Elements)] ==
        Element(12, LAMBDA k :
          MapThenSumSet(LAMBDA i : x[i] * FROBENIUS_COEFFICIENTS[i][k + 1], 1 .. 12))
  IN Image[calculate_frobenius_coefficients(12)]
==============================================================================
