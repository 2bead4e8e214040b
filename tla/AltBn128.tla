------------------------------ MODULE AltBn128 -------------------------------
(***************************************************************************)
(* Points of elliptic_curve.py and the curves and the pairing of           *)
(* alt_bn128.py: BNP over BNF, its twist BNP2 over BNF2, and BNP12 over    *)
(* BNF12, where both meet.                                                 *)
(*                                                                         *)
(* The field of the coordinates tells the curve; (0, 0) is the point at    *)
(* infinity; an exception is a point with coordinates Raised.              *)
(***************************************************************************)
EXTENDS Fields

CONSTANTS
  THREE,                  \* 3 in the code: the coefficient B of the curve
  ALT_BN128_CURVE_ORDER,  \* the order of BNP and of the subgroup of BNP2
  ATE_PAIRING_COUNT,      \* one more than the multiple in Miller's loop
  ATE_PAIRING_COUNT_BITS  \* the first bit of the multiple that is looked at

Point(x, y) == [x |-> x, y |-> y]
Points == [x : Elements, y : Elements]
point_at_infinity(degree) == Point(zero(degree), zero(degree))
RaisedPoint == Point(Raised, Raised)

A(degree) == zero(degree)
B(degree) ==
  IF degree = 2 THEN truediv[from_int(2, THREE), <<NINE, 1>>] ELSE from_int(degree, THREE)

\* The constructor's test; (0, 0) passes without being on the curve.
IsOnCurve(p) ==
  LET d == Len(p.x)
      right == add[times[p.x, times[p.x, p.x]], add[times[A(d), p.x], B(d)]]
  IN p = point_at_infinity(d) \/ times[p.y, p.y] = right

\* The third point of the line with the slope lam through p and one with the
\* abscissa x, reflected.
Chord[p \in Points, x \in Elements, lam \in Elements] ==
  LET At[new_x \in Elements] ==
        Point(new_x, sub[times[lam, sub[p.x, new_x]], p.y])
  IN IF lam = Raised THEN RaisedPoint ELSE At[sub[sub[times[lam, lam], p.x], x]]

Slope[p \in Points] ==
  truediv[add[times[from_int(Len(p.x), 3), times[p.x, p.x]], A(Len(p.x))],
          times[from_int(Len(p.x), 2), p.y]]

\* The coordinates are compared with the int 0, which only an element of BNF
\* can be equal to.
double[p \in Points] ==
  IF Len(p.x) = 1 /\ p = point_at_infinity(1) THEN p ELSE Chord[p, p.x, Slope[p]]

\* mutant: a point is added to its opposite as if they were equal
Sum_NoOpposite(p, q) ==
  CASE p = point_at_infinity(Len(p.x)) -> q
    [] q = point_at_infinity(Len(p.x)) -> p
    [] p.x = q.x -> double[p]
    [] OTHER -> Chord[p, q.x, truediv[sub[q.y, p.y], sub[q.x, p.x]]]
Sum(p, q) ==
  LET infinity == point_at_infinity(Len(p.x))
  IN CASE p = infinity -> q
       [] p # infinity /\ q = infinity -> p
       [] p # infinity /\ p = q -> double[p]
       [] p # infinity /\ q # infinity /\ p # q /\ p.x = q.x -> infinity
       [] p # infinity /\ q # infinity /\ p.x # q.x ->
            Chord[p, q.x, truediv[sub[q.y, p.y], sub[q.x, p.x]]]
plus[p \in Points, q \in Points] ==
  IF p = RaisedPoint \/ q = RaisedPoint THEN RaisedPoint ELSE Sum(p, q)

\* Double and add; the last doubling is not needed, and is done.
mul_by[p \in Points, n \in Nat] ==
  LET Loop[res \in Points, s \in Points, k \in Nat] ==
        IF k = 0 THEN (IF s = RaisedPoint THEN s ELSE res)
        ELSE Loop[IF k % 2 = 1 THEN plus[res, s] ELSE res, plus[s, s], k \div 2]
  IN Loop[point_at_infinity(Len(p.x)), p, n]

----------------------------------------------------------------------------
(* The pairing *)

w == Element(12, LAMBDA k : IF k = 1 THEN 1 ELSE 0)
i_plus_9 == pow[w, 6]

bnf2_to_bnf12(x) ==
  add[from_int(12, x[1]),
      times[from_int(12, x[2]), sub[i_plus_9, from_int(12, NINE)]]]
bnp_to_bnp12(p) == Point(from_int(12, p.x[1]), from_int(12, p.y[1]))
twist(p) ==
  Point(times[bnf2_to_bnf12(p.x), pow[w, 2]], times[bnf2_to_bnf12(p.y), pow[w, 3]])

\* The line through p1 and p2, at t: a chord, a tangent or a vertical.
linefunc[p1 \in Points, p2 \in Points, t \in Points] ==
  LET Line[lam \in Elements] == sub[times[lam, sub[t.x, p1.x]], sub[t.y, p1.y]]
  IN CASE p1.x # p2.x -> Line[truediv[sub[p2.y, p1.y], sub[p2.x, p1.x]]]
       [] p1 = p2 -> Line[Slope[p1]]
       [] p1.x = p2.x /\ p1.y # p2.y -> sub[t.x, p1.x]

\* An iteration of Miller's loop for the bit i, on the multiple r of q and the
\* product f of the lines.
Multiple == ATE_PAIRING_COUNT - 1
BitIsSet(i) == (Multiple \div 2 ^ i) % 2 = 1
MillerPoint(r, q, i) == IF BitIsSet(i) THEN plus[double[r], q] ELSE double[r]
MillerValue(f, r, q, p, i) ==
  LET doubled == times[times[f, f], linefunc[r, r, p]]
  IN IF BitIsSet(i) THEN times[doubled, linefunc[double[r], q, p]] ELSE doubled

Frobenius[q \in Points] == Point(frobenius[q.x], frobenius[q.y])

\* After the loop: two lines more, through the images of q under Frobenius.
\* mutant: the second image is not reflected
FrobeniusLines_NotReflected(f, r, q, p) ==
  LET Lines[q1 \in Points, nq2 \in Points] ==
        times[times[f, linefunc[r, q1, p]], linefunc[plus[r, q1], nq2, p]]
  IN Lines[Frobenius[q], Frobenius[Frobenius[q]]]
FrobeniusLines(f, r, q, p) ==
  LET Reflected[t \in Points] == Point(t.x, neg[t.y])
      Lines[q1 \in Points, nq2 \in Points] ==
        times[times[f, linefunc[r, q1, p]], linefunc[plus[r, q1], nq2, p]]
  IN Lines[Frobenius[q], Reflected[Frobenius[Frobenius[q]]]]
==============================================================================
