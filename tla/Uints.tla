-------------------------------- MODULE Uints --------------------------------
(***************************************************************************)
(* A program that calculates with the classes of BaseTypes, and the way    *)
(* Python picks the method of a binary operator.  The machine holds one    *)
(* object of a Uint class and applies operators to it, with any operand on *)
(* either side, one after the other.                                       *)
(***************************************************************************)
EXTENDS BaseTypes

CONSTANTS
  Operands,   \* the objects that may be the other operand
  Exponents,  \* the numbers that are used as exponents and in powers
  Moduli,     \* the numbers that are given as modulo
  UintBound   \* bound on the values of Uint that the machine goes on with

VARIABLES
  acc,  \* the object in hand, of class Uint or U256
  last  \* the last call: its name, its operands and what it gave

vars == <<acc, last>>

\* Operands are what the constructors of their classes let through; None is no
\* modulo.
ASSUME UintsAssumption ==
  /\ Operands \subseteq [cls : {"int", "Uint", "U256", "str"}, val : Int]
  /\ \A o \in Operands : InRange(o)
  /\ Exponents \subseteq Int
  /\ Moduli \subseteq Int \ {None}
  /\ UintBound \in Int

----------------------------------------------------------------------------
(* The machine *)

\* The method of a class for an operator whose left operand is the object.
Forward(op, s, r) ==
  LET fixed == s.cls = "U256"
  IN CASE op = "+" -> IF fixed THEN FixedAdd(s.val, r.val) ELSE UintAdd(s.val, r.val)
       [] op = "-" -> IF fixed THEN FixedSub(s.val, r.val) ELSE UintSub(s.val, r.val)
       [] op = "*" -> IF fixed THEN FixedMul(s.val, r.val) ELSE UintMul(s.val, r.val)
       [] op = "//" ->
            IF fixed THEN FixedFloorDiv(s.val, r.val) ELSE UintFloorDiv(s.val, r.val)
       [] op = "%" -> IF fixed THEN FixedMod(s.val, r.val) ELSE UintMod(s.val, r.val)
       [] op = "**" ->
            IF fixed THEN FixedPow(s.val, r.val, None) ELSE UintPow(s.val, r.val, None)
       [] op = "^" -> IF fixed THEN FixedXor(s.val, r.val) ELSE UintXor(s.val, r.val)

\* The reflected method, for an operator whose right operand is the object.
Reflected(op, s, l) ==
  LET fixed == s.cls = "U256"
  IN CASE op = "-" -> IF fixed THEN FixedRSub(s.val, l.val) ELSE UintRSub(s.val, l.val)
       [] op = "//" ->
            IF fixed THEN FixedRFloorDiv(s.val, l.val) ELSE UintRFloorDiv(s.val, l.val)
       [] op = "%" -> IF fixed THEN FixedRMod(s.val, l.val) ELSE UintRMod(s.val, l.val)
       [] op = "**" -> IF fixed THEN FixedRPow(s.val, l.val) ELSE UintRPow(s.val, l.val)
       [] op \in {"+", "*", "^"} -> Forward(op, s, l)

\* Python asks the right operand first when its class is a proper subclass of
\* the class of the left one, hence for an int on the left; Uint and U256 are
\* not related, and the left one answers.  No class answers a non-integer.
Binary(op, x, y) ==
  IF ~IsInt(x) \/ ~IsInt(y) THEN Raise(BadType)
  ELSE IF x.cls = "int" THEN Reflected(op, y, x) ELSE Forward(op, x, y)

\* The call is recorded; the machine goes on with the result when it is one.
Record(op, x, y, modulo, result) ==
  /\ last' = [op |-> op, left |-> x, right |-> y, modulo |-> modulo,
              result |-> result]
  /\ acc' = IF Failed(result) THEN acc ELSE result
  /\ acc'.val <= UintBound

Numbers == {o \in Operands : IsInt(o)}
SmallIntegers == {o \in Numbers : o.val \in Exponents}

\* acc <op> y, or y <op> acc.
Apply(op, others) ==
  \E y \in others :
    \/ Record(op, acc, y, None, Binary(op, acc, y))
    \/ Record(op, y, acc, None, Binary(op, y, acc))

Add == Apply("+", Operands)
Sub == Apply("-", Operands)
Mul == Apply("*", Operands)
FloorDiv == Apply("//", Operands)
Mod == Apply("%", Operands)
BitXor == Apply("^", Operands)

\* Powers are taken of operands that keep the numbers small.
Pow == acc.val \in Exponents /\ Apply("**", SmallIntegers)

DivMod ==
  \E y \in Numbers, part \in {1, 2} :
    LET op == <<"//", "%">>[part]
        forward == IF acc.cls = "U256" THEN FixedDivMod(acc.val, y.val)
                                       ELSE UintDivMod(acc.val, y.val)
        reflected == IF acc.cls = "U256" THEN FixedRDivMod(acc.val, y.val)
                                         ELSE UintRDivMod(acc.val, y.val)
    IN \/ Record(op, acc, y, None, forward[part])
       \/ y.cls = "int" /\ Record(op, y, acc, None, reflected[part])

PowModulo ==
  /\ acc.val \in Exponents
  /\ \E y \in SmallIntegers, modulo \in Moduli :
       Record("pow", acc, y, modulo,
              IF acc.cls = "U256" THEN FixedPow(acc.val, y.val, modulo)
                                  ELSE UintPow(acc.val, y.val, modulo))

\* The operators and methods of U256 alone.
FixedOnly(op, Method(_, _), others) ==
  /\ acc.cls = "U256"
  /\ \E y \in others : Record(op, acc, y, None, Method(acc.val, y.val))

BitAnd == FixedOnly("&", FixedAnd, Numbers)
BitOr == FixedOnly("|", FixedOr, Numbers)
RShift == FixedOnly(">>", FixedRShift, SmallIntegers)
Invert == FixedOnly("~", LAMBDA s, r : FixedInvert(s), {acc})
AddWrapping == FixedOnly("wrapping_add", WrappingAdd, Numbers)
SubWrapping == FixedOnly("wrapping_sub", WrappingSub, Numbers)
MulWrapping == FixedOnly("wrapping_mul", WrappingMul, Numbers)
PowWrapping ==
  /\ acc.cls = "U256" /\ acc.val \in Exponents
  /\ \E y \in SmallIntegers, modulo \in Moduli \union {None} :
       Record("wrapping_pow", acc, y, modulo, WrappingPow(acc.val, y.val, modulo))

\* A new object is made of a number, or of a signed number.
Construct ==
  \E y \in Numbers :
    \/ Record("new", y, y, None, Uint(y.val))
    \/ Record("new", y, y, None, U256(y.val))
    \/ Record("from_signed", y, y, None, FromSigned(y.val))

\* The object goes through its bytes into the other class: without padding, in
\* the other order, or padded to a word when it fits.
Transcode ==
  \/ Record("bytes", acc, acc, None, UintFromBeBytes(ToBeBytes(acc)))
  \/ Record("bytes", acc, acc, None, UintFromLeBytes(ToLeBytes(acc)))
  \/ Record("bytes", acc, acc, None, U256FromBeBytes(ToBeBytes(acc)))
  \/ /\ Fits(acc.val, WordBytes)
     /\ Record("bytes", acc, acc, None, U256FromBeBytes(ToBeBytes32(acc)))

Init ==
  /\ acc = U256(MAX_VALUE)
  /\ last = [op |-> "new", left |-> acc, right |-> acc,
             modulo |-> None, result |-> acc]

Next ==
  \/ Add \/ Sub \/ Mul \/ FloorDiv \/ Mod \/ DivMod \/ Pow \/ PowModulo
  \/ BitAnd \/ BitOr \/ BitXor \/ Invert \/ RShift
  \/ AddWrapping \/ SubWrapping \/ MulWrapping \/ PowWrapping
  \/ Construct \/ Transcode

Spec == Init /\ [][Next]_vars

----------------------------------------------------------------------------
(* Properties *)

\* int.__new__ skips the test of the constructor, so each operator has to keep
\* the range of the class by its own guards.  All do, but the power with a
\* plain int on the left (FixedUint.__rpow__).
RangeKept ==
  [][InRange(acc) /\ ~InRange(acc') =>
       last'.op = "**" /\ last'.left.cls = "int" /\ last'.right.cls = "U256"]_vars

SameModulo(a, b, n) == (a - b) % n = 0

\* What an operator means, said without the operators of the model.
Means(op, x, y, modulo, r) ==
  CASE op = "+" -> r - x = y
    [] op = "-" -> r + y = x
    [] op = "*" -> IF x = 0 THEN r = 0 ELSE r % x = 0 /\ r \div x = y
    [] op = "//" -> y * r <= x /\ x < y * (r + 1)
    [] op = "%" -> 0 <= r /\ r < y /\ SameModulo(x, r, y)
    [] op = "**" -> r = FoldLeft(LAMBDA p, i : p * x, 1, [i \in 1 .. y |-> i])
    [] op = "pow" -> r < modulo /\ SameModulo(ToThe(x, y), r, modulo)
    [] op = "wrapping_add" -> SameModulo(r, x + y, U256_CEIL_VALUE)
    [] op = "wrapping_sub" -> SameModulo(r, x - y, U256_CEIL_VALUE)
    [] op = "wrapping_mul" -> SameModulo(r, x * y, U256_CEIL_VALUE)
    [] op = "wrapping_pow" ->
         IF modulo = None THEN SameModulo(r, ToThe(x, y), U256_CEIL_VALUE)
                          ELSE r < modulo /\ SameModulo(r, ToThe(x, y), modulo)
    [] op = "&" -> \A i \in 0 .. WordBits : Bit(r, i) = Bit(x, i) * Bit(y, i)
    [] op = "|" -> \A i \in 0 .. WordBits : (Bit(r, i) = 0) <=> Bit(x, i) + Bit(y, i) = 0
    [] op = "^" -> \A i \in 0 .. WordBits + 2 : (Bit(r, i) = 1) <=> Bit(x, i) # Bit(y, i)
    [] op = "~" -> IsWord(r) /\ SameModulo(x + r, MAX_VALUE, U256_CEIL_VALUE)
    [] op = ">>" -> r * ToThe(2, y) <= x /\ x < (r + 1) * ToThe(2, y)
    [] op = "from_signed" -> SameModulo(r, x, U256_CEIL_VALUE)
    [] OTHER -> r = x

\* A call that gives an object gives the number that its operator means, for
\* whichever side answered and whichever class it was: nothing is ever cut off
\* in silence but by the methods that say so.
NothingLost ==
  \/ Failed(last.result)
  \/ Means(last.op, last.left.val, last.right.val, last.modulo, last.result.val)

\* The class that answers a binary operator.
Answering == IF last.left.cls = "int" THEN last.right.cls ELSE last.left.cls
Representable(n) == InRange(Object(Answering, n))

\* A call is refused only for a reason: with two operands that the answering
\* class can represent, and a result that it can represent, it gives the
\* result.  The order of the guards and the computation, and the reflected
\* methods, could refuse what is right.
NoFalseRefusal ==
  LET x == last.left.val
      y == last.right.val
      Possible ==
        CASE last.op = "+" -> Representable(x + y)
          [] last.op = "-" -> Representable(x - y)
          [] last.op = "*" -> Representable(x * y)
          [] last.op \in {"//", "%"} -> y # 0
          [] last.op = "**" -> y >= 0 /\ Representable(ToThe(x, y))
          [] last.op \in {"pow", "wrapping_pow"} -> last.modulo > 0 /\ Representable(last.modulo)
          [] last.op \in {"from_signed", "new", "bytes"} -> FALSE
          [] OTHER -> TRUE
  IN /\ IsInt(last.left) /\ IsInt(last.right)
     /\ Representable(x) /\ Representable(y) /\ Possible
     => ~Failed(last.result)

\* Words in two's complement: every word is the word of exactly one number of
\* the signed range; the wrapping sum and product of two words represent the
\* sum and the product of their numbers whenever these are in the range; adding
\* takes back what subtracting took; and the inverse plus one is the negative.
SignedArithmetic ==
  acc.cls = "U256" /\ InRange(acc) =>
    LET half == U256_CEIL_VALUE \div 2
        signed == ToSigned(acc)
    IN /\ signed \in -half .. half - 1
       /\ FromSigned(signed) = acc
       /\ WrappingAdd(FixedInvert(acc.val).val, 1) = FromSigned(-signed)
       /\ \A n \in -half .. half - 1 :
            LET word == FromSigned(n).val
            IN /\ WrappingAdd(WrappingSub(acc.val, word).val, word) = acc
               /\ signed + n \in -half .. half - 1 =>
                    ToSigned(WrappingAdd(acc.val, word)) = signed + n
               /\ signed * n \in -half .. half - 1 =>
                    ToSigned(WrappingMul(acc.val, word)) = signed * n
==============================================================================
