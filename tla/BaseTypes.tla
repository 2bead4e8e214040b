------------------------------ MODULE BaseTypes ------------------------------
(***************************************************************************)
(* The integer classes of EllipticCurvesPy/base_types.py: Uint, unsigned   *)
(* without a bound, and U256, unsigned with WordBits bits, both subclasses *)
(* of int.                                                                 *)
(*                                                                         *)
(* An object is a class and a number.  A call ends with an object or with  *)
(* an exception, and an exception is an object of the class of its name.   *)
(***************************************************************************)
EXTENDS Integers, Sequences, SequencesExt

CONSTANTS
  ByteBits,   \* 8 in the code: the bits of a byte
  WordBytes   \* 32 in the code: the bytes of a U256

\* x ** y, of an exponent that is not negative; 0 ** 0 is 1.
ToThe(x, y) ==
  LET power[n \in Nat] == IF n = 0 THEN 1 ELSE power[n - 1] * x
  IN power[y]

WordBits == ByteBits * WordBytes
U256_CEIL_VALUE == ToThe(2, WordBits)
MAX_VALUE == U256_CEIL_VALUE - 1
ByteBase == ToThe(2, ByteBits)

ASSUME WidthAssumption == ByteBits \in Nat \ {0} /\ WordBytes \in Nat \ {0}

Overflow == "OverflowError"
DivisionByZero == "ZeroDivisionError"
BadValue == "ValueError"
BadType == "TypeError"
Exceptions == {Overflow, DivisionByZero, BadValue, BadType}

\* An object of one of the integer classes, or something that is no int.
Object(cls, val) == [cls |-> cls, val |-> val]
Raise(exception) == Object(exception, 0)
IsInt(x) == x.cls \in {"int", "Uint", "U256"}
Failed(x) == x.cls \in Exceptions

\* What the constructor of a class accepts.
InRange(x) ==
  /\ x.cls \in {"Uint", "U256"} => x.val >= 0
  /\ x.cls = "U256" => x.val <= MAX_VALUE

----------------------------------------------------------------------------
(* The bits of numbers that are not negative *)

Bit(n, i) == (n \div ToThe(2, i)) % 2
BitLength(n) == CHOOSE k \in 0 .. n : n < ToThe(2, k) /\ \A j \in 0 .. k - 1 : n >= ToThe(2, j)

\* The number of k bits, b[0] the lowest.
FromBits(b, k) ==
  LET value[n \in 0 .. k] == IF n = 0 THEN 0 ELSE value[n - 1] + b[n - 1] * ToThe(2, n - 1)
  IN value[k]

\* As many bits as the longer one has.
Width(x, y) == BitLength(IF x < y THEN y ELSE x)
And(x, y) == FromBits([i \in 0 .. Width(x, y) - 1 |-> Bit(x, i) * Bit(y, i)], Width(x, y))
Or(x, y) ==
  FromBits([i \in 0 .. Width(x, y) - 1 |-> IF Bit(x, i) + Bit(y, i) = 0 THEN 0 ELSE 1],
           Width(x, y))
Xor(x, y) ==
  FromBits([i \in 0 .. Width(x, y) - 1 |-> (Bit(x, i) + Bit(y, i)) % 2], Width(x, y))

----------------------------------------------------------------------------
(* Uint *)

Uint(value) == IF value < 0 THEN Raise(Overflow) ELSE Object("Uint", value)

\* The operators guard their operand and build the result without the
\* constructor.
UintOf(guard, value) ==
  IF guard THEN Object("Uint", value) ELSE Raise(Overflow)

UintAdd(s, r) == UintOf(r >= 0, s + r)
UintSub(s, r) == UintOf(r >= 0 /\ s >= r, s - r)
UintRSub(s, l) == UintOf(l >= 0 /\ s <= l, l - s)
UintMul(s, r) == UintOf(r >= 0, s * r)

\* int.__floordiv__ and int.__mod__ of two numbers that are not negative.
Divided(cls, x, y) ==
  IF y = 0 THEN Raise(DivisionByZero) ELSE Object(cls, x \div y)
Remainder(cls, x, y) ==
  IF y = 0 THEN Raise(DivisionByZero) ELSE Object(cls, x % y)

UintFloorDiv(s, r) == IF r < 0 THEN Raise(Overflow) ELSE Divided("Uint", s, r)
UintRFloorDiv(s, l) == IF l < 0 THEN Raise(Overflow) ELSE Divided("Uint", l, s)
UintMod(s, r) == IF r < 0 THEN Raise(Overflow) ELSE Remainder("Uint", s, r)
UintRMod(s, l) == IF l < 0 THEN Raise(Overflow) ELSE Remainder("Uint", l, s)
UintDivMod(s, r) == <<UintFloorDiv(s, r), UintMod(s, r)>>
UintRDivMod(s, l) == <<UintRFloorDiv(s, l), UintRMod(s, l)>>

\* pow(x, y, modulo) of numbers that are not negative; None is no modulo.
None == -1
Power(cls, x, y, modulo) ==
  CASE modulo = None -> Object(cls, ToThe(x, y))
    [] modulo = 0 -> Raise(BadValue)
    [] OTHER -> Object(cls, ToThe(x, y) % modulo)

UintPow(s, r, modulo) ==
  IF r < 0 \/ (modulo # None /\ modulo < 0) THEN Raise(Overflow)
                                           ELSE Power("Uint", s, r, modulo)
UintRPow(s, l) == IF l < 0 THEN Raise(Overflow) ELSE Power("Uint", l, s, None)
UintXor(s, r) == UintOf(r >= 0, IF r < 0 THEN 0 ELSE Xor(s, r))

----------------------------------------------------------------------------
(* FixedUint, with the bound of its subclass U256 *)

U256(value) ==
  IF value < 0 \/ value > MAX_VALUE THEN Raise(Overflow)
                                    ELSE Object("U256", value)

IsWord(n) == n >= 0 /\ n <= MAX_VALUE

\* An operator that insists on an operand of the range.
Fixed(operand, result) == IF IsWord(operand) THEN result ELSE Raise(Overflow)

\* n & MAX_VALUE, for n of either sign.
Masked(n) == n % U256_CEIL_VALUE

\* mutant: the operand is tested instead of the sum
FixedAdd_TestsOperand(s, r) == Fixed(r, Object("U256", s + r))
FixedAdd(s, r) ==
  IF r < 0 \/ s + r > MAX_VALUE THEN Raise(Overflow) ELSE Object("U256", s + r)
FixedSub(s, r) ==
  IF s < r THEN Raise(Overflow) ELSE Fixed(r, Object("U256", s - r))
\* mutant: equal operands are refused
FixedRSub_Strict(s, l) ==
  IF s >= l THEN Raise(Overflow) ELSE Fixed(l, Object("U256", l - s))
FixedRSub(s, l) ==
  IF s > l THEN Raise(Overflow) ELSE Fixed(l, Object("U256", l - s))
\* mutant: the product wraps
FixedMul_Wraps(s, r) ==
  IF r < 0 THEN Raise(Overflow) ELSE Object("U256", Masked(s * r))
FixedMul(s, r) ==
  IF r < 0 \/ s * r > MAX_VALUE THEN Raise(Overflow) ELSE Object("U256", s * r)
FixedFloorDiv(s, r) == Fixed(r, Divided("U256", s, r))
FixedRFloorDiv(s, l) == Fixed(l, Divided("U256", l, s))
FixedMod(s, r) == Fixed(r, Remainder("U256", s, r))
FixedRMod(s, l) == Fixed(l, Remainder("U256", l, s))
FixedDivMod(s, r) == <<FixedFloorDiv(s, r), FixedMod(s, r)>>
FixedRDivMod(s, l) == <<FixedRFloorDiv(s, l), FixedRMod(s, l)>>

\* The power is taken before the exponent is tested: a negative exponent of 0
\* is a division by zero, and with a modulo it asks for an inverse of s.
FixedPow(s, r, modulo) ==
  LET Result == Power("U256", s, r, modulo)
      Invertible == modulo > 0 /\ \E i \in 0 .. modulo : (s * i) % modulo = 1 % modulo
  IN IF modulo # None /\ ~IsWord(modulo) THEN Raise(Overflow)
     ELSE IF modulo # None /\ r < 0 /\ ~Invertible THEN Raise(BadValue)
     ELSE IF modulo = None /\ r < 0 /\ s = 0 THEN Raise(DivisionByZero)
     ELSE IF r < 0 THEN Raise(Overflow)
     ELSE IF Failed(Result) THEN Result
     ELSE IF ~IsWord(r) \/ Result.val > MAX_VALUE THEN Raise(Overflow) ELSE Result

\* Only the left operand is tested, not the power.
FixedRPow(s, l) == Fixed(l, Power("U256", l, s, None))

FixedAnd(s, r) == Fixed(r, Object("U256", IF r < 0 THEN 0 ELSE And(s, r)))
FixedOr(s, r) == Fixed(r, Object("U256", IF r < 0 THEN 0 ELSE Or(s, r)))
FixedXor(s, r) == Fixed(r, Object("U256", IF r < 0 THEN 0 ELSE Xor(s, r)))
FixedInvert(s) == Object("U256", Masked(-s - 1))
FixedRShift(s, by) ==
  IF by < 0 THEN Raise(BadValue) ELSE Object("U256", s \div ToThe(2, by))

WrappingAdd(s, r) == Fixed(r, Object("U256", Masked(s + r)))
WrappingSub(s, r) == Fixed(r, Object("U256", Masked(s - r)))
WrappingMul(s, r) == Fixed(r, Object("U256", Masked(s * r)))
WrappingPow(s, r, modulo) ==
  IF (modulo # None /\ ~IsWord(modulo)) \/ ~IsWord(r)
  THEN Raise(Overflow)
  ELSE LET Result == Power("U256", s, r, modulo)
       IN IF Failed(Result) THEN Result ELSE Object("U256", Masked(Result.val))

----------------------------------------------------------------------------
(* Conversions *)

ByteLength(n) == (BitLength(n) + ByteBits - 1) \div ByteBits

\* A sequence of bytes of a class with a fixed length, Bytes0 to Bytes256.
FixedBytes(LENGTH, bytes) ==
  IF Len(bytes) # LENGTH THEN Raise(BadValue) ELSE [cls |-> "FixedBytes", val |-> bytes]

\* int.to_bytes, of a number that fits, and int.from_bytes.
Fits(n, length) == n < ToThe(ByteBase, length)
LittleEndian(n, length) ==
  [i \in 1 .. length |-> (n \div ToThe(ByteBase, i - 1)) % ByteBase]
BigEndian(n, length) == Reverse(LittleEndian(n, length))
FromBigEndian(bytes) == FoldLeft(LAMBDA n, byte : n * ByteBase + byte, 0, bytes)

ToBeBytes(x) == BigEndian(x.val, ByteLength(x.val))
ToLeBytes(x) == LittleEndian(x.val, ByteLength(x.val))

\* Only a number that fits has a Bytes32.
ToBeBytes32(x) == BigEndian(x.val, WordBytes)

UintFromBeBytes(bytes) == Uint(FromBigEndian(bytes))
UintFromLeBytes(bytes) == Uint(FromBigEndian(Reverse(bytes)))
U256FromBeBytes(bytes) ==
  IF Len(bytes) > WordBytes THEN Raise(BadValue) ELSE U256(FromBigEndian(bytes))

FromSigned(value) == IF value >= 0 THEN U256(value) ELSE U256(Masked(value))
\* mutant: off by one in the test of the sign bit
ToSigned_NoSignBit(x) ==
  IF BitLength(x.val) <= WordBits THEN x.val ELSE x.val - U256_CEIL_VALUE
ToSigned(x) ==
  IF BitLength(x.val) < WordBits THEN x.val ELSE x.val - U256_CEIL_VALUE
==============================================================================
