---------------------------- MODULE UintsProofs -----------------------------
(***************************************************************************)
(* What the number classes compute, for bytes and words of any size: no    *)
(* call loses anything or is refused without a reason, and words are       *)
(* signed numbers in two's complement.                                     *)
(***************************************************************************)
EXTENDS Uints, Inductions

-----------------------------------------------------------------------------
(* Division with remainder *)

LEMMA Quotients ==
  ASSUME NEW n \in Int, NEW m \in Nat, m > 0
  PROVE  \E q \in Int : \E r \in Nat : n = m * q + r /\ r < m
<1> DEFINE S == {k \in Nat : \E q \in Int : n = m * q + k}
<1>1. S # {}
  <2>1. CASE n >= 0
    <3>1. n = m * 0 + n /\ 0 \in Int /\ n \in Nat
      BY <2>1
    <3> QED BY <3>1
  <2>2. CASE n < 0
    <3>1. n * (1 - m) \in Nat
      <4>1. PICK a \in Nat, b \in Nat : a = -n /\ b = m - 1
        BY <2>2
      <4>2. n * (1 - m) = a * b
        BY <4>1
      <4> QED BY <4>2
    <3>2. n = m * n + n * (1 - m)
      OBVIOUS
    <3> QED BY <3>1, <3>2
  <2>3. n >= 0 \/ n < 0
    OBVIOUS
  <2> HIDE DEF S
  <2> QED BY <2>1, <2>2, <2>3
<1>2. PICK k \in S : \A l \in S : k <= l
  <2>1. S \subseteq Nat
    OBVIOUS
  <2> HIDE DEF S
  <2> QED BY <1>1, <2>1, LeastNumber
<1>3. PICK q \in Int : n = m * q + k
  OBVIOUS
<1>4. k < m
  <2> SUFFICES ASSUME k >= m PROVE FALSE
    OBVIOUS
  <2>1. n = m * (q + 1) + (k - m) /\ q + 1 \in Int /\ k - m \in Nat
    BY <1>3
  <2>2. k - m \in S /\ k - m < k /\ k \in Nat
    BY <2>1
  <2> HIDE DEF S
  <2>3. ~(k <= k - m)
    BY <2>1, <2>2
  <2> QED BY <1>2, <2>2, <2>3
<1> QED BY <1>3, <1>4

LEMMA QuotientIs ==
  ASSUME NEW n \in Int, NEW m \in Nat, m > 0, NEW q \in Int, NEW r \in Int,
         n = m * q + r, 0 <= r, r < m
  PROVE  n \div m = q /\ n % m = r
OBVIOUS

LEMMA Division ==
  ASSUME NEW n \in Int, NEW m \in Nat, m > 0
  PROVE  /\ n \div m \in Int /\ n % m \in Nat /\ n % m < m
         /\ n = m * (n \div m) + (n % m)
<1>1. PICK q \in Int, r \in Nat : n = m * q + r /\ r < m
  BY Quotients
<1>2. n \div m = q /\ n % m = r
  BY <1>1, QuotientIs
<1> QED BY <1>1, <1>2

LEMMA DivisionNat ==
  ASSUME NEW n \in Nat, NEW m \in Nat, m > 0
  PROVE  n \div m \in Nat /\ n \div m <= n /\ n % m <= n
<1>1. PICK q \in Int, r \in Nat : q = n \div m /\ r = n % m /\ n = m * q + r /\ r < m
  BY Division
<1>2. q >= 0
  <2> SUFFICES ASSUME q <= -1 PROVE FALSE
    BY <1>1
  <2>1. PICK p \in Nat : q = -1 - p
    <3>1. -1 - q \in Nat /\ q = -1 - (-1 - q)
      OBVIOUS
    <3> QED BY <3>1
  <2>2. m * q = -m - m * p /\ m * p \in Nat
    BY <2>1
  <2> QED BY <1>1, <2>2
<1>3. m * q >= q
  <2>1. PICK k \in Nat : m = 1 + k
    <3>1. m - 1 \in Nat /\ m = 1 + (m - 1)
      OBVIOUS
    <3> QED BY <3>1
  <2>2. m * q = q + k * q /\ k * q \in Nat
    BY <1>2, <2>1
  <2> QED BY <2>2
<1> QED BY <1>1, <1>2, <1>3

(* Adding multiples of the divisor. *)
LEMMA ShiftedDivision ==
  ASSUME NEW n \in Int, NEW m \in Nat, m > 0, NEW k \in Int
  PROVE  (n + m * k) \div m = n \div m + k /\ (n + m * k) % m = n % m
<1>1. PICK q \in Int, r \in Nat : q = n \div m /\ r = n % m /\ n = m * q + r /\ r < m
  BY Division
<1>2. n + m * k = m * (q + k) + r /\ q + k \in Int /\ n + m * k \in Int
  BY <1>1
<1>3. (n + m * k) \div m = q + k /\ (n + m * k) % m = r
  BY <1>1, <1>2, QuotientIs
<1> QED BY <1>1, <1>3

LEMMA SmallRemainder ==
  ASSUME NEW n \in Nat, NEW m \in Nat, n < m
  PROVE  n % m = n /\ n \div m = 0
<1>1. n = m * 0 + n /\ m > 0
  OBVIOUS
<1> QED BY <1>1, QuotientIs

(* Congruent numbers differ by a multiple, and have the same remainder. *)
LEMMA CongruentBy ==
  ASSUME NEW a \in Int, NEW b \in Int, NEW m \in Nat, m > 0, NEW k \in Int, a = b + m * k
  PROVE  SameModulo(a, b, m) /\ a % m = b % m
<1>1. a - b = m * k + 0
  OBVIOUS
<1>2. (a - b) % m = 0
  BY <1>1, QuotientIs
<1> QED BY <1>2, ShiftedDivision DEF SameModulo

LEMMA Congruent ==
  ASSUME NEW a \in Int, NEW b \in Int, NEW m \in Nat, m > 0, SameModulo(a, b, m)
  PROVE  a % m = b % m /\ \E k \in Int : a = b + m * k
<1>1. PICK q \in Int : a - b = m * q + ((a - b) % m)
  BY Division
<1>2. a = b + m * q
  BY <1>1 DEF SameModulo
<1> QED BY <1>2, CongruentBy

LEMMA SameRemainder ==
  ASSUME NEW a \in Int, NEW b \in Int, NEW m \in Nat, m > 0, a % m = b % m
  PROVE  SameModulo(a, b, m)
<1>1. PICK p \in Int, q \in Int, r \in Nat, s \in Nat :
        a = m * p + r /\ b = m * q + s /\ r = a % m /\ s = b % m
  BY Division
<1>2. a = b + m * (p - q) /\ p - q \in Int
  BY <1>1
<1> QED BY <1>2, CongruentBy

LEMMA CongruentToRemainder ==
  ASSUME NEW n \in Int, NEW m \in Nat, m > 0
  PROVE  SameModulo(n % m, n, m) /\ SameModulo(n, n % m, m)
<1>1. PICK q \in Int, r \in Nat : n = m * q + r /\ r = n % m
  BY Division
<1>2. n = r + m * q /\ r = n + m * (-q) /\ -q \in Int
  BY <1>1
<1>3. SameModulo(n, r, m)
  BY <1>2, CongruentBy
<1>4. SameModulo(r, n, m)
  <2>1. PICK p \in Int : p = -q /\ r = n + m * p
    BY <1>2
  <2> QED BY <2>1, CongruentBy
<1> QED BY <1>1, <1>3, <1>4

-----------------------------------------------------------------------------
(* Powers *)

LEMMA PowerSteps ==
  ASSUME NEW x \in Int
  PROVE  /\ ToThe(x, 0) = 1
         /\ \A n \in Nat : ToThe(x, n) \in Int /\ ToThe(x, n + 1) = ToThe(x, n) * x
<1> DEFINE Iterates(f) == f = [n \in Nat |-> IF n = 0 THEN 1 ELSE f[n - 1] * x]
<1>1. PICK step : step = [p \in Nat \X Int |-> p[2] * x]
  OBVIOUS
<1>2. step \in [Nat \X Int -> Int] /\ 1 \in Int
  BY <1>1
<1>3. PICK f \in [Nat -> Int] : CountsUp(f, 1, step)
  <2> HIDE DEF Iterates
  <2> QED BY <1>2, NatRecursion
<1>4. Iterates(f)
  <2>1. ASSUME NEW n \in Nat, n # 0 PROVE step[<<n - 1, f[n - 1]>>] = f[n - 1] * x
    <3>1. n - 1 \in Nat /\ f[n - 1] \in Int
      BY <1>3, <2>1
    <3> QED BY <1>1, <3>1
  <2> QED BY <1>3, <2>1 DEF CountsUp
<1>5. PICK g : g = CHOOSE h : Iterates(h)
  OBVIOUS
<1>6. g = [n \in Nat |-> IF n = 0 THEN 1 ELSE g[n - 1] * x]
  BY <1>4, <1>5
<1>7. \A n \in Nat : ToThe(x, n) = g[n]
  BY <1>5 DEF ToThe
<1>8. g[0] = 1 /\ \A n \in Nat : g[n + 1] = g[n] * x
  BY <1>6
<1> DEFINE S == {n \in Nat : g[n] \in Int}
<1>9. 0 \in S /\ \A n \in Nat : n \in S => n + 1 \in S
  BY <1>8
<1>10. \A n \in Nat : g[n] \in Int
  <2> HIDE DEF S
  <2>1. \A n \in Nat : n \in S
    BY <1>9, AllNumbers
  <2> QED BY <2>1 DEF S
<1> QED BY <1>7, <1>8, <1>10

LEMMA PowerSum ==
  ASSUME NEW x \in Int
  PROVE  \A a, b \in Nat : ToThe(x, a + b) = ToThe(x, a) * ToThe(x, b)
<1> SUFFICES ASSUME NEW a \in Nat
             PROVE  \A b \in Nat : ToThe(x, a + b) = ToThe(x, a) * ToThe(x, b)
  OBVIOUS
<1> DEFINE S == {b \in Nat : ToThe(x, a + b) = ToThe(x, a) * ToThe(x, b)}
<1>1. 0 \in S
  <2>1. ToThe(x, 0) = 1 /\ ToThe(x, a) \in Int /\ a + 0 = a
    BY PowerSteps
  <2> QED BY <2>1
<1>2. ASSUME NEW b \in Nat, b \in S PROVE b + 1 \in S
  <2>1. PICK p \in Int, q \in Int : p = ToThe(x, a) /\ q = ToThe(x, b)
    BY PowerSteps
  <2>2. ToThe(x, a + b) = p * q
    BY <1>2, <2>1
  <2>3. ToThe(x, (a + b) + 1) = ToThe(x, a + b) * x /\ ToThe(x, b + 1) = q * x
    <3>1. a + b \in Nat
      OBVIOUS
    <3> QED BY <2>1, <3>1, PowerSteps
  <2>4. (a + b) + 1 = a + (b + 1) /\ b + 1 \in Nat /\ (p * q) * x = p * (q * x)
    OBVIOUS
  <2>5. ToThe(x, a + (b + 1)) = ToThe(x, a) * ToThe(x, b + 1)
    BY <2>1, <2>2, <2>3, <2>4
  <2> QED BY <2>4, <2>5
<1> HIDE DEF S
<1>3. \A b \in Nat : b \in S
  BY <1>1, <1>2, AllNumbers
<1> QED BY <1>3 DEF S

LEMMA PowerPositive ==
  ASSUME NEW x \in Nat, x > 0
  PROVE  \A n \in Nat : ToThe(x, n) \in Nat /\ ToThe(x, n) > 0
<1> DEFINE S == {n \in Nat : ToThe(x, n) \in Nat /\ ToThe(x, n) > 0}
<1>1. 0 \in S
  BY PowerSteps
<1>2. ASSUME NEW n \in Nat, n \in S PROVE n + 1 \in S
  <2>1. PICK p \in Nat, y \in Nat : p + 1 = ToThe(x, n) /\ y + 1 = x
    <3>1. /\ ToThe(x, n) - 1 \in Nat /\ (ToThe(x, n) - 1) + 1 = ToThe(x, n)
          /\ x - 1 \in Nat /\ (x - 1) + 1 = x
      BY <1>2
    <3> QED BY <3>1
  <2>2. ToThe(x, n + 1) = (p + 1) * (y + 1)
    <3>1. x \in Int /\ ToThe(x, n + 1) = ToThe(x, n) * x
      BY PowerSteps
    <3> QED BY <2>1, <3>1
  <2>3. (p + 1) * (y + 1) = p * y + p + y + 1 /\ p * y \in Nat
    OBVIOUS
  <2> QED BY <2>2, <2>3
<1> HIDE DEF S
<1>3. \A n \in Nat : n \in S
  BY <1>1, <1>2, AllNumbers
<1> QED BY <1>3 DEF S

LEMMA PowerNat ==
  ASSUME NEW x \in Nat, NEW n \in Nat
  PROVE  ToThe(x, n) \in Nat
<1> DEFINE S == {k \in Nat : ToThe(x, k) \in Nat}
<1>1. 0 \in S
  BY PowerSteps
<1>2. ASSUME NEW k \in Nat, k \in S PROVE k + 1 \in S
  <2>1. PICK p \in Nat : p = ToThe(x, k)
    BY <1>2
  <2>2. ToThe(x, k + 1) = p * x
    BY <2>1, PowerSteps
  <2> QED BY <2>2
<1> HIDE DEF S
<1>3. \A k \in Nat : k \in S
  BY <1>1, <1>2, AllNumbers
<1> QED BY <1>3 DEF S

LEMMA PowerGrows ==
  ASSUME NEW x \in Nat, x > 0, NEW a \in Nat, NEW b \in Nat, a <= b
  PROVE  ToThe(x, a) <= ToThe(x, b)
<1>1. PICK c \in Nat : b = a + c
  <2>1. b - a \in Nat /\ b = a + (b - a)
    OBVIOUS
  <2> QED BY <2>1
<1>2. PICK p \in Nat, q \in Nat : p = ToThe(x, a) /\ q + 1 = ToThe(x, c)
  <2>1. PICK p \in Nat, r \in Nat : p = ToThe(x, a) /\ r = ToThe(x, c) /\ r > 0
    BY PowerPositive
  <2>2. r - 1 \in Nat /\ (r - 1) + 1 = r
    BY <2>1
  <2> QED BY <2>1, <2>2
<1>3. ToThe(x, b) = p * (q + 1)
  BY <1>1, <1>2, PowerSum
<1>4. p * (q + 1) = p + p * q /\ p * q \in Nat
  OBVIOUS
<1> QED BY <1>2, <1>3, <1>4

LEMMA PowerOfPower ==
  ASSUME NEW x \in Int, NEW a \in Nat
  PROVE  \A b \in Nat : ToThe(ToThe(x, a), b) = ToThe(x, a * b)
<1>1. PICK y \in Int : y = ToThe(x, a)
  BY PowerSteps
<1> DEFINE S == {b \in Nat : ToThe(y, b) = ToThe(x, a * b)}
<1>2. 0 \in S
  <2>1. a * 0 = 0 /\ ToThe(x, 0) = 1 /\ ToThe(y, 0) = 1
    BY PowerSteps
  <2> QED BY <2>1
<1>3. ASSUME NEW b \in Nat, b \in S PROVE b + 1 \in S
  <2>1. PICK c \in Nat : c = a * b /\ a * (b + 1) = c + a
    OBVIOUS
  <2>2. ToThe(x, c + a) = ToThe(x, c) * y
    BY <1>1, PowerSum
  <2>3. ToThe(y, b + 1) = ToThe(y, b) * y
    BY PowerSteps
  <2>4. ToThe(y, b + 1) = ToThe(x, a * (b + 1))
    BY <1>3, <2>1, <2>2, <2>3
  <2> QED BY <2>4
<1> HIDE DEF S
<1>4. \A b \in Nat : b \in S
  BY <1>2, <1>3, AllNumbers
<1> QED BY <1>1, <1>4 DEF S

LEMMA PowersOfTwo ==
  ASSUME NEW n \in Nat
  PROVE  /\ ToThe(2, n) \in Nat /\ ToThe(2, n) > 0 /\ n < ToThe(2, n)
         /\ ToThe(2, n + 1) = 2 * ToThe(2, n)
<1>1. \A k \in Nat : ToThe(2, k) \in Nat /\ ToThe(2, k) > 0
  BY PowerPositive
<1>2. \A k \in Nat : ToThe(2, k + 1) = 2 * ToThe(2, k)
  <2> SUFFICES ASSUME NEW k \in Nat PROVE ToThe(2, k + 1) = 2 * ToThe(2, k)
    OBVIOUS
  <2>1. PICK p \in Nat : p = ToThe(2, k)
    BY <1>1
  <2>2. ToThe(2, k + 1) = p * 2
    BY <2>1, PowerSteps
  <2> QED BY <2>1, <2>2
<1> DEFINE S == {k \in Nat : k < ToThe(2, k)}
<1>3. 0 \in S
  BY <1>1
<1>4. ASSUME NEW k \in Nat, k \in S PROVE k + 1 \in S
  <2>1. k + 1 < ToThe(2, k + 1)
    BY <1>1, <1>2, <1>4
  <2> QED BY <2>1
<1> HIDE DEF S
<1>5. n \in S
  BY <1>3, <1>4, AllNumbers
<1> QED BY <1>1, <1>2, <1>5 DEF S

(* A power is what Means says it is: as many factors as the exponent counts. *)
LEMMA PowerIsProduct ==
  ASSUME NEW x \in Int, NEW y \in Nat
  PROVE  FoldLeft(LAMBDA p, i : p * x, 1, [i \in 1 .. y |-> i]) = ToThe(x, y)
<1> DEFINE g == [p \in Int \X (1..y) |-> p[1] * x]
           Iterates(iter) == iter = [s \in SUBSET (1..y) |->
             IF s = {} THEN 1 ELSE iter[s \ {Max(s)}] * x]
<1>1. g \in [Int \X (1..y) -> Int]
  OBVIOUS
<1>2. PICK f \in [SUBSET (1..y) -> Int] : FoldsUp(f, y, 1, g)
  <2>1. 1 \in Int
    OBVIOUS
  <2> HIDE DEF g
  <2> QED BY <1>1, <2>1, FoldExists
<1>3. Iterates(f)
  <2>1. ASSUME NEW s \in SUBSET (1..y), s # {}
        PROVE  g[<<f[s \ {Max(s)}], Max(s)>>] = f[s \ {Max(s)}] * x
    <3>1. Max(s) \in 1..y /\ s \ {Max(s)} \in SUBSET (1..y)
      BY <2>1, MaxOfRange
    <3>2. f[s \ {Max(s)}] \in Int
      BY <1>2, <3>1
    <3> QED BY <3>1, <3>2
  <2> HIDE DEF g
  <2>2. f = [s \in SUBSET (1..y) |-> f[s]]
    BY <1>2
  <2> QED BY <1>2, <2>1, <2>2 DEF FoldsUp
<1>4. PICK h : h = CHOOSE iter : Iterates(iter)
  OBVIOUS
<1>5. Iterates(h)
  BY <1>3, <1>4
<1>6. FoldLeft(LAMBDA p, i : p * x, 1, [i \in 1 .. y |-> i]) = h[1..y]
  BY <1>4 DEF FoldLeft, MapThenFoldSet
<1> DEFINE S == {k \in Nat : k <= y => h[1..k] = ToThe(x, k)}
<1>7. 0 \in S
  <2>1. 1..0 = {} /\ {} \in SUBSET (1..y)
    OBVIOUS
  <2>2. h[{}] = 1
    BY <1>5, <2>1
  <2> QED BY <2>1, <2>2, PowerSteps
<1>8. ASSUME NEW k \in Nat, k \in S PROVE k + 1 \in S
  <2> SUFFICES ASSUME k + 1 <= y PROVE h[1..(k + 1)] = ToThe(x, k + 1)
    OBVIOUS
  <2>1. PICK n \in 1..y : n = k + 1 /\ n - 1 = k /\ k <= y
    OBVIOUS
  <2>2. 1..n \in SUBSET (1..y) /\ Max(1..n) = n /\ (1..n) \ {n} = 1..(n - 1) /\ 1..n # {}
    BY MaxOfPrefix
  <2>3. h[1..n] = h[1..(n - 1)] * x
    BY <1>5, <2>2
  <2>4. ToThe(x, k + 1) = ToThe(x, k) * x
    BY PowerSteps
  <2>5. h[1..k] = ToThe(x, k)
    BY <1>8, <2>1
  <2> QED BY <2>1, <2>3, <2>4, <2>5
<1> HIDE DEF S
<1>9. y \in S
  BY <1>7, <1>8, AllNumbers
<1>10. h[1..y] = ToThe(x, y)
  BY <1>9 DEF S
<1> QED BY <1>6, <1>10

-----------------------------------------------------------------------------
(* Bits *)

LEMMA NestedDivision ==
  ASSUME NEW n \in Nat, NEW a \in Nat, NEW b \in Nat, a > 0, b > 0
  PROVE  (n \div a) \div b = n \div (a * b)
<1>1. PICK q \in Nat, r \in Nat : q = n \div a /\ n = a * q + r /\ r < a
  BY Division, DivisionNat
<1>2. PICK p \in Nat, s \in Nat : p = q \div b /\ q = b * p + s /\ s < b
  BY Division, DivisionNat
<1>3. PICK m \in Nat : m = a * b
  OBVIOUS
<1>4. PICK t \in Nat : t = a * s + r
  OBVIOUS
<1>5. n = m * p + t
  <2>1. a * (b * p + s) = (a * b) * p + a * s
    OBVIOUS
  <2> QED BY <1>1, <1>2, <1>3, <1>4, <2>1
<1>6. t < m
  <2>1. PICK d \in Nat : b = s + 1 + d
    <3>1. b - s - 1 \in Nat /\ b = s + 1 + (b - s - 1)
      BY <1>2
    <3> QED BY <3>1
  <2>2. a * (s + 1 + d) = a * s + a + a * d /\ a * d \in Nat
    OBVIOUS
  <2> QED BY <1>1, <1>3, <1>4, <2>1, <2>2
<1>7. m > 0
  BY <1>6
<1>8. n \div m = p
  BY <1>5, <1>6, <1>7, QuotientIs
<1> QED BY <1>1, <1>2, <1>3, <1>8

LEMMA BitLengthIs ==
  ASSUME NEW n \in Nat
  PROVE  /\ BitLength(n) \in Nat /\ n < ToThe(2, BitLength(n))
         /\ \A k \in Nat : n < ToThe(2, k) => BitLength(n) <= k
<1> DEFINE S == {k \in Nat : n < ToThe(2, k)}
<1>1. n \in S
  BY PowersOfTwo
<1>2. PICK m \in S : \A k \in S : m <= k
  <2>1. S \subseteq Nat
    OBVIOUS
  <2> HIDE DEF S
  <2> QED BY <1>1, <2>1, LeastNumber
<1>3. m \in 0..n /\ n < ToThe(2, m)
  <2>1. m <= n
    BY <1>1, <1>2
  <2> QED BY <2>1
<1>4. ASSUME NEW j \in Nat, j < m PROVE n >= ToThe(2, j)
  <2>1. j \notin S
    BY <1>2, <1>4
  <2>2. ToThe(2, j) \in Nat
    BY PowersOfTwo
  <2> QED BY <2>1, <2>2
<1> DEFINE Shortest(k) == n < ToThe(2, k) /\ \A j \in 0..k - 1 : n >= ToThe(2, j)
<1>5. Shortest(m)
  BY <1>3, <1>4
<1>6. PICK c : c = BitLength(n) /\ c \in 0..n /\ Shortest(c)
  BY <1>3, <1>5 DEF BitLength
<1>7. ASSUME NEW k \in Nat, n < ToThe(2, k) PROVE c <= k
  <2> SUFFICES ASSUME k < c PROVE FALSE
    BY <1>6
  <2>1. k \in 0..c - 1
    BY <1>6
  <2>2. n >= ToThe(2, k) /\ ToThe(2, k) \in Nat
    BY <1>6, <2>1, PowersOfTwo
  <2> QED BY <1>7, <2>2
<1> QED BY <1>6, <1>7

(* Beyond its length a number has no bits. *)
LEMMA HighBits ==
  ASSUME NEW n \in Nat, NEW k \in Nat, n < ToThe(2, k), NEW i \in Nat, i >= k
  PROVE  Bit(n, i) = 0
<1>1. PICK p \in Nat : p = ToThe(2, i) /\ n < p
  <2>1. ToThe(2, k) <= ToThe(2, i)
    <3>1. k <= i /\ 2 \in Nat /\ 2 > 0
      OBVIOUS
    <3> QED BY <3>1, PowerGrows
  <2>2. ToThe(2, i) \in Nat /\ ToThe(2, k) \in Nat
    BY PowersOfTwo
  <2> QED BY <2>1, <2>2
<1>2. n \div p = 0
  BY <1>1, SmallRemainder
<1>3. 0 % 2 = 0
  OBVIOUS
<1> QED BY <1>1, <1>2, <1>3 DEF Bit

LEMMA BitIsBit ==
  ASSUME NEW n \in Nat, NEW i \in Nat
  PROVE  Bit(n, i) \in {0, 1}
<1>1. PICK p \in Nat : p = ToThe(2, i) /\ p > 0
  BY PowersOfTwo
<1>2. PICK q \in Nat : q = n \div p
  BY <1>1, DivisionNat
<1>3. q % 2 \in {0, 1}
  OBVIOUS
<1> QED BY <1>1, <1>2, <1>3 DEF Bit

LEMMA OneMoreBit ==
  ASSUME NEW n \in Nat, NEW v \in Nat, v < ToThe(2, n), NEW c \in {0, 1},
         NEW w \in Nat, w = v + c * ToThe(2, n)
  PROVE  /\ w < ToThe(2, n + 1) /\ Bit(w, n) = c
         /\ \A i \in Nat : i < n => Bit(w, i) = Bit(v, i)
<1>1. PICK p \in Nat : p = ToThe(2, n) /\ w = v + c * p /\ p > 0 /\ v < p
  BY PowersOfTwo
<1>2. w < ToThe(2, n + 1)
  <2>1. ToThe(2, n + 1) = 2 * p
    BY <1>1, PowersOfTwo
  <2>2. w < 2 * p
    BY <1>1
  <2> QED BY <2>1, <2>2
<1>3. Bit(w, n) = c
  <2>1. PICK d \in Int : d = c /\ w = p * d + v
    BY <1>1
  <2>2. w \div p = d
    <3>1. w \in Int /\ v \in Int /\ 0 <= v /\ v < p /\ p > 0
      BY <1>1
    <3> QED BY <2>1, <3>1, QuotientIs
  <2>3. c % 2 = c
    OBVIOUS
  <2> QED BY <1>1, <2>1, <2>2, <2>3 DEF Bit
<1>4. ASSUME NEW i \in Nat, i < n PROVE Bit(w, i) = Bit(v, i)
  <2>1. PICK j \in Nat : n = i + (j + 1)
    <3>1. n - i - 1 \in Nat /\ n = i + ((n - i - 1) + 1)
      BY <1>4
    <3> QED BY <3>1
  <2>2. PICK q \in Nat, t \in Nat : q = ToThe(2, i) /\ q > 0 /\ t = ToThe(2, j)
    BY PowersOfTwo
  <2>3. p = q * (2 * t)
    <3>1. j + 1 \in Nat /\ ToThe(2, j + 1) = 2 * t
      BY <2>2, PowersOfTwo
    <3>2. ToThe(2, i + (j + 1)) = ToThe(2, i) * ToThe(2, j + 1)
      BY <3>1, PowerSum
    <3> QED BY <1>1, <2>1, <2>2, <3>1, <3>2
  <2>4. PICK k \in Int : k = c * t
    OBVIOUS
  <2>5. w = v + q * (2 * k) /\ 2 * k \in Int
    <3>1. c * (q * (2 * t)) = q * (2 * (c * t))
      OBVIOUS
    <3> QED BY <1>1, <2>3, <2>4, <3>1
  <2>6. w \div q = v \div q + 2 * k
    <3>1. PICK e \in Int : e = 2 * k /\ w = v + q * e
      BY <2>5
    <3>2. (v + q * e) \div q = v \div q + e
      <4>1. v \in Int /\ q > 0
        BY <2>2
      <4> QED BY <4>1, ShiftedDivision, Zenon
    <3> QED BY <3>1, <3>2
  <2>7. PICK d \in Nat : d = v \div q
    BY <2>2, DivisionNat
  <2>8. (d + 2 * k) % 2 = d % 2
    BY ShiftedDivision
  <2> QED BY <2>2, <2>6, <2>7, <2>8 DEF Bit
<1> QED BY <1>1, <1>2, <1>3, <1>4

(* The bits of a number that is put together of bits. *)
LEMMA FromBitsIs ==
  ASSUME NEW k \in Nat, NEW b \in [0..k - 1 -> {0, 1}]
  PROVE  /\ FromBits(b, k) \in Nat /\ FromBits(b, k) < ToThe(2, k)
         /\ \A i \in 0..k - 1 : Bit(FromBits(b, k), i) = b[i]
<1> DEFINE Iterates(f) == f = [n \in 0..k |->
             IF n = 0 THEN 0 ELSE f[n - 1] + b[n - 1] * ToThe(2, n - 1)]
           step == [p \in Nat \X Int |->
             IF p[1] < k THEN p[2] + b[p[1]] * ToThe(2, p[1]) ELSE 0]
<1>1. step \in [Nat \X Int -> Int]
  <2>1. ASSUME NEW n \in Nat, NEW z \in Int, n < k PROVE z + b[n] * ToThe(2, n) \in Int
    <3>1. n \in 0..k - 1
      BY <2>1
    <3>2. PICK c \in {0, 1}, p \in Nat : c = b[n] /\ p = ToThe(2, n)
      BY <3>1, PowersOfTwo
    <3>3. z + c * p \in Int
      OBVIOUS
    <3> QED BY <3>2, <3>3
  <2>2. ASSUME NEW p \in Nat \X Int
        PROVE  (IF p[1] < k THEN p[2] + b[p[1]] * ToThe(2, p[1]) ELSE 0) \in Int
    <3>1. p[1] \in Nat /\ p[2] \in Int
      OBVIOUS
    <3> QED BY <2>1, <3>1
  <2> QED BY <2>2
<1>2. PICK f : BuiltUp(f, k, Int, 0, step)
  <2>1. 0 \in Int
    OBVIOUS
  <2> HIDE DEF step
  <2> QED BY <1>1, <2>1, BuiltUpExists
<1>3. Iterates(f)
  <2>1. f \in [0..k -> Int] /\ f[0] = 0
    BY <1>2 DEF BuiltUp
  <2>2. ASSUME NEW n \in 0..k, n # 0 PROVE f[n] = f[n - 1] + b[n - 1] * ToThe(2, n - 1)
    <3>1. PICK m \in Nat : n = m + 1 /\ m = n - 1 /\ m < k /\ m \in 0..k
      <4>1. n - 1 \in Nat /\ n = (n - 1) + 1 /\ n - 1 < k /\ n - 1 \in 0..k
        BY <2>2
      <4> QED BY <4>1
    <3>2. f[m] \in Int
      BY <2>1, <3>1
    <3>3. step[<<m, f[m]>>] = f[m] + b[m] * ToThe(2, m)
      BY <3>1, <3>2
    <3>4. f[m + 1] = step[<<m, f[m]>>]
      BY <1>2, <3>1 DEF BuiltUp
    <3> QED BY <3>1, <3>3, <3>4
  <2>3. f = [n \in 0..k |-> f[n]]
    BY <2>1
  <2> HIDE DEF step
  <2> QED BY <2>1, <2>2, <2>3
<1>4. PICK g : g = CHOOSE h : Iterates(h)
  OBVIOUS
<1>5. FromBits(b, k) = g[k]
  BY <1>4 DEF FromBits
<1>6. g[0] = 0 /\ \A n \in Nat : n < k => g[n + 1] = g[n] + b[n] * ToThe(2, n)
  <2>1. g = [n \in 0..k |-> IF n = 0 THEN 0 ELSE g[n - 1] + b[n - 1] * ToThe(2, n - 1)]
    BY <1>3, <1>4
  <2>2. g[0] = 0
    BY <2>1
  <2>3. ASSUME NEW n \in Nat, n < k PROVE g[n + 1] = g[n] + b[n] * ToThe(2, n)
    <3>1. PICK m \in 0..k : m = n + 1 /\ m - 1 = n /\ m # 0
      BY <2>3
    <3>2. g[m] = g[m - 1] + b[m - 1] * ToThe(2, m - 1)
      BY <2>1, <3>1
    <3> QED BY <3>1, <3>2
  <2> QED BY <2>2, <2>3
<1> HIDE DEF Iterates, step
<1> DEFINE Right(n) == /\ g[n] \in Nat /\ g[n] < ToThe(2, n)
                       /\ \A i \in Nat : i < n => Bit(g[n], i) = b[i]
           S == {n \in Nat : n <= k => Right(n)}
<1>7. 0 \in S
  <2>1. 0 < ToThe(2, 0)
    BY PowersOfTwo
  <2> QED BY <1>6, <2>1
<1>8. ASSUME NEW n \in Nat, n \in S PROVE n + 1 \in S
  <2> SUFFICES ASSUME n + 1 <= k PROVE Right(n + 1)
    OBVIOUS
  <2>1. n < k /\ Right(n)
    BY <1>8
  <2>2. PICK v \in Nat, c \in {0, 1} : v = g[n] /\ c = b[n]
    BY <2>1
  <2>3. v < ToThe(2, n) /\ \A i \in Nat : i < n => Bit(v, i) = b[i]
    BY <2>1, <2>2
  <2>4. g[n + 1] = v + c * ToThe(2, n)
    BY <1>6, <2>1, <2>2
  <2>5. PICK w \in Nat : w = v + c * ToThe(2, n)
    <3>1. ToThe(2, n) \in Nat
      BY PowersOfTwo
    <3> QED BY <3>1
  <2>6. /\ w < ToThe(2, n + 1) /\ Bit(w, n) = c
        /\ \A i \in Nat : i < n => Bit(w, i) = Bit(v, i)
    <3>1. v < ToThe(2, n)
      BY <2>3
    <3> QED BY <2>5, <3>1, OneMoreBit
  <2>7. ASSUME NEW i \in Nat, i < n + 1 PROVE Bit(w, i) = b[i]
    <3>1. CASE i < n
      BY <2>3, <2>6, <3>1
    <3>2. CASE i = n
      BY <2>2, <2>6, <3>2
    <3> QED BY <2>7, <3>1, <3>2
  <2> QED BY <2>4, <2>5, <2>6, <2>7
<1>9. Right(k)
  <2>1. k \in S
    <3> HIDE DEF S
    <3> QED BY <1>7, <1>8, AllNumbers
  <2> QED BY <2>1
<1> QED BY <1>5, <1>9

LEMMA WidthIs ==
  ASSUME NEW x \in Nat, NEW y \in Nat
  PROVE  /\ Width(x, y) \in Nat
         /\ x < ToThe(2, Width(x, y)) /\ y < ToThe(2, Width(x, y))
         /\ \A k \in Nat : x < ToThe(2, k) /\ y < ToThe(2, k) => Width(x, y) <= k
<1>1. PICK z \in Nat : z = (IF x < y THEN y ELSE x) /\ x <= z /\ y <= z /\ z \in {x, y}
  OBVIOUS
<1>2. PICK w \in Nat : /\ w = BitLength(z) /\ z < ToThe(2, w)
                       /\ \A k \in Nat : z < ToThe(2, k) => w <= k
  BY BitLengthIs
<1>3. Width(x, y) = w
  BY <1>1, <1>2 DEF Width
<1>4. ToThe(2, w) \in Nat
  BY PowersOfTwo
<1> QED BY <1>1, <1>2, <1>3, <1>4

(* A number that is put together of the bits of two numbers. *)
LEMMA CombinedBits ==
  ASSUME NEW x \in Nat, NEW y \in Nat, NEW b \in [0..Width(x, y) - 1 -> {0, 1}],
         NEW n, n = FromBits(b, Width(x, y))
  PROVE  /\ n \in Nat
         /\ \A i \in Nat : i < Width(x, y) => Bit(n, i) = b[i]
         /\ \A i \in Nat : i >= Width(x, y) => Bit(n, i) = 0 /\ Bit(x, i) = 0 /\ Bit(y, i) = 0
         /\ \A k \in Nat : x < ToThe(2, k) /\ y < ToThe(2, k) => n < ToThe(2, k)
<1>1. PICK w \in Nat : /\ w = Width(x, y) /\ x < ToThe(2, w) /\ y < ToThe(2, w)
                       /\ \A k \in Nat : x < ToThe(2, k) /\ y < ToThe(2, k) => w <= k
  BY WidthIs
<1>2. n \in Nat /\ n < ToThe(2, w) /\ \A i \in 0..w - 1 : Bit(n, i) = b[i]
  BY <1>1, FromBitsIs
<1>3. \A i \in Nat : i < w => Bit(n, i) = b[i]
  BY <1>2
<1>4. ASSUME NEW i \in Nat, i >= w PROVE Bit(n, i) = 0 /\ Bit(x, i) = 0 /\ Bit(y, i) = 0
  BY <1>1, <1>2, <1>4, HighBits
<1>5. ASSUME NEW k \in Nat, x < ToThe(2, k), y < ToThe(2, k) PROVE n < ToThe(2, k)
  <2>1. w <= k
    BY <1>1, <1>5
  <2>2. ToThe(2, w) <= ToThe(2, k)
    <3>1. 2 \in Nat /\ 2 > 0
      OBVIOUS
    <3> QED BY <2>1, <3>1, PowerGrows
  <2>3. ToThe(2, w) \in Nat /\ ToThe(2, k) \in Nat
    BY PowersOfTwo
  <2> QED BY <1>2, <2>2, <2>3
<1> QED BY <1>1, <1>2, <1>3, <1>4, <1>5

AndOf(n, x, y) ==
  /\ \A i \in Nat : Bit(n, i) = Bit(x, i) * Bit(y, i)
  /\ \A k \in Nat : x < ToThe(2, k) /\ y < ToThe(2, k) => n < ToThe(2, k)

LEMMA AndIs ==
  ASSUME NEW x \in Nat, NEW y \in Nat
  PROVE  And(x, y) \in Nat /\ AndOf(And(x, y), x, y)
<1>1. PICK b : b = [i \in 0 .. Width(x, y) - 1 |-> Bit(x, i) * Bit(y, i)]
  OBVIOUS
<1>2. Width(x, y) \in Nat
  BY WidthIs
<1>3. b \in [0 .. Width(x, y) - 1 -> {0, 1}]
  <2>1. ASSUME NEW i \in 0 .. Width(x, y) - 1 PROVE Bit(x, i) * Bit(y, i) \in {0, 1}
    <3>1. i \in Nat
      BY <1>2
    <3>2. PICK c \in {0, 1}, d \in {0, 1} : c = Bit(x, i) /\ d = Bit(y, i)
      BY <3>1, BitIsBit
    <3>3. c * d \in {0, 1}
      OBVIOUS
    <3> QED BY <3>2, <3>3
  <2> QED BY <1>1, <2>1
<1>4. PICK n : n = And(x, y) /\ n = FromBits(b, Width(x, y))
  BY <1>1 DEF And
<1>5. /\ n \in Nat
      /\ \A i \in Nat : i < Width(x, y) => Bit(n, i) = b[i]
      /\ \A i \in Nat : i >= Width(x, y) => Bit(n, i) = 0 /\ Bit(x, i) = 0 /\ Bit(y, i) = 0
      /\ \A k \in Nat : x < ToThe(2, k) /\ y < ToThe(2, k) => n < ToThe(2, k)
  BY <1>3, <1>4, CombinedBits
<1>6. ASSUME NEW i \in Nat PROVE Bit(n, i) = Bit(x, i) * Bit(y, i)
  <2>1. CASE i < Width(x, y)
    <3>1. i \in 0 .. Width(x, y) - 1
      BY <1>2, <2>1
    <3> QED BY <1>1, <1>5, <2>1, <3>1
  <2>2. CASE i >= Width(x, y)
    <3>1. Bit(n, i) = 0 /\ Bit(x, i) = 0 /\ Bit(y, i) = 0
      BY <1>5, <2>2
    <3> QED BY <3>1
  <2> QED BY <1>2, <2>1, <2>2
<1> QED BY <1>4, <1>5, <1>6 DEF AndOf

OrOf(n, x, y) ==
  /\ \A i \in Nat : (Bit(n, i) = 0) <=> Bit(x, i) + Bit(y, i) = 0
  /\ \A k \in Nat : x < ToThe(2, k) /\ y < ToThe(2, k) => n < ToThe(2, k)

LEMMA OrIs ==
  ASSUME NEW x \in Nat, NEW y \in Nat
  PROVE  Or(x, y) \in Nat /\ OrOf(Or(x, y), x, y)
<1>1. PICK b : b = [i \in 0 .. Width(x, y) - 1 |-> IF Bit(x, i) + Bit(y, i) = 0 THEN 0 ELSE 1]
  OBVIOUS
<1>2. Width(x, y) \in Nat
  BY WidthIs
<1>3. b \in [0 .. Width(x, y) - 1 -> {0, 1}]
  BY <1>1
<1>4. PICK n : n = Or(x, y) /\ n = FromBits(b, Width(x, y))
  BY <1>1 DEF Or
<1>5. /\ n \in Nat
      /\ \A i \in Nat : i < Width(x, y) => Bit(n, i) = b[i]
      /\ \A i \in Nat : i >= Width(x, y) => Bit(n, i) = 0 /\ Bit(x, i) = 0 /\ Bit(y, i) = 0
      /\ \A k \in Nat : x < ToThe(2, k) /\ y < ToThe(2, k) => n < ToThe(2, k)
  BY <1>3, <1>4, CombinedBits
<1>6. ASSUME NEW i \in Nat PROVE (Bit(n, i) = 0) <=> Bit(x, i) + Bit(y, i) = 0
  <2>1. CASE i < Width(x, y)
    <3>1. i \in 0 .. Width(x, y) - 1
      BY <1>2, <2>1
    <3>2. Bit(n, i) = IF Bit(x, i) + Bit(y, i) = 0 THEN 0 ELSE 1
      BY <1>1, <1>5, <2>1, <3>1
    <3> QED BY <3>2
  <2>2. CASE i >= Width(x, y)
    <3>1. Bit(n, i) = 0 /\ Bit(x, i) = 0 /\ Bit(y, i) = 0
      BY <1>5, <2>2
    <3> QED BY <3>1
  <2> QED BY <1>2, <2>1, <2>2
<1> QED BY <1>4, <1>5, <1>6 DEF OrOf

XorOf(n, x, y) ==
  /\ \A i \in Nat : (Bit(n, i) = 1) <=> Bit(x, i) # Bit(y, i)
  /\ \A k \in Nat : x < ToThe(2, k) /\ y < ToThe(2, k) => n < ToThe(2, k)

LEMMA XorIs ==
  ASSUME NEW x \in Nat, NEW y \in Nat
  PROVE  Xor(x, y) \in Nat /\ XorOf(Xor(x, y), x, y) /\ XorOf(Xor(x, y), y, x)
<1>1. PICK b : b = [i \in 0 .. Width(x, y) - 1 |-> (Bit(x, i) + Bit(y, i)) % 2]
  OBVIOUS
<1>2. Width(x, y) \in Nat
  BY WidthIs
<1>3. \A c, d \in {0, 1} : (c + d) % 2 \in {0, 1} /\ ((c + d) % 2 = 1 <=> c # d)
  OBVIOUS
<1>4. b \in [0 .. Width(x, y) - 1 -> {0, 1}]
  <2>1. ASSUME NEW i \in 0 .. Width(x, y) - 1 PROVE (Bit(x, i) + Bit(y, i)) % 2 \in {0, 1}
    <3>1. i \in Nat
      BY <1>2
    <3>2. Bit(x, i) \in {0, 1} /\ Bit(y, i) \in {0, 1}
      BY <3>1, BitIsBit
    <3> QED BY <1>3, <3>2
  <2> QED BY <1>1, <2>1
<1>5. PICK n : n = Xor(x, y) /\ n = FromBits(b, Width(x, y))
  BY <1>1 DEF Xor
<1>6. /\ n \in Nat
      /\ \A i \in Nat : i < Width(x, y) => Bit(n, i) = b[i]
      /\ \A i \in Nat : i >= Width(x, y) => Bit(n, i) = 0 /\ Bit(x, i) = 0 /\ Bit(y, i) = 0
      /\ \A k \in Nat : x < ToThe(2, k) /\ y < ToThe(2, k) => n < ToThe(2, k)
  BY <1>4, <1>5, CombinedBits
<1>7. ASSUME NEW i \in Nat PROVE (Bit(n, i) = 1) <=> Bit(x, i) # Bit(y, i)
  <2>1. CASE i < Width(x, y)
    <3>1. i \in 0 .. Width(x, y) - 1
      BY <1>2, <2>1
    <3>2. Bit(n, i) = (Bit(x, i) + Bit(y, i)) % 2
      BY <1>1, <1>6, <2>1, <3>1
    <3>3. Bit(x, i) \in {0, 1} /\ Bit(y, i) \in {0, 1}
      BY BitIsBit
    <3> QED BY <1>3, <3>2, <3>3
  <2>2. CASE i >= Width(x, y)
    <3>1. Bit(n, i) = 0 /\ Bit(x, i) = 0 /\ Bit(y, i) = 0
      BY <1>6, <2>2
    <3> QED BY <3>1
  <2> QED BY <1>2, <2>1, <2>2
<1> QED BY <1>5, <1>6, <1>7 DEF XorOf

-----------------------------------------------------------------------------
(* Words and bytes *)

LEMMA WordSizes ==
  /\ WordBits \in Nat /\ WordBits > 0
  /\ ByteBase \in Nat /\ ByteBase > 0
  /\ U256_CEIL_VALUE \in Nat /\ MAX_VALUE \in Nat /\ U256_CEIL_VALUE = MAX_VALUE + 1
  /\ MAX_VALUE >= 1
  /\ U256_CEIL_VALUE = ToThe(2, WordBits)
<1>1. PICK a \in Nat, b \in Nat : ByteBits = a + 1 /\ WordBytes = b + 1
  <2>1. /\ ByteBits - 1 \in Nat /\ ByteBits = (ByteBits - 1) + 1
        /\ WordBytes - 1 \in Nat /\ WordBytes = (WordBytes - 1) + 1
    BY WidthAssumption
  <2> QED BY <2>1
<1>2. WordBits \in Nat /\ WordBits > 0
  <2>1. (a + 1) * (b + 1) = a * b + a + b + 1 /\ a * b \in Nat
    OBVIOUS
  <2> QED BY <1>1, <2>1 DEF WordBits
<1>3. ByteBase \in Nat /\ ByteBase > 0
  BY <1>1, PowersOfTwo DEF ByteBase
<1>4. PICK c \in Nat : c = ToThe(2, WordBits) /\ c > WordBits
  BY <1>2, PowersOfTwo
<1> QED BY <1>2, <1>3, <1>4 DEF U256_CEIL_VALUE, MAX_VALUE

LEMMA ByteLengthIs ==
  ASSUME NEW n \in Nat
  PROVE  ByteLength(n) \in Nat /\ n < ToThe(ByteBase, ByteLength(n))
<1>1. PICK l \in Nat : l = BitLength(n) /\ n < ToThe(2, l)
  BY BitLengthIs
<1>2. PICK a \in Nat : ByteBits = a + 1
  <2>1. ByteBits - 1 \in Nat /\ ByteBits = (ByteBits - 1) + 1
    BY WidthAssumption
  <2> QED BY <2>1
<1>3. PICK s \in Nat : s = l + ByteBits - 1
  BY <1>2
<1>4. PICK m \in Nat : m = ByteBits /\ m = a + 1 /\ m > 0
  BY <1>2
<1>5. PICK q \in Nat, r \in Nat : q = s \div m /\ s = m * q + r /\ r < m
  BY <1>4, Division, DivisionNat
<1>6. ByteLength(n) = q
  BY <1>1, <1>3, <1>4, <1>5 DEF ByteLength
<1>7. PICK p \in Nat : p = m * q /\ l <= p
  BY <1>3, <1>4, <1>5
<1>8. ToThe(ByteBase, q) = ToThe(2, p)
  <2>1. ToThe(ToThe(2, m), q) = ToThe(2, m * q)
    <3>1. 2 \in Int
      OBVIOUS
    <3> QED BY <3>1, PowerOfPower
  <2> QED BY <1>4, <1>7, <2>1 DEF ByteBase
<1>9. ToThe(2, l) <= ToThe(2, p)
  <2>1. 2 \in Nat /\ 2 > 0
    OBVIOUS
  <2> QED BY <1>7, <2>1, PowerGrows
<1>10. ToThe(2, l) \in Nat /\ ToThe(2, p) \in Nat
  BY PowersOfTwo
<1> QED BY <1>1, <1>6, <1>8, <1>9, <1>10

(* A number is read byte by byte. *)
LEMMA BytesSteps ==
  ASSUME NEW L \in Nat, NEW bytes \in [1..L -> Nat]
  PROVE  \E G : /\ G[0] = 0 /\ G[L] = FromBigEndian(bytes)
                /\ \A k \in Nat : k < L => G[k + 1] = G[k] * ByteBase + bytes[k + 1]
<1> DEFINE g == [p \in Int \X (1..L) |-> p[1] * ByteBase + bytes[p[2]]]
           Iterates(iter) == iter = [s \in SUBSET (1..L) |->
             IF s = {} THEN 0 ELSE iter[s \ {Max(s)}] * ByteBase + bytes[Max(s)]]
<1>0. ByteBase \in Int
  BY WordSizes
<1>1. g \in [Int \X (1..L) -> Int]
  <2>1. ASSUME NEW z \in Int, NEW i \in 1..L PROVE z * ByteBase + bytes[i] \in Int
    BY <1>0
  <2> QED BY <2>1
<1>2. PICK f \in [SUBSET (1..L) -> Int] : FoldsUp(f, L, 0, g)
  <2>1. 0 \in Int
    OBVIOUS
  <2> HIDE DEF g
  <2> QED BY <1>1, <2>1, FoldExists
<1>3. Iterates(f)
  <2>1. ASSUME NEW s \in SUBSET (1..L), s # {}
        PROVE  g[<<f[s \ {Max(s)}], Max(s)>>] = f[s \ {Max(s)}] * ByteBase + bytes[Max(s)]
    <3>1. Max(s) \in 1..L /\ s \ {Max(s)} \in SUBSET (1..L)
      BY <2>1, MaxOfRange
    <3>2. f[s \ {Max(s)}] \in Int
      BY <1>2, <3>1
    <3> QED BY <3>1, <3>2
  <2> HIDE DEF g
  <2>2. f = [s \in SUBSET (1..L) |-> f[s]]
    BY <1>2
  <2> QED BY <1>2, <2>1, <2>2 DEF FoldsUp
<1>4. PICK h : h = CHOOSE iter : Iterates(iter)
  OBVIOUS
<1>5. Iterates(h)
  BY <1>3, <1>4
<1>6. FromBigEndian(bytes) = h[1..L]
  <2>1. DOMAIN bytes = 1..L
    OBVIOUS
  <2> QED BY <1>4, <2>1 DEF FromBigEndian, FoldLeft, MapThenFoldSet
<1>7. PICK G : G = [k \in 0..L |-> h[1..k]]
  OBVIOUS
<1>8. G[0] = 0 /\ G[L] = FromBigEndian(bytes)
  <2>1. 1..0 = {} /\ {} \in SUBSET (1..L)
    OBVIOUS
  <2>2. h[{}] = 0
    BY <1>5, <2>1
  <2> QED BY <1>6, <1>7, <2>1, <2>2
<1>9. ASSUME NEW k \in Nat, k < L PROVE G[k + 1] = G[k] * ByteBase + bytes[k + 1]
  <2>1. PICK n \in 1..L : n = k + 1 /\ n - 1 = k
    BY <1>9
  <2>2. 1..n \in SUBSET (1..L) /\ Max(1..n) = n /\ (1..n) \ {n} = 1..(n - 1) /\ 1..n # {}
    <3>1. n \in Nat /\ n # 0 /\ 1..n \in SUBSET (1..L)
      OBVIOUS
    <3> QED BY <3>1, MaxOfPrefix
  <2>3. h[1..n] = h[1..(n - 1)] * ByteBase + bytes[n]
    BY <1>5, <2>2
  <2>4. G[n] = h[1..n] /\ G[n - 1] = h[1..(n - 1)]
    BY <1>7
  <2> QED BY <2>1, <2>3, <2>4
<1> QED BY <1>8, <1>9

LEMMA BigEndianBytes ==
  ASSUME NEW n \in Nat, NEW L \in Nat
  PROVE  /\ BigEndian(n, L) \in [1..L -> Nat] /\ Len(BigEndian(n, L)) = L
         /\ \A k \in Nat : k < L =>
              BigEndian(n, L)[k + 1] = (n \div ToThe(ByteBase, L - (k + 1))) % ByteBase
<1>1. PICK s : s = LittleEndian(n, L)
  OBVIOUS
<1>2. ByteBase \in Nat /\ ByteBase > 0 /\ \A i \in Nat : ToThe(ByteBase, i) \in Nat /\ ToThe(ByteBase, i) > 0
  BY WordSizes, PowerPositive
<1>3. ASSUME NEW i \in 1..L PROVE (n \div ToThe(ByteBase, i - 1)) % ByteBase \in Nat
  <2>1. PICK p \in Nat, b \in Nat : p = ToThe(ByteBase, i - 1) /\ p > 0 /\ b = ByteBase /\ b > 0
    <3>1. i - 1 \in Nat
      OBVIOUS
    <3> QED BY <1>2, <3>1
  <2>2. PICK q \in Nat : q = n \div p
    BY <2>1, DivisionNat
  <2>3. q % b \in Nat
    BY <2>1, Division
  <2> QED BY <2>1, <2>2, <2>3
<1>4. s \in [1..L -> Nat]
  BY <1>1, <1>3 DEF LittleEndian
<1>5. Len(s) = L /\ s \in Seq(Nat)
  BY <1>4
<1>6. BigEndian(n, L) = [i \in 1..L |-> s[(L - i) + 1]]
  BY <1>1, <1>5 DEF BigEndian, Reverse
<1>7. BigEndian(n, L) \in [1..L -> Nat]
  <2>1. ASSUME NEW i \in 1..L PROVE s[(L - i) + 1] \in Nat
    <3>1. (L - i) + 1 \in 1..L
      OBVIOUS
    <3> QED BY <1>4, <3>1
  <2> QED BY <1>6, <2>1
<1>8. Len(BigEndian(n, L)) = L
  BY <1>7
<1>9. ASSUME NEW k \in Nat, k < L
      PROVE  BigEndian(n, L)[k + 1] = (n \div ToThe(ByteBase, L - (k + 1))) % ByteBase
  <2>1. PICK j \in 1..L : j = (L - (k + 1)) + 1 /\ j - 1 = L - (k + 1)
    BY <1>9
  <2>2. s[j] = (n \div ToThe(ByteBase, j - 1)) % ByteBase
    BY <1>1 DEF LittleEndian
  <2>3. BigEndian(n, L)[k + 1] = s[j]
    BY <1>6, <1>9, <2>1
  <2> QED BY <2>1, <2>2, <2>3
<1> QED BY <1>7, <1>8, <1>9

(* Reading back the bytes of a number that fits gives the number. *)
LEMMA BytesBack ==
  ASSUME NEW n \in Nat, NEW L \in Nat, n < ToThe(ByteBase, L)
  PROVE  FromBigEndian(BigEndian(n, L)) = n
<1>1. PICK bytes \in [1..L -> Nat] :
        /\ bytes = BigEndian(n, L)
        /\ \A k \in Nat : k < L =>
             bytes[k + 1] = (n \div ToThe(ByteBase, L - (k + 1))) % ByteBase
  BY BigEndianBytes
<1>2. PICK G : /\ G[0] = 0 /\ G[L] = FromBigEndian(bytes)
               /\ \A k \in Nat : k < L => G[k + 1] = G[k] * ByteBase + bytes[k + 1]
  BY BytesSteps
<1>3. PICK b \in Nat : b = ByteBase /\ b > 0
  BY WordSizes
<1>4. \A i \in Nat : ToThe(b, i) \in Nat /\ ToThe(b, i) > 0
  BY <1>3, PowerPositive
<1> DEFINE S == {k \in Nat : k <= L => G[k] = n \div ToThe(b, L - k)}
<1>5. 0 \in S
  <2>1. PICK p \in Nat : p = ToThe(b, L - 0) /\ n < p
    <3>1. L - 0 = L
      OBVIOUS
    <3> QED BY <1>3, <1>4, <3>1
  <2>2. n \div p = 0
    BY <2>1, SmallRemainder
  <2> QED BY <1>2, <2>1, <2>2
<1>6. ASSUME NEW k \in Nat, k \in S PROVE k + 1 \in S
  <2> SUFFICES ASSUME k + 1 <= L PROVE G[k + 1] = n \div ToThe(b, L - (k + 1))
    OBVIOUS
  <2>1. PICK i \in Nat : i = L - (k + 1) /\ L - k = i + 1 /\ k < L
    <3>1. L - (k + 1) \in Nat /\ L - k = (L - (k + 1)) + 1 /\ k < L
      OBVIOUS
    <3> QED BY <3>1
  <2>2. PICK p \in Nat : p = ToThe(b, i) /\ p > 0
    BY <1>4
  <2>3. ToThe(b, i + 1) = p * b
    BY <2>2, PowerSteps
  <2>4. PICK d \in Nat : d = n \div p
    BY <2>2, DivisionNat
  <2>5. d \div b = n \div (p * b)
    <3>1. b > 0 /\ p > 0
      BY <1>3, <2>2
    <3>2. (n \div p) \div b = n \div (p * b)
      <4> HIDE DEF S
      <4> QED BY <3>1, NestedDivision, SMTT(30)
    <3> QED BY <2>4, <3>2
  <2>6. G[k] = d \div b
    BY <1>6, <2>1, <2>3, <2>5
  <2>7. bytes[k + 1] = d % b
    BY <1>1, <1>3, <2>1, <2>2, <2>4
  <2>8. PICK q \in Nat, r \in Nat : q = d \div b /\ r = d % b /\ d = b * q + r
    BY <1>3, Division, DivisionNat
  <2>9. G[k + 1] = q * b + r
    BY <1>2, <1>3, <2>1, <2>6, <2>7, <2>8
  <2>10. G[k + 1] = d
    <3>1. q * b + r = b * q + r
      OBVIOUS
    <3> QED BY <2>8, <2>9, <3>1
  <2> QED BY <2>1, <2>2, <2>4, <2>10
<1>7. L \in S
  <2> HIDE DEF S
  <2> QED BY <1>5, <1>6, AllNumbers
<1>8. G[L] = n
  <2>1. L - L = 0 /\ ToThe(b, 0) = 1
    BY PowerSteps
  <2>2. n \div 1 = n
    OBVIOUS
  <2> QED BY <1>7, <2>1, <2>2
<1> QED BY <1>1, <1>2, <1>8

-----------------------------------------------------------------------------
(* Two's complement *)

LEMMA MaskedIs ==
  ASSUME NEW n \in Int
  PROVE  /\ Masked(n) \in Nat /\ Masked(n) <= MAX_VALUE
         /\ SameModulo(Masked(n), n, U256_CEIL_VALUE)
         /\ \E k \in Int : Masked(n) = n + U256_CEIL_VALUE * k
<1>1. PICK m \in Nat : m = U256_CEIL_VALUE /\ m > 0 /\ m = MAX_VALUE + 1 /\ MAX_VALUE \in Nat
  BY WordSizes
<1>2. PICK r \in Nat, q \in Int : r = n % m /\ r < m /\ q = n \div m /\ n = m * q + r
  BY <1>1, Division
<1>3. SameModulo(n % m, n, m)
  BY <1>1, CongruentToRemainder
<1>4. PICK k \in Int : k = -q
  OBVIOUS
<1>5. r = n + m * k
  BY <1>2, <1>4
<1>6. Masked(n) = r /\ r <= MAX_VALUE
  BY <1>1, <1>2 DEF Masked
<1>7. SameModulo(r, n, m)
  BY <1>2, <1>3
<1> QED BY <1>1, <1>5, <1>6, <1>7

LEMMA MaskedCongruent ==
  ASSUME NEW a \in Int, NEW b \in Int, NEW k \in Int, a = b + U256_CEIL_VALUE * k
  PROVE  Masked(a) = Masked(b)
<1>1. PICK m \in Nat : m = U256_CEIL_VALUE /\ m > 0
  BY WordSizes
<1>2. a = b + m * k
  BY <1>1
<1>3. a % m = b % m
  <2>1. m > 0
    BY <1>1
  <2>2. (b + m * k) % m = b % m
    BY <2>1, ShiftedDivision
  <2> QED BY <1>2, <2>2
<1> QED BY <1>1, <1>3 DEF Masked

LEMMA MaskedWord ==
  ASSUME NEW n \in Nat, n <= MAX_VALUE
  PROVE  Masked(n) = n
<1>1. PICK m \in Nat : m = U256_CEIL_VALUE /\ m = MAX_VALUE + 1 /\ MAX_VALUE \in Nat
  BY WordSizes
<1>2. n < m
  BY <1>1
<1>3. n % m = n
  BY <1>2, SmallRemainder
<1> QED BY <1>1, <1>3 DEF Masked

LEMMA HalfRange ==
  \E half \in Nat : /\ half = U256_CEIL_VALUE \div 2 /\ half >= 1
                    /\ U256_CEIL_VALUE = 2 * half /\ half = ToThe(2, WordBits - 1)
<1>1. PICK n \in Nat : WordBits = n + 1 /\ n = WordBits - 1
  <2>1. WordBits - 1 \in Nat /\ WordBits = (WordBits - 1) + 1
    BY WordSizes
  <2> QED BY <2>1
<1>2. PICK h \in Nat : h = ToThe(2, n) /\ h >= 1 /\ ToThe(2, n + 1) = 2 * h
  BY PowersOfTwo
<1>3. U256_CEIL_VALUE = 2 * h
  BY <1>1, <1>2, WordSizes
<1>4. (2 * h) \div 2 = h
  OBVIOUS
<1> QED BY <1>1, <1>2, <1>3, <1>4

LEMMA SignBit ==
  ASSUME NEW x, x.val \in Nat, NEW half \in Nat, half = ToThe(2, WordBits - 1)
  PROVE  ToSigned(x) = IF x.val < half THEN x.val ELSE x.val - U256_CEIL_VALUE
<1>1. PICK n \in Nat : WordBits = n + 1 /\ n = WordBits - 1
  <2>1. WordBits - 1 \in Nat /\ WordBits = (WordBits - 1) + 1
    BY WordSizes
  <2> QED BY <2>1
<1>2. PICK w \in Nat : w = x.val
  OBVIOUS
<1>3. PICK l \in Nat : /\ l = BitLength(w) /\ w < ToThe(2, l)
                       /\ \A k \in Nat : w < ToThe(2, k) => l <= k
  BY BitLengthIs
<1>4. w < half => l < WordBits
  BY <1>1, <1>3
<1>5. l < WordBits => w < half
  <2> SUFFICES ASSUME l <= n PROVE w < half
    BY <1>1, <1>3
  <2>1. ToThe(2, l) <= ToThe(2, n)
    <3>1. 2 \in Nat /\ 2 > 0
      OBVIOUS
    <3> QED BY <3>1, PowerGrows
  <2>2. ToThe(2, l) \in Nat
    BY PowersOfTwo
  <2> QED BY <1>1, <1>3, <2>1, <2>2
<1>6. l < WordBits <=> w < half
  BY <1>4, <1>5
<1> QED BY <1>2, <1>3, <1>6 DEF ToSigned

LEMMA SmallMultiple ==
  ASSUME NEW m \in Nat, m > 0, NEW k \in Int, -m < m * k, m * k < m
  PROVE  k = 0
<1>1. ASSUME k >= 1 PROVE FALSE
  <2>1. PICK a \in Nat : k = 1 + a
    <3>1. k - 1 \in Nat /\ k = 1 + (k - 1)
      BY <1>1
    <3> QED BY <3>1
  <2>2. m * k = m + m * a /\ m * a \in Nat
    BY <2>1
  <2> QED BY <2>2
<1>2. ASSUME k <= -1 PROVE FALSE
  <2>1. PICK a \in Nat : k = -1 - a
    <3>1. -1 - k \in Nat /\ k = -1 - (-1 - k)
      BY <1>2
    <3> QED BY <3>1
  <2>2. m * k = -m - m * a /\ m * a \in Nat
    BY <2>1
  <2> QED BY <2>2
<1> QED BY <1>1, <1>2

(* A word has one number in the signed range. *)
LEMMA SignedUnique ==
  ASSUME NEW x, x.val \in Nat, x.val <= MAX_VALUE, NEW half \in Nat,
         half = ToThe(2, WordBits - 1), U256_CEIL_VALUE = 2 * half,
         NEW s \in -half .. half - 1, NEW k \in Int, x.val = s + U256_CEIL_VALUE * k
  PROVE  ToSigned(x) = s
<1>1. PICK w \in Nat, m \in Nat : /\ w = x.val /\ m = U256_CEIL_VALUE /\ w < m /\ m = 2 * half
                                  /\ m > 0 /\ w = s + m * k
  BY WordSizes
<1>2. CASE w < half
  <2>1. -m < m * k /\ m * k < m
    BY <1>1, <1>2
  <2>2. k = 0
    BY <1>1, <2>1, SmallMultiple
  <2>3. w = s
    BY <1>1, <2>2
  <2> QED BY <1>1, <1>2, <2>3, SignBit
<1>3. CASE w >= half
  <2>1. PICK j \in Int : j = k - 1
    OBVIOUS
  <2>2. m * k = m * j + m
    BY <2>1
  <2>3. -m < m * j /\ m * j < m
    BY <1>1, <1>3, <2>2
  <2>4. j = 0
    BY <1>1, <2>3, SmallMultiple
  <2>5. w - m = s
    BY <1>1, <2>2, <2>4
  <2>6. ToSigned(x) = IF x.val < half THEN x.val ELSE x.val - U256_CEIL_VALUE
    BY SignBit
  <2> QED BY <1>1, <1>3, <2>5, <2>6
<1> QED BY <1>2, <1>3

(* Every word has a number in the signed range. *)
LEMMA SignedIs ==
  ASSUME NEW x, x.val \in Nat, x.val <= MAX_VALUE, NEW half \in Nat,
         half = ToThe(2, WordBits - 1), U256_CEIL_VALUE = 2 * half
  PROVE  /\ ToSigned(x) \in -half .. half - 1
         /\ \E k \in Int : x.val = ToSigned(x) + U256_CEIL_VALUE * k
<1>1. PICK w \in Nat, m \in Nat : w = x.val /\ m = U256_CEIL_VALUE /\ w < m /\ m = 2 * half
  BY WordSizes
<1>2. CASE w < half
  <2>1. ToSigned(x) = w
    BY <1>1, <1>2, SignBit
  <2>2. w = w + m * 0 /\ w \in -half .. half - 1
    BY <1>1, <1>2
  <2> QED BY <1>1, <2>1, <2>2
<1>3. CASE w >= half
  <2>1. ToSigned(x) = w - m
    BY <1>1, <1>3, SignBit
  <2>2. w = (w - m) + m * 1 /\ w - m \in -half .. half - 1
    BY <1>1, <1>3
  <2> QED BY <1>1, <2>1, <2>2
<1> QED BY <1>2, <1>3

LEMMA FromSignedIs ==
  ASSUME NEW v \in Int, v <= MAX_VALUE
  PROVE  FromSigned(v) = Object("U256", Masked(v))
<1>1. CASE v >= 0
  <2>1. Masked(v) = v
    BY <1>1, MaskedWord
  <2> QED BY <1>1, <2>1, WordSizes DEF FromSigned, U256
<1>2. CASE v < 0
  <2>1. Masked(v) \in Nat /\ Masked(v) <= MAX_VALUE
    BY MaskedIs
  <2> QED BY <1>2, <2>1, WordSizes DEF FromSigned, U256
<1> QED BY <1>1, <1>2

(* The inductive invariant: the object in hand is one of a class, never a  *)
(* negative number.                                                        *)
UintsTypeOK == acc \in [cls : {"Uint", "U256"}, val : Nat]

LEMMA WordRange ==
  ASSUME NEW n \in Nat, n <= MAX_VALUE
  PROVE  /\ IsWord(n)
         /\ \A m \in Int : WrappingAdd(m, n) = Object("U256", Masked(m + n))
         /\ \A m \in Int : WrappingSub(m, n) = Object("U256", Masked(m - n))
         /\ \A m \in Int : WrappingMul(m, n) = Object("U256", Masked(m * n))
<1>1. IsWord(n)
  BY WordSizes DEF IsWord
<1> QED BY <1>1 DEF WrappingAdd, WrappingSub, WrappingMul, Fixed

(* Two's complement, whatever the word. *)
LEMMA TwosComplement ==
  ASSUME UintsTypeOK
  PROVE  SignedArithmetic
<1> SUFFICES ASSUME acc.cls = "U256", acc.val <= MAX_VALUE PROVE SignedArithmetic
  BY DEF SignedArithmetic, InRange
<1>1. PICK w \in Nat : w = acc.val /\ w <= MAX_VALUE /\ acc = Object("U256", w)
  BY DEF UintsTypeOK, Object
<1>2. PICK half \in Nat, m \in Nat :
        /\ half = U256_CEIL_VALUE \div 2 /\ half >= 1 /\ half = ToThe(2, WordBits - 1)
        /\ m = U256_CEIL_VALUE /\ m = 2 * half /\ U256_CEIL_VALUE = 2 * half
        /\ MAX_VALUE = m - 1
  <2>1. PICK half \in Nat : /\ half = U256_CEIL_VALUE \div 2 /\ half >= 1
                            /\ U256_CEIL_VALUE = 2 * half /\ half = ToThe(2, WordBits - 1)
    BY HalfRange
  <2>2. PICK m \in Nat : m = U256_CEIL_VALUE /\ MAX_VALUE = m - 1
    BY WordSizes
  <2> QED BY <2>1, <2>2
<1>3. PICK s \in -half .. half - 1, a \in Int : s = ToSigned(acc) /\ w = s + m * a
  BY <1>1, <1>2, SignedIs
<1>4. FromSigned(s) = acc
  <2>1. s <= MAX_VALUE
    BY <1>2
  <2>2. Masked(w) = Masked(s)
    BY <1>2, <1>3, MaskedCongruent
  <2>3. Masked(w) = w
    BY <1>1, MaskedWord
  <2>4. FromSigned(s) = Object("U256", Masked(s))
    BY <2>1, FromSignedIs
  <2> QED BY <1>1, <2>2, <2>3, <2>4
<1>5. WrappingAdd(FixedInvert(w).val, 1) = FromSigned(-s)
  <2>1. PICK d \in Nat, j \in Int : d = Masked(-w - 1) /\ d = (-w - 1) + m * j
    <3>1. -w - 1 \in Int
      OBVIOUS
    <3> QED BY <1>2, <3>1, MaskedIs
  <2>2. FixedInvert(w).val = d
    BY <2>1 DEF FixedInvert, Object
  <2>3. WrappingAdd(d, 1) = Object("U256", Masked(d + 1))
    BY WordRange, WordSizes
  <2>4. PICK e \in Int : e = j - a /\ d + 1 = -s + m * e
    <3>1. j - a \in Int /\ m * (j - a) = m * j - m * a
      OBVIOUS
    <3> QED BY <1>3, <2>1, <3>1
  <2>5. Masked(d + 1) = Masked(-s)
    <3>1. d + 1 = -s + U256_CEIL_VALUE * e
      BY <1>2, <2>4
    <3> QED BY <3>1, MaskedCongruent
  <2>6. FromSigned(-s) = Object("U256", Masked(-s))
    <3>1. -s \in Int /\ -s <= MAX_VALUE
      BY <1>2
    <3> QED BY <3>1, FromSignedIs
  <2> QED BY <2>2, <2>3, <2>5, <2>6
<1>6. ASSUME NEW n \in -half .. half - 1
      PROVE  LET word == FromSigned(n).val
             IN /\ WrappingAdd(WrappingSub(w, word).val, word) = acc
                /\ s + n \in -half .. half - 1 =>
                     ToSigned(WrappingAdd(w, word)) = s + n
                /\ s * n \in -half .. half - 1 =>
                     ToSigned(WrappingMul(w, word)) = s * n
  <2>1. PICK v \in Nat, c \in Int : v = Masked(n) /\ v <= MAX_VALUE /\ v = n + m * c
    BY <1>2, MaskedIs
  <2>2. FromSigned(n).val = v
    <3>1. FromSigned(n) = Object("U256", Masked(n))
      <4>1. n \in Int /\ n <= MAX_VALUE
        BY <1>2
      <4> QED BY <4>1, FromSignedIs
    <3>2. FromSigned(n).val = Masked(n)
      BY <3>1 DEF Object
    <3> QED BY <2>1, <3>2
  <2>3. WrappingAdd(WrappingSub(w, v).val, v) = acc
    <3>1. PICK d \in Nat, j \in Int : d = Masked(w - v) /\ d = (w - v) + m * j
      <4>1. w - v \in Int
        OBVIOUS
      <4> QED BY <1>2, <4>1, MaskedIs
    <3>2. WrappingSub(w, v) = Object("U256", d)
      BY <2>1, <3>1, WordRange
    <3>3. WrappingSub(w, v).val = d
      BY <3>2 DEF Object
    <3>4. WrappingAdd(d, v) = Object("U256", Masked(d + v))
      BY <2>1, WordRange
    <3>5. Masked(d + v) = Masked(w)
      <4>1. d + v = w + U256_CEIL_VALUE * j
        BY <1>2, <3>1
      <4> QED BY <4>1, MaskedCongruent
    <3>6. Masked(w) = w
      BY <1>1, MaskedWord
    <3> QED BY <1>1, <3>3, <3>4, <3>5, <3>6
  <2>4. ASSUME s + n \in -half .. half - 1 PROVE ToSigned(WrappingAdd(w, v)) = s + n
    <3>1. PICK d \in Nat, j \in Int : d = Masked(w + v) /\ d <= MAX_VALUE /\ d = (w + v) + m * j
      <4>1. w + v \in Int
        OBVIOUS
      <4> QED BY <1>2, <4>1, MaskedIs
    <3>2. PICK x : x = WrappingAdd(w, v) /\ x.val = d
      BY <2>1, <3>1, WordRange DEF Object
    <3>3. PICK k \in Int : k = a + c + j
      OBVIOUS
    <3>4. m * k = m * a + m * c + m * j
      BY <3>3
    <3>5. d = (s + n) + m * k
      BY <1>3, <2>1, <3>1, <3>4
    <3>6. x.val \in Nat /\ x.val <= MAX_VALUE /\ x.val = (s + n) + U256_CEIL_VALUE * k
      BY <1>2, <3>1, <3>2, <3>5
    <3>7. ToSigned(x) = s + n
      BY <1>2, <2>4, <3>6, SignedUnique
    <3> QED BY <3>2, <3>7
  <2>5. ASSUME s * n \in -half .. half - 1 PROVE ToSigned(WrappingMul(w, v)) = s * n
    <3>1. PICK d \in Nat, j \in Int : d = Masked(w * v) /\ d <= MAX_VALUE /\ d = (w * v) + m * j
      <4>1. w * v \in Int
        OBVIOUS
      <4> QED BY <1>2, <4>1, MaskedIs
    <3>2. PICK x : x = WrappingMul(w, v) /\ x.val = d
      BY <2>1, <3>1, WordRange DEF Object
    <3>3. PICK k \in Int : k = a * n + s * c + m * (a * c) + j
      OBVIOUS
    <3>4. (s + m * a) * (n + m * c) + m * j = (s * n) + m * k
      <4>1. (s + m * a) * (n + m * c)
              = s * n + m * (a * n) + m * (s * c) + m * (m * (a * c))
        OBVIOUS
      <4>2. m * k = m * (a * n) + m * (s * c) + m * (m * (a * c)) + m * j
        BY <3>3
      <4> QED BY <4>1, <4>2
    <3>5. d = (s * n) + m * k
      BY <1>3, <2>1, <3>1, <3>4
    <3>6. x.val \in Nat /\ x.val <= MAX_VALUE /\ x.val = (s * n) + U256_CEIL_VALUE * k
      BY <1>2, <3>1, <3>2, <3>5
    <3>7. ToSigned(x) = s * n
      BY <1>2, <2>5, <3>6, SignedUnique
    <3> QED BY <3>2, <3>7
  <2> QED BY <2>2, <2>3, <2>4, <2>5
<1> QED BY <1>1, <1>2, <1>3, <1>4, <1>5, <1>6 DEF SignedArithmetic

-----------------------------------------------------------------------------
(* What a call is to give: an object of a class whose number is what the   *)
(* operator means, or an exception when something stands in the way.       *)

AnsweringOf(x, y) == IF x.cls = "int" THEN y.cls ELSE x.cls
RepresentableBy(x, y, n) == InRange(Object(AnsweringOf(x, y), n))

(* Nothing speaks against the call: the premise of NoFalseRefusal. *)
NothingAgainst(op, x, y, modulo) ==
  /\ IsInt(x) /\ IsInt(y)
  /\ RepresentableBy(x, y, x.val) /\ RepresentableBy(x, y, y.val)
  /\ CASE op = "+" -> RepresentableBy(x, y, x.val + y.val)
       [] op = "-" -> RepresentableBy(x, y, x.val - y.val)
       [] op = "*" -> RepresentableBy(x, y, x.val * y.val)
       [] op \in {"//", "%"} -> y.val # 0
       [] op = "**" -> y.val >= 0 /\ RepresentableBy(x, y, ToThe(x.val, y.val))
       [] op \in {"pow", "wrapping_pow"} -> modulo > 0 /\ RepresentableBy(x, y, modulo)
       [] op \in {"from_signed", "new", "bytes"} -> FALSE
       [] OTHER -> TRUE

(* The power that FixedUint.__rpow__ takes, whose range nobody tests. *)
ReflectedPower(op, x, y) == op = "**" /\ x.cls = "int" /\ y.cls = "U256"

Right(op, x, y, modulo, r) ==
  /\ ~Failed(r) => /\ r \in [cls : {"Uint", "U256"}, val : Nat]
                   /\ Means(op, x.val, y.val, modulo, r.val)
  /\ NothingAgainst(op, x, y, modulo) => ~Failed(r)
  /\ InRange(x) /\ InRange(y) /\ ~Failed(r) => InRange(r) \/ ReflectedPower(op, x, y)

(* What the operands are, int or not: the classes hold no negative number. *)
Operand(x) ==
  /\ x \in [cls : {"int", "Uint", "U256"}, val : Int]
  /\ x.cls # "int" => x.val >= 0

LEMMA RightObject ==
  ASSUME NEW op, NEW x, NEW y, NEW modulo, NEW cls \in {"Uint", "U256"}, NEW n \in Nat,
         Means(op, x.val, y.val, modulo, n),
         \/ ReflectedPower(op, x, y)
         \/ cls = "U256" /\ InRange(x) /\ InRange(y) => n <= MAX_VALUE
  PROVE  Right(op, x, y, modulo, Object(cls, n))
<1>1. ~Failed(Object(cls, n))
  BY DEF Failed, Object, Exceptions, Overflow, DivisionByZero, BadValue, BadType
<1>2. Object(cls, n) \in [cls : {"Uint", "U256"}, val : Nat] /\ Object(cls, n).val = n
  BY DEF Object
<1>3. InRange(x) /\ InRange(y) => InRange(Object(cls, n)) \/ ReflectedPower(op, x, y)
  BY DEF InRange, Object
<1> QED BY <1>1, <1>2, <1>3 DEF Right

LEMMA RightRaise ==
  ASSUME NEW op, NEW x, NEW y, NEW modulo, NEW e \in Exceptions,
         ~NothingAgainst(op, x, y, modulo)
  PROVE  Right(op, x, y, modulo, Raise(e))
<1>1. Failed(Raise(e))
  BY DEF Failed, Raise, Object
<1> QED BY <1>1 DEF Right

LEMMA Names == Overflow \in Exceptions /\ DivisionByZero \in Exceptions
                 /\ BadValue \in Exceptions /\ BadType \in Exceptions
BY DEF Exceptions

(* What an operator means, and what a call with nothing against it has, one *)
(* by one.                                                                 *)
LEMMA MeansOf ==
  ASSUME NEW x, NEW y, NEW modulo, NEW r
  PROVE  /\ Means("+", x, y, modulo, r) <=> r - x = y
         /\ Means("-", x, y, modulo, r) <=> r + y = x
         /\ Means("*", x, y, modulo, r) <=>
              IF x = 0 THEN r = 0 ELSE r % x = 0 /\ r \div x = y
         /\ Means("//", x, y, modulo, r) <=> y * r <= x /\ x < y * (r + 1)
         /\ Means("%", x, y, modulo, r) <=> 0 <= r /\ r < y /\ SameModulo(x, r, y)
         /\ Means("pow", x, y, modulo, r) <=> r < modulo /\ SameModulo(ToThe(x, y), r, modulo)
         /\ Means("wrapping_add", x, y, modulo, r) <=> SameModulo(r, x + y, U256_CEIL_VALUE)
         /\ Means("wrapping_sub", x, y, modulo, r) <=> SameModulo(r, x - y, U256_CEIL_VALUE)
         /\ Means("wrapping_mul", x, y, modulo, r) <=> SameModulo(r, x * y, U256_CEIL_VALUE)
         /\ Means("wrapping_pow", x, y, modulo, r) <=>
              IF modulo = None THEN SameModulo(r, ToThe(x, y), U256_CEIL_VALUE)
                               ELSE r < modulo /\ SameModulo(r, ToThe(x, y), modulo)
         /\ Means("~", x, y, modulo, r) <=>
              IsWord(r) /\ SameModulo(x + r, MAX_VALUE, U256_CEIL_VALUE)
         /\ Means(">>", x, y, modulo, r) <=>
              r * ToThe(2, y) <= x /\ x < (r + 1) * ToThe(2, y)
         /\ Means("from_signed", x, y, modulo, r) <=> SameModulo(r, x, U256_CEIL_VALUE)
         /\ Means("new", x, y, modulo, r) <=> r = x
         /\ Means("bytes", x, y, modulo, r) <=> r = x
BY DEF Means

LEMMA MeansBits ==
  ASSUME NEW x, NEW y, NEW modulo, NEW r
  PROVE  /\ Means("&", x, y, modulo, r) <=>
              \A i \in 0 .. WordBits : Bit(r, i) = Bit(x, i) * Bit(y, i)
         /\ Means("|", x, y, modulo, r) <=>
              \A i \in 0 .. WordBits : (Bit(r, i) = 0) <=> Bit(x, i) + Bit(y, i) = 0
         /\ Means("^", x, y, modulo, r) <=>
              \A i \in 0 .. WordBits + 2 : (Bit(r, i) = 1) <=> Bit(x, i) # Bit(y, i)
BY DEF Means

LEMMA MeansPower ==
  ASSUME NEW x \in Int, NEW y \in Nat, NEW modulo, NEW r, r = ToThe(x, y)
  PROVE  Means("**", x, y, modulo, r)
<1>1. r = FoldLeft(LAMBDA p, i : p * x, 1, [i \in 1 .. y |-> i])
  BY PowerIsProduct
<1> QED BY <1>1 DEF Means

HeldBy(c, n) == n >= 0 /\ (c = "U256" => n <= MAX_VALUE)

LEMMA Unobstructed ==
  ASSUME NEW op, NEW x, NEW y, NEW modulo, NothingAgainst(op, x, y, modulo),
         NEW c \in {"Uint", "U256"}, c = AnsweringOf(x, y)
  PROVE  /\ HeldBy(c, x.val) /\ HeldBy(c, y.val)
         /\ op = "+" => HeldBy(c, x.val + y.val)
         /\ op = "-" => HeldBy(c, x.val - y.val)
         /\ op = "*" => HeldBy(c, x.val * y.val)
         /\ op = "//" => y.val # 0
         /\ op = "%" => y.val # 0
         /\ op = "**" => y.val >= 0 /\ HeldBy(c, ToThe(x.val, y.val))
         /\ op = "pow" => modulo > 0 /\ HeldBy(c, modulo)
         /\ op = "wrapping_pow" => modulo > 0 /\ HeldBy(c, modulo)
         /\ op \notin {"from_signed", "new", "bytes"}
<1>1. \A n : RepresentableBy(x, y, n) <=> HeldBy(c, n)
  BY DEF RepresentableBy, HeldBy, InRange, Object
<1> QED BY <1>1 DEF NothingAgainst

LEMMA RightAdd ==
  ASSUME NEW x, NEW y, Operand(x), Operand(y), x.cls # "int" \/ y.cls # "int"
  PROVE  Right("+", x, y, None, Binary("+", x, y))
<1>1. PICK a \in Int, b \in Int : a = x.val /\ b = y.val
  BY DEF Operand
<1>2. PICK c \in {"Uint", "U256"} : c = AnsweringOf(x, y)
  BY DEF Operand, AnsweringOf
<1>3. Binary("+", x, y) =
        IF a < 0 \/ b < 0 \/ (c = "U256" /\ a + b > MAX_VALUE)
        THEN Raise(Overflow) ELSE Object(c, a + b)
  <2>1. CASE x.cls = "int"
    BY <1>1, <1>2, <2>1
       DEF Operand, AnsweringOf, Binary, IsInt, Reflected, Forward, UintAdd, UintOf, FixedAdd
  <2>2. CASE x.cls # "int"
    BY <1>1, <1>2, <2>2
       DEF Operand, AnsweringOf, Binary, IsInt, Reflected, Forward, UintAdd, UintOf, FixedAdd
  <2> QED BY <2>1, <2>2
<1>4. CASE a < 0 \/ b < 0 \/ (c = "U256" /\ a + b > MAX_VALUE)
  <2>1. ~NothingAgainst("+", x, y, None)
    BY <1>1, <1>2, <1>4, Unobstructed, WordSizes DEF HeldBy
  <2> QED BY <1>3, <1>4, <2>1, Names, RightRaise
<1>5. CASE ~(a < 0 \/ b < 0 \/ (c = "U256" /\ a + b > MAX_VALUE))
  <2>1. PICK n \in Nat : n = a + b
    BY <1>5
  <2>2. Means("+", x.val, y.val, None, n)
    BY <1>1, <2>1, MeansOf
  <2>3. c = "U256" => n <= MAX_VALUE
    BY <1>5, <2>1, WordSizes
  <2> QED BY <1>3, <1>5, <2>1, <2>2, <2>3, RightObject
<1> QED BY <1>4, <1>5

LEMMA MaxIsNat == MAX_VALUE \in Nat
BY WordSizes

(* The methods that answer. *)
LEMMA AnswerOfRight ==
  ASSUME NEW x, NEW y, Operand(x), Operand(y), x.cls = "int", y.cls # "int"
  PROVE  /\ Binary("-", x, y) = IF y.cls = "U256" THEN FixedRSub(y.val, x.val)
                                                  ELSE UintRSub(y.val, x.val)
         /\ Binary("//", x, y) = IF y.cls = "U256" THEN FixedRFloorDiv(y.val, x.val)
                                                   ELSE UintRFloorDiv(y.val, x.val)
         /\ Binary("%", x, y) = IF y.cls = "U256" THEN FixedRMod(y.val, x.val)
                                                  ELSE UintRMod(y.val, x.val)
         /\ Binary("**", x, y) = IF y.cls = "U256" THEN FixedRPow(y.val, x.val)
                                                   ELSE UintRPow(y.val, x.val)
         /\ Binary("^", x, y) = IF y.cls = "U256" THEN FixedXor(y.val, x.val)
                                                  ELSE UintXor(y.val, x.val)
BY DEF Operand, Binary, IsInt, Reflected, Forward

LEMMA AnswerOfLeft ==
  ASSUME NEW x, NEW y, Operand(x), Operand(y), x.cls # "int"
  PROVE  /\ Binary("-", x, y) = IF x.cls = "U256" THEN FixedSub(x.val, y.val)
                                                  ELSE UintSub(x.val, y.val)
         /\ Binary("//", x, y) = IF x.cls = "U256" THEN FixedFloorDiv(x.val, y.val)
                                                   ELSE UintFloorDiv(x.val, y.val)
         /\ Binary("%", x, y) = IF x.cls = "U256" THEN FixedMod(x.val, y.val)
                                                  ELSE UintMod(x.val, y.val)
         /\ Binary("**", x, y) = IF x.cls = "U256" THEN FixedPow(x.val, y.val, None)
                                                   ELSE UintPow(x.val, y.val, None)
         /\ Binary("^", x, y) = IF x.cls = "U256" THEN FixedXor(x.val, y.val)
                                                  ELSE UintXor(x.val, y.val)
BY DEF Operand, Binary, IsInt, Forward

LEMMA RightSub ==
  ASSUME NEW x, NEW y, Operand(x), Operand(y), x.cls # "int" \/ y.cls # "int"
  PROVE  Right("-", x, y, None, Binary("-", x, y))
<1>1. PICK a \in Int, b \in Int : a = x.val /\ b = y.val
  BY DEF Operand
<1>2. PICK c \in {"Uint", "U256"} : c = AnsweringOf(x, y)
  BY DEF Operand, AnsweringOf
<1> DEFINE tested == IF x.cls = "int" THEN a ELSE b
           bad == a < b \/ tested < 0 \/ (c = "U256" /\ tested > MAX_VALUE)
<1>3. Binary("-", x, y) = IF bad THEN Raise(Overflow) ELSE Object(c, a - b)
  <2>1. CASE x.cls = "int"
    BY <1>1, <1>2, <2>1, MaxIsNat, AnswerOfRight
       DEF Operand, AnsweringOf, UintRSub, UintOf, FixedRSub,
           Fixed, IsWord
  <2>2. CASE x.cls # "int"
    BY <1>1, <1>2, <2>2, MaxIsNat, AnswerOfLeft
       DEF Operand, AnsweringOf, UintSub, UintOf, FixedSub,
           Fixed, IsWord
  <2> QED BY <2>1, <2>2
<1>4. CASE bad
  <2>1. ~NothingAgainst("-", x, y, None)
    BY <1>1, <1>2, <1>4, Unobstructed, WordSizes DEF HeldBy
  <2> HIDE DEF bad
  <2> QED BY <1>3, <1>4, <2>1, Names, RightRaise
<1>5. CASE ~bad
  <2>1. PICK n \in Nat : n = a - b
    BY <1>5
  <2>2. Means("-", x.val, y.val, None, n)
    BY <1>1, <2>1, MeansOf
  <2>3. c = "U256" /\ InRange(x) => n <= MAX_VALUE
    BY <1>1, <1>2, <1>5, <2>1, WordSizes DEF InRange, AnsweringOf, Operand
  <2> HIDE DEF bad
  <2> QED BY <1>3, <1>5, <2>1, <2>2, <2>3, RightObject
<1> HIDE DEF bad
<1> QED BY <1>4, <1>5

LEMMA RightMul ==
  ASSUME NEW x, NEW y, Operand(x), Operand(y), x.cls # "int" \/ y.cls # "int"
  PROVE  Right("*", x, y, None, Binary("*", x, y))
<1>1. PICK a \in Int, b \in Int : a = x.val /\ b = y.val
  BY DEF Operand
<1>2. PICK c \in {"Uint", "U256"} : c = AnsweringOf(x, y)
  BY DEF Operand, AnsweringOf
<1>3. PICK n \in Int : n = a * b /\ n = b * a
  OBVIOUS
<1> DEFINE bad == a < 0 \/ b < 0 \/ (c = "U256" /\ n > MAX_VALUE)
<1>4. Binary("*", x, y) = IF bad THEN Raise(Overflow) ELSE Object(c, n)
  <2>1. CASE x.cls = "int"
    BY <1>1, <1>2, <1>3, <2>1
       DEF Operand, AnsweringOf, Binary, IsInt, Reflected, Forward, UintMul, UintOf, FixedMul
  <2>2. CASE x.cls # "int"
    BY <1>1, <1>2, <1>3, <2>2
       DEF Operand, AnsweringOf, Binary, IsInt, Reflected, Forward, UintMul, UintOf, FixedMul
  <2> QED BY <2>1, <2>2
<1>5. CASE bad
  <2>1. ~NothingAgainst("*", x, y, None)
    BY <1>1, <1>2, <1>3, <1>5, Unobstructed, WordSizes DEF HeldBy
  <2> HIDE DEF bad
  <2> QED BY <1>4, <1>5, <2>1, Names, RightRaise
<1>6. CASE ~bad
  <2>1. a \in Nat /\ b \in Nat
    BY <1>6
  <2>2. n \in Nat
    BY <1>3, <2>1
  <2>3. a = 0 => n = 0
    BY <1>3
  <2>4. a # 0 => n % a = 0 /\ n \div a = b
    <3> SUFFICES ASSUME a # 0 PROVE n % a = 0 /\ n \div a = b
      OBVIOUS
    <3>1. a \in Nat /\ a > 0 /\ n = a * b + 0
      BY <1>3, <2>1
    <3> QED BY <3>1, QuotientIs
  <2>5. Means("*", x.val, y.val, None, n)
    BY <1>1, <2>3, <2>4, MeansOf
  <2>6. c = "U256" => n <= MAX_VALUE
    BY <1>6, WordSizes
  <2> HIDE DEF bad
  <2> QED BY <1>4, <1>6, <2>2, <2>5, <2>6, RightObject
<1> HIDE DEF bad
<1> QED BY <1>5, <1>6

LEMMA RightFloorDiv ==
  ASSUME NEW x, NEW y, Operand(x), Operand(y), x.cls # "int" \/ y.cls # "int"
  PROVE  Right("//", x, y, None, Binary("//", x, y))
<1>1. PICK a \in Int, b \in Int : a = x.val /\ b = y.val
  BY DEF Operand
<1>2. PICK c \in {"Uint", "U256"} : c = AnsweringOf(x, y)
  BY DEF Operand, AnsweringOf
<1> DEFINE tested == IF x.cls = "int" THEN a ELSE b
           bad == tested < 0 \/ (c = "U256" /\ tested > MAX_VALUE)
<1>3. Binary("//", x, y) = CASE bad -> Raise(Overflow)
                             [] ~bad /\ b = 0 -> Raise(DivisionByZero)
                             [] ~bad /\ b # 0 -> Object(c, a \div b)
  <2>1. CASE x.cls = "int"
    BY <1>1, <1>2, <2>1, MaxIsNat, AnswerOfRight
       DEF Operand, AnsweringOf, UintRFloorDiv, Divided,
           FixedRFloorDiv, Fixed, IsWord
  <2>2. CASE x.cls # "int"
    BY <1>1, <1>2, <2>2, MaxIsNat, AnswerOfLeft
       DEF Operand, AnsweringOf, UintFloorDiv, Divided,
           FixedFloorDiv, Fixed, IsWord
  <2> QED BY <2>1, <2>2
<1>4. CASE bad \/ b = 0
  <2>1. ~NothingAgainst("//", x, y, None)
    BY <1>1, <1>2, <1>4, Unobstructed, WordSizes DEF HeldBy
  <2>2. Binary("//", x, y) \in {Raise(Overflow), Raise(DivisionByZero)}
    <3> HIDE DEF bad
    <3> QED BY <1>3, <1>4
  <2> HIDE DEF bad
  <2> QED BY <2>1, <2>2, Names, RightRaise
<1>5. CASE ~(bad \/ b = 0)
  <2>1. PICK p \in Nat, q \in Nat : p = a /\ q = b /\ q > 0
    BY <1>1, <1>5 DEF Operand
  <2>2. PICK n \in Nat, r \in Nat : n = p \div q /\ p = q * n + r /\ r < q /\ n <= p
    BY <2>1, Division, DivisionNat
  <2>3. q * n <= p /\ p < q * (n + 1)
    BY <2>2
  <2>4. Means("//", x.val, y.val, None, n)
    BY <1>1, <2>1, <2>3, MeansOf
  <2>5. c = "U256" /\ InRange(x) => n <= MAX_VALUE
    BY <1>1, <1>2, <1>5, <2>1, <2>2, WordSizes DEF InRange, AnsweringOf, Operand
  <2>6. Binary("//", x, y) = Object(c, n)
    <3> HIDE DEF bad
    <3> QED BY <1>3, <1>5, <2>1, <2>2
  <2> QED BY <2>4, <2>5, <2>6, RightObject
<1> HIDE DEF bad
<1> QED BY <1>4, <1>5

LEMMA RightMod ==
  ASSUME NEW x, NEW y, Operand(x), Operand(y), x.cls # "int" \/ y.cls # "int"
  PROVE  Right("%", x, y, None, Binary("%", x, y))
<1>1. PICK a \in Int, b \in Int : a = x.val /\ b = y.val
  BY DEF Operand
<1>2. PICK c \in {"Uint", "U256"} : c = AnsweringOf(x, y)
  BY DEF Operand, AnsweringOf
<1> DEFINE tested == IF x.cls = "int" THEN a ELSE b
           bad == tested < 0 \/ (c = "U256" /\ tested > MAX_VALUE)
<1>3. Binary("%", x, y) = CASE bad -> Raise(Overflow)
                            [] ~bad /\ b = 0 -> Raise(DivisionByZero)
                            [] ~bad /\ b # 0 -> Object(c, a % b)
  <2>1. CASE x.cls = "int"
    BY <1>1, <1>2, <2>1, MaxIsNat, AnswerOfRight
       DEF Operand, AnsweringOf, UintRMod, Remainder,
           FixedRMod, Fixed, IsWord
  <2>2. CASE x.cls # "int"
    BY <1>1, <1>2, <2>2, MaxIsNat, AnswerOfLeft
       DEF Operand, AnsweringOf, UintMod, Remainder,
           FixedMod, Fixed, IsWord
  <2> QED BY <2>1, <2>2
<1>4. CASE bad \/ b = 0
  <2>1. ~NothingAgainst("%", x, y, None)
    BY <1>1, <1>2, <1>4, Unobstructed, WordSizes DEF HeldBy
  <2>2. Binary("%", x, y) \in {Raise(Overflow), Raise(DivisionByZero)}
    <3> HIDE DEF bad
    <3> QED BY <1>3, <1>4
  <2> HIDE DEF bad
  <2> QED BY <2>1, <2>2, Names, RightRaise
<1>5. CASE ~(bad \/ b = 0)
  <2>1. PICK p \in Nat, q \in Nat : p = a /\ q = b /\ q > 0
    BY <1>1, <1>5 DEF Operand
  <2>2. PICK n \in Nat : n = p % q /\ n < q /\ n <= p
    BY <2>1, Division, DivisionNat
  <2>3. SameModulo(p, n, q)
    BY <2>1, <2>2, CongruentToRemainder
  <2>4. Means("%", x.val, y.val, None, n)
    BY <1>1, <2>1, <2>2, <2>3, MeansOf
  <2>5. c = "U256" /\ InRange(x) => n <= MAX_VALUE
    BY <1>1, <1>2, <1>5, <2>1, <2>2, WordSizes DEF InRange, AnsweringOf, Operand
  <2>6. Binary("%", x, y) = Object(c, n)
    <3> HIDE DEF bad
    <3> QED BY <1>3, <1>5, <2>1, <2>2
  <2> QED BY <2>4, <2>5, <2>6, RightObject
<1> HIDE DEF bad
<1> QED BY <1>4, <1>5

(* A word is below the power of two that the bits of a word count. *)
LEMMA WordBound ==
  ASSUME NEW n \in Nat
  PROVE  n <= MAX_VALUE <=> n < ToThe(2, WordBits)
BY WordSizes

LEMMA RightXor ==
  ASSUME NEW x, NEW y, Operand(x), Operand(y), x.cls # "int" \/ y.cls # "int"
  PROVE  Right("^", x, y, None, Binary("^", x, y))
<1>1. PICK a \in Int, b \in Int : a = x.val /\ b = y.val
  BY DEF Operand
<1>2. PICK c \in {"Uint", "U256"} : c = AnsweringOf(x, y)
  BY DEF Operand, AnsweringOf
<1> DEFINE tested == IF x.cls = "int" THEN a ELSE b
           bad == tested < 0 \/ (c = "U256" /\ tested > MAX_VALUE)
           value == IF x.cls = "int" THEN Xor(b, a) ELSE Xor(a, b)
<1>3. Binary("^", x, y) = IF bad THEN Raise(Overflow) ELSE Object(c, value)
  <2>1. CASE x.cls = "int"
    BY <1>1, <1>2, <2>1, MaxIsNat, AnswerOfRight
       DEF Operand, AnsweringOf, UintXor, UintOf, FixedXor, Fixed, IsWord
  <2>2. CASE x.cls # "int"
    BY <1>1, <1>2, <2>2, MaxIsNat, AnswerOfLeft
       DEF Operand, AnsweringOf, UintXor, UintOf, FixedXor, Fixed, IsWord
  <2> QED BY <2>1, <2>2
<1>4. CASE bad
  <2>1. ~NothingAgainst("^", x, y, None)
    BY <1>1, <1>2, <1>4, Unobstructed, WordSizes DEF HeldBy
  <2> HIDE DEF bad, value
  <2> QED BY <1>3, <1>4, <2>1, Names, RightRaise
<1>5. CASE ~bad
  <2>1. PICK p \in Nat, q \in Nat : p = a /\ q = b
    BY <1>1, <1>5 DEF Operand
  <2>2. PICK n \in Nat : n = value /\ XorOf(n, p, q)
    BY <2>1, XorIs
  <2>3. Means("^", x.val, y.val, None, n)
    <3>1. \A i \in 0 .. WordBits + 2 : (Bit(n, i) = 1) <=> Bit(p, i) # Bit(q, i)
      BY <2>2, WordSizes DEF XorOf
    <3> QED BY <1>1, <2>1, <3>1, MeansBits
  <2>4. ASSUME c = "U256", InRange(x), InRange(y) PROVE n <= MAX_VALUE
    <3>1. p <= MAX_VALUE /\ q <= MAX_VALUE
      BY <1>1, <1>2, <1>5, <2>1, <2>4, WordSizes DEF InRange, AnsweringOf, Operand
    <3>2. WordBits \in Nat
      BY WordSizes
    <3> QED BY <2>2, <3>1, <3>2, WordBound DEF XorOf
  <2>5. Binary("^", x, y) = Object(c, n)
    <3> HIDE DEF bad, value
    <3> QED BY <1>3, <1>5, <2>2
  <2> QED BY <2>3, <2>4, <2>5, RightObject
<1> HIDE DEF bad
<1> QED BY <1>4, <1>5

LEMMA NoneIs == None \notin Nat /\ ~(None > 0) /\ ~IsWord(None) /\ None \in Int /\ None < 0
BY DEF None, IsWord

(* The power without a modulo, with the object on either side. *)
LEMMA PowerNone ==
  ASSUME NEW cls, NEW x, NEW y
  PROVE  Power(cls, x, y, None) = Object(cls, ToThe(x, y))
BY NoneIs DEF Power

LEMMA RightPow ==
  ASSUME NEW x, NEW y, Operand(x), Operand(y), x.cls # "int" \/ y.cls # "int"
  PROVE  Right("**", x, y, None, Binary("**", x, y))
<1>1. PICK a \in Int, b \in Int : a = x.val /\ b = y.val
  BY DEF Operand
<1>2. PICK c \in {"Uint", "U256"} : c = AnsweringOf(x, y)
  BY DEF Operand, AnsweringOf
<1>3. \A cls, p, q : Power(cls, p, q, None) = Object(cls, ToThe(p, q))
  BY PowerNone
<1>4. \A e : Raise(e).cls = e
  BY DEF Raise, Object
<1>5. ASSUME NEW e \in Exceptions, Binary("**", x, y) = Raise(e),
             ~HeldBy(c, a) \/ ~HeldBy(c, b) \/ ~HeldBy(c, ToThe(a, b))
      PROVE  Right("**", x, y, None, Binary("**", x, y))
  <2>1. ~NothingAgainst("**", x, y, None)
    BY <1>1, <1>2, <1>5, Unobstructed
  <2> QED BY <1>5, <2>1, RightRaise
<1>6. ASSUME Binary("**", x, y) = Object(c, ToThe(a, b)), a >= 0, b >= 0,
             c = "U256" /\ x.cls # "int" => ToThe(a, b) <= MAX_VALUE
      PROVE  Right("**", x, y, None, Binary("**", x, y))
  <2>1. PICK n \in Nat : n = ToThe(a, b)
    BY <1>6, PowerNat
  <2>2. Means("**", x.val, y.val, None, n)
    BY <1>1, <1>6, <2>1, MeansPower
  <2>3. ReflectedPower("**", x, y) \/ (c = "U256" => n <= MAX_VALUE)
    BY <1>2, <1>6, <2>1 DEF ReflectedPower, AnsweringOf
  <2> QED BY <1>6, <2>1, <2>2, <2>3, RightObject
<1>7. CASE x.cls = "int"
  <2>1. b >= 0 /\ y.cls = c
    BY <1>1, <1>2, <1>7 DEF Operand, AnsweringOf
  <2> DEFINE bad == a < 0 \/ (c = "U256" /\ a > MAX_VALUE)
  <2>2. Binary("**", x, y) = IF bad THEN Raise(Overflow) ELSE Object(c, ToThe(a, b))
    BY <1>1, <1>3, <1>7, <2>1, MaxIsNat, AnswerOfRight DEF FixedRPow, UintRPow, Fixed, IsWord
  <2>3. CASE bad
    <3>1. ~HeldBy(c, a)
      BY <2>3, MaxIsNat DEF HeldBy
    <3> HIDE DEF bad
    <3> QED BY <1>5, <2>2, <2>3, <3>1, Names
  <2>4. CASE ~bad
    <3>1. a >= 0
      BY <2>4
    <3> HIDE DEF bad
    <3> QED BY <1>6, <1>7, <2>1, <2>2, <2>4, <3>1
  <2> HIDE DEF bad
  <2> QED BY <2>3, <2>4
<1>8. CASE x.cls # "int" /\ c = "Uint"
  <2>1. a >= 0 /\ x.cls = "Uint"
    BY <1>1, <1>2, <1>8 DEF Operand, AnsweringOf
  <2>2. Binary("**", x, y) = IF b < 0 THEN Raise(Overflow) ELSE Object(c, ToThe(a, b))
    BY <1>1, <1>3, <1>8, <2>1, AnswerOfLeft DEF UintPow
  <2>3. CASE b < 0
    <3>1. ~HeldBy(c, b)
      BY <2>3 DEF HeldBy
    <3> QED BY <1>5, <2>2, <2>3, <3>1, Names
  <2>4. CASE b >= 0
    BY <1>6, <1>8, <2>1, <2>2, <2>4
  <2> QED BY <2>3, <2>4
<1>9. CASE x.cls # "int" /\ c = "U256"
  <2>1. a >= 0 /\ x.cls = "U256"
    BY <1>1, <1>2, <1>9 DEF Operand, AnsweringOf
  <2>2. Binary("**", x, y) = FixedPow(a, b, None)
    BY <1>1, <1>9, <2>1, AnswerOfLeft
  <2>3. CASE b < 0
    <3>1. FixedPow(a, b, None) \in {Raise(DivisionByZero), Raise(Overflow)}
      <4>1. CASE a = 0
        BY <2>3, <4>1, NoneIs DEF FixedPow
      <4>2. CASE a # 0
        BY <2>3, <4>2, NoneIs DEF FixedPow
      <4> QED BY <4>1, <4>2
    <3>2. ~HeldBy(c, b)
      BY <2>3 DEF HeldBy
    <3> QED BY <1>5, <2>2, <3>1, <3>2, Names
  <2>4. CASE b >= 0
    <3>1. PICK n \in Nat : n = ToThe(a, b)
      BY <2>1, <2>4, PowerNat
    <3>2. PICK r : r = Object("U256", n) /\ r = Power("U256", a, b, None) /\ ~Failed(r) /\ r.val = n
      BY <1>3, <3>1 DEF Failed, Object, Exceptions, Overflow, DivisionByZero, BadValue, BadType
    <3>3. FixedPow(a, b, None) =
            IF ~IsWord(b) \/ n > MAX_VALUE THEN Raise(Overflow) ELSE Object("U256", n)
      BY <2>4, <3>2, NoneIs DEF FixedPow
    <3>4. CASE ~IsWord(b) \/ n > MAX_VALUE
      <4>1. ~HeldBy(c, b) \/ ~HeldBy(c, ToThe(a, b))
        BY <1>9, <2>4, <3>1, <3>4, MaxIsNat DEF HeldBy, IsWord
      <4> QED BY <1>5, <2>2, <3>3, <3>4, <4>1, Names
    <3>5. CASE ~(~IsWord(b) \/ n > MAX_VALUE)
      <4>1. ToThe(a, b) <= MAX_VALUE
        BY <3>1, <3>5, MaxIsNat
      <4> QED BY <1>6, <1>9, <2>1, <2>2, <2>4, <3>1, <3>3, <3>5, <4>1
    <3> QED BY <3>4, <3>5
  <2> QED BY <2>3, <2>4
<1> QED BY <1>7, <1>8, <1>9

(* The power with a modulo, of an object. *)
LEMMA RightPowModulo ==
  ASSUME NEW x, NEW y, Operand(x), Operand(y), x.cls # "int", NEW modulo \in Int, modulo # None
  PROVE  Right("pow", x, y, modulo,
               IF x.cls = "U256" THEN FixedPow(x.val, y.val, modulo)
                                 ELSE UintPow(x.val, y.val, modulo))
<1>1. PICK a \in Nat, b \in Int : a = x.val /\ b = y.val
  BY DEF Operand
<1>2. PICK c \in {"Uint", "U256"} : c = AnsweringOf(x, y) /\ c = x.cls
  BY DEF Operand, AnsweringOf
<1>3. PICK r : r = IF c = "U256" THEN FixedPow(a, b, modulo) ELSE UintPow(a, b, modulo)
  OBVIOUS
<1> SUFFICES Right("pow", x, y, modulo, r)
  BY <1>1, <1>2, <1>3
<1>4. ASSUME NEW e \in Exceptions, r = Raise(e),
             ~HeldBy(c, b) \/ modulo <= 0 \/ ~HeldBy(c, modulo)
      PROVE  Right("pow", x, y, modulo, r)
  <2>1. ~NothingAgainst("pow", x, y, modulo)
    <3> SUFFICES ASSUME NothingAgainst("pow", x, y, modulo) PROVE FALSE
      OBVIOUS
    <3>1. HeldBy(c, y.val) /\ modulo > 0 /\ HeldBy(c, modulo)
      BY <1>2, Unobstructed, Zenon
    <3> QED BY <1>1, <1>4, <3>1
  <2> QED BY <1>4, <2>1, RightRaise
<1>5. CASE b < 0 \/ modulo < 0 \/ (c = "U256" /\ modulo > MAX_VALUE)
  <2>1. ~HeldBy(c, b) \/ modulo <= 0 \/ ~HeldBy(c, modulo)
    BY <1>5, MaxIsNat DEF HeldBy
  <2>2. r \in {Raise(Overflow), Raise(BadValue)}
    <3>1. CASE c = "U256"
      BY <1>3, <1>5, <3>1, MaxIsNat DEF FixedPow, IsWord
    <3>2. CASE c = "Uint"
      BY <1>3, <1>5, <3>2 DEF UintPow
    <3> QED BY <3>1, <3>2
  <2> QED BY <1>4, <2>1, <2>2, Names
<1>6. CASE b >= 0 /\ modulo = 0
  <2>1. ToThe(a, b) \in Nat /\ Power("U256", a, b, 0) = Raise(BadValue)
                            /\ Power("Uint", a, b, 0) = Raise(BadValue)
    BY <1>6, PowerNat, NoneIs DEF Power
  <2>2. Failed(Raise(BadValue))
    BY Names DEF Failed, Raise, Object
  <2>3. r = Raise(BadValue)
    <3>1. CASE c = "U256"
      BY <1>3, <1>6, <2>1, <2>2, <3>1, MaxIsNat DEF FixedPow, IsWord
    <3>2. CASE c = "Uint"
      BY <1>3, <1>6, <2>1, <3>2 DEF UintPow
    <3> QED BY <3>1, <3>2
  <2> QED BY <1>4, <1>6, <2>3, Names
<1>7. CASE b >= 0 /\ modulo > 0 /\ ~(c = "U256" /\ modulo > MAX_VALUE)
  <2>1. PICK p \in Nat, m \in Nat : p = ToThe(a, b) /\ m = modulo /\ m > 0
    BY <1>7, PowerNat
  <2>2. PICK n \in Nat : n = p % m /\ n < m
    BY <2>1, Division
  <2>3. SameModulo(p, n, m)
    BY <2>1, <2>2, CongruentToRemainder
  <2>4. Means("pow", x.val, y.val, modulo, n)
    BY <1>1, <2>1, <2>2, <2>3, MeansOf
  <2>5. c = "U256" => n <= MAX_VALUE
    BY <1>7, <2>1, <2>2, MaxIsNat
  <2>6. \A cls : Power(cls, a, b, modulo) = Object(cls, n)
    BY <1>7, <2>1, <2>2 DEF Power
  <2>7. CASE c = "Uint" \/ IsWord(b)
    <3>1. ~Failed(Object(c, n)) /\ Object(c, n).val = n
      BY DEF Failed, Object, Exceptions, Overflow, DivisionByZero, BadValue, BadType
    <3>2. r = Object(c, n)
      <4>1. CASE c = "U256"
        BY <1>3, <1>7, <2>5, <2>6, <2>7, <3>1, <4>1, MaxIsNat DEF FixedPow, IsWord
      <4>2. CASE c = "Uint"
        BY <1>3, <1>7, <2>6, <4>2 DEF UintPow
      <4> QED BY <4>1, <4>2
    <3> QED BY <2>4, <2>5, <3>2, RightObject
  <2>8. CASE c = "U256" /\ ~IsWord(b)
    <3>1. ~Failed(Object("U256", n))
      BY DEF Failed, Object, Exceptions, Overflow, DivisionByZero, BadValue, BadType
    <3>2. r = Raise(Overflow)
      BY <1>3, <1>7, <2>6, <2>8, <3>1, MaxIsNat DEF FixedPow, IsWord
    <3>3. ~HeldBy(c, b)
      BY <2>8, MaxIsNat DEF HeldBy, IsWord
    <3> QED BY <1>4, <3>2, <3>3, Names
  <2> QED BY <2>7, <2>8
<1> QED BY <1>5, <1>6, <1>7, MaxIsNat

(* The methods of U256 alone that insist on a second word. *)
LEMMA RightWordMethod ==
  ASSUME NEW op, op \in {"&", "|", "wrapping_add", "wrapping_sub", "wrapping_mul"},
         NEW x, NEW y, Operand(x), Operand(y), x.cls = "U256", NEW n,
         y.val >= 0 /\ y.val <= MAX_VALUE =>
           /\ n \in Nat /\ Means(op, x.val, y.val, None, n)
           /\ InRange(x) /\ InRange(y) => n <= MAX_VALUE
  PROVE  Right(op, x, y, None, Fixed(y.val, Object("U256", n)))
<1>1. CASE IsWord(y.val)
  <2>1. /\ n \in Nat /\ Means(op, x.val, y.val, None, n)
        /\ InRange(x) /\ InRange(y) => n <= MAX_VALUE
    BY <1>1 DEF IsWord
  <2>2. Right(op, x, y, None, Object("U256", n))
    BY <2>1, RightObject
  <2> QED BY <1>1, <2>2 DEF Fixed
<1>2. CASE ~IsWord(y.val)
  <2>1. ~HeldBy("U256", y.val)
    BY <1>2 DEF HeldBy, IsWord
  <2>2. ~NothingAgainst(op, x, y, None)
    BY <2>1, Unobstructed DEF AnsweringOf
  <2> QED BY <1>2, <2>2, Names, RightRaise DEF Fixed
<1> QED BY <1>1, <1>2

LEMMA RightAnd ==
  ASSUME NEW x, NEW y, Operand(x), Operand(y), x.cls = "U256"
  PROVE  Right("&", x, y, None, FixedAnd(x.val, y.val))
<1>1. PICK a \in Nat, b \in Int : a = x.val /\ b = y.val
  BY DEF Operand
<1>2. PICK n : n = IF b < 0 THEN 0 ELSE And(a, b)
  OBVIOUS
<1>3. ASSUME b >= 0
      PROVE  n \in Nat /\ Means("&", a, b, None, n) /\ (InRange(x) /\ b <= MAX_VALUE => n <= MAX_VALUE)
  <2>1. n \in Nat /\ AndOf(n, a, b)
    BY <1>2, <1>3, AndIs
  <2>2. \A i \in 0 .. WordBits : Bit(n, i) = Bit(a, i) * Bit(b, i)
    BY <2>1, WordSizes DEF AndOf
  <2>3. ASSUME a <= MAX_VALUE, b <= MAX_VALUE PROVE n <= MAX_VALUE
    <3>1. a < ToThe(2, WordBits) /\ b < ToThe(2, WordBits) /\ WordBits \in Nat
      BY <1>3, <2>3, WordBound, WordSizes
    <3>2. n < ToThe(2, WordBits)
      BY <2>1, <3>1 DEF AndOf
    <3> QED BY <2>1, <3>2, WordBound
  <2> QED BY <1>1, <2>1, <2>2, <2>3, MeansBits DEF InRange
<1> QED BY <1>1, <1>2, <1>3, RightWordMethod DEF FixedAnd

LEMMA RightOr ==
  ASSUME NEW x, NEW y, Operand(x), Operand(y), x.cls = "U256"
  PROVE  Right("|", x, y, None, FixedOr(x.val, y.val))
<1>1. PICK a \in Nat, b \in Int : a = x.val /\ b = y.val
  BY DEF Operand
<1>2. PICK n : n = IF b < 0 THEN 0 ELSE Or(a, b)
  OBVIOUS
<1>3. ASSUME b >= 0
      PROVE  n \in Nat /\ Means("|", a, b, None, n) /\ (InRange(x) /\ b <= MAX_VALUE => n <= MAX_VALUE)
  <2>1. n \in Nat /\ OrOf(n, a, b)
    BY <1>2, <1>3, OrIs
  <2>2. \A i \in 0 .. WordBits : (Bit(n, i) = 0) <=> Bit(a, i) + Bit(b, i) = 0
    BY <2>1, WordSizes DEF OrOf
  <2>3. ASSUME a <= MAX_VALUE, b <= MAX_VALUE PROVE n <= MAX_VALUE
    <3>1. a < ToThe(2, WordBits) /\ b < ToThe(2, WordBits) /\ WordBits \in Nat
      BY <1>3, <2>3, WordBound, WordSizes
    <3>2. n < ToThe(2, WordBits)
      BY <2>1, <3>1 DEF OrOf
    <3> QED BY <2>1, <3>2, WordBound
  <2> QED BY <1>1, <2>1, <2>2, <2>3, MeansBits DEF InRange
<1> QED BY <1>1, <1>2, <1>3, RightWordMethod DEF FixedOr

LEMMA RightWrapping ==
  ASSUME NEW x, NEW y, Operand(x), Operand(y), x.cls = "U256"
  PROVE  /\ Right("wrapping_add", x, y, None, WrappingAdd(x.val, y.val))
         /\ Right("wrapping_sub", x, y, None, WrappingSub(x.val, y.val))
         /\ Right("wrapping_mul", x, y, None, WrappingMul(x.val, y.val))
<1>1. PICK a \in Nat, b \in Int : a = x.val /\ b = y.val
  BY DEF Operand
<1>2. ASSUME NEW z \in Int
      PROVE  /\ Masked(z) \in Nat /\ Masked(z) <= MAX_VALUE
             /\ SameModulo(Masked(z), z, U256_CEIL_VALUE)
  BY MaskedIs
<1>3. a + b \in Int /\ a - b \in Int /\ a * b \in Int
  OBVIOUS
<1>4. Right("wrapping_add", x, y, None, WrappingAdd(x.val, y.val))
  <2>1. Means("wrapping_add", a, b, None, Masked(a + b))
    BY <1>2, <1>3, MeansOf
  <2> QED BY <1>1, <1>2, <1>3, <2>1, RightWordMethod DEF WrappingAdd
<1>5. Right("wrapping_sub", x, y, None, WrappingSub(x.val, y.val))
  <2>1. Means("wrapping_sub", a, b, None, Masked(a - b))
    BY <1>2, <1>3, MeansOf
  <2> QED BY <1>1, <1>2, <1>3, <2>1, RightWordMethod DEF WrappingSub
<1>6. Right("wrapping_mul", x, y, None, WrappingMul(x.val, y.val))
  <2>1. Means("wrapping_mul", a, b, None, Masked(a * b))
    BY <1>2, <1>3, MeansOf
  <2> QED BY <1>1, <1>2, <1>3, <2>1, RightWordMethod DEF WrappingMul
<1> QED BY <1>4, <1>5, <1>6

LEMMA RightShift ==
  ASSUME NEW x, NEW y, Operand(x), Operand(y), x.cls = "U256"
  PROVE  Right(">>", x, y, None, FixedRShift(x.val, y.val))
<1>1. PICK a \in Nat, b \in Int : a = x.val /\ b = y.val
  BY DEF Operand
<1>2. CASE b < 0
  <2>1. ~HeldBy("U256", y.val)
    BY <1>1, <1>2 DEF HeldBy
  <2>2. ~NothingAgainst(">>", x, y, None)
    BY <2>1, Unobstructed DEF AnsweringOf
  <2>3. FixedRShift(a, b) = Raise(BadValue)
    BY <1>2 DEF FixedRShift
  <2> QED BY <1>1, <2>2, <2>3, Names, RightRaise
<1>3. CASE b >= 0
  <2>1. PICK p \in Nat : p = ToThe(2, b) /\ p > 0
    BY <1>3, PowersOfTwo
  <2>2. PICK n \in Nat, r \in Nat : n = a \div p /\ a = p * n + r /\ r < p /\ n <= a
    <3>1. p > 0
      BY <2>1
    <3>2. a \div p \in Nat /\ a \div p <= a
      BY <3>1, DivisionNat
    <3>3. a % p \in Nat /\ a % p < p /\ a = p * (a \div p) + (a % p)
      BY <3>1, Division
    <3> QED BY <3>2, <3>3
  <2>3. n * p <= a /\ a < (n + 1) * p
    <3>1. n * p = p * n /\ (n + 1) * p = p * n + p
      OBVIOUS
    <3> QED BY <2>2, <3>1
  <2>4. Means(">>", x.val, y.val, None, n)
    BY <1>1, <2>1, <2>3, MeansOf
  <2>5. InRange(x) => n <= MAX_VALUE
    BY <1>1, <2>2, MaxIsNat DEF InRange
  <2>6. FixedRShift(a, b) = Object("U256", n)
    BY <1>3, <2>1, <2>2 DEF FixedRShift
  <2> QED BY <1>1, <2>4, <2>5, <2>6, RightObject
<1> QED BY <1>1, <1>2, <1>3

LEMMA RightInvert ==
  ASSUME NEW x, Operand(x), x.cls = "U256"
  PROVE  Right("~", x, x, None, FixedInvert(x.val))
<1>1. PICK a \in Nat : a = x.val
  BY DEF Operand
<1>2. PICK m \in Nat : m = U256_CEIL_VALUE /\ m > 0 /\ MAX_VALUE = m - 1 /\ MAX_VALUE \in Nat
  BY WordSizes
<1>3. PICK n \in Nat, k \in Int : n = Masked(-a - 1) /\ n <= MAX_VALUE /\ n = (-a - 1) + m * k
  <2>1. -a - 1 \in Int
    OBVIOUS
  <2> QED BY <1>2, <2>1, MaskedIs
<1>4. SameModulo(a + n, MAX_VALUE, m)
  <2>1. PICK d \in Int : d = k - 1
    OBVIOUS
  <2>2. (a + n) - MAX_VALUE = m * d + 0
    <3>1. m * d = m * k - m
      BY <2>1
    <3> QED BY <1>2, <1>3, <3>1
  <2>3. ((a + n) - MAX_VALUE) % m = 0
    BY <1>2, <2>2, QuotientIs
  <2> QED BY <2>3 DEF SameModulo
<1>5. Means("~", x.val, x.val, None, n)
  <2>1. IsWord(n)
    BY <1>3 DEF IsWord
  <2> QED BY <1>1, <1>2, <1>4, <2>1, MeansOf
<1>6. FixedInvert(a) = Object("U256", n)
  BY <1>3 DEF FixedInvert
<1> QED BY <1>1, <1>3, <1>5, <1>6, RightObject

LEMMA RightWrappingPow ==
  ASSUME NEW x, NEW y, Operand(x), Operand(y), x.cls = "U256", NEW modulo \in Int
  PROVE  Right("wrapping_pow", x, y, modulo, WrappingPow(x.val, y.val, modulo))
<1>1. PICK a \in Nat, b \in Int : a = x.val /\ b = y.val
  BY DEF Operand
<1>2. PICK r : r = WrappingPow(a, b, modulo)
  OBVIOUS
<1> SUFFICES Right("wrapping_pow", x, y, modulo, r)
  BY <1>1, <1>2
<1>3. ASSUME NEW e \in Exceptions, r = Raise(e),
             ~HeldBy("U256", b) \/ modulo <= 0 \/ ~HeldBy("U256", modulo)
      PROVE  Right("wrapping_pow", x, y, modulo, r)
  <2>1. ~NothingAgainst("wrapping_pow", x, y, modulo)
    <3> SUFFICES ASSUME NothingAgainst("wrapping_pow", x, y, modulo) PROVE FALSE
      OBVIOUS
    <3>1. "U256" = AnsweringOf(x, y)
      BY DEF AnsweringOf
    <3>2. HeldBy("U256", y.val) /\ modulo > 0 /\ HeldBy("U256", modulo)
      BY <3>1, Unobstructed, Zenon
    <3> QED BY <1>1, <1>3, <3>2
  <2> QED BY <1>3, <2>1, RightRaise
<1>4. CASE (modulo # None /\ ~IsWord(modulo)) \/ ~IsWord(b)
  <2>1. r = Raise(Overflow)
    BY <1>2, <1>4 DEF WrappingPow
  <2>2. ~HeldBy("U256", b) \/ ~HeldBy("U256", modulo)
    BY <1>4 DEF HeldBy, IsWord
  <2> QED BY <1>3, <2>1, <2>2, Names
<1>5. CASE IsWord(b) /\ modulo = 0
  <2>1. Power("U256", a, b, 0) = Raise(BadValue)
    BY NoneIs DEF Power
  <2>2. Failed(Raise(BadValue))
    BY Names DEF Failed, Raise, Object
  <2>3. r = Raise(BadValue)
    BY <1>2, <1>5, <2>1, <2>2, MaxIsNat DEF WrappingPow, IsWord
  <2> QED BY <1>3, <1>5, <2>3, Names
<1>6. CASE IsWord(b) /\ modulo = None
  <2>1. PICK p \in Nat : p = ToThe(a, b)
    BY <1>6, PowerNat DEF IsWord
  <2>2. PICK n \in Nat : n = Masked(p) /\ n <= MAX_VALUE /\ SameModulo(n, p, U256_CEIL_VALUE)
    BY MaskedIs
  <2>3. Means("wrapping_pow", x.val, y.val, modulo, n)
    BY <1>1, <1>6, <2>1, <2>2, MeansOf
  <2>4. Power("U256", a, b, modulo) = Object("U256", p)
    BY <1>6, <2>1, PowerNone
  <2>5. ~Failed(Object("U256", p)) /\ Object("U256", p).val = p
    BY DEF Failed, Object, Exceptions, Overflow, DivisionByZero, BadValue, BadType
  <2>6. r = Object("U256", n)
    BY <1>2, <1>6, <2>2, <2>4, <2>5 DEF WrappingPow
  <2> QED BY <2>2, <2>3, <2>6, RightObject
<1>7. CASE IsWord(b) /\ modulo > 0 /\ IsWord(modulo)
  <2>1. PICK p \in Nat, m \in Nat : p = ToThe(a, b) /\ m = modulo /\ m > 0 /\ m <= MAX_VALUE
    BY <1>7, PowerNat DEF IsWord
  <2>2. PICK n \in Nat : n = p % m /\ n < m
    BY <2>1, Division
  <2>3. SameModulo(n, p, m)
    BY <2>1, <2>2, CongruentToRemainder
  <2>4. n <= MAX_VALUE
    BY <2>1, <2>2, MaxIsNat
  <2>5. Means("wrapping_pow", x.val, y.val, modulo, n)
    BY <1>1, <1>7, <2>1, <2>2, <2>3, NoneIs, MeansOf
  <2>6. Power("U256", a, b, modulo) = Object("U256", n)
    BY <1>7, <2>1, <2>2, NoneIs DEF Power
  <2>7. ~Failed(Object("U256", n)) /\ Object("U256", n).val = n
    BY DEF Failed, Object, Exceptions, Overflow, DivisionByZero, BadValue, BadType
  <2>8. Masked(n) = n
    BY <2>4, MaskedWord
  <2>9. r = Object("U256", n)
    BY <1>2, <1>7, <2>6, <2>7, <2>8 DEF WrappingPow
  <2> QED BY <2>4, <2>5, <2>9, RightObject
<1>8. IsWord(modulo) => modulo = 0 \/ modulo > 0
  BY DEF IsWord
<1> QED BY <1>4, <1>5, <1>6, <1>7, <1>8

(* Conversions: a number, or a refusal. *)
LEMMA RightConversion ==
  ASSUME NEW op \in {"new", "from_signed", "bytes"}, NEW x, Operand(x), NEW r,
         \/ \E e \in Exceptions : r = Raise(e)
         \/ \E c \in {"Uint", "U256"}, n \in Nat :
              /\ r = Object(c, n) /\ Means(op, x.val, x.val, None, n)
              /\ c = "U256" => n <= MAX_VALUE
  PROVE  Right(op, x, x, None, r)
<1>1. ~NothingAgainst(op, x, x, None)
  BY DEF NothingAgainst
<1> QED BY <1>1, RightRaise, RightObject

LEMMA UintIs ==
  ASSUME NEW n \in Int
  PROVE  Uint(n) = IF n < 0 THEN Raise(Overflow) ELSE Object("Uint", n)
BY DEF Uint

LEMMA RightNew ==
  ASSUME NEW y, Operand(y)
  PROVE  /\ Right("new", y, y, None, Uint(y.val))
         /\ Right("new", y, y, None, U256(y.val))
         /\ Right("from_signed", y, y, None, FromSigned(y.val))
<1>1. PICK v \in Int : v = y.val
  BY DEF Operand
<1>2. Overflow \in Exceptions /\ Means("new", v, v, None, v)
  BY Names, MeansOf
<1>3. Right("new", y, y, None, Uint(y.val))
  <2>1. CASE v < 0
    BY <1>1, <1>2, <2>1, RightConversion DEF Uint
  <2>2. CASE v >= 0
    <3>1. Uint(v) = Object("Uint", v) /\ v \in Nat
      BY <2>2 DEF Uint
    <3> QED BY <1>1, <1>2, <3>1, RightConversion
  <2> QED BY <2>1, <2>2
<1>4. Right("new", y, y, None, U256(y.val))
  <2>1. CASE v < 0 \/ v > MAX_VALUE
    BY <1>1, <1>2, <2>1, RightConversion DEF U256
  <2>2. CASE v >= 0 /\ v <= MAX_VALUE
    <3>1. U256(v) = Object("U256", v) /\ v \in Nat
      BY <2>2, MaxIsNat DEF U256
    <3> QED BY <1>1, <1>2, <2>2, <3>1, RightConversion
  <2> QED BY <2>1, <2>2, MaxIsNat
<1>5. Right("from_signed", y, y, None, FromSigned(y.val))
  <2>1. CASE v > MAX_VALUE
    <3>1. FromSigned(v) = Raise(Overflow)
      BY <2>1, MaxIsNat DEF FromSigned, U256
    <3> QED BY <1>1, <1>2, <3>1, RightConversion
  <2>2. CASE v <= MAX_VALUE
    <3>1. PICK n \in Nat : n = Masked(v) /\ n <= MAX_VALUE /\ SameModulo(n, v, U256_CEIL_VALUE)
      BY MaskedIs
    <3>2. FromSigned(v) = Object("U256", n)
      BY <2>2, <3>1, FromSignedIs
    <3>3. Means("from_signed", v, v, None, n)
      BY <3>1, MeansOf
    <3> QED BY <1>1, <3>1, <3>2, <3>3, RightConversion
  <2> QED BY <2>1, <2>2, MaxIsNat
<1> QED BY <1>3, <1>4, <1>5

LEMMA RightBytes ==
  ASSUME NEW x, Operand(x), x.cls # "int"
  PROVE  /\ Right("bytes", x, x, None, UintFromBeBytes(ToBeBytes(x)))
         /\ Right("bytes", x, x, None, UintFromLeBytes(ToLeBytes(x)))
         /\ Right("bytes", x, x, None, U256FromBeBytes(ToBeBytes(x)))
         /\ Fits(x.val, WordBytes) =>
              Right("bytes", x, x, None, U256FromBeBytes(ToBeBytes32(x)))
<1>1. PICK n \in Nat : n = x.val
  BY DEF Operand
<1>2. PICK l \in Nat : l = ByteLength(n) /\ n < ToThe(ByteBase, l)
  BY ByteLengthIs
<1>3. FromBigEndian(BigEndian(n, l)) = n
  BY <1>2, BytesBack
<1>4. Overflow \in Exceptions /\ BadValue \in Exceptions /\ Means("bytes", n, n, None, n)
  BY Names, MeansOf
<1>5. Uint(n) = Object("Uint", n)
  BY DEF Uint
<1>6. ASSUME NEW bytes, FromBigEndian(bytes) = n
      PROVE  Right("bytes", x, x, None, U256FromBeBytes(bytes))
  <2>1. U256FromBeBytes(bytes) \in {Raise(BadValue), Raise(Overflow)}
          \/ (U256FromBeBytes(bytes) = Object("U256", n) /\ n <= MAX_VALUE)
    BY <1>6, MaxIsNat DEF U256FromBeBytes, U256
  <2> QED BY <1>1, <1>4, <2>1, RightConversion
<1>7. Right("bytes", x, x, None, Object("Uint", n))
  BY <1>1, <1>4, RightConversion
<1>8. Right("bytes", x, x, None, UintFromBeBytes(ToBeBytes(x)))
  BY <1>1, <1>2, <1>3, <1>5, <1>7 DEF UintFromBeBytes, ToBeBytes
<1>9. Right("bytes", x, x, None, UintFromLeBytes(ToLeBytes(x)))
  <2>1. FromBigEndian(Reverse(LittleEndian(n, l))) = n
    BY <1>3 DEF BigEndian
  <2> QED BY <1>1, <1>2, <1>5, <1>7, <2>1 DEF UintFromLeBytes, ToLeBytes
<1>10. Right("bytes", x, x, None, U256FromBeBytes(ToBeBytes(x)))
  BY <1>1, <1>2, <1>3, <1>6 DEF ToBeBytes
<1>11. ASSUME Fits(x.val, WordBytes)
       PROVE  Right("bytes", x, x, None, U256FromBeBytes(ToBeBytes32(x)))
  <2>1. WordBytes \in Nat /\ n < ToThe(ByteBase, WordBytes)
    BY <1>1, <1>11, WidthAssumption DEF Fits
  <2>2. FromBigEndian(BigEndian(n, WordBytes)) = n
    BY <2>1, BytesBack
  <2> QED BY <1>1, <1>6, <2>2 DEF ToBeBytes32
<1> QED BY <1>8, <1>9, <1>10, <1>11

-----------------------------------------------------------------------------
(* The machine *)

(* The last call, with its outcome, is as Right says. *)
CallRight(call) == Right(call.op, call.left, call.right, call.modulo, call.result)

UintsInv == UintsTypeOK /\ CallRight(last)

(* What a step leaves: an object of a class, a call that is right, and a    *)
(* range that only the reflected power leaves.                              *)
StepRight ==
  /\ UintsTypeOK' /\ CallRight(last')
  /\ InRange(acc) /\ ~InRange(acc') => ReflectedPower(last'.op, last'.left, last'.right)

LEMMA OperandsAre ==
  ASSUME UintsTypeOK
  PROVE  /\ Operand(acc) /\ acc.cls # "int" /\ IsInt(acc)
         /\ \A y \in Operands : InRange(y) /\ (IsInt(y) => Operand(y))
         /\ Numbers \subseteq Operands /\ \A y \in Numbers : Operand(y)
         /\ SmallIntegers \subseteq Numbers
<1>1. Operand(acc) /\ acc.cls # "int" /\ IsInt(acc)
  BY DEF UintsTypeOK, Operand, IsInt
<1>2. ASSUME NEW y \in Operands PROVE InRange(y) /\ (IsInt(y) => Operand(y))
  <2>1. y \in [cls : {"int", "Uint", "U256", "str"}, val : Int] /\ InRange(y)
    BY UintsAssumption
  <2> QED BY <2>1 DEF IsInt, InRange, Operand
<1> QED BY <1>1, <1>2 DEF Numbers, SmallIntegers

LEMMA RecordRight ==
  ASSUME UintsTypeOK, NEW op, NEW x, NEW y, NEW modulo, NEW r,
         Record(op, x, y, modulo, r), Right(op, x, y, modulo, r),
         InRange(acc) => InRange(x) /\ InRange(y)
  PROVE  StepRight
<1>1. /\ last' = [op |-> op, left |-> x, right |-> y, modulo |-> modulo, result |-> r]
      /\ acc' = IF Failed(r) THEN acc ELSE r
  BY DEF Record
<1>2. CallRight(last')
  BY <1>1 DEF CallRight
<1>3. UintsTypeOK'
  <2>1. ~Failed(r) => r \in [cls : {"Uint", "U256"}, val : Nat]
    BY DEF Right
  <2> QED BY <1>1, <2>1 DEF UintsTypeOK
<1>4. ASSUME InRange(acc), ~InRange(acc')
      PROVE  ReflectedPower(last'.op, last'.left, last'.right)
  <2>1. ~Failed(r) /\ ~InRange(r)
    BY <1>1, <1>4
  <2>2. ReflectedPower(op, x, y)
    BY <1>4, <2>1 DEF Right
  <2> QED BY <1>1, <2>2
<1> QED BY <1>2, <1>3, <1>4 DEF StepRight

BinaryOperators == {"+", "-", "*", "//", "%", "^", "**"}

LEMMA RightBinary ==
  ASSUME NEW op \in BinaryOperators, NEW x, NEW y, IsInt(x) => Operand(x), IsInt(y) => Operand(y),
         x.cls # "int" \/ y.cls # "int"
  PROVE  Right(op, x, y, None, Binary(op, x, y))
<1>1. CASE IsInt(x) /\ IsInt(y)
  <2>1. Operand(x) /\ Operand(y)
    BY <1>1
  <2> QED BY <2>1, RightAdd, RightSub, RightMul, RightFloorDiv, RightMod, RightXor, RightPow
          DEF BinaryOperators
<1>2. CASE ~(IsInt(x) /\ IsInt(y))
  <2>1. Binary(op, x, y) = Raise(BadType)
    BY <1>2 DEF Binary
  <2>2. ~NothingAgainst(op, x, y, None)
    BY <1>2 DEF NothingAgainst
  <2> QED BY <2>1, <2>2, Names, RightRaise
<1> QED BY <1>1, <1>2

LEMMA ApplyRight ==
  ASSUME UintsTypeOK, NEW op \in BinaryOperators, NEW others, others \subseteq Operands,
         Apply(op, others)
  PROVE  StepRight
<1>1. PICK y \in others : \/ Record(op, acc, y, None, Binary(op, acc, y))
                          \/ Record(op, y, acc, None, Binary(op, y, acc))
  BY DEF Apply
<1>2. InRange(y) /\ (IsInt(y) => Operand(y)) /\ Operand(acc) /\ acc.cls # "int"
  BY OperandsAre
<1>3. Right(op, acc, y, None, Binary(op, acc, y)) /\ Right(op, y, acc, None, Binary(op, y, acc))
  BY <1>2, RightBinary
<1> QED BY <1>1, <1>2, <1>3, RecordRight

LEMMA DivModRight ==
  ASSUME UintsTypeOK, DivMod
  PROVE  StepRight
<1>1. PICK y \in Numbers, part \in {1, 2} :
        LET op == <<"//", "%">>[part]
            forward == IF acc.cls = "U256" THEN FixedDivMod(acc.val, y.val)
                                           ELSE UintDivMod(acc.val, y.val)
            reflected == IF acc.cls = "U256" THEN FixedRDivMod(acc.val, y.val)
                                             ELSE UintRDivMod(acc.val, y.val)
        IN \/ Record(op, acc, y, None, forward[part])
           \/ y.cls = "int" /\ Record(op, y, acc, None, reflected[part])
  BY DEF DivMod
<1>2. InRange(y) /\ Operand(y) /\ Operand(acc) /\ acc.cls # "int"
  BY OperandsAre
<1>3. PICK op : op = <<"//", "%">>[part] /\ op \in BinaryOperators
  BY DEF BinaryOperators
<1>4. \/ Record(op, acc, y, None, Binary(op, acc, y))
      \/ Record(op, y, acc, None, Binary(op, y, acc))
  <2>1. (IF acc.cls = "U256" THEN FixedDivMod(acc.val, y.val)
                             ELSE UintDivMod(acc.val, y.val))[part] = Binary(op, acc, y)
    BY <1>2, <1>3, AnswerOfLeft DEF FixedDivMod, UintDivMod
  <2>2. y.cls = "int" =>
          (IF acc.cls = "U256" THEN FixedRDivMod(acc.val, y.val)
                               ELSE UintRDivMod(acc.val, y.val))[part] = Binary(op, y, acc)
    BY <1>2, <1>3, AnswerOfRight DEF FixedRDivMod, UintRDivMod
  <2> QED BY <1>1, <1>3, <2>1, <2>2
<1>5. Right(op, acc, y, None, Binary(op, acc, y)) /\ Right(op, y, acc, None, Binary(op, y, acc))
  BY <1>2, <1>3, RightBinary
<1> QED BY <1>2, <1>4, <1>5, RecordRight

LEMMA PowModuloRight ==
  ASSUME UintsTypeOK, PowModulo \/ PowWrapping
  PROVE  StepRight
<1>1. Moduli \subseteq Int \ {None} /\ None \in Int
  BY UintsAssumption, NoneIs
<1>2. CASE PowModulo
  <2>1. PICK y \in SmallIntegers, modulo \in Moduli :
          Record("pow", acc, y, modulo,
                 IF acc.cls = "U256" THEN FixedPow(acc.val, y.val, modulo)
                                     ELSE UintPow(acc.val, y.val, modulo))
    BY <1>2 DEF PowModulo
  <2>2. InRange(y) /\ Operand(y) /\ Operand(acc) /\ acc.cls # "int"
    BY OperandsAre
  <2>3. modulo \in Int /\ modulo # None
    BY <1>1
  <2>4. Right("pow", acc, y, modulo,
              IF acc.cls = "U256" THEN FixedPow(acc.val, y.val, modulo)
                                  ELSE UintPow(acc.val, y.val, modulo))
    BY <2>2, <2>3, RightPowModulo
  <2> QED BY <2>1, <2>2, <2>4, RecordRight
<1>3. CASE PowWrapping
  <2>1. PICK y \in SmallIntegers, modulo \in Moduli \union {None} :
          Record("wrapping_pow", acc, y, modulo, WrappingPow(acc.val, y.val, modulo))
    BY <1>3 DEF PowWrapping
  <2>2. InRange(y) /\ Operand(y) /\ Operand(acc) /\ acc.cls = "U256"
    BY <1>3, OperandsAre DEF PowWrapping
  <2>3. modulo \in Int
    BY <1>1
  <2>4. Right("wrapping_pow", acc, y, modulo, WrappingPow(acc.val, y.val, modulo))
    BY <2>2, <2>3, RightWrappingPow
  <2> QED BY <2>1, <2>2, <2>4, RecordRight
<1> QED BY <1>2, <1>3

LEMMA WordMethodsRight ==
  ASSUME UintsTypeOK,
         BitAnd \/ BitOr \/ Invert \/ RShift \/ AddWrapping \/ SubWrapping \/ MulWrapping
  PROVE  StepRight
<1>1. acc.cls = "U256"
  BY DEF BitAnd, BitOr, Invert, RShift, AddWrapping, SubWrapping, MulWrapping, FixedOnly
<1>2. Operand(acc) /\ \A y \in Numbers : InRange(y) /\ Operand(y)
  BY OperandsAre
<1>3. SmallIntegers \subseteq Numbers
  BY OperandsAre
<1>4. CASE BitAnd
  <2>1. PICK y \in Numbers : Record("&", acc, y, None, FixedAnd(acc.val, y.val))
    BY <1>4 DEF BitAnd, FixedOnly
  <2> QED BY <1>1, <1>2, <2>1, RightAnd, RecordRight
<1>5. CASE BitOr
  <2>1. PICK y \in Numbers : Record("|", acc, y, None, FixedOr(acc.val, y.val))
    BY <1>5 DEF BitOr, FixedOnly
  <2> QED BY <1>1, <1>2, <2>1, RightOr, RecordRight
<1>6. CASE Invert
  <2>1. Record("~", acc, acc, None, FixedInvert(acc.val))
    BY <1>6 DEF Invert, FixedOnly
  <2> QED BY <1>1, <1>2, <2>1, RightInvert, RecordRight
<1>7. CASE RShift
  <2>1. PICK y \in SmallIntegers : Record(">>", acc, y, None, FixedRShift(acc.val, y.val))
    BY <1>7 DEF RShift, FixedOnly
  <2>2. InRange(y) /\ Operand(y)
    BY <1>2, <1>3
  <2> QED BY <1>1, <1>2, <2>1, <2>2, RightShift, RecordRight
<1>8. CASE AddWrapping
  <2>1. PICK y \in Numbers : Record("wrapping_add", acc, y, None, WrappingAdd(acc.val, y.val))
    BY <1>8 DEF AddWrapping, FixedOnly
  <2> QED BY <1>1, <1>2, <2>1, RightWrapping, RecordRight
<1>9. CASE SubWrapping
  <2>1. PICK y \in Numbers : Record("wrapping_sub", acc, y, None, WrappingSub(acc.val, y.val))
    BY <1>9 DEF SubWrapping, FixedOnly
  <2> QED BY <1>1, <1>2, <2>1, RightWrapping, RecordRight
<1>10. CASE MulWrapping
  <2>1. PICK y \in Numbers : Record("wrapping_mul", acc, y, None, WrappingMul(acc.val, y.val))
    BY <1>10 DEF MulWrapping, FixedOnly
  <2> QED BY <1>1, <1>2, <2>1, RightWrapping, RecordRight
<1> QED BY <1>4, <1>5, <1>6, <1>7, <1>8, <1>9, <1>10

LEMMA ConversionsRight ==
  ASSUME UintsTypeOK, Construct \/ Transcode
  PROVE  StepRight
<1>1. Operand(acc) /\ acc.cls # "int" /\ \A y \in Numbers : InRange(y) /\ Operand(y)
  BY OperandsAre
<1>2. CASE Construct
  <2>1. PICK y \in Numbers : \/ Record("new", y, y, None, Uint(y.val))
                             \/ Record("new", y, y, None, U256(y.val))
                             \/ Record("from_signed", y, y, None, FromSigned(y.val))
    BY <1>2 DEF Construct
  <2>2. /\ Right("new", y, y, None, Uint(y.val))
        /\ Right("new", y, y, None, U256(y.val))
        /\ Right("from_signed", y, y, None, FromSigned(y.val))
    BY <1>1, RightNew
  <2> QED BY <1>1, <2>1, <2>2, RecordRight
<1>3. CASE Transcode
  <2>1. /\ Right("bytes", acc, acc, None, UintFromBeBytes(ToBeBytes(acc)))
        /\ Right("bytes", acc, acc, None, UintFromLeBytes(ToLeBytes(acc)))
        /\ Right("bytes", acc, acc, None, U256FromBeBytes(ToBeBytes(acc)))
        /\ Fits(acc.val, WordBytes) =>
             Right("bytes", acc, acc, None, U256FromBeBytes(ToBeBytes32(acc)))
    BY <1>1, RightBytes
  <2>2. \/ Record("bytes", acc, acc, None, UintFromBeBytes(ToBeBytes(acc)))
        \/ Record("bytes", acc, acc, None, UintFromLeBytes(ToLeBytes(acc)))
        \/ Record("bytes", acc, acc, None, U256FromBeBytes(ToBeBytes(acc)))
        \/ /\ Fits(acc.val, WordBytes)
           /\ Record("bytes", acc, acc, None, U256FromBeBytes(ToBeBytes32(acc)))
    BY <1>3 DEF Transcode
  <2> QED BY <2>1, <2>2, RecordRight
<1> QED BY <1>2, <1>3

LEMMA NextRight ==
  ASSUME UintsTypeOK, Next
  PROVE  StepRight
<1>1. Operands \subseteq Operands /\ SmallIntegers \subseteq Operands
  BY OperandsAre
<1>2. CASE Add
  BY <1>1, <1>2, ApplyRight DEF Add, BinaryOperators
<1>3. CASE Sub
  BY <1>1, <1>3, ApplyRight DEF Sub, BinaryOperators
<1>4. CASE Mul
  BY <1>1, <1>4, ApplyRight DEF Mul, BinaryOperators
<1>5. CASE FloorDiv
  BY <1>1, <1>5, ApplyRight DEF FloorDiv, BinaryOperators
<1>6. CASE Mod
  BY <1>1, <1>6, ApplyRight DEF Mod, BinaryOperators
<1>7. CASE BitXor
  BY <1>1, <1>7, ApplyRight DEF BitXor, BinaryOperators
<1>8. CASE Pow
  BY <1>1, <1>8, ApplyRight DEF Pow, BinaryOperators
<1>9. CASE DivMod
  BY <1>9, DivModRight
<1>10. CASE PowModulo \/ PowWrapping
  BY <1>10, PowModuloRight
<1>11. CASE BitAnd \/ BitOr \/ Invert \/ RShift \/ AddWrapping \/ SubWrapping \/ MulWrapping
  BY <1>11, WordMethodsRight
<1>12. CASE Construct \/ Transcode
  BY <1>12, ConversionsRight
<1> QED BY <1>2, <1>3, <1>4, <1>5, <1>6, <1>7, <1>8, <1>9, <1>10, <1>11, <1>12 DEF Next

LEMMA InitRight ==
  ASSUME Init
  PROVE  UintsInv
<1>1. acc = Object("U256", MAX_VALUE) /\ MAX_VALUE \in Nat
  BY MaxIsNat DEF Init, U256
<1>2. UintsTypeOK /\ Operand(acc) /\ acc.val = MAX_VALUE
  BY <1>1 DEF UintsTypeOK, Object, Operand
<1>3. Right("new", acc, acc, None, acc)
  <2>1. Right("new", acc, acc, None, U256(acc.val))
    BY <1>2, RightNew
  <2>2. U256(acc.val) = acc
    BY <1>1, <1>2 DEF U256
  <2> QED BY <2>1, <2>2
<1> QED BY <1>2, <1>3 DEF Init, UintsInv, CallRight

(* The call in hand and the type of the object stay right. *)
THEOREM UintsInvariance == Spec => []UintsInv
<1>1. Init => UintsInv
  BY InitRight
<1>2. UintsInv /\ [Next]_vars => UintsInv'
  <2> SUFFICES ASSUME UintsInv, [Next]_vars PROVE UintsInv'
    OBVIOUS
  <2>1. CASE Next
    <3>1. StepRight
      BY <2>1, NextRight DEF UintsInv
    <3> QED BY <3>1 DEF StepRight, UintsInv
  <2>2. CASE UNCHANGED vars
    BY <2>2 DEF vars, UintsInv, UintsTypeOK, CallRight
  <2> QED BY <2>1, <2>2
<1> QED BY <1>1, <1>2, PTL DEF Spec

(* NothingLost, of every call of every run: for bytes of any size and words *)
(* of any number of bytes, an object that a call gives is the number that   *)
(* the operator means (base_types.py, the operators of Uint and FixedUint). *)
THEOREM NothingIsLost == Spec => []NothingLost
<1>1. UintsInv => NothingLost
  BY DEF UintsInv, CallRight, Right, NothingLost
<1> QED BY <1>1, UintsInvariance, PTL

(* NoFalseRefusal: no guard of an operator or a reflected method refuses a  *)
(* call whose operands and result the answering class can represent.        *)
THEOREM NoRefusalIsFalse == Spec => []NoFalseRefusal
<1>1. UintsInv => NoFalseRefusal
  <2> SUFFICES ASSUME UintsInv PROVE NoFalseRefusal
    OBVIOUS
  <2>1. NothingAgainst(last.op, last.left, last.right, last.modulo) => ~Failed(last.result)
    BY DEF UintsInv, CallRight, Right
  <2> QED BY <2>1 DEF NoFalseRefusal, NothingAgainst, RepresentableBy, AnsweringOf,
                      Representable, Answering
<1> QED BY <1>1, UintsInvariance, PTL

(* SignedArithmetic: two's complement is sound for words of any size, from  *)
(* every object that a run can reach (from_signed, to_signed, wrapping_add, *)
(* wrapping_sub and wrapping_mul).                                          *)
THEOREM SignedArithmeticIsSound == Spec => []SignedArithmetic
<1>1. UintsInv => SignedArithmetic
  BY TwosComplement DEF UintsInv
<1> QED BY <1>1, UintsInvariance, PTL

(* RangeKept: the reflected power is the only call that takes an object out *)
(* of the range of its class, although none of the operators goes through   *)
(* the constructor.                                                         *)
THEOREM RangeIsKept == Spec => RangeKept
<1>1. UintsInv /\ [Next]_vars =>
        [InRange(acc) /\ ~InRange(acc') =>
           last'.op = "**" /\ last'.left.cls = "int" /\ last'.right.cls = "U256"]_vars
  <2> SUFFICES ASSUME UintsInv, Next, InRange(acc), ~InRange(acc')
               PROVE  last'.op = "**" /\ last'.left.cls = "int" /\ last'.right.cls = "U256"
    OBVIOUS
  <2>1. StepRight
    BY NextRight DEF UintsInv
  <2> QED BY <2>1 DEF StepRight, ReflectedPower
<1> QED BY <1>1, UintsInvariance, PTL DEF Spec, RangeKept
=============================================================================
