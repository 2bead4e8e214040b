----------------------------- MODULE Inductions -----------------------------
(***************************************************************************)
(* Induction over sets and numbers, as the smallest counterexample, and    *)
(* what recursive functions, folds and sums are that are defined by it.    *)
(* The proofs about the world state and about numbers rest on it.          *)
(***************************************************************************)
EXTENDS Integers, FiniteSets, SequencesExt, FiniteSetTheorems, TLAPS

-----------------------------------------------------------------------------
(* Induction as the smallest counterexample, recursion and folds *)

(* Induction over the subsets of a finite set: a family of them that is    *)
(* not empty has a smallest member.                                        *)
LEMMA SmallestSubset ==
  ASSUME NEW S, IsFiniteSet(S), NEW F, F \subseteq SUBSET S, F # {}
  PROVE  \E s \in F : \A t \in F : t \subseteq s => t = s
<1>1. IsWellFoundedOn(StrictSubsetOrdering(S), SUBSET S)
  BY FS_FiniteSubsetsOfFinite, FS_StrictSubsetOrderingWellFounded
<1>2. PICK s \in F : \A t \in F : ~(<<t, s>> \in StrictSubsetOrdering(S))
  BY <1>1, WFMin
<1>3. \A t \in F : t \subseteq s /\ t # s => <<t, s>> \in StrictSubsetOrdering(S)
  BY DEF StrictSubsetOrdering
<1>4. ASSUME NEW t \in F, t \subseteq s, t # s
      PROVE  FALSE
  <2>1. <<t, s>> \in StrictSubsetOrdering(S)
    BY <1>3, <1>4
  <2> QED BY <1>2, <2>1
<1> QED BY <1>4

(* Likewise a set of numbers that is not empty. *)
LEMMA LeastNumber ==
  ASSUME NEW S, S \subseteq Nat, S # {}
  PROVE  \E m \in S : \A n \in S : m <= n
<1>1. PICK k \in S : TRUE
  OBVIOUS
<1> DEFINE E == {1..n : n \in {i \in S : i <= k}}
<1>2. PICK K : K = 1..k /\ IsFiniteSet(K)
  BY <1>1, FS_Interval
<1>3. PICK s \in E : \A t \in E : t \subseteq s => t = s
  <2>1. E \subseteq SUBSET K
    <3>1. \A i \in S : i <= k => 1..i \subseteq K
      BY <1>2
    <3> QED BY <3>1
  <2>2. E # {}
    BY <1>1
  <2>3. IsFiniteSet(K)
    BY <1>2
  <2> HIDE DEF E
  <2> QED BY <2>1, <2>2, <2>3, SmallestSubset
<1>4. PICK m \in S : m <= k /\ s = 1..m
  OBVIOUS
<1>5. ASSUME NEW n \in S PROVE m <= n
  <2> SUFFICES ASSUME n < m PROVE FALSE
    BY <1>4
  <2>1. 1..n \in E /\ 1..n \subseteq s
    BY <1>4
  <2>2. 1..n = 1..m
    BY <1>3, <1>4, <2>1
  <2>3. m \in 1..m /\ m \notin 1..n
    OBVIOUS
  <2> QED BY <2>2, <2>3
<1> QED BY <1>5

(* A set of numbers that has 0 and the successors of its numbers has all.  *)
LEMMA AllNumbers ==
  ASSUME NEW S, 0 \in S, \A n \in Nat : n \in S => n + 1 \in S
  PROVE  \A n \in Nat : n \in S
<1> DEFINE Bad == {n \in Nat : n \notin S}
<1> SUFFICES ASSUME Bad # {} PROVE FALSE
  OBVIOUS
<1>1. PICK m \in Bad : \A n \in Bad : m <= n
  <2>1. Bad \subseteq Nat
    OBVIOUS
  <2> HIDE DEF Bad
  <2> QED BY <2>1, LeastNumber
<1>2. m \in Nat /\ m # 0 /\ m \notin S
  OBVIOUS
<1>3. m - 1 \in Nat /\ m - 1 \notin Bad
  BY <1>1, <1>2
<1>4. m - 1 \in S /\ (m - 1) + 1 = m
  BY <1>2, <1>3
<1> QED BY <1>2, <1>3, <1>4

(* g is what the step makes of the base, up to k. *)
BuiltUp(g, k, D, base, step) ==
  /\ g \in [0..k -> D] /\ g[0] = base
  /\ \A n \in Nat : n < k => g[n + 1] = step[<<n, g[n]>>]

LEMMA BuiltUpOnce ==
  ASSUME NEW D, NEW base, NEW step, NEW k \in Nat, NEW l \in Nat, k <= l,
         NEW g, BuiltUp(g, k, D, base, step), NEW h, BuiltUp(h, l, D, base, step)
  PROVE  g[k] = h[k]
<1> DEFINE S == {n \in Nat : n <= k => g[n] = h[n]}
<1>1. 0 \in S
  BY DEF BuiltUp
<1>2. ASSUME NEW n \in Nat, n \in S PROVE n + 1 \in S
  <2> SUFFICES ASSUME n + 1 <= k PROVE g[n + 1] = h[n + 1]
    OBVIOUS
  <2>1. n < k /\ n < l /\ g[n] = h[n]
    BY <1>2
  <2> QED BY <2>1 DEF BuiltUp
<1> HIDE DEF S
<1>3. k \in S
  BY <1>1, <1>2, AllNumbers
<1> QED BY <1>3 DEF S

(* A function on numbers that is defined from the value before exists.     *)
LEMMA BuiltUpExists ==
  ASSUME NEW D, NEW base \in D, NEW step \in [Nat \X D -> D]
  PROVE  \A k \in Nat : \E g : BuiltUp(g, k, D, base, step)
<1> DEFINE S == {k \in Nat : \E g : BuiltUp(g, k, D, base, step)}
<1>1. 0 \in S
  <2>1. BuiltUp([n \in 0..0 |-> base], 0, D, base, step)
    BY DEF BuiltUp
  <2> QED BY <2>1
<1>2. ASSUME NEW k \in Nat, k \in S PROVE k + 1 \in S
  <2>1. PICK g : BuiltUp(g, k, D, base, step)
    BY <1>2
  <2>2. PICK next : next = step[<<k, g[k]>>] /\ next \in D
    BY <2>1 DEF BuiltUp
  <2>3. PICK h : h = [n \in 0..(k + 1) |-> IF n = k + 1 THEN next ELSE g[n]]
    OBVIOUS
  <2>4. h \in [0..(k + 1) -> D] /\ h[0] = base
    BY <2>1, <2>2, <2>3 DEF BuiltUp
  <2>5. ASSUME NEW n \in Nat, n < k + 1 PROVE h[n + 1] = step[<<n, h[n]>>]
    <3>1. h[n] = g[n]
      BY <2>3, <2>5
    <3>2. CASE n = k
      <4>1. h[k + 1] = next
        BY <2>3
      <4> QED BY <2>2, <3>1, <3>2, <4>1
    <3>3. CASE n < k
      <4>1. h[n + 1] = g[n + 1]
        BY <2>3, <3>3
      <4> QED BY <2>1, <3>1, <3>3, <4>1 DEF BuiltUp
    <3> QED BY <2>5, <3>2, <3>3
  <2>6. BuiltUp(h, k + 1, D, base, step)
    BY <2>4, <2>5 DEF BuiltUp
  <2>7. k + 1 \in Nat
    OBVIOUS
  <2> QED BY <2>6, <2>7
<1> HIDE DEF S
<1>3. \A k \in Nat : k \in S
  BY <1>1, <1>2, AllNumbers
<1> QED BY <1>3 DEF S

(* f is defined by recursion on numbers. *)
CountsUp(f, base, step) ==
  f = [n \in Nat |-> IF n = 0 THEN base ELSE step[<<n - 1, f[n - 1]>>]]

LEMMA NatRecursion ==
  ASSUME NEW D, NEW base \in D, NEW step \in [Nat \X D -> D]
  PROVE  \E f \in [Nat -> D] : CountsUp(f, base, step)
<1>3. \A k \in Nat : \E g : BuiltUp(g, k, D, base, step)
  BY BuiltUpExists
<1> DEFINE G(k) == CHOOSE g : BuiltUp(g, k, D, base, step)
<1>4. \A k \in Nat : BuiltUp(G(k), k, D, base, step)
  BY <1>3
<1> HIDE DEF G
<1>5. PICK f : f = [n \in Nat |-> G(n)[n]]
  OBVIOUS
<1>6. f \in [Nat -> D] /\ f[0] = base
  BY <1>4, <1>5 DEF BuiltUp
<1>7. ASSUME NEW n \in Nat, n # 0 PROVE f[n] = step[<<n - 1, f[n - 1]>>]
  <2>1. PICK m \in Nat : n = m + 1
    <3>1. n - 1 \in Nat /\ n = (n - 1) + 1
      BY <1>7
    <3> QED BY <3>1
  <2>2. m <= m + 1 /\ m < m + 1 /\ m + 1 \in Nat /\ n - 1 = m
    BY <2>1
  <2>3. BuiltUp(G(m), m, D, base, step) /\ BuiltUp(G(m + 1), m + 1, D, base, step)
    BY <1>4, <2>2
  <2>4. G(m)[m] = G(m + 1)[m]
    BY <2>2, <2>3, BuiltUpOnce
  <2>5. G(m + 1)[m + 1] = step[<<m, G(m + 1)[m]>>]
    BY <2>2, <2>3 DEF BuiltUp
  <2>6. f[m] = G(m)[m] /\ f[m + 1] = G(m + 1)[m + 1]
    BY <1>5, <2>2
  <2> QED BY <2>1, <2>2, <2>4, <2>5, <2>6
<1>8. CountsUp(f, base, step)
  BY <1>5, <1>6, <1>7 DEF CountsUp
<1> QED BY <1>6, <1>8

(* The argument of a recursive call, up[i], goes down in rank. *)
Descends(I, stops, up, rank) ==
  \A i \in I : i \notin stops => up[i] \in I /\ rank[up[i]] < rank[i]

Recurses(f, I, stops, leaf, up, step) ==
  \A i \in I : f[i] = IF i \in stops THEN leaf[i] ELSE step[<<i, f[up[i]]>>]

(* Such a recursive function exists. *)
LEMMA Recursion ==
  ASSUME NEW I, NEW D, NEW stops, NEW up, NEW N \in Nat, NEW rank \in [I -> 0..N],
         Descends(I, stops, up, rank),
         NEW leaf \in [I -> D], NEW step \in [I \X D -> D]
  PROVE  \E f \in [I -> D] : Recurses(f, I, stops, leaf, up, step)
<1> DEFINE Below(k) == {i \in I : rank[i] < k}
           Good(k, f) ==
             /\ f \in [I -> D]
             /\ \A i \in Below(k) :
                  f[i] = IF i \in stops THEN leaf[i] ELSE step[<<i, f[up[i]]>>]
           Bad == {k \in 0..(N + 1) : ~\E f : Good(k, f)}
<1>0. \A i \in I : i \notin stops => up[i] \in I /\ rank[up[i]] < rank[i]
  BY DEF Descends
<1>1. Bad = {}
  <2> SUFFICES ASSUME Bad # {} PROVE FALSE
    OBVIOUS
  <2>1. PICK k \in Bad : \A n \in Bad : k <= n
    <3>1. Bad \subseteq Nat
      OBVIOUS
    <3> HIDE DEF Bad
    <3> QED BY <3>1, LeastNumber
  <2>2. k # 0
    <3>1. Good(0, leaf)
      OBVIOUS
    <3> QED BY <3>1
  <2>3. k - 1 \in 0..(N + 1) /\ k - 1 \notin Bad
    BY <2>1, <2>2
  <2>4. PICK f : Good(k - 1, f)
    BY <2>3
  <2> DEFINE g == [i \in I |-> IF i \in stops THEN leaf[i] 
                               ELSE IF up[i] \in I THEN step[<<i, f[up[i]]>>] ELSE leaf[i]]
  <2>5. g \in [I -> D]
    BY <2>4
  <2>6. \A i \in Below(k - 1) : g[i] = f[i]
    BY <1>0, <2>4
  <2>7. ASSUME NEW i \in Below(k), i \notin stops
        PROVE  g[up[i]] = f[up[i]] /\ g[i] = step[<<i, f[up[i]]>>]
    <3>1. up[i] \in I /\ rank[up[i]] < rank[i] /\ rank[i] < k
      BY <1>0, <2>7
    <3>2. up[i] \in Below(k - 1)
      BY <3>1, <2>3
    <3> QED BY <2>6, <2>7, <3>1, <3>2
  <2>8. \A i \in Below(k) : i \in stops => g[i] = leaf[i]
    OBVIOUS
  <2> HIDE DEF g
  <2>9. Good(k, g)
    BY <2>5, <2>7, <2>8
  <2> QED BY <2>1, <2>9
<1>2. PICK f : Good(N + 1, f)
  <2>1. N + 1 \in 0..(N + 1)
    OBVIOUS
  <2> HIDE DEF Good
  <2> QED BY <1>1, <2>1
<1>3. \A i \in I : i \in Below(N + 1)
  OBVIOUS
<1>4. \A i \in I : f[i] = IF i \in stops THEN leaf[i] ELSE step[<<i, f[up[i]]>>]
  BY <1>2, <1>3
<1> QED BY <1>2, <1>4 DEF Recurses

LEMMA MaxOfRange ==
  ASSUME NEW L \in Nat, NEW s \in SUBSET (1..L), s # {}
  PROVE  Max(s) \in s
<1> DEFINE S == {L - x : x \in s}
<1>1. PICK m \in S : \A n \in S : m <= n
  <2>1. \A x \in s : L - x \in Nat
    OBVIOUS
  <2>2. S \subseteq Nat /\ S # {}
    BY <2>1
  <2> HIDE DEF S
  <2> QED BY <2>2, LeastNumber
<1>2. PICK x \in s : m = L - x
  OBVIOUS
<1>3. ASSUME NEW y \in s PROVE x >= y
  <2>1. L - y \in S
    OBVIOUS
  <2>2. m <= L - y
    BY <1>1, <2>1
  <2> QED BY <1>2, <2>2
<1> QED BY <1>2, <1>3 DEF Max

LEMMA MaxOfPrefix ==
  ASSUME NEW k \in Nat, k # 0
  PROVE  Max(1..k) = k /\ (1..k) \ {k} = 1..(k - 1) /\ 1..k # {}
<1>1. k \in 1..k /\ \A y \in 1..k : k >= y
  OBVIOUS
<1>2. \A x \in 1..k : (\A y \in 1..k : x >= y) => x = k
  BY <1>1
<1> QED BY <1>1, <1>2 DEF Max

(* F is the fold of a sequence of length L, given by a step on its         *)
(* positions.                                                              *)
FoldsUp(F, L, base, g) ==
  \A s \in SUBSET (1..L) :
    F[s] = IF s = {} THEN base ELSE g[<<F[s \ {Max(s)}], Max(s)>>]

LEMMA FoldExists ==
  ASSUME NEW L \in Nat, NEW D, NEW base \in D, NEW g \in [D \X (1..L) -> D]
  PROVE  \E F \in [SUBSET (1..L) -> D] : FoldsUp(F, L, base, g)
<1> DEFINE I == SUBSET (1..L)
           stops == {{}}
           rank == [s \in I |-> Cardinality(s)]
           leaf == [s \in I |-> base]
           up == [s \in I |-> s \ {Max(s)}]
           step == [p \in I \X D |-> IF p[1] = {} THEN base ELSE g[<<p[2], Max(p[1])>>]]
<1>1. IsFiniteSet(1..L) /\ Cardinality(1..L) = L
  BY FS_Interval
<1>2. rank \in [I -> 0..L]
  <2>1. ASSUME NEW s \in I PROVE Cardinality(s) \in 0..L
    <3>1. PICK S : S = 1..L /\ IsFiniteSet(S) /\ Cardinality(S) = L /\ s \in SUBSET S
      BY <1>1
    <3>2. IsFiniteSet(s) /\ Cardinality(s) <= Cardinality(S)
      BY <3>1, FS_Subset
    <3>3. Cardinality(s) \in Nat
      BY <3>2, FS_CardinalityType
    <3> QED BY <3>1, <3>2, <3>3
  <2> QED BY <2>1
<1>3. \A s \in I : s \notin stops => up[s] \in I /\ rank[up[s]] < rank[s]
  <2> SUFFICES ASSUME NEW s \in I, s # {}
               PROVE  up[s] \in I /\ Cardinality(up[s]) < Cardinality(s)
    OBVIOUS
  <2>1. up[s] = s \ {Max(s)} /\ Max(s) \in s
    BY MaxOfRange
  <2>2. IsFiniteSet(s)
    BY <1>1, FS_Subset
  <2>3. up[s] \in SUBSET s /\ up[s] # s
    BY <2>1
  <2>4. Cardinality(up[s]) <= Cardinality(s) /\ Cardinality(up[s]) # Cardinality(s)
    BY <2>2, <2>3, FS_Subset
  <2>5. Cardinality(up[s]) \in Nat /\ Cardinality(s) \in Nat
    BY <2>2, <2>3, FS_Subset, FS_CardinalityType
  <2>6. up[s] \in I
    BY <2>3
  <2> HIDE DEF up
  <2> QED BY <2>4, <2>5, <2>6
<1>4. leaf \in [I -> D]
  OBVIOUS
<1>5. step \in [I \X D -> D]
  BY MaxOfRange
<1> HIDE DEF rank, leaf, up, step, I, stops
<1>6. Descends(I, stops, up, rank)
  BY <1>3 DEF Descends
<1>7. PICK F \in [I -> D] :
        Recurses(F, I, stops, leaf, up, step)
  BY <1>2, <1>4, <1>5, <1>6, Recursion
<1>8. ASSUME NEW s \in SUBSET (1..L)
      PROVE  F[s] = IF s = {} THEN base ELSE g[<<F[s \ {Max(s)}], Max(s)>>]
  <2>1. s \in I
    BY DEF I
  <2>2. F[s] = IF s \in stops THEN leaf[s] ELSE step[<<s, F[up[s]]>>]
    BY <1>7, <2>1 DEF Recurses
  <2>3. CASE s = {}
    BY <2>1, <2>2, <2>3 DEF leaf, stops
  <2>4. CASE s # {}
    <3>1. up[s] = s \ {Max(s)} /\ up[s] \in I
      BY <1>3, <2>1, <2>4 DEF up, stops
    <3>2. F[up[s]] \in D
      BY <1>7, <3>1
    <3>3. step[<<s, F[up[s]]>>] = g[<<F[up[s]], Max(s)>>]
      BY <2>1, <2>4, <3>2 DEF step
    <3> QED BY <2>2, <2>4, <3>1, <3>3 DEF stops
  <2> QED BY <2>3, <2>4
<1> QED BY <1>7, <1>8 DEF I, FoldsUp

-----------------------------------------------------------------------------
(* Sums over finite sets *)

(* The element of a set that a fold takes first. *)
Pick(s) == CHOOSE x \in s : TRUE

(* What the recursive function inside SumFunctionOnSet is meant to be. *)
SumsUp(f, S, g) ==
  g = [s \in SUBSET S |-> IF s = {} THEN 0 ELSE f[Pick(s)] + g[s \ {Pick(s)}]]

LEMMA PickIn ==
  ASSUME NEW s, s # {}
  PROVE  /\ Pick(s) \in s
         /\ s \ {Pick(s)} \subseteq s /\ s \ {Pick(s)} # s
BY DEF Pick

LEMMA SumsUpAgree ==
  ASSUME NEW f, NEW S, IsFiniteSet(S), NEW T \in SUBSET S,
         NEW g, SumsUp(f, S, g), NEW h, SumsUp(f, T, h)
  PROVE  \A s \in SUBSET T : g[s] = h[s]
<1> DEFINE Differ == {s \in SUBSET T : g[s] # h[s]}
<1>1. SUFFICES ASSUME Differ # {} PROVE FALSE
  OBVIOUS
<1>2. IsFiniteSet(T)
  BY FS_Subset
<1>3. PICK s \in Differ : \A t \in Differ : t \subseteq s => t = s
  <2>1. Differ \subseteq SUBSET T
    OBVIOUS
  <2> HIDE DEF Differ
  <2> QED BY <1>1, <1>2, <2>1, SmallestSubset
<1>4. /\ g[s] = IF s = {} THEN 0 ELSE f[Pick(s)] + g[s \ {Pick(s)}]
      /\ h[s] = IF s = {} THEN 0 ELSE f[Pick(s)] + h[s \ {Pick(s)}]
  <2>1. s \in SUBSET S /\ s \in SUBSET T
    OBVIOUS
  <2> QED BY <2>1 DEF SumsUp
<1>5. s # {}
  BY <1>4
<1>6. s \ {Pick(s)} \notin Differ
  BY <1>3, <1>5, PickIn
<1>7. g[s \ {Pick(s)}] = h[s \ {Pick(s)}]
  BY <1>6
<1> QED BY <1>4, <1>5, <1>7

LEMMA SumsUpExists ==
  ASSUME NEW f, NEW S, IsFiniteSet(S)
  PROVE  \E g : SumsUp(f, S, g)
<1> DEFINE Lacking == {T \in SUBSET S : ~\E g : SumsUp(f, T, g)}
<1>1. SUFFICES ASSUME Lacking # {} PROVE FALSE
  OBVIOUS
<1>2. PICK T \in Lacking : \A t \in Lacking : t \subseteq T => t = T
  <2>1. Lacking \subseteq SUBSET S
    OBVIOUS
  <2> HIDE DEF Lacking
  <2> QED BY <1>1, <2>1, SmallestSubset
<1> DEFINE G(U) == CHOOSE g : SumsUp(f, U, g)
           value(s) == IF s = {} THEN 0
                       ELSE f[Pick(s)] + G(s \ {Pick(s)})[s \ {Pick(s)}]
           h == [s \in SUBSET T |-> value(s)]
<1>3. \A U \in SUBSET T : U # T => SumsUp(f, U, G(U))
  BY <1>2
<1>4. ASSUME NEW U \in SUBSET T, U # T
      PROVE  h[U] = G(U)[U]
  <2>1. G(U)[U] = IF U = {} THEN 0 ELSE f[Pick(U)] + G(U)[U \ {Pick(U)}]
    <3>1. SumsUp(f, U, G(U))
      BY <1>3, <1>4
    <3> HIDE DEF G
    <3> QED BY <3>1 DEF SumsUp
  <2>2. CASE U = {}
    BY <2>1, <2>2
  <2>3. CASE U # {}
    <3> DEFINE W == U \ {Pick(U)}
    <3>1. W \in SUBSET U /\ W # T
      BY <2>3, PickIn
    <3>2. SumsUp(f, W, G(W)) /\ SumsUp(f, U, G(U))
      BY <1>3, <1>4, <3>1
    <3>3. IsFiniteSet(U)
      BY FS_Subset
    <3>4. G(U)[W] = G(W)[W]
      <4> HIDE DEF W, G
      <4> QED BY <3>1, <3>2, <3>3, SumsUpAgree
    <3> QED BY <2>1, <2>3, <3>4
  <2> QED BY <2>2, <2>3
<1>5. ASSUME NEW s \in SUBSET T
      PROVE  h[s] = IF s = {} THEN 0 ELSE f[Pick(s)] + h[s \ {Pick(s)}]
  <2>1. CASE s = {}
    BY <2>1
  <2>2. CASE s # {}
    <3>1. s \ {Pick(s)} \in SUBSET T /\ s \ {Pick(s)} # T
      BY <2>2, PickIn
    <3>2. h[s \ {Pick(s)}] = G(s \ {Pick(s)})[s \ {Pick(s)}]
      BY <3>1, <1>4
    <3> QED BY <2>2, <3>2
  <2> QED BY <2>1, <2>2
<1>6. SumsUp(f, T, h)
  <2> HIDE DEF value
  <2>1. h = [s \in SUBSET T |-> h[s]]
    OBVIOUS
  <2> HIDE DEF h
  <2> QED BY <1>5, <2>1 DEF SumsUp
<1> QED BY <1>6, <1>2

(* The fold of the community modules is a sum indeed. *)
LEMMA SumOnSetSumsUp ==
  ASSUME NEW f, NEW S, IsFiniteSet(S)
  PROVE  \E g : SumsUp(f, S, g) /\ SumFunctionOnSet(f, S) = g[S]
<1> DEFINE Iterates(iter) == iter = [s \in SUBSET S |->
             IF s = {} THEN 0
             ELSE f[CHOOSE x \in s : TRUE] + iter[s \ {CHOOSE x \in s : TRUE}]]
           g == CHOOSE iter : Iterates(iter)
<1>1. SumFunctionOnSet(f, S) = g[S]
  BY DEF SumFunctionOnSet, FoldFunctionOnSet, MapThenFoldSet
<1>2. \A h : SumsUp(f, S, h) <=> Iterates(h)
  BY DEF SumsUp, Pick
<1>3. SumsUp(f, S, g)
  <2> HIDE DEF Iterates
  <2>1. PICK h : SumsUp(f, S, h)
    BY SumsUpExists
  <2> QED BY <1>2, <2>1
<1> QED BY <1>1, <1>3

LEMMA SumEmpty ==
  ASSUME NEW f
  PROVE  SumFunctionOnSet(f, {}) = 0
<1>1. PICK g : SumsUp(f, {}, g) /\ SumFunctionOnSet(f, {}) = g[{}]
  BY SumOnSetSumsUp, FS_EmptySet
<1> QED BY <1>1 DEF SumsUp

LEMMA SumStep ==
  ASSUME NEW f, NEW S, IsFiniteSet(S), S # {}
  PROVE  SumFunctionOnSet(f, S) = f[Pick(S)] + SumFunctionOnSet(f, S \ {Pick(S)})
<1> DEFINE T == S \ {Pick(S)}
<1>1. T \in SUBSET S /\ IsFiniteSet(T)
  BY FS_Subset
<1>2. PICK g : SumsUp(f, S, g) /\ SumFunctionOnSet(f, S) = g[S]
  BY SumOnSetSumsUp
<1>3. PICK h : SumsUp(f, T, h) /\ SumFunctionOnSet(f, T) = h[T]
  BY <1>1, SumOnSetSumsUp
<1>4. g[T] = h[T]
  BY <1>1, <1>2, <1>3, SumsUpAgree
<1>5. g[S] = f[Pick(S)] + g[T]
  BY <1>2 DEF SumsUp
<1> QED BY <1>2, <1>3, <1>4, <1>5

LEMMA SumType ==
  ASSUME NEW S, IsFiniteSet(S), NEW R \in {Nat, Int}, NEW f \in [S -> R]
  PROVE  \A T \in SUBSET S : SumFunctionOnSet(f, T) \in R
<1> DEFINE Bad == {T \in SUBSET S : SumFunctionOnSet(f, T) \notin R}
<1>1. SUFFICES ASSUME Bad # {} PROVE FALSE
  OBVIOUS
<1>2. PICK T \in Bad : \A t \in Bad : t \subseteq T => t = T
  <2>1. Bad \subseteq SUBSET S
    OBVIOUS
  <2> HIDE DEF Bad
  <2> QED BY <1>1, <2>1, SmallestSubset
<1>3. T \in SUBSET S /\ IsFiniteSet(T)
  BY FS_Subset
<1>4. T # {}
  BY SumEmpty
<1>5. SumFunctionOnSet(f, T \ {Pick(T)}) \in R
  BY <1>2, <1>3, <1>4, PickIn
<1>6. f[Pick(T)] \in R
  BY <1>3, <1>4, PickIn
<1> QED BY <1>3, <1>4, <1>5, <1>6, SumStep

(* What a change at one place does to a sum. *)
LEMMA SumChange ==
  ASSUME NEW S, IsFiniteSet(S), NEW f \in [S -> Int], NEW g \in [S -> Int],
         NEW a, \A x \in S : x # a => f[x] = g[x]
  PROVE  \A T \in SUBSET S :
           SumFunctionOnSet(g, T) =
             SumFunctionOnSet(f, T) + IF a \in T THEN g[a] - f[a] ELSE 0
<1> DEFINE Claim(T) == SumFunctionOnSet(g, T) =
             SumFunctionOnSet(f, T) + IF a \in T THEN g[a] - f[a] ELSE 0
           Bad == {T \in SUBSET S : ~Claim(T)}
<1>1. SUFFICES ASSUME Bad # {} PROVE FALSE
  OBVIOUS
<1>2. PICK T \in Bad : \A t \in Bad : t \subseteq T => t = T
  <2>1. Bad \subseteq SUBSET S
    OBVIOUS
  <2> HIDE DEF Bad
  <2> QED BY <1>1, <2>1, SmallestSubset
<1>3. T \in SUBSET S /\ IsFiniteSet(T)
  BY FS_Subset
<1>4. T # {}
  BY SumEmpty
<1> DEFINE U == T \ {Pick(T)}
<1>5. U \in SUBSET S /\ Pick(T) \in T /\ Claim(U)
  BY <1>2, <1>3, <1>4, PickIn
<1>6. /\ SumFunctionOnSet(f, T) = f[Pick(T)] + SumFunctionOnSet(f, U)
      /\ SumFunctionOnSet(g, T) = g[Pick(T)] + SumFunctionOnSet(g, U)
  BY <1>3, <1>4, SumStep
<1>7. /\ SumFunctionOnSet(f, U) \in Int /\ SumFunctionOnSet(g, U) \in Int
      /\ f[Pick(T)] \in Int /\ g[Pick(T)] \in Int
      /\ a \in T => f[a] \in Int /\ g[a] \in Int
  BY <1>3, <1>5, SumType
<1>8. CASE a = Pick(T)
  <2>1. a \in T /\ a \notin U
    BY <1>5, <1>8
  <2> HIDE DEF U
  <2> QED BY <1>2, <1>5, <1>6, <1>7, <1>8, <2>1
<1>9. CASE a # Pick(T)
  <2>1. (a \in T <=> a \in U) /\ f[Pick(T)] = g[Pick(T)]
    BY <1>3, <1>5, <1>9
  <2> HIDE DEF U
  <2> QED BY <1>2, <1>5, <1>6, <1>7, <1>9, <2>1
<1> QED BY <1>8, <1>9

(* Larger summands, larger sum. *)
LEMMA SumMonotone ==
  ASSUME NEW S, IsFiniteSet(S), NEW f \in [S -> Int], NEW g \in [S -> Int],
         \A x \in S : f[x] <= g[x]
  PROVE  \A T \in SUBSET S : SumFunctionOnSet(f, T) <= SumFunctionOnSet(g, T)
<1> DEFINE Claim(T) == SumFunctionOnSet(f, T) <= SumFunctionOnSet(g, T)
           Bad == {T \in SUBSET S : ~Claim(T)}
<1>1. SUFFICES ASSUME Bad # {} PROVE FALSE
  OBVIOUS
<1>2. PICK T \in Bad : \A t \in Bad : t \subseteq T => t = T
  <2>1. Bad \subseteq SUBSET S
    OBVIOUS
  <2> HIDE DEF Bad
  <2> QED BY <1>1, <2>1, SmallestSubset
<1>3. T \in SUBSET S /\ IsFiniteSet(T)
  BY FS_Subset
<1>4. T # {}
  BY SumEmpty
<1> DEFINE U == T \ {Pick(T)}
<1>5. U \in SUBSET S /\ Pick(T) \in S /\ Claim(U)
  BY <1>2, <1>3, <1>4, PickIn
<1>6. /\ SumFunctionOnSet(f, T) = f[Pick(T)] + SumFunctionOnSet(f, U)
      /\ SumFunctionOnSet(g, T) = g[Pick(T)] + SumFunctionOnSet(g, U)
  BY <1>3, <1>4, SumStep
<1>7. /\ SumFunctionOnSet(f, U) \in Int /\ SumFunctionOnSet(g, U) \in Int
      /\ f[Pick(T)] \in Int /\ g[Pick(T)] \in Int /\ f[Pick(T)] <= g[Pick(T)]
  BY <1>5, SumType
<1> HIDE DEF U
<1> QED BY <1>2, <1>5, <1>6, <1>7

LEMMA SumNat ==
  ASSUME NEW S, IsFiniteSet(S), NEW f \in [S -> Nat]
  PROVE  /\ SumFunctionOnSet(f, S) \in Nat
         /\ \A a \in S : f[a] <= SumFunctionOnSet(f, S)
         /\ \A a, b \in S : a # b => f[a] + f[b] <= SumFunctionOnSet(f, S)
<1>1. S \in SUBSET S /\ f \in [S -> Int]
  OBVIOUS
<1>2. ASSUME NEW g \in [S -> Nat]
      PROVE  SumFunctionOnSet(g, S) \in Nat
  BY <1>1, SumType
<1>3. ASSUME NEW g \in [S -> Nat], NEW a \in S
      PROVE  /\ [g EXCEPT ![a] = 0] \in [S -> Nat]
             /\ SumFunctionOnSet([g EXCEPT ![a] = 0], S) = SumFunctionOnSet(g, S) - g[a]
  <2> DEFINE h == [g EXCEPT ![a] = 0]
  <2>1. /\ h \in [S -> Nat] /\ h \in [S -> Int] /\ g \in [S -> Int]
        /\ \A x \in S : x # a => g[x] = h[x]
        /\ h[a] = 0
    OBVIOUS
  <2> HIDE DEF h
  <2>2. SumFunctionOnSet(h, S) = SumFunctionOnSet(g, S) + (h[a] - g[a])
    BY <1>1, <2>1, SumChange
  <2>3. SumFunctionOnSet(g, S) \in Nat /\ g[a] \in Nat
    BY <1>2
  <2> USE DEF h
  <2> QED BY <2>1, <2>2, <2>3
<1>4. ASSUME NEW a \in S
      PROVE  f[a] <= SumFunctionOnSet(f, S)
  <2>1. f[a] \in Nat /\ SumFunctionOnSet(f, S) \in Nat
    BY <1>2
  <2>2. SumFunctionOnSet([f EXCEPT ![a] = 0], S) \in Nat
    BY <1>2, <1>3
  <2>3. SumFunctionOnSet([f EXCEPT ![a] = 0], S) = SumFunctionOnSet(f, S) - f[a]
    BY <1>3
  <2> QED BY <2>1, <2>2, <2>3
<1>5. ASSUME NEW a \in S, NEW b \in S, a # b
      PROVE  f[a] + f[b] <= SumFunctionOnSet(f, S)
  <2> DEFINE g == [f EXCEPT ![a] = 0]
  <2>1. g \in [S -> Nat] /\ SumFunctionOnSet(g, S) = SumFunctionOnSet(f, S) - f[a]
    BY <1>3
  <2>2. g[b] = f[b] /\ f[a] \in Nat /\ f[b] \in Nat
    BY <1>5
  <2> HIDE DEF g
  <2>3. /\ SumFunctionOnSet([g EXCEPT ![b] = 0], S) = SumFunctionOnSet(g, S) - g[b]
        /\ SumFunctionOnSet([g EXCEPT ![b] = 0], S) \in Nat
    BY <1>2, <1>3, <2>1
  <2> QED BY <1>2, <2>1, <2>2, <2>3
<1> QED BY <1>2, <1>4, <1>5

=============================================================================
