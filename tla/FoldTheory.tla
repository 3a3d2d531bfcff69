------------------------------ MODULE FoldTheory ------------------------------
(***************************************************************************)
(* Facts about naturals, sorting and folds that proofs about several       *)
(* components rest on.  op stands for the operation of a fold: a module    *)
(* that folds by Yield says INSTANCE FoldTheory WITH op <- Yield.          *)
(*                                                                         *)
(* An induction says of the set of numbers with a property that it holds   *)
(* 0 and the successor of each of its members.                             *)
(***************************************************************************)
EXTENDS Integers, SequencesExt, Ordering, FiniteSetTheorems, WellFoundedInduction, TLAPS

CONSTANT op(_, _)

-----------------------------------------------------------------------------
(* Naturals *)

LEMMA LeastOf ==
  ASSUME NEW S \in SUBSET Nat, S # {}
  PROVE  \E x \in S : \A y \in S : x <= y
<1> DEFINE R == OpToRel(<, Nat)
<1>1. IsWellFoundedOn(R, Nat)
  BY NatLessThanWellFounded
<1>2. \A x, y \in Nat : <<y, x>> \in R <=> y < x
  BY DEF OpToRel
<1> HIDE DEF R
<1>3. PICK x \in S : \A y \in S : ~(<<y, x>> \in R)
  BY <1>1, WFMin, Zenon
<1>4. ASSUME NEW y \in S PROVE x <= y
  <2>1. x \in Nat /\ y \in Nat /\ ~(y < x)
    BY <1>2, <1>3
  <2>2. QED
    BY <2>1
<1>5. QED
  BY <1>4

LEMMA LeastIsMin ==
  ASSUME NEW S \in SUBSET Nat, NEW m \in S, \A y \in S : m <= y
  PROVE  Min(S) = m
<1>1. Min(S) \in S /\ \A y \in S : Min(S) <= y
  BY DEF Min
<1>2. Min(S) \in Nat /\ m \in Nat /\ Min(S) <= m /\ m <= Min(S)
  BY <1>1
<1>3. QED
  BY <1>2

LEMMA GreatestOf ==
  ASSUME NEW N \in Nat, NEW S \in SUBSET (0..N), S # {}
  PROVE  \E x \in S : \A y \in S : y <= x
<1> DEFINE T == {N - x : x \in S}
<1>1. T \in SUBSET Nat /\ T # {}
  <2>1. \A x \in S : N - x \in Nat
    OBVIOUS
  <2>2. QED
    BY <2>1
<1>2. PICK m \in T : \A y \in T : m <= y
  BY <1>1, LeastOf
<1>3. PICK x \in S : m = N - x
  BY <1>2
<1>4. ASSUME NEW y \in S PROVE y <= x
  <2>1. N - x <= N - y
    BY <1>2, <1>3
  <2>2. x \in Int /\ y \in Int
    OBVIOUS
  <2>3. QED
    BY <2>1, <2>2
<1>5. QED
  BY <1>4

LEMMA GreatestIsMax ==
  ASSUME NEW S \in SUBSET Nat, NEW m \in S, \A y \in S : y <= m
  PROVE  Max(S) = m
<1>1. Max(S) \in S /\ \A y \in S : Max(S) >= y
  BY DEF Max
<1>2. Max(S) \in Nat /\ m \in Nat /\ Max(S) <= m /\ m <= Max(S)
  BY <1>1
<1>3. QED
  BY <1>2

LEMMA CountingUp ==
  ASSUME NEW S \in SUBSET Nat, 0 \in S, \A n \in S : n + 1 \in S
  PROVE  S = Nat
<1> SUFFICES ASSUME Nat \ S # {} PROVE FALSE
  OBVIOUS
<1>1. PICK x \in Nat \ S : \A y \in Nat \ S : x <= y
  BY LeastOf
<1>2. x # 0 /\ x - 1 \in Nat
  BY <1>1
<1>3. x - 1 \in S
  BY <1>1, <1>2
<1>4. x - 1 + 1 \in S /\ x - 1 + 1 = x
  BY <1>2, <1>3
<1>5. QED
  BY <1>1, <1>4

LEMMA CountingTo ==
  ASSUME NEW N \in Nat, NEW S, 0 \in S, \A n \in S : n \in 0..N - 1 => n + 1 \in S
  PROVE  0..N \subseteq S
<1> DEFINE T == {n \in Nat : n \in 0..N => n \in S}
<1>1. 0 \in T
  OBVIOUS
<1>2. ASSUME NEW n \in T PROVE n + 1 \in T
  <2> SUFFICES ASSUME n + 1 \in 0..N PROVE n + 1 \in S
    OBVIOUS
  <2>1. n \in 0..N - 1 /\ n \in S
    OBVIOUS
  <2>2. QED
    BY <2>1
<1>3. T = Nat
  <2> HIDE DEF T
  <2>1. T \in SUBSET Nat
    BY DEF T
  <2>2. QED
    BY <1>1, <1>2, <2>1, CountingUp
<1>4. QED
  BY <1>3

-----------------------------------------------------------------------------
(* Sorting *)

\* R orders S: strictly and totally.
Orders(R, S) ==
  /\ \A x \in S : <<x, x>> \notin R
  /\ \A x, y \in S : x # y => <<x, y>> \in R \/ <<y, x>> \in R
  /\ \A x, y, z \in S : <<x, y>> \in R /\ <<y, z>> \in R => <<x, z>> \in R

Sorted(s, n, R) == \A i, j \in 1..n : i < j => <<s[i], s[j]>> \in R

\* Every member of S is at one of the positions 1..n, and at one only.
Covers(s, n, S) ==
  /\ \A i, j \in 1..n : s[i] = s[j] => i = j
  /\ \A x \in S : \E k \in 1..n : s[k] = x

\* A finite set has a member that no other follows.
LEMMA LastExists ==
  ASSUME NEW S, IsFiniteSet(S), NEW R, Orders(R, S), S # {}
  PROVE  \E m \in S : \A x \in S \ {m} : <<x, m>> \in R
<1> DEFINE Has(T) == \E m \in T : \A x \in T \ {m} : <<x, m>> \in R
           Good == {n \in Nat : \A T \in SUBSET S : T # {} /\ Cardinality(T) = n => Has(T)}
<1>1. 0 \in Good
  <2> SUFFICES ASSUME NEW T \in SUBSET S, T # {}, Cardinality(T) = 0 PROVE FALSE
    BY DEF Good
  <2>1. IsFiniteSet(T)
    BY FS_Subset
  <2>2. QED
    BY <2>1, FS_EmptySet
<1>2. ASSUME NEW n \in Good PROVE n + 1 \in Good
  <2> SUFFICES ASSUME NEW T \in SUBSET S, T # {}, Cardinality(T) = n + 1 PROVE Has(T)
    BY DEF Good
  <2>1. PICK t \in T : TRUE
    OBVIOUS
  <2>2. IsFiniteSet(T)
    BY FS_Subset
  <2>3. Cardinality(T \ {t}) = n
    <3>1. Cardinality(T \ {t}) = Cardinality(T) - 1
      BY <2>2, FS_RemoveElement
    <3>2. QED
      BY <3>1
  <2>4. CASE T \ {t} = {}
    BY <2>1, <2>4
  <2>5. CASE T \ {t} # {}
    <3>1. PICK m \in T \ {t} : \A x \in (T \ {t}) \ {m} : <<x, m>> \in R
      BY <2>3, <2>5 DEF Good
    <3>2. <<m, t>> \in R \/ <<t, m>> \in R
      BY <3>1 DEF Orders
    <3>3. CASE <<t, m>> \in R
      BY <3>1, <3>3
    <3>4. CASE <<m, t>> \in R
      <4>1. \A x \in T \ {t} : <<x, t>> \in R
        BY <3>1, <3>4 DEF Orders
      <4>2. QED
        BY <4>1
    <3>5. QED
      BY <3>2, <3>3, <3>4
  <2>6. QED
    BY <2>4, <2>5
<1>3. Good = Nat
  <2> HIDE DEF Good
  <2>1. Good \in SUBSET Nat
    BY DEF Good
  <2>2. QED
    BY <1>1, <1>2, <2>1, CountingUp
<1>4. Cardinality(S) \in Good
  BY <1>3, FS_CardinalityType
<1>5. QED
  BY <1>4 DEF Good

LEMMA SortingExists ==
  ASSUME NEW S, IsFiniteSet(S), NEW R, Orders(R, S)
  PROVE  \E s \in [1..Cardinality(S) -> S] : Sorted(s, Cardinality(S), R)
<1> DEFINE Good == {n \in Nat : \A T \in SUBSET S :
                      Cardinality(T) = n => \E s \in [1..n -> T] : Sorted(s, n, R)}
<1>1. 0 \in Good
  <2> SUFFICES ASSUME NEW T \in SUBSET S, Cardinality(T) = 0
               PROVE  \E s \in [1..0 -> T] : Sorted(s, 0, R)
    BY DEF Good
  <2>1. 1..0 = {}
    OBVIOUS
  <2>2. [x \in 1..0 |-> x] \in [1..0 -> T]
    BY <2>1
  <2>3. QED
    BY <2>1, <2>2 DEF Sorted
<1>2. ASSUME NEW n \in Good PROVE n + 1 \in Good
  <2> SUFFICES ASSUME NEW T \in SUBSET S, Cardinality(T) = n + 1
               PROVE  \E s \in [1..n + 1 -> T] : Sorted(s, n + 1, R)
    BY DEF Good
  <2>1. IsFiniteSet(T) /\ n \in Nat
    BY FS_Subset
  <2>2. T # {}
    BY <2>1, FS_EmptySet
  <2>3. Orders(R, T)
    BY DEF Orders
  <2>4. PICK m \in T : \A x \in T \ {m} : <<x, m>> \in R
    BY <2>1, <2>2, <2>3, LastExists
  <2>5. Cardinality(T \ {m}) = n
    <3>1. Cardinality(T \ {m}) = Cardinality(T) - 1
      BY <2>1, FS_RemoveElement
    <3>2. QED
      BY <2>1, <3>1
  <2>6. PICK s \in [1..n -> T \ {m}] : Sorted(s, n, R)
    BY <2>5 DEF Good
  <2> DEFINE t == [k \in 1..n + 1 |-> IF k = n + 1 THEN m ELSE s[k]]
  <2>7. t \in [1..n + 1 -> T]
    BY <2>1
  <2>8. ASSUME NEW i \in 1..n + 1, NEW j \in 1..n + 1, i < j PROVE <<t[i], t[j]>> \in R
    <3>1. i \in 1..n /\ t[i] = s[i]
      BY <2>1, <2>8
    <3>2. CASE j = n + 1
      BY <2>4, <3>1, <3>2
    <3>3. CASE j # n + 1
      BY <2>1, <2>6, <2>8, <3>1, <3>3 DEF Sorted
    <3>4. QED
      BY <3>2, <3>3
  <2>9. QED
    BY <2>7, <2>8 DEF Sorted
<1>3. Good = Nat
  <2> HIDE DEF Good
  <2>1. Good \in SUBSET Nat
    BY DEF Good
  <2>2. QED
    BY <1>1, <1>2, <2>1, CountingUp
<1>4. Cardinality(S) \in Good
  BY <1>3, FS_CardinalityType
<1>5. QED
  BY <1>4 DEF Good

\* As many as there are, in strict order, are all of them, each once.
LEMMA SortedIsAll ==
  ASSUME NEW S, IsFiniteSet(S), NEW R, Orders(R, S),
         NEW s \in [1..Cardinality(S) -> S], Sorted(s, Cardinality(S), R)
  PROVE  Covers(s, Cardinality(S), S)
<1> DEFINE n == Cardinality(S)
<1>1. n \in Nat
  BY FS_CardinalityType
<1>2. ASSUME NEW i \in 1..n, NEW j \in 1..n, s[i] = s[j] PROVE i = j
  <2>1. i < j \/ j < i \/ i = j
    BY <1>1
  <2>2. ~(i < j) /\ ~(j < i)
    BY <1>2 DEF Sorted, Orders
  <2>3. QED
    BY <2>1, <2>2
<1>3. s \in Injection(1..n, S)
  BY <1>2 DEF Injection, IsInjective
<1>4. IsFiniteSet(1..n) /\ Cardinality(1..n) = n
  BY <1>1, FS_Interval
<1>5. s \in Surjection(1..n, S)
  BY <1>3, <1>4, FS_Injection
<1>6. QED
  BY <1>2, <1>5 DEF Surjection, Covers

\* ORDER BY on a finite set of numbers.
LEMMA AscendingOrder ==
  ASSUME NEW S \in SUBSET Nat, IsFiniteSet(S)
  PROVE  /\ Cardinality(S) \in Nat
         /\ Ascending(S) \in [1..Cardinality(S) -> S]
         /\ \A i, j \in 1..Cardinality(S) : i < j => Ascending(S)[i] < Ascending(S)[j]
         /\ \A x \in S : \E k \in 1..Cardinality(S) : Ascending(S)[k] = x
<1> DEFINE R == {p \in Nat \X Nat : p[1] < p[2]}
           n == Cardinality(S)
<1>1. Orders(R, S)
  BY DEF Orders
<1>2. \A x, y \in S : <<x, y>> \in R <=> x < y
  OBVIOUS
<1> HIDE DEF R
<1>3. PICK t \in [1..n -> S] : Sorted(t, n, R)
  BY <1>1, SortingExists
<1>4. \A i, j \in DOMAIN t : i < j => t[i] < t[j]
  BY <1>2, <1>3 DEF Sorted
<1>5. /\ Ascending(S) \in [1..n -> S]
      /\ \A i, j \in DOMAIN Ascending(S) : i < j => Ascending(S)[i] < Ascending(S)[j]
  BY <1>4, Zenon DEF InOrder, Ascending
<1>6. Sorted(Ascending(S), n, R)
  BY <1>2, <1>5 DEF Sorted
<1>7. QED
  BY <1>1, <1>5, <1>6, SortedIsAll, FS_CardinalityType DEF Covers

-----------------------------------------------------------------------------
(* Folds *)

\* What FoldLeft(op, base, seq) computes on the way, for the positions 1..n, and in the end.
Iterates(g, n, base, seq) ==
  g = [s \in SUBSET (1..n) |-> IF s = {} THEN base ELSE op(g[s \ {Max(s)}], seq[Max(s)])]

Folded(n, base, seq) == (CHOOSE g : Iterates(g, n, base, seq))[1..n]

LEMMA FoldLeftIsFolded ==
  ASSUME NEW base, NEW seq, NEW n, DOMAIN seq = 1..n
  PROVE  FoldLeft(op, base, seq) = Folded(n, base, seq)
BY Zenon DEF FoldLeft, MapThenFoldSet, Folded, Iterates

LEMMA IterationExists ==
  ASSUME NEW base, NEW seq
  PROVE  \A n \in Nat : \E g : Iterates(g, n, base, seq)
<1> DEFINE Good == {n \in Nat : \E g : Iterates(g, n, base, seq)}
<1>1. 0 \in Good
  <2> DEFINE g == [s \in SUBSET (1..0) |-> base]
  <2>1. \A s \in SUBSET (1..0) : s = {}
    OBVIOUS
  <2>2. Iterates(g, 0, base, seq)
    BY <2>1 DEF Iterates
  <2>3. QED
    BY <2>2
<1>2. ASSUME NEW n \in Good PROVE n + 1 \in Good
  <2>1. PICK f : Iterates(f, n, base, seq)
    OBVIOUS
  <2> DEFINE g == [s \in SUBSET (1..n + 1) |->
                     IF n + 1 \in s THEN op(f[s \ {n + 1}], seq[n + 1]) ELSE f[s]]
             step(s) == IF s = {} THEN base ELSE op(g[s \ {Max(s)}], seq[Max(s)])
  <2>2. n \in Nat
    OBVIOUS
  <2>3. ASSUME NEW s \in SUBSET (1..n + 1), n + 1 \in s PROVE g[s] = step(s)
    <3>1. Max(s) = n + 1
      BY <2>2, <2>3, GreatestIsMax
    <3>2. s \ {n + 1} \in SUBSET (1..n + 1) /\ n + 1 \notin s \ {n + 1} /\ s # {}
      BY <2>3
    <3>3. g[s \ {n + 1}] = f[s \ {n + 1}]
      BY <3>2
    <3>4. QED
      BY <2>3, <3>1, <3>2, <3>3
  <2>4. ASSUME NEW s \in SUBSET (1..n + 1), n + 1 \notin s PROVE g[s] = step(s)
    <3>1. s \in SUBSET (1..n)
      BY <2>2, <2>4
    <3>2. f[s] = IF s = {} THEN base ELSE op(f[s \ {Max(s)}], seq[Max(s)])
      BY <2>1, <3>1 DEF Iterates
    <3>3. g[s] = f[s] /\ g[s \ {Max(s)}] = f[s \ {Max(s)}]
      BY <2>4
    <3>4. QED
      BY <3>2, <3>3
  <2>5. \A s \in SUBSET (1..n + 1) : g[s] = step(s)
    BY <2>3, <2>4
  <2>6. g = [s \in SUBSET (1..n + 1) |-> step(s)]
    BY <2>5
  <2>7. Iterates(g, n + 1, base, seq)
    BY <2>6, Zenon DEF Iterates
  <2>8. QED
    BY <2>2, <2>7
<1>3. Good = Nat
  <2> HIDE DEF Good
  <2>1. Good \in SUBSET Nat
    BY DEF Good
  <2>2. QED
    BY <1>1, <1>2, <2>1, CountingUp
<1>4. QED
  BY <1>3

\* FoldLeft takes the entries one after another: values[k] is what it has after k of them.
InSteps(values, n, base, seq) ==
  /\ DOMAIN values = 0..n
  /\ values[0] = base
  /\ \A k \in 1..n : values[k] = op(values[k - 1], seq[k])
  /\ Folded(n, base, seq) = values[n]

LEMMA FoldSteps ==
  ASSUME NEW base, NEW seq, NEW n \in Nat
  PROVE  \E values : InSteps(values, n, base, seq)
<1>1. PICK g : Iterates(g, n, base, seq) /\ Folded(n, base, seq) = g[1..n]
  <2>1. \E g : Iterates(g, n, base, seq)
    BY IterationExists
  <2>2. QED
    BY <2>1, Zenon DEF Folded
<1> DEFINE values == [k \in 0..n |-> g[1..k]]
<1>2. values[0] = base
  <2>1. 1..0 = {} /\ {} \in SUBSET (1..n)
    OBVIOUS
  <2>2. g[{}] = base
    BY <1>1, <2>1 DEF Iterates
  <2>3. QED
    BY <2>1, <2>2
<1>3. ASSUME NEW k \in 1..n PROVE values[k] = op(values[k - 1], seq[k])
  <2>1. 1..k \in SUBSET (1..n) /\ 1..k # {}
    <3>1. k \in Int /\ 1 <= k /\ k <= n
      OBVIOUS
    <3>2. 1 \in 1..k /\ \A x \in 1..k : x \in 1..n
      BY <3>1
    <3>3. QED
      BY <3>2
  <2>2. Max(1..k) = k
    BY GreatestIsMax
  <2>3. (1..k) \ {k} = 1..k - 1
    OBVIOUS
  <2>4. g[1..k] = op(g[(1..k) \ {Max(1..k)}], seq[Max(1..k)])
    BY <1>1, <2>1 DEF Iterates
  <2>5. k \in 0..n /\ k - 1 \in 0..n
    OBVIOUS
  <2>6. values[k] = g[1..k] /\ values[k - 1] = g[1..k - 1]
    BY <2>5
  <2> HIDE DEF values
  <2>7. QED
    BY <2>2, <2>3, <2>4, <2>6
<1>4. values[n] = g[1..n]
  OBVIOUS
<1> HIDE DEF values
<1>5. DOMAIN values = 0..n
  BY DEF values
<1>6. QED
  BY <1>1, <1>2, <1>3, <1>4, <1>5 DEF InSteps
=============================================================================
