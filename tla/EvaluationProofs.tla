--------------------------- MODULE EvaluationProofs ---------------------------
(***************************************************************************)
(* An evaluation refuses a capture that is written to, and a finalized     *)
(* capture is written to no more: whatever was found for an assertion is   *)
(* what evaluating it again would find.  What is found is true of every    *)
(* run that may have taken place, because the evidence of an assertion is  *)
(* its window: every tick once, in order, with what is stored of it.       *)
(***************************************************************************)
EXTENDS Evaluation, FiniteSetTheorems, SequenceTheorems, TLAPS

\* What there is to find for the assertions of the set.
Findings == {Evaluated(rows, assertions[k]) : k \in 1..Len(assertions)}

\* Results exist only once the call has read a final status; one per assertion, in order.
StandInv ==
  /\ assertions \in AssertionSets
  /\ metadata # None => status # "in_progress"
  /\ metadata = None => results = <<>>
  /\ results \in Seq(Findings)
  /\ Len(results) <= Len(assertions)
  /\ \A k \in 1..Len(results) : results[k] = Evaluated(rows, assertions[k])

LEMMA AssertionSetIsSequence ==
  ASSUME assertions \in AssertionSets
  PROVE  assertions \in Seq(Range(assertions)) /\ Len(assertions) \in Nat
<1>1. assertions \in Seq(Range(assertions))
  BY EvaluationAssumption
<1>2. QED
  BY <1>1

LEMMA InitStands == Init => StandInv
<1> SUFFICES ASSUME Init PROVE StandInv
  OBVIOUS
<1>1. results = <<>> /\ metadata = None /\ assertions \in AssertionSets
  BY DEF Init
<1>2. Len(assertions) \in Nat
  BY <1>1, AssertionSetIsSequence
<1>3. results \in Seq(Findings) /\ Len(results) = 0
  BY <1>1
<1>4. QED
  BY <1>1, <1>2, <1>3 DEF StandInv

\* A capture is only written to while there are no results.
LEMMA WritingStands ==
  ASSUME StandInv, status = "in_progress",
         UNCHANGED <<assertions, metadata, results>>
  PROVE  StandInv'
<1>1. metadata = None /\ results = <<>>
  BY DEF StandInv
<1>2. results' \in Seq(Findings') /\ Len(results') = 0
  BY <1>1
<1>3. metadata' = None /\ results' = <<>> /\ assertions' \in AssertionSets
  BY <1>1 DEF StandInv
<1>4. Len(assertions') \in Nat
  BY AssertionSetIsSequence DEF StandInv
<1>5. QED
  BY <1>2, <1>3, <1>4 DEF StandInv

\* The capture stays as it is while evaluate() runs, and so do its findings.
LEMMA ReadingStands ==
  ASSUME StandInv, UNCHANGED <<rows, status, assertions, results>>,
         metadata' # None => status # "in_progress",
         metadata' = None => results = <<>>
  PROVE  StandInv'
<1>1. Findings' = Findings
  BY DEF Findings
<1>2. QED
  BY <1>1 DEF StandInv

LEMMA EvaluateNextStands ==
  ASSUME StandInv, EvaluateNext
  PROVE  StandInv'
<1> DEFINE found == Evaluated(rows, assertions[Len(results) + 1])
<1>1. /\ results \in Seq(Findings) /\ Len(results) \in Nat
      /\ Len(assertions) \in Nat /\ Len(results) < Len(assertions)
  BY AssertionSetIsSequence DEF StandInv, EvaluateNext
<1>2. found \in Findings
  <2>1. Len(results) + 1 \in 1..Len(assertions)
    BY <1>1
  <2>2. QED
    BY <2>1 DEF Findings
<1>3. Findings' = Findings
  BY DEF Findings, EvaluateNext
<1>4. results' = Append(results, found)
  BY DEF EvaluateNext
<1> HIDE DEF found
<1>5. results' \in Seq(Findings) /\ Len(results') = Len(results) + 1
  BY <1>1, <1>2, <1>4
<1>6. \A k \in 1..Len(results') : results'[k] = Evaluated(rows', assertions'[k])
  <2> SUFFICES ASSUME NEW k \in 1..Len(results')
               PROVE  results'[k] = Evaluated(rows, assertions[k])
    BY DEF EvaluateNext
  <2>1. CASE k \in 1..Len(results)
    <3>1. results'[k] = results[k]
      BY <1>1, <1>2, <1>4, <2>1
    <3>2. QED
      BY <2>1, <3>1 DEF StandInv
  <2>2. CASE k = Len(results) + 1
    <3>1. results'[k] = found
      BY <1>1, <1>2, <1>4, <2>2
    <3>2. QED
      BY <2>2, <3>1 DEF found
  <2>3. QED
    BY <1>1, <1>5, <2>1, <2>2
<1>7. metadata' # None /\ status' # "in_progress" /\ assertions' = assertions
  BY DEF EvaluateNext, StandInv
<1>8. QED
  BY <1>1, <1>3, <1>5, <1>6, <1>7 DEF StandInv

LEMMA NextStands == StandInv /\ [Next]_vars => StandInv'
<1> SUFFICES ASSUME StandInv, [Next]_vars PROVE StandInv'
  OBVIOUS
<1>1. ASSUME NEW tick \in Ticks, NEW row \in Rows \union {Problem}, StoreRow(tick, row)
      PROVE  StandInv'
  BY <1>1, WritingStands DEF StoreRow
<1>2. ASSUME NEW recoverable \in BOOLEAN, StoreError(recoverable) PROVE StandInv'
  BY <1>2, WritingStands DEF StoreError
<1>3. ASSUME NEW requested \in FinalStatuses \union {None}, Finalize(requested) PROVE StandInv'
  BY <1>3, WritingStands DEF Finalize
<1>4. CASE Begin
  BY <1>4, ReadingStands, EvaluationAssumption DEF Begin, StandInv
<1>5. CASE EvaluateNext
  BY <1>5, EvaluateNextStands
<1>6. CASE Return
  BY <1>6, ReadingStands DEF Return, StandInv
<1>7. CASE UNCHANGED vars
  BY <1>7, ReadingStands DEF vars, StandInv
<1>8. QED
  BY <1>1, <1>2, <1>3, <1>4, <1>5, <1>6, <1>7 DEF Next

LEMMA StandImplies == StandInv => ResultsStand
<1> SUFFICES ASSUME StandInv PROVE ResultsStand
  OBVIOUS
<1>1. DOMAIN results = 1..Len(results)
  BY DEF StandInv
<1>2. QED
  BY <1>1 DEF StandInv, ResultsStand

\* What evaluate() (evaluation/evaluator.py) has found for an assertion is what the capture
\* says at any later time: for every capture, every assertion set and every way of writing.
THEOREM FindingsStand == Spec => []ResultsStand
<1>1. QED
  BY InitStands, NextStands, StandImplies, PTL DEF Spec

-----------------------------------------------------------------------------
(* The operators of the proofs about folds *)

Fold == INSTANCE FoldTheory WITH op <- Yield

\* The operators that the instance brings along are those of this module.
LEMMA SameOperators ==
  /\ \A S : Fold!IsFiniteSet(S) = IsFiniteSet(S) /\ Fold!Cardinality(S) = Cardinality(S)
  /\ \A S : Fold!Max(S) = Max(S) /\ Fold!Min(S) = Min(S)
  /\ \A S : Fold!Ascending(S) = Ascending(S)
  /\ \A base, seq, n : DOMAIN seq = 1..n =>
       FoldLeft(Yield, base, seq) = Fold!Folded(n, base, seq)
<1>1. \A S : Fold!IsFiniteSet(S) = IsFiniteSet(S)
  BY DEF IsFiniteSet, Fold!IsFiniteSet
<1>2. \A S : Fold!Cardinality(S) = Cardinality(S)
  BY DEF Cardinality, Fold!Cardinality, IsFiniteSet, Fold!IsFiniteSet
<1>3. \A S : Fold!Max(S) = Max(S)
  BY DEF Max, Fold!Max
<1>4. \A S : Fold!Min(S) = Min(S)
  BY DEF Min, Fold!Min
<1>5. \A S : Fold!Ascending(S) = Ascending(S)
  BY <1>2, Zenon DEF Ascending, Fold!Ascending, InOrder, Fold!InOrder
<1>6. \A base, seq, n : DOMAIN seq = 1..n =>
        FoldLeft(Yield, base, seq) = Fold!Folded(n, base, seq)
  BY <1>3, Zenon DEF FoldLeft, MapThenFoldSet, Fold!Folded, Fold!Iterates
<1>7. QED
  BY <1>1, <1>2, <1>3, <1>4, <1>5, <1>6

LEMMA StoredTicksAscend ==
  ASSUME NEW S \in SUBSET Nat, IsFiniteSet(S)
  PROVE  /\ Cardinality(S) \in Nat
         /\ Ascending(S) \in [1..Cardinality(S) -> S]
         /\ \A i, j \in 1..Cardinality(S) : i < j => Ascending(S)[i] < Ascending(S)[j]
         /\ \A x \in S : \E k \in 1..Cardinality(S) : Ascending(S)[k] = x
BY SameOperators, Fold!AscendingOrder

\* yielded[k] is what _include_missing_ticks has yielded after k stored samples.
YieldedBy(yielded, n, base, samples) ==
  /\ yielded[0] = base
  /\ \A k \in 1..n : yielded[k] = Yield(yielded[k - 1], samples[k])
  /\ FoldLeft(Yield, base, samples) = yielded[n]

LEMMA YieldedInSteps ==
  ASSUME NEW base, NEW samples, NEW n \in Nat, DOMAIN samples = 1..n
  PROVE  \E yielded : YieldedBy(yielded, n, base, samples)
<1>1. PICK values : Fold!InSteps(values, n, base, samples)
  BY Fold!FoldSteps
<1>2. FoldLeft(Yield, base, samples) = Fold!Folded(n, base, samples)
  BY SameOperators
<1>3. QED
  BY <1>1, <1>2, Zenon DEF Fold!InSteps, YieldedBy
-----------------------------------------------------------------------------
(* The evidence of an assertion: every tick of its window, once, in order *)

EvidenceAt(captured, peripheral, tick) ==
  IF tick \in DOMAIN captured THEN Sample(captured, peripheral, tick)
  ELSE [tick |-> tick, state |-> "missing"]

\* Of the ticks from..end-1.
Window(captured, peripheral, from, end) ==
  [k \in 1..end - from |-> EvidenceAt(captured, peripheral, from + k - 1)]

\* Ticks that are not stored are what _missing() makes of them.
LEMMA MissingExtends ==
  ASSUME NEW captured, NEW peripheral, NEW from \in Nat, NEW e \in Nat, NEW t \in Nat,
         from <= e, e <= t, \A u \in e..t - 1 : u \notin DOMAIN captured
  PROVE  Window(captured, peripheral, from, e) \o MissingTicks(e, t - 1)
           = Window(captured, peripheral, from, t)
<1> DEFINE U == {EvidenceAt(captured, peripheral, u) : u \in Nat}
           w == Window(captured, peripheral, from, e)
           m == MissingTicks(e, t - 1)
           v == Window(captured, peripheral, from, t)
<1>1. m = [k \in 1..t - e |-> EvidenceAt(captured, peripheral, e + k - 1)]
  <2>1. t - 1 - e + 1 = t - e
    OBVIOUS
  <2>2. \A k \in 1..t - e : EvidenceAt(captured, peripheral, e + k - 1)
                              = [tick |-> e + k - 1, state |-> "missing"]
    <3> SUFFICES ASSUME NEW k \in 1..t - e PROVE e + k - 1 \notin DOMAIN captured
      BY DEF EvidenceAt
    <3>1. e + k - 1 \in e..t - 1
      OBVIOUS
    <3>2. QED
      BY <3>1
  <2>3. m = [k \in 1..t - e |-> [tick |-> e + k - 1, state |-> "missing"]]
    BY <2>1 DEF MissingTicks
  <2>4. QED
    BY <2>2, <2>3
<1>2. w \in Seq(U) /\ Len(w) = e - from /\ \A k \in 1..e - from : w[k] = EvidenceAt(captured, peripheral, from + k - 1)
  <2>1. \A k \in 1..e - from : from + k - 1 \in Nat
    OBVIOUS
  <2>2. w \in [1..e - from -> U]
    BY <2>1 DEF Window
  <2>3. QED
    BY <2>2 DEF Window
<1>3. m \in Seq(U) /\ Len(m) = t - e /\ \A k \in 1..t - e : m[k] = EvidenceAt(captured, peripheral, e + k - 1)
  <2>1. \A k \in 1..t - e : e + k - 1 \in Nat
    OBVIOUS
  <2>2. m \in [1..t - e -> U]
    BY <1>1, <2>1
  <2>3. QED
    BY <1>1, <2>2
<1> HIDE DEF w, m, U
<1>4. w \o m \in Seq(U) /\ Len(w \o m) = t - from
  <2>1. w \o m \in Seq(U) /\ Len(w \o m) = Len(w) + Len(m)
    BY <1>2, <1>3
  <2>2. (e - from) + (t - e) = t - from
    OBVIOUS
  <2>3. QED
    BY <1>2, <1>3, <2>1, <2>2
<1>5. ASSUME NEW k \in 1..t - from PROVE (w \o m)[k] = EvidenceAt(captured, peripheral, from + k - 1)
  <2>1. CASE k <= e - from
    BY <1>2, <1>3, <2>1
  <2>2. CASE ~(k <= e - from)
    <3>1. k - (e - from) \in 1..t - e /\ e + (k - (e - from)) - 1 = from + k - 1
      BY <2>2
    <3>2. (w \o m)[k] = m[k - (e - from)]
      BY <1>2, <1>3, <2>2
    <3>3. QED
      BY <1>3, <3>1, <3>2
  <2>3. QED
    BY <2>1, <2>2
<1>6. DOMAIN (w \o m) = 1..t - from
  BY <1>4
<1>7. w \o m = v
  <2>1. \A k \in 1..t - from : from + k - 1 \in Nat
    OBVIOUS
  <2>2. v \in [1..t - from -> U]
    BY <2>1 DEF Window, U
  <2>3. v \in Seq(U) /\ Len(v) = t - from /\ \A k \in 1..t - from : v[k] = EvidenceAt(captured, peripheral, from + k - 1)
    BY <2>2 DEF Window
  <2> HIDE DEF v
  <2>4. QED
    BY <1>4, <1>5, <2>3, SeqEqual
<1>8. QED
  BY <1>7 DEF w, m

LEMMA SampleExtends ==
  ASSUME NEW captured, NEW peripheral, NEW from \in Nat, NEW t \in Nat, from <= t
  PROVE  Append(Window(captured, peripheral, from, t), EvidenceAt(captured, peripheral, t))
           = Window(captured, peripheral, from, t + 1)
<1> DEFINE U == {EvidenceAt(captured, peripheral, u) : u \in Nat}
           w == Window(captured, peripheral, from, t)
           x == EvidenceAt(captured, peripheral, t)
<1>1. w \in Seq(U) /\ Len(w) = t - from /\ \A k \in 1..t - from : w[k] = EvidenceAt(captured, peripheral, from + k - 1)
  <2>1. \A k \in 1..t - from : from + k - 1 \in Nat
    OBVIOUS
  <2>2. w \in [1..t - from -> U]
    BY <2>1 DEF Window
  <2>3. QED
    BY <2>2 DEF Window
<1>2. x \in U
  OBVIOUS
<1> HIDE DEF w, x, U
<1>3. /\ Append(w, x) \in Seq(U) /\ DOMAIN Append(w, x) = 1..t + 1 - from
      /\ \A k \in 1..t - from : Append(w, x)[k] = w[k]
      /\ Append(w, x)[t - from + 1] = x
  BY <1>1, <1>2
<1>4. ASSUME NEW k \in 1..t + 1 - from
      PROVE  Append(w, x)[k] = EvidenceAt(captured, peripheral, from + k - 1)
  <2>1. CASE k \in 1..t - from
    BY <1>1, <1>3, <2>1
  <2>2. CASE k = t - from + 1
    <3>1. from + k - 1 = t
      BY <2>2
    <3>2. QED
      BY <1>3, <2>2, <3>1 DEF x
  <2>3. k \in 1..t - from \/ k = t - from + 1
    OBVIOUS
  <2>4. QED
    BY <2>1, <2>2, <2>3
<1>5. QED
  BY <1>3, <1>4 DEF Window, w, x

LEMMA RangeEvidenceIsWindow ==
  ASSUME NEW captured, NEW a, HasWindow(a)
  PROVE  RangeEvidence(captured, a) = Window(captured, a.peripheral, a.from, a.until + 1)
<1> DEFINE from == a.from
           until == a.until
           p == a.peripheral
           S == DOMAIN captured \intersect from..until
           n == Cardinality(S)
           s == Ascending(S)
           samples == [k \in DOMAIN s |-> Sample(captured, p, s[k])]
           base == [expected |-> from, items |-> <<>>]
<1>1. from \in Nat /\ until \in Nat /\ from <= until
  BY DEF HasWindow
<1>2. S \in SUBSET Nat /\ IsFiniteSet(S)
  <2>1. S \in SUBSET (from..until)
    OBVIOUS
  <2> HIDE DEF S
  <2>2. from..until \in SUBSET Nat
    BY <1>1
  <2> HIDE DEF from, until
  <2>3. IsFiniteSet(from..until)
    BY <1>1, FS_Interval
  <2>4. QED
    BY <2>1, <2>2, <2>3, FS_Subset
<1> HIDE DEF S
<1>3. /\ n \in Nat
      /\ s \in [1..n -> S]
      /\ \A i, j \in 1..n : i < j => s[i] < s[j]
      /\ \A x \in S : \E k \in 1..n : s[k] = x
  BY <1>2, StoredTicksAscend
<1> HIDE DEF s, n
<1>4. DOMAIN samples = 1..n /\ \A k \in 1..n : samples[k] = EvidenceAt(captured, p, s[k]) /\ samples[k].tick = s[k]
  BY <1>3 DEF EvidenceAt, S, Sample
<1>5. RangeEvidence(captured, a) = IncludeMissingTicks(samples, from, until)
  BY Zenon DEF RangeEvidence, s, S
<1> HIDE DEF samples
<1> HIDE DEF base
<1>6. PICK values : YieldedBy(values, n, base, samples)
  BY <1>3, <1>4, YieldedInSteps
<1> DEFINE after(k) == IF k = 0 THEN from ELSE s[k] + 1
           Done(k) == values[k] = [expected |-> after(k), items |-> Window(captured, p, from, after(k))]
           Good == {k \in 0..n : Done(k)}
<1>7. 0 \in Good
  <2>1. Window(captured, p, from, from) = <<>>
    <3>1. 1..from - from = {}
      BY <1>1
    <3>2. QED
      BY <3>1 DEF Window
  <2>2. values[0] = base
    BY <1>6 DEF YieldedBy
  <2>3. QED
    BY <1>3, <2>1, <2>2 DEF base
<1>8. ASSUME NEW k \in Good, k \in 0..n - 1 PROVE k + 1 \in Good
  <2> DEFINE t == s[k + 1]
             e == after(k)
  <2>1. k \in Nat /\ k + 1 \in 1..n /\ k + 1 - 1 = k /\ k + 1 # 0
    BY <1>3, <1>8
  <2>2. t \in S /\ t \in Nat /\ t \in DOMAIN captured /\ from <= t
    BY <1>1, <1>3, <2>1 DEF S
  <2>3. e \in Nat /\ from <= e /\ e <= t
    <3>1. CASE k = 0
      BY <1>1, <2>2, <3>1
    <3>2. CASE k # 0
      <4>1. k \in 1..n /\ k < k + 1
        BY <1>3, <2>1, <3>2
      <4>2. s[k] < t /\ s[k] \in S
        BY <1>3, <2>1, <4>1
      <4>3. s[k] \in Nat /\ from <= s[k]
        BY <1>1, <4>2 DEF S
      <4>4. QED
        BY <1>1, <2>2, <3>2, <4>2, <4>3
    <3>3. QED
      BY <3>1, <3>2
  <2>4. ASSUME NEW u \in e..t - 1, u \in DOMAIN captured PROVE FALSE
    <3>1. u \in S /\ u \in Nat
      BY <1>1, <2>2, <2>3, <2>4, t <= until DEF S
    <3>2. PICK j \in 1..n : s[j] = u
      BY <1>3, <3>1
    <3>3. j < k + 1
      <4>1. ~(k + 1 < j) /\ j # k + 1
        BY <1>3, <2>1, <2>2, <2>3, <2>4, <3>1, <3>2
      <4>2. QED
        BY <2>1, <4>1
    <3>4. k \in 1..n /\ (j < k \/ j = k)
      BY <2>1, <3>3
    <3>5. s[j] < s[k] \/ s[j] = s[k]
      BY <1>3, <3>4
    <3>6. e = s[k] + 1 /\ s[k] \in Nat
      <4>1. k # 0 /\ s[k] \in S
        BY <1>3, <3>4
      <4>2. QED
        BY <1>2, <4>1
    <3>7. QED
      BY <2>2, <2>3, <2>4, <3>1, <3>2, <3>5, <3>6
  <2>5. values[k + 1] = Yield(values[k], samples[k + 1])
    <3>1. \A j \in 1..n : values[j] = Yield(values[j - 1], samples[j])
      BY <1>6, Zenon DEF YieldedBy
    <3>2. values[k + 1] = Yield(values[k + 1 - 1], samples[k + 1])
      BY <2>1, <3>1
    <3>3. QED
      BY <2>1, <3>2
  <2>6. values[k].expected = e /\ values[k].items = Window(captured, p, from, e)
    BY DEF Good
  <2>7. samples[k + 1] = EvidenceAt(captured, p, t) /\ samples[k + 1].tick = t
    BY <1>4, <2>1
  <2> HIDE DEF t, e, Good
  <2>8. Window(captured, p, from, e) \o MissingTicks(e, t - 1) = Window(captured, p, from, t)
    BY <1>1, <2>2, <2>3, <2>4, MissingExtends
  <2>9. Append(Window(captured, p, from, t), EvidenceAt(captured, p, t)) = Window(captured, p, from, t + 1)
    BY <1>1, <2>2, SampleExtends
  <2>10. values[k + 1] = [expected |-> t + 1, items |-> Window(captured, p, from, t + 1)]
    BY <2>5, <2>6, <2>7, <2>8, <2>9 DEF Yield
  <2>11. after(k + 1) = t + 1
    BY <2>1 DEF t
  <2> HIDE DEF after
  <2>12. QED
    BY <1>3, <2>1, <2>10, <2>11 DEF Good
<1>9. Done(n)
  <2> HIDE DEF Done
  <2>1. 0..n \subseteq Good
    <3> HIDE DEF Good
    <3>1. QED
      BY <1>3, <1>7, <1>8, Fold!CountingTo
  <2>2. QED
    BY <1>3, <2>1
<1> DEFINE e == after(n)
<1>10. /\ IncludeMissingTicks(samples, from, until)
            = Window(captured, p, from, e) \o MissingTicks(e, until)
  <2> HIDE DEF after
  <2>1. /\ values[n].items = Window(captured, p, from, e)
        /\ values[n].expected = e
    BY <1>9
  <2>2. IncludeMissingTicks(samples, from, until)
          = FoldLeft(Yield, base, samples).items \o MissingTicks(FoldLeft(Yield, base, samples).expected, until)
    BY Zenon DEF IncludeMissingTicks, base
  <2>3. QED
    BY <1>6, <2>1, <2>2, Zenon DEF YieldedBy
<1>11. e \in Nat /\ from <= e /\ e <= until + 1
  <2>1. CASE n = 0
    BY <1>1, <2>1
  <2>2. CASE n # 0
    <3>1. n \in 1..n /\ s[n] \in S
      BY <1>3, <2>2
    <3>2. QED
      BY <1>1, <2>2, <3>1 DEF S
  <2>3. QED
    BY <2>1, <2>2
<1>12. ASSUME NEW u \in e..until + 1 - 1, u \in DOMAIN captured PROVE FALSE
  <2>1. u \in S /\ u \in Nat
    BY <1>1, <1>11, <1>12 DEF S
  <2>2. PICK j \in 1..n : s[j] = u
    BY <1>3, <2>1
  <2>3. n \in 1..n /\ (j < n \/ j = n)
    BY <1>3
  <2>4. s[j] < s[n] \/ s[j] = s[n]
    BY <1>3, <2>3
  <2>5. e = s[n] + 1 /\ s[n] \in Nat
    <3>1. n # 0 /\ s[n] \in S
      BY <1>3, <2>3
    <3>2. QED
      BY <1>2, <3>1
  <2>6. QED
    BY <1>11, <1>12, <2>1, <2>2, <2>4, <2>5
<1> HIDE DEF e
<1> DEFINE t == until + 1
<1>13. t \in Nat /\ t - 1 = until /\ \A u \in e..t - 1 : u \notin DOMAIN captured
  BY <1>1, <1>12
<1> HIDE DEF t
<1>14. Window(captured, p, from, e) \o MissingTicks(e, t - 1) = Window(captured, p, from, t)
  BY <1>1, <1>11, <1>13, MissingExtends DEF t
<1>15. Window(captured, p, from, e) \o MissingTicks(e, until) = Window(captured, p, from, t)
  BY <1>13, <1>14, Zenon
<1>16. QED
  BY <1>5, <1>10, <1>15, Zenon DEF t

LEMMA PointEvidenceIsWindow ==
  ASSUME NEW captured, NEW a, HasWindow(a), a.from = a.until
  PROVE  PointEvidence(captured, a) = Window(captured, a.peripheral, a.from, a.until + 1)
<1> DEFINE t == a.from
           x == EvidenceAt(captured, a.peripheral, t)
<1>1. t \in Nat /\ a.until = t
  BY DEF HasWindow
<1>2. Window(captured, a.peripheral, t, t + 1) = <<x>>
  <2>1. (t + 1) - t = 1
    BY <1>1
  <2>2. \A k \in 1..1 : t + k - 1 = t
    BY <1>1
  <2>3. Window(captured, a.peripheral, t, t + 1) = [k \in 1..1 |-> x]
    <3>1. \A k \in 1..1 : EvidenceAt(captured, a.peripheral, t + k - 1) = x
      BY <2>2
    <3>2. Window(captured, a.peripheral, t, t + 1)
            = [k \in 1..1 |-> EvidenceAt(captured, a.peripheral, t + k - 1)]
      BY <2>1, Zenon DEF Window
    <3> HIDE DEF x
    <3>3. QED
      BY <3>1, <3>2
  <2> HIDE DEF x
  <2>4. QED
    BY <2>3
<1>3. CASE t \in DOMAIN captured
  BY <1>1, <1>2, <1>3 DEF PointEvidence, EvidenceAt
<1>4. CASE t \notin DOMAIN captured
  <2>1. t - t + 1 = 1 /\ \A k \in 1..1 : t + k - 1 = t
    BY <1>1
  <2>2. MissingTicks(t, t) = [k \in 1..1 |-> [tick |-> t, state |-> "missing"]]
    BY <2>1 DEF MissingTicks
  <2>3. MissingTicks(t, t) = <<[tick |-> t, state |-> "missing"]>>
    BY <2>2
  <2>4. QED
    BY <1>1, <1>2, <1>4, <2>3 DEF PointEvidence, EvidenceAt
<1>5. QED
  BY <1>3, <1>4

-----------------------------------------------------------------------------
(* What the handlers make of a window *)

Evidence(a) == Window(rows, a.peripheral, a.from, a.until + 1)

LEMMA EvidenceIs ==
  ASSUME NEW a, HasWindow(a)
  PROVE  /\ DOMAIN Evidence(a) = 1..a.until + 1 - a.from
         /\ \A k \in DOMAIN Evidence(a) :
              LET t == a.from + k - 1 IN
              /\ t \in a.from..a.until
              /\ Evidence(a)[k].tick = t
              /\ Evidence(a)[k].state = "valid" <=> t \in Measured
              /\ Evidence(a)[k].state = "missing" <=> t \notin DOMAIN rows
              /\ Evidence(a)[k].state = "invalid" <=> t \in DOMAIN rows \ Measured
              /\ t \in Measured => Evidence(a)[k].value = rows[t][a.peripheral]
<1>1. a.from \in Nat /\ a.until \in Nat /\ a.from <= a.until
  BY DEF HasWindow
<1>2. DOMAIN Evidence(a) = 1..a.until + 1 - a.from
  <2>1. DOMAIN Evidence(a) = 1..(a.until + 1) - a.from
    BY DEF Evidence, Window
  <2>2. QED
    BY <1>1, <2>1
<1>3. ASSUME NEW k \in 1..a.until + 1 - a.from
      PROVE  LET t == a.from + k - 1 IN
              /\ t \in a.from..a.until
              /\ Evidence(a)[k] = EvidenceAt(rows, a.peripheral, t)
  BY <1>1 DEF Evidence, Window
<1>4. \A t : LET x == EvidenceAt(rows, a.peripheral, t) IN
              /\ x.tick = t
              /\ x.state = "valid" <=> t \in Measured
              /\ x.state = "missing" <=> t \notin DOMAIN rows
              /\ x.state = "invalid" <=> t \in DOMAIN rows \ Measured
              /\ t \in Measured => x.value = rows[t][a.peripheral]
  BY DEF EvidenceAt, Sample, Measured
<1>5. QED
  BY <1>2, <1>3, <1>4

\* As many positions as ticks.
LEMMA AsManyPositions ==
  ASSUME NEW a, HasWindow(a), NEW T \in SUBSET (a.from..a.until),
         NEW K, K = {k \in 1..a.until + 1 - a.from : a.from + k - 1 \in T}
  PROVE  IsFiniteSet(T) /\ Cardinality(K) = Cardinality(T)
<1>1. a.from \in Nat /\ a.until \in Nat /\ a.from <= a.until
  BY DEF HasWindow
<1>2. IsFiniteSet(T)
  <2>1. IsFiniteSet(a.from..a.until)
    BY <1>1, FS_Interval
  <2>2. QED
    BY <2>1, FS_Subset
<1> DEFINE f == [t \in T |-> t - a.from + 1]
<1>3. \A t \in T : f[t] \in K
  BY <1>1
<1>4. \A t, u \in T : f[t] = f[u] => t = u
  BY <1>1
<1>5. \A k \in K : a.from + k - 1 \in T /\ f[a.from + k - 1] = k
  BY <1>1
<1>6. f \in Bijection(T, K)
  <2>1. f \in [T -> K]
    BY <1>3
  <2> HIDE DEF f
  <2>2. f \in Injection(T, K)
    BY <1>4, <2>1 DEF Injection, IsInjective
  <2>3. f \in Surjection(T, K)
    BY <1>5, <2>1 DEF Surjection
  <2>4. QED
    BY <2>2, <2>3 DEF Bijection
<1>7. QED
  BY <1>2, <1>6, FS_Bijection DEF ExistsBijection

LEMMA CountsOf ==
  ASSUME NEW a, HasWindow(a)
  PROVE  LET window == a.from..a.until IN
         /\ Count(Evidence(a), "valid") = Cardinality(window \intersect Measured)
         /\ Count(Evidence(a), "missing") = Cardinality(window \ DOMAIN rows)
         /\ Count(Evidence(a), "invalid") = Cardinality(window \intersect (DOMAIN rows \ Measured))
<1> DEFINE window == a.from..a.until
           n == a.until + 1 - a.from
<1>1. DOMAIN Evidence(a) = 1..n
  BY EvidenceIs
<1>2. Count(Evidence(a), "valid") = Cardinality({k \in 1..n : a.from + k - 1 \in window \intersect Measured})
  <2>1. \A k \in 1..n : Evidence(a)[k].state = "valid" <=> a.from + k - 1 \in window \intersect Measured
    BY <1>1, EvidenceIs
  <2>2. {k \in 1..n : Evidence(a)[k].state = "valid"} = {k \in 1..n : a.from + k - 1 \in window \intersect Measured}
    BY <2>1
  <2>3. QED
    BY <1>1, <2>2 DEF Count
<1>3. Count(Evidence(a), "missing") = Cardinality({k \in 1..n : a.from + k - 1 \in window \ DOMAIN rows})
  <2>1. \A k \in 1..n : Evidence(a)[k].state = "missing" <=> a.from + k - 1 \in window \ DOMAIN rows
    BY <1>1, EvidenceIs
  <2>2. {k \in 1..n : Evidence(a)[k].state = "missing"} = {k \in 1..n : a.from + k - 1 \in window \ DOMAIN rows}
    BY <2>1
  <2>3. QED
    BY <1>1, <2>2 DEF Count
<1>4. Count(Evidence(a), "invalid") = Cardinality({k \in 1..n : a.from + k - 1 \in window \intersect (DOMAIN rows \ Measured)})
  <2>1. \A k \in 1..n : Evidence(a)[k].state = "invalid" <=> a.from + k - 1 \in window \intersect (DOMAIN rows \ Measured)
    BY <1>1, EvidenceIs
  <2>2. {k \in 1..n : Evidence(a)[k].state = "invalid"} = {k \in 1..n : a.from + k - 1 \in window \intersect (DOMAIN rows \ Measured)}
    BY <2>1
  <2>3. QED
    BY <1>1, <2>2 DEF Count
<1>5. \A T \in SUBSET window : Cardinality({k \in 1..n : a.from + k - 1 \in T}) = Cardinality(T)
  BY AsManyPositions
<1>6. /\ window \intersect Measured \in SUBSET window
      /\ window \ DOMAIN rows \in SUBSET window
      /\ window \intersect (DOMAIN rows \ Measured) \in SUBSET window
  OBVIOUS
<1>7. QED
  BY <1>2, <1>3, <1>4, <1>5, <1>6

\* Without a gap every tick of the window was measured.
LEMMA NoGaps ==
  ASSUME NEW a, HasWindow(a)
  PROVE  /\ Gaps(Evidence(a)) \in Nat
         /\ Gaps(Evidence(a)) = 0 <=> a.from..a.until \subseteq Measured
<1> DEFINE window == a.from..a.until
           missing == window \ DOMAIN rows
           invalid == window \intersect (DOMAIN rows \ Measured)
<1>1. IsFiniteSet(missing) /\ IsFiniteSet(invalid)
  <2>1. IsFiniteSet(window)
    BY FS_Interval DEF HasWindow
  <2>2. missing \in SUBSET window /\ invalid \in SUBSET window
    OBVIOUS
  <2>3. QED
    BY <2>1, <2>2, FS_Subset
<1>2. Gaps(Evidence(a)) = Cardinality(missing) + Cardinality(invalid)
  BY CountsOf DEF Gaps
<1>3. missing = {} /\ invalid = {} <=> window \subseteq Measured
  BY DEF Measured
<1> HIDE DEF missing, invalid
<1>4. /\ Cardinality(missing) \in Nat /\ Cardinality(invalid) \in Nat
      /\ Cardinality(missing) = 0 <=> missing = {}
      /\ Cardinality(invalid) = 0 <=> invalid = {}
  BY <1>1, FS_CardinalityType, FS_EmptySet
<1>5. QED
  BY <1>2, <1>3, <1>4

\* The ticks that were measured and are not accepted.
Refused(a) ==
  {t \in (a.from..a.until) \intersect Measured : ~Accepts(a, rows[t][a.peripheral])}

LEMMA ViolatingPositions ==
  ASSUME NEW a, HasWindow(a)
  PROVE  {k \in DOMAIN Evidence(a) :
            Evidence(a)[k].state = "valid" /\ ~Accepts(a, Evidence(a)[k].value)}
           = {k \in 1..a.until + 1 - a.from : a.from + k - 1 \in Refused(a)}
<1>1. ASSUME NEW k \in DOMAIN Evidence(a)
      PROVE  Evidence(a)[k].state = "valid" /\ ~Accepts(a, Evidence(a)[k].value)
               <=> a.from + k - 1 \in Refused(a)
  <2> DEFINE t == a.from + k - 1
  <2>1. /\ t \in a.from..a.until
        /\ Evidence(a)[k].state = "valid" <=> t \in Measured
        /\ t \in Measured => Evidence(a)[k].value = rows[t][a.peripheral]
    BY EvidenceIs
  <2> HIDE DEF t
  <2>2. QED
    BY <2>1 DEF Refused, t
<1>2. QED
  BY <1>1, EvidenceIs

\* The least position is that of the least tick.
LEMMA FirstPosition ==
  ASSUME NEW a, HasWindow(a), NEW T \in SUBSET (a.from..a.until), T # {},
         NEW K, K = {k \in 1..a.until + 1 - a.from : a.from + k - 1 \in T}
  PROVE  Min(K) \in K /\ a.from + Min(K) - 1 = Min(T)
<1>1. a.from \in Nat /\ a.until \in Nat /\ a.from <= a.until
  BY DEF HasWindow
<1>2. T \in SUBSET Nat
  BY <1>1
<1>3. PICK m \in T : \A t \in T : m <= t
  BY <1>2, Fold!LeastOf
<1>4. Min(T) = m
  BY <1>2, <1>3, Fold!LeastIsMin, SameOperators
<1> DEFINE j == m - a.from + 1
<1>5. j \in K /\ K \in SUBSET Nat
  BY <1>1, <1>3
<1>6. \A k \in K : j <= k
  BY <1>1, <1>3
<1> HIDE DEF j
<1>7. Min(K) = j
  BY <1>5, <1>6, Fold!LeastIsMin, SameOperators
<1>8. QED
  BY <1>1, <1>2, <1>3, <1>4, <1>5, <1>7 DEF j

\* What every kind of assertion is evaluated on is its window.
LEMMA EvaluatedOnEvidence ==
  ASSUME NEW a, HasWindow(a)
  PROVE  Evaluated(rows, a)
           = IF a.assertion \in PointAssertions THEN EvaluatePoint(a, Evidence(a))
             ELSE IF a.assertion = "transition" THEN EvaluateTransition(a, Evidence(a))
             ELSE EvaluateRange(a, Evidence(a))
<1>1. CASE a.assertion \in PointAssertions
  <2>1. PointEvidence(rows, a) = Evidence(a)
    BY <1>1, PointEvidenceIsWindow DEF Evidence, HasWindow
  <2>2. QED
    BY <1>1, <2>1, Zenon DEF Evaluated
<1>2. CASE a.assertion \notin PointAssertions
  <2>1. RangeEvidence(rows, a) = Evidence(a)
    BY RangeEvidenceIsWindow DEF Evidence
  <2>2. QED
    BY <1>2, <2>1, Zenon DEF Evaluated
<1>3. QED
  BY <1>1, <1>2

\* Every result counts the evidence.
LEMMA MakeResultIs ==
  ASSUME NEW evidence, NEW verdict, NEW violations, NEW first,
         NEW r, r = MakeResult(evidence, verdict, violations, first)
  PROVE  /\ r.verdict = verdict /\ r.violations = violations /\ r.firstFailure = first
         /\ r.valid = Count(evidence, "valid")
         /\ r.missing = Count(evidence, "missing")
         /\ r.invalid = Count(evidence, "invalid")
BY DEF MakeResult

LEMMA PointResult ==
  ASSUME NEW a, HasWindow(a), a.assertion \in PointAssertions,
         NEW r, r = Evaluated(rows, a)
  PROVE  /\ r.verdict = IF Refused(a) # {} THEN "fail"
                        ELSE IF a.from..a.until \subseteq Measured THEN "pass" ELSE "inconclusive"
         /\ r.violations = Cardinality(Refused(a))
         /\ r.firstFailure = IF Refused(a) = {} THEN None ELSE Min(Refused(a))
<1> DEFINE t == a.from
           sample == Evidence(a)[1]
           failed == sample.state = "valid" /\ ~Accepts(a, sample.value)
<1>1. t \in Nat /\ a.until = t
  BY DEF HasWindow
<1>2. 1 \in DOMAIN Evidence(a) /\ t + 1 - 1 = t
  <2>1. DOMAIN Evidence(a) = 1..a.until + 1 - a.from
    BY EvidenceIs
  <2>2. QED
    BY <1>1, <2>1
<1>3. /\ sample.tick = t
      /\ sample.state = "valid" <=> t \in Measured
      /\ t \in Measured => sample.value = rows[t][a.peripheral]
  BY <1>2, EvidenceIs
<1>4. t..t = {t}
  BY <1>1
<1>5. Refused(a) = IF failed THEN {t} ELSE {}
  BY <1>1, <1>3, <1>4 DEF Refused
<1>6. r = EvaluatePoint(a, Evidence(a))
  BY EvaluatedOnEvidence
<1>7. CASE failed
  <2>1. r = MakeResult(Evidence(a), "fail", 1, t)
    BY <1>3, <1>6, <1>7, Zenon DEF EvaluatePoint
  <2>2. Cardinality({t}) = 1 /\ Min({t}) = t /\ {t} # {}
    <3>1. {t} \in SUBSET Nat /\ \A y \in {t} : t <= y
      BY <1>1
    <3>2. QED
      BY <3>1, Fold!LeastIsMin, SameOperators, FS_Singleton
  <2>3. QED
    BY <1>5, <1>7, <2>1, <2>2, MakeResultIs
<1>8. CASE ~failed
  <2>1. r = MakeResult(Evidence(a), IF sample.state = "valid" THEN "pass" ELSE "inconclusive", 0, None)
    BY <1>6, <1>8, Zenon DEF EvaluatePoint
  <2>2. sample.state = "valid" <=> a.from..a.until \subseteq Measured
    BY <1>1, <1>3, <1>4
  <2> HIDE DEF sample, failed
  <2>3. QED
    BY <1>5, <1>8, <2>1, <2>2, MakeResultIs, FS_EmptySet
<1>9. QED
  BY <1>7, <1>8

LEMMA RangeResult ==
  ASSUME NEW a, HasWindow(a), a.assertion \notin PointAssertions, a.assertion # "transition",
         NEW r, r = Evaluated(rows, a)
  PROVE  /\ r.verdict = IF Refused(a) # {} THEN "fail"
                        ELSE IF a.from..a.until \subseteq Measured THEN "pass" ELSE "inconclusive"
         /\ r.violations = Cardinality(Refused(a))
         /\ r.firstFailure = IF Refused(a) = {} THEN None ELSE Min(Refused(a))
<1> DEFINE n == a.until + 1 - a.from
           K == {k \in 1..n : a.from + k - 1 \in Refused(a)}
           V == {k \in DOMAIN Evidence(a) :
                   Evidence(a)[k].state = "valid" /\ ~Accepts(a, Evidence(a)[k].value)}
<1>1. V = K
  BY ViolatingPositions
<1>2. Refused(a) \in SUBSET (a.from..a.until)
  BY DEF Refused
<1>3. IsFiniteSet(Refused(a)) /\ Cardinality(K) = Cardinality(Refused(a))
  BY <1>2, AsManyPositions
<1>4. Gaps(Evidence(a)) \in Nat /\ (Gaps(Evidence(a)) = 0 <=> a.from..a.until \subseteq Measured)
  BY NoGaps
<1>5. /\ Cardinality(Refused(a)) \in Nat
      /\ Cardinality(Refused(a)) = 0 <=> Refused(a) = {}
  BY <1>3, FS_CardinalityType, FS_EmptySet
<1>6. Refused(a) # {} => K # {} /\ Evidence(a)[Min(K)].tick = Min(Refused(a))
  <2> SUFFICES ASSUME Refused(a) # {} PROVE K # {} /\ Evidence(a)[Min(K)].tick = Min(Refused(a))
    OBVIOUS
  <2>1. Min(K) \in K /\ a.from + Min(K) - 1 = Min(Refused(a))
    BY <1>2, FirstPosition
  <2>2. Min(K) \in DOMAIN Evidence(a)
    BY <2>1, EvidenceIs
  <2>3. QED
    BY <2>1, <2>2, EvidenceIs
<1>7. r = EvaluateRange(a, Evidence(a))
  BY EvaluatedOnEvidence
<1>8. r = MakeResult(Evidence(a), RangeVerdict(Cardinality(V), Gaps(Evidence(a))), Cardinality(V),
                     IF V = {} THEN None ELSE Evidence(a)[Min(V)].tick)
  BY <1>7, Zenon DEF EvaluateRange
<1>9. Refused(a) = {} => K = {}
  OBVIOUS
<1> HIDE DEF V, K
<1>10. /\ r.verdict = RangeVerdict(Cardinality(Refused(a)), Gaps(Evidence(a)))
       /\ r.violations = Cardinality(Refused(a))
       /\ r.firstFailure = IF V = {} THEN None ELSE Evidence(a)[Min(V)].tick
  BY <1>1, <1>3, <1>8, MakeResultIs
<1>11. RangeVerdict(Cardinality(Refused(a)), Gaps(Evidence(a)))
         = IF Refused(a) # {} THEN "fail"
           ELSE IF a.from..a.until \subseteq Measured THEN "pass" ELSE "inconclusive"
  BY <1>4, <1>5 DEF RangeVerdict
<1>12. QED
  BY <1>1, <1>6, <1>9, <1>10, <1>11

\* A transition between two ticks that were both measured.
Crossing(a) ==
  \E t \in a.from..a.until - 1 :
    /\ t \in Measured /\ t + 1 \in Measured
    /\ rows[t][a.peripheral] = a.from_state /\ rows[t + 1][a.peripheral] = a.to_state

LEMMA TransitionResult ==
  ASSUME NEW a, HasWindow(a), a.assertion = "transition", NEW r, r = Evaluated(rows, a)
  PROVE  r.verdict = IF Crossing(a) THEN "pass"
                     ELSE IF a.from..a.until \subseteq Measured THEN "fail" ELSE "inconclusive"
<1> DEFINE n == a.until + 1 - a.from
           ev == Evidence(a)
<1>1. a.from \in Nat /\ a.until \in Nat /\ a.from <= a.until
  BY DEF HasWindow
<1>2. DOMAIN ev = 1..n /\ Len(ev) = n
  <2>1. DOMAIN ev = 1..n
    BY EvidenceIs
  <2>2. ev \in Seq(Range(ev))
    <3>1. ev \in [1..n -> Range(ev)]
      BY <2>1 DEF Evidence, Window, Range
    <3>2. QED
      BY <1>1, <3>1
  <2>3. QED
    BY <1>1, <2>1, <2>2
<1>3. ASSUME NEW k \in 1..n
      PROVE  /\ ev[k].state = "valid" <=> a.from + k - 1 \in Measured
             /\ a.from + k - 1 \in Measured => ev[k].value = rows[a.from + k - 1][a.peripheral]
  BY <1>2, EvidenceIs
<1> HIDE DEF ev
<1>4. TransitionSeen(a, ev) => Crossing(a)
  <2> SUFFICES ASSUME NEW k \in 1..Len(ev) - 1,
                      ev[k].state = "valid" /\ ev[k + 1].state = "valid",
                      ev[k].value = a.from_state /\ ev[k + 1].value = a.to_state
               PROVE  Crossing(a)
    BY DEF TransitionSeen
  <2> DEFINE t == a.from + k - 1
  <2>1. k \in 1..n /\ k + 1 \in 1..n /\ t \in a.from..a.until - 1 /\ a.from + (k + 1) - 1 = t + 1
    BY <1>1, <1>2
  <2>2. t \in Measured /\ ev[k].value = rows[t][a.peripheral]
    BY <1>3, <2>1
  <2>3. t + 1 \in Measured /\ ev[k + 1].value = rows[t + 1][a.peripheral]
    BY <1>3, <2>1
  <2> HIDE DEF t
  <2>4. QED
    BY <2>1, <2>2, <2>3 DEF Crossing
<1>5. Crossing(a) => TransitionSeen(a, ev)
  <2> SUFFICES ASSUME NEW t \in a.from..a.until - 1,
                      t \in Measured /\ t + 1 \in Measured,
                      rows[t][a.peripheral] = a.from_state,
                      rows[t + 1][a.peripheral] = a.to_state
               PROVE  TransitionSeen(a, ev)
    BY DEF Crossing
  <2> DEFINE k == t - a.from + 1
  <2>1. /\ k \in 1..n /\ k + 1 \in 1..n /\ k \in 1..Len(ev) - 1
        /\ a.from + k - 1 = t /\ a.from + (k + 1) - 1 = t + 1
    <3>1. t \in Nat /\ a.from <= t /\ t <= a.until - 1
      BY <1>1
    <3>2. k \in Nat /\ 1 <= k /\ k + 1 <= n
      BY <1>1, <3>1
    <3>3. k \in 1..n /\ k + 1 \in 1..n /\ k \in 1..n - 1
      BY <1>1, <3>2
    <3>4. a.from + k - 1 = t /\ a.from + (k + 1) - 1 = t + 1
      BY <1>1, <3>1
    <3> HIDE DEF k, n
    <3>5. QED
      BY <1>2, <3>3, <3>4
  <2> HIDE DEF k
  <2>2. ev[k].state = "valid" /\ ev[k].value = a.from_state
    BY <1>3, <2>1
  <2>3. ev[k + 1].state = "valid" /\ ev[k + 1].value = a.to_state
    BY <1>3, <2>1
  <2>4. QED
    BY <2>1, <2>2, <2>3 DEF TransitionSeen
<1>6. Gaps(ev) \in Nat /\ (Gaps(ev) = 0 <=> a.from..a.until \subseteq Measured)
  BY NoGaps DEF ev
<1>7. r = EvaluateTransition(a, ev)
  <2>1. "transition" \notin PointAssertions
    BY DEF PointAssertions
  <2>2. QED
    BY <2>1, EvaluatedOnEvidence DEF ev
<1>8. r.verdict = IF TransitionSeen(a, ev) THEN "pass"
                  ELSE IF Gaps(ev) > 0 THEN "inconclusive" ELSE "fail"
  BY <1>7, MakeResultIs DEF EvaluateTransition
<1>9. QED
  BY <1>4, <1>5, <1>6, <1>8

LEMMA CountsResult ==
  ASSUME NEW a, HasWindow(a), NEW r, r = Evaluated(rows, a)
  PROVE  /\ r.valid = Count(Evidence(a), "valid")
         /\ r.missing = Count(Evidence(a), "missing")
         /\ r.invalid = Count(Evidence(a), "invalid")
<1>1. CASE a.assertion \in PointAssertions
  BY <1>1, EvaluatedOnEvidence, MakeResultIs DEF EvaluatePoint
<1>2. CASE a.assertion = "transition"
  BY <1>2, EvaluatedOnEvidence, MakeResultIs DEF EvaluateTransition, PointAssertions
<1>3. CASE a.assertion \notin PointAssertions /\ a.assertion # "transition"
  <2>1. r = EvaluateRange(a, Evidence(a))
    BY <1>3, EvaluatedOnEvidence
  <2>2. \E verdict, violations, first : r = MakeResult(Evidence(a), verdict, violations, first)
    BY <2>1, Zenon DEF EvaluateRange
  <2>3. QED
    BY <2>2, MakeResultIs
<1>4. QED
  BY <1>1, <1>2, <1>3

-----------------------------------------------------------------------------
(* Verdicts and counts *)

\* One verdict is what its part of VerdictsAreProven says it is.
Proven(a, verdict) ==
  CASE verdict = "pass" -> \A run \in PossibleRuns : Holds(a, run)
    [] verdict = "fail" -> \A run \in PossibleRuns : ~Holds(a, run)
    [] OTHER -> /\ ~(a.from..a.until \subseteq Measured)
                /\ \/ a.assertion = "transition"
                   \/ \A t \in Measured \intersect (a.from..a.until) :
                        Accepts(a, rows[t][a.peripheral])

LEMMA VerdictIsProven ==
  ASSUME NEW a, HasWindow(a)
  PROVE  Proven(a, Evaluated(rows, a).verdict)
<1> DEFINE window == a.from..a.until
           verdict == Evaluated(rows, a).verdict
<1>1. a.from \in Nat /\ a.until \in Nat
  BY DEF HasWindow
<1>2. \A run \in PossibleRuns : \A t \in Measured : run[t] = rows[t]
  BY DEF PossibleRuns
<1>3. CASE a.assertion = "transition"
  <2>1. verdict = IF Crossing(a) THEN "pass"
                  ELSE IF window \subseteq Measured THEN "fail" ELSE "inconclusive"
    BY <1>3, TransitionResult
  <2>2. \A run : Holds(a, run)
          <=> \E t \in a.from..a.until - 1 :
                 run[t][a.peripheral] = a.from_state /\ run[t + 1][a.peripheral] = a.to_state
    BY <1>3 DEF Holds
  <2>3. ASSUME Crossing(a), NEW run \in PossibleRuns PROVE Holds(a, run)
    <3>1. PICK t \in a.from..a.until - 1 :
            /\ t \in Measured /\ t + 1 \in Measured
            /\ rows[t][a.peripheral] = a.from_state
            /\ rows[t + 1][a.peripheral] = a.to_state
      BY <2>3 DEF Crossing
    <3>2. run[t] = rows[t] /\ run[t + 1] = rows[t + 1]
      BY <1>2, <3>1
    <3>3. QED
      BY <2>2, <3>1, <3>2
  <2>4. ASSUME ~Crossing(a), window \subseteq Measured, NEW run \in PossibleRuns,
               Holds(a, run)
        PROVE  FALSE
    <3>1. PICK t \in a.from..a.until - 1 :
            run[t][a.peripheral] = a.from_state /\ run[t + 1][a.peripheral] = a.to_state
      BY <2>2, <2>4
    <3>2. t \in window /\ t + 1 \in window
      BY <1>1
    <3>3. run[t] = rows[t] /\ run[t + 1] = rows[t + 1]
      BY <1>2, <2>4, <3>2
    <3>4. QED
      BY <2>4, <3>1, <3>2, <3>3 DEF Crossing
  <2> HIDE DEF verdict, window
  <2>5. QED
    BY <1>3, <2>1, <2>3, <2>4 DEF Proven, window, verdict
<1>4. CASE a.assertion # "transition"
  <2>1. verdict = IF Refused(a) # {} THEN "fail"
                  ELSE IF window \subseteq Measured THEN "pass" ELSE "inconclusive"
    BY <1>4, PointResult, RangeResult
  <2>2. \A run : Holds(a, run) <=> \A t \in window : Accepts(a, run[t][a.peripheral])
    BY <1>4 DEF Holds
  <2>3. ASSUME Refused(a) # {}, NEW run \in PossibleRuns PROVE ~Holds(a, run)
    <3>1. PICK t \in window \intersect Measured : ~Accepts(a, rows[t][a.peripheral])
      BY <2>3 DEF Refused
    <3>2. run[t] = rows[t]
      BY <1>2
    <3>3. QED
      BY <2>2, <3>1, <3>2
  <2>4. ASSUME Refused(a) = {}
        PROVE  \A t \in Measured \intersect window : Accepts(a, rows[t][a.peripheral])
    BY <2>4 DEF Refused
  <2>5. ASSUME Refused(a) = {}, window \subseteq Measured, NEW run \in PossibleRuns
        PROVE  Holds(a, run)
    BY <1>2, <2>2, <2>4, <2>5
  <2> HIDE DEF verdict, window
  <2>6. QED
    BY <2>1, <2>3, <2>4, <2>5 DEF Proven, window, verdict
<1>5. QED
  BY <1>3, <1>4

\* The numbers of one result, as CountsAreTrue has them.
Counted(a, r) ==
  LET window == a.from..a.until
  IN  /\ r.valid = Cardinality(window \intersect Measured)
      /\ r.missing = Cardinality(window \ DOMAIN rows)
      /\ r.invalid = Cardinality(window \intersect (DOMAIN rows \ Measured))
      /\ a.assertion # "transition" =>
           /\ r.violations = Cardinality(Refused(a))
           /\ r.firstFailure = IF Refused(a) = {} THEN None ELSE Min(Refused(a))

LEMMA ResultIsCounted ==
  ASSUME NEW a, HasWindow(a)
  PROVE  Counted(a, Evaluated(rows, a))
<1> DEFINE r == Evaluated(rows, a)
           window == a.from..a.until
<1>1. /\ r.valid = Cardinality(window \intersect Measured)
      /\ r.missing = Cardinality(window \ DOMAIN rows)
      /\ r.invalid = Cardinality(window \intersect (DOMAIN rows \ Measured))
  BY CountsOf, CountsResult
<1>2. ASSUME a.assertion # "transition"
      PROVE  /\ r.violations = Cardinality(Refused(a))
             /\ r.firstFailure = IF Refused(a) = {} THEN None ELSE Min(Refused(a))
  BY <1>2, PointResult, RangeResult
<1> HIDE DEF r
<1>3. QED
  BY <1>1, <1>2, Zenon DEF Counted, r

-----------------------------------------------------------------------------
(* What a report rests on *)

LEMMA MakeResultVerdict ==
  ASSUME NEW evidence, NEW verdict, NEW violations, NEW first
  PROVE  MakeResult(evidence, verdict, violations, first).verdict = verdict
BY DEF MakeResult

\* Every handler gives one of the three verdicts.
LEMMA EvaluatedVerdict ==
  ASSUME NEW captured, NEW a
  PROVE  Evaluated(captured, a).verdict \in Verdicts
<1>1. \A evidence : EvaluatePoint(a, evidence).verdict \in Verdicts
  BY MakeResultVerdict DEF EvaluatePoint, Verdicts
<1>2. \A evidence : EvaluateRange(a, evidence).verdict \in Verdicts
  <2>1. \A violations, gaps : RangeVerdict(violations, gaps) \in Verdicts
    BY DEF RangeVerdict, Verdicts
  <2>2. QED
    BY <2>1, MakeResultVerdict DEF EvaluateRange
<1>3. \A evidence : EvaluateTransition(a, evidence).verdict \in Verdicts
  BY MakeResultVerdict DEF EvaluateTransition, Verdicts
<1>4. QED
  BY <1>1, <1>2, <1>3 DEF Evaluated

\* The verdict of a report on the results.
Reported == OverallVerdict({results[k].verdict : k \in DOMAIN results})

\* The status that was read is the status, a status of complete counts every tick, and a
\* report is on all of the results.
HealthInv ==
  /\ status = "complete" => DOMAIN rows = Ticks
  /\ metadata # None => metadata = status
  /\ report # None =>
       metadata # None /\ Len(results) = Len(assertions) /\ report = Reported

LEMMA InitIsHealthy == Init => HealthInv
<1> SUFFICES ASSUME Init PROVE HealthInv
  OBVIOUS
<1>1. status = "in_progress" /\ metadata = None /\ report = None
  BY DEF Init
<1>2. QED
  BY <1>1 DEF HealthInv

\* Before the call has read a status there is no report.
LEMMA WritingIsHealthy ==
  ASSUME StandInv, HealthInv, status = "in_progress",
         status' = "complete" => DOMAIN rows' = Ticks,
         UNCHANGED <<metadata, report>>
  PROVE  HealthInv'
<1>1. metadata = None /\ report = None
  BY DEF StandInv, HealthInv
<1>2. QED
  BY <1>1 DEF HealthInv

LEMMA NextIsHealthy == StandInv /\ HealthInv /\ [Next]_vars => HealthInv'
<1> SUFFICES ASSUME StandInv, HealthInv, [Next]_vars PROVE HealthInv'
  OBVIOUS
<1> USE DEF HealthInv
<1>1. ASSUME NEW tick \in Ticks, NEW row \in Rows \union {Problem}, StoreRow(tick, row)
      PROVE  HealthInv'
  BY <1>1, WritingIsHealthy DEF StoreRow
<1>2. ASSUME NEW recoverable \in BOOLEAN, StoreError(recoverable) PROVE HealthInv'
  BY <1>2, WritingIsHealthy DEF StoreError
<1>3. ASSUME NEW requested \in FinalStatuses \union {None}, Finalize(requested)
      PROVE  HealthInv'
  <2>1. status = "in_progress" /\ UNCHANGED <<rows, metadata, report>>
    BY <1>3 DEF Finalize
  <2>2. status' = "complete" => DOMAIN rows = Ticks
    BY <1>3 DEF Finalize
  <2>3. QED
    BY <2>1, <2>2, WritingIsHealthy
<1>4. CASE Begin
  BY <1>4 DEF Begin
<1>5. CASE EvaluateNext
  <2>1. Len(results) < Len(assertions) /\ Len(results) \in Nat /\ Len(assertions) \in Nat
    BY <1>5, AssertionSetIsSequence DEF EvaluateNext, StandInv
  <2>2. report = None
    BY <2>1
  <2>3. QED
    BY <1>5, <2>2 DEF EvaluateNext
<1>6. CASE Return
  <2>1. Reported' = Reported /\ report' = Reported
    BY <1>6 DEF Return, Reported, OverallVerdict
  <2>2. QED
    BY <1>6, <2>1 DEF Return
<1>7. CASE UNCHANGED vars
  <2>1. Reported' = Reported
    BY <1>7 DEF vars, Reported, OverallVerdict
  <2>2. QED
    BY <1>7, <2>1 DEF vars
<1>8. QED
  BY <1>1, <1>2, <1>3, <1>4, <1>5, <1>6, <1>7 DEF Next

\* What a report says of the verdicts the assertions get now.
LEMMA ReportRests ==
  ASSUME StandInv, HealthInv, report # None
  PROVE  LET verdict(k) == Evaluated(rows, assertions[k]).verdict IN
         /\ status = "complete" => DOMAIN rows = Ticks
         /\ DOMAIN assertions = 1..Len(assertions)
         /\ \A k \in DOMAIN assertions : verdict(k) \in Verdicts
         /\ report = "pass" =>
              /\ status = "complete" /\ FALSE \notin errors /\ assertions # <<>>
              /\ \A k \in DOMAIN assertions : verdict(k) = "pass"
         /\ report = "fail" => \E k \in DOMAIN assertions : verdict(k) = "fail"
         /\ report = "inconclusive" =>
              \/ assertions = <<>> \/ status # "complete" \/ FALSE \in errors
              \/ \E k \in DOMAIN assertions : verdict(k) = "inconclusive"
<1> DEFINE verdict(k) == Evaluated(rows, assertions[k]).verdict
           verdicts == {verdict(k) : k \in DOMAIN assertions}
<1>1. /\ metadata = status /\ report = Reported
      /\ Len(results) = Len(assertions)
      /\ status = "complete" => DOMAIN rows = Ticks
  BY DEF HealthInv
<1>2. assertions \in Seq(Range(assertions)) /\ DOMAIN assertions = 1..Len(assertions)
  BY AssertionSetIsSequence DEF StandInv
<1>3. DOMAIN results = DOMAIN assertions
  BY <1>1, <1>2 DEF StandInv
<1>4. {results[k].verdict : k \in DOMAIN results} = verdicts
  BY <1>1, <1>2, <1>3 DEF StandInv
<1>5. \A k \in DOMAIN assertions : verdict(k) \in Verdicts
  BY EvaluatedVerdict
<1>6. report = OverallVerdict(verdicts)
  BY <1>1, <1>4, Zenon DEF Reported
<1>7. verdicts = {} <=> assertions = <<>>
  <2>1. verdicts = {} <=> DOMAIN assertions = {}
    OBVIOUS
  <2>2. Len(assertions) \in Nat /\ (assertions = <<>> <=> Len(assertions) = 0)
    BY <1>2, EmptySeq
  <2>3. 1..Len(assertions) = {} <=> Len(assertions) = 0
    BY <2>2
  <2> HIDE DEF verdicts
  <2>4. QED
    BY <1>2, <2>1, <2>2, <2>3
<1> HIDE DEF verdict
<1>8. "pass" # "fail" /\ "pass" # "inconclusive" /\ "fail" # "inconclusive"
  OBVIOUS
<1>9. report = "pass" =>
        /\ status = "complete" /\ FALSE \notin errors /\ verdicts # {}
        /\ "fail" \notin verdicts /\ "inconclusive" \notin verdicts
  BY <1>1, <1>6 DEF OverallVerdict
<1>10. report = "fail" => "fail" \in verdicts
  BY <1>6 DEF OverallVerdict
<1>11. report = "inconclusive" =>
         \/ verdicts = {} \/ "inconclusive" \in verdicts
         \/ status # "complete" \/ FALSE \in errors
  BY <1>1, <1>6 DEF OverallVerdict
<1>12. report = "pass" => \A k \in DOMAIN assertions : verdict(k) = "pass"
  BY <1>5, <1>9 DEF Verdicts
<1>13. QED
  BY <1>1, <1>2, <1>5, <1>7, <1>9, <1>10, <1>11, <1>12 DEF verdict

\* A report passes only a capture that has every tick and no error the rig could not recover
\* from, and only if there are assertions and each of them, evaluated now, passes.
PassesAreWhole ==
  report = "pass" =>
    /\ DOMAIN rows = Ticks /\ FALSE \notin errors
    /\ assertions # <<>>
    /\ \A k \in DOMAIN assertions : Evaluated(rows, assertions[k]).verdict = "pass"

LEMMA HealthImplies == StandInv /\ HealthInv => PassesAreWhole
<1> SUFFICES ASSUME StandInv, HealthInv, report = "pass" PROVE PassesAreWhole
  BY DEF PassesAreWhole
<1>1. report # None
  BY EvaluationAssumption DEF Verdicts
<1>2. QED
  BY <1>1, ReportRests DEF PassesAreWhole

\* AssertionEvaluator.evaluate() passes a run only on a capture that has every tick, is not
\* written to, holds no unrecoverable error, and satisfies every assertion of a set that is
\* not empty: _overall_verdict and the order in which its inputs are read.
THEOREM PassesRestOnTheWhole == Spec => []PassesAreWhole
<1>1. QED
  BY InitStands, NextStands, InitIsHealthy, NextIsHealthy, HealthImplies, PTL DEF Spec

-----------------------------------------------------------------------------
(* What the results and the report say is true *)

LEMMA AssertionsHaveWindows ==
  ASSUME assertions \in AssertionSets, NEW k \in 1..Len(assertions)
  PROVE  HasWindow(assertions[k])
<1>1. assertions \in Seq(Range(assertions)) /\ \A a \in Range(assertions) : HasWindow(a)
  BY EvaluationAssumption
<1>2. assertions[k] \in Range(assertions)
  BY <1>1
<1>3. QED
  BY <1>1, <1>2

LEMMA StandIsProven == StandInv => VerdictsAreProven
<1> SUFFICES ASSUME StandInv, NEW k \in DOMAIN results
             PROVE  Proven(assertions[k], results[k].verdict)
  BY DEF VerdictsAreProven, Proven
<1>1. k \in 1..Len(results) /\ k \in 1..Len(assertions)
  BY AssertionSetIsSequence DEF StandInv
<1>2. results[k] = Evaluated(rows, assertions[k]) /\ HasWindow(assertions[k])
  BY <1>1, AssertionsHaveWindows DEF StandInv
<1>3. QED
  BY <1>2, VerdictIsProven

LEMMA StandIsCounted == StandInv => CountsAreTrue
<1> SUFFICES ASSUME StandInv, NEW k \in DOMAIN results
             PROVE  Counted(assertions[k], results[k])
  BY Zenon DEF CountsAreTrue, Counted, Refused
<1>1. k \in 1..Len(results) /\ k \in 1..Len(assertions)
  BY AssertionSetIsSequence DEF StandInv
<1>2. results[k] = Evaluated(rows, assertions[k]) /\ HasWindow(assertions[k])
  BY <1>1, AssertionsHaveWindows DEF StandInv
<1>3. QED
  BY <1>2, ResultIsCounted

LEMMA HealthIsSound == StandInv /\ HealthInv => ReportIsSound
<1> SUFFICES ASSUME StandInv, HealthInv, report \in Verdicts PROVE ReportIsSound
  BY DEF ReportIsSound, Verdicts
<1> DEFINE verdict(k) == Evaluated(rows, assertions[k]).verdict
<1>1. report # None
  BY EvaluationAssumption
<1>2. DOMAIN assertions = 1..Len(assertions)
  BY <1>1, ReportRests
<1>3. ASSUME NEW k \in DOMAIN assertions PROVE Proven(assertions[k], verdict(k))
  <2>1. HasWindow(assertions[k])
    BY <1>2, AssertionsHaveWindows DEF StandInv
  <2>2. QED
    BY <2>1, VerdictIsProven
<1> HIDE DEF verdict
<1>4. ASSUME NEW k \in DOMAIN assertions
      PROVE  /\ verdict(k) = "pass" => \A run \in PossibleRuns : Holds(assertions[k], run)
             /\ verdict(k) = "fail" => \A run \in PossibleRuns : ~Holds(assertions[k], run)
             /\ verdict(k) = "inconclusive" =>
                  ~(assertions[k].from..assertions[k].until \subseteq Measured)
  BY <1>3, Zenon DEF Proven
<1>5. report = "pass" =>
        /\ assertions # <<>> /\ DOMAIN rows = Ticks /\ FALSE \notin errors
        /\ \A k \in DOMAIN assertions : \A run \in PossibleRuns : Holds(assertions[k], run)
  BY <1>1, <1>4, ReportRests DEF verdict
<1>6. report = "fail" =>
        \E k \in DOMAIN assertions : \A run \in PossibleRuns : ~Holds(assertions[k], run)
  BY <1>1, <1>4, ReportRests DEF verdict
<1>7. report = "inconclusive" =>
        \/ assertions = <<>> \/ status # "complete" \/ FALSE \in errors
        \/ \E k \in DOMAIN assertions :
             ~(assertions[k].from..assertions[k].until \subseteq Measured)
  BY <1>1, <1>4, ReportRests DEF verdict
<1>8. QED
  BY <1>5, <1>6, <1>7 DEF ReportIsSound

\* A PASS of the evaluators in evaluation/ (digital, analogue, PWM) holds of every run that
\* agrees with what was measured, a FAIL of none, and only a gap in the window makes a result
\* inconclusive: for every capture, window and assertion.
THEOREM EveryVerdictIsProven == Spec => []VerdictsAreProven
<1>1. QED
  BY InitStands, NextStands, StandIsProven, PTL DEF Spec

\* _include_missing_ticks() and the counters of the evaluators account for every tick of an
\* assertion's window exactly once, and the first failing tick is the first that was refused.
THEOREM EveryTickIsCounted == Spec => []CountsAreTrue
<1>1. QED
  BY InitStands, NextStands, StandIsCounted, PTL DEF Spec

\* The report of AssertionEvaluator.evaluate() passes only a whole capture every assertion of
\* which holds of whatever run took place, and fails one only if an assertion holds of none.
THEOREM EveryReportIsSound == Spec => []ReportIsSound
<1>1. QED
  BY InitStands, NextStands, InitIsHealthy, NextIsHealthy, HealthIsSound, PTL DEF Spec

-----------------------------------------------------------------------------
(* There is a run to speak of *)

RowsInv ==
  /\ DOMAIN rows \subseteq Ticks
  /\ \A t \in DOMAIN rows : rows[t] \in Rows \union {Problem}

LEMMA InitHasRows == Init => RowsInv
BY DEF Init, RowsInv

LEMMA NextHasRows == RowsInv /\ [Next]_vars => RowsInv'
<1> SUFFICES ASSUME RowsInv, [Next]_vars PROVE RowsInv'
  OBVIOUS
<1>1. ASSUME NEW tick \in Ticks, NEW row \in Rows \union {Problem}, StoreRow(tick, row)
      PROVE  RowsInv'
  BY <1>1 DEF StoreRow, RowsInv
<1>2. CASE UNCHANGED rows
  BY <1>2 DEF RowsInv
<1>3. QED
  BY <1>1, <1>2 DEF Next, StoreError, Finalize, Begin, EvaluateNext, Return, vars

SomeRunIsPossible == PossibleRuns # {}

LEMMA RowsArePossible == RowsInv => SomeRunIsPossible
<1> SUFFICES ASSUME RowsInv PROVE PossibleRuns # {}
  BY DEF SomeRunIsPossible
<1>1. PICK any \in Rows : TRUE
  BY EvaluationAssumption
<1> DEFINE run == [t \in Ticks |-> IF t \in Measured THEN rows[t] ELSE any]
<1>2. \A t \in Measured : t \in Ticks /\ rows[t] \in Rows
  BY DEF Measured, RowsInv
<1>3. run \in [Ticks -> Rows] /\ \A t \in Measured : run[t] = rows[t]
  BY <1>1, <1>2
<1> HIDE DEF run
<1>4. QED
  BY <1>3 DEF PossibleRuns

\* Whatever has been stored, some run agrees with it: that PASS holds of every possible run
\* and FAIL of none is never said of no run at all, so no verdict is both.
THEOREM VerdictsSpeakOfSomeRun == Spec => []SomeRunIsPossible
<1>1. QED
  BY InitHasRows, NextHasRows, RowsArePossible, PTL DEF Spec
=============================================================================
