------------------------- MODULE TestDefinitionProofs -------------------------
(***************************************************************************)
(* The timestamps of a Test are converted once, at the frequency of the    *)
(* moment, and stay true: the frequency cannot change under them.  The run *)
(* of a compiled test goes on for a second after all of them.  And the     *)
(* sparse messages of its upload give every output at every tick what the  *)
(* calls of the user ask of it.                                            *)
(*                                                                         *)
(* The last is proved along the code's two loops.  StateAfter(v, c, S) is  *)
(* what a channel is after a set of instructions S, from their definition; *)
(* _apply_instruction takes it from S to S and one later instruction       *)
(* (ApplyStep), the group of a tick from before the tick to after it       *)
(* (GroupIsApplied), and the groups from one message to the next           *)
(* (SparseInstructionsAre).  FoldTheory says what FoldLeft computes.       *)
(***************************************************************************)
EXTENDS TestDefinition, FiniteSetTheorems, SequenceTheorems, TLAPS

Keeps(tick, moment, hertz) ==
  tick * TimesPerSecond = moment.value * (IF moment.unit = "tick" THEN TimesPerSecond ELSE hertz)

\* Everything stored keeps the time it was asked for; nothing is stored that has no type.
KeptInv ==
  /\ frequency \in Frequencies
  /\ instructions \in Seq(Instructions)
  /\ assertions \in Seq(Assertions)
  /\ \A k \in 1..Len(instructions) :
       Keeps(instructions[k].tick, instructions[k].asked, frequency)
  /\ \A k \in 1..Len(assertions) :
       /\ Keeps(assertions[k].from, assertions[k].asked[1], frequency)
       /\ Keeps(assertions[k].until, assertions[k].asked[2], frequency)
  /\ compiled # None => compiled.frequency = frequency

-----------------------------------------------------------------------------
(* Conversion *)

LEMMA WholeQuotient ==
  ASSUME NEW m \in Nat, NEW t \in Nat \ {0}, m % t = 0
  PROVE  m \div t \in Nat /\ (m \div t) * t = m
<1>1. m = t * (m \div t) + (m % t) /\ m \div t \in Nat
  OBVIOUS
<1>2. QED
  BY <1>1

\* resolve_timestamp (timing.py) gives a tick, and the tick is the time that was asked for.
LEMMA ResolvedTimesKeep ==
  ASSUME NEW moment \in Moments, NEW hertz \in Frequencies, Aligned(moment, hertz)
  PROVE  /\ ResolveTimestamp(moment, hertz) \in Nat
         /\ Keeps(ResolveTimestamp(moment, hertz), moment, hertz)
<1>1. /\ moment.value \in Nat /\ hertz \in Nat /\ TimesPerSecond \in Nat \ {0}
  BY DefinitionAssumption
<1>2. CASE moment.unit = "tick"
  BY <1>1, <1>2 DEF ResolveTimestamp, Keeps
<1>3. CASE moment.unit # "tick"
  <2> DEFINE m == moment.value * hertz
  <2>1. m \in Nat
    BY <1>1
  <2>2. m % TimesPerSecond = 0
    BY <1>3 DEF Aligned
  <2>3. ResolveTimestamp(moment, hertz) = m \div TimesPerSecond
    BY <1>3 DEF ResolveTimestamp
  <2> HIDE DEF m
  <2>4. m \div TimesPerSecond \in Nat /\ (m \div TimesPerSecond) * TimesPerSecond = m
    BY <1>1, <2>1, <2>2, WholeQuotient
  <2>5. Keeps(m \div TimesPerSecond, moment, hertz)
    BY <1>3, <2>4 DEF Keeps, m
  <2>6. QED
    BY <2>3, <2>4, <2>5
<1>4. QED
  BY <1>2, <1>3

-----------------------------------------------------------------------------
(* Sequences *)

LEMMA AppendKeeps ==
  ASSUME NEW S, NEW s \in Seq(S), NEW e \in S
  PROVE  /\ Append(s, e) \in Seq(S)
         /\ Len(Append(s, e)) = Len(s) + 1 /\ Len(s) \in Nat
         /\ \A k \in 1..Len(s) : Append(s, e)[k] = s[k]
         /\ Append(s, e)[Len(s) + 1] = e
OBVIOUS

LEMMA ActionsAreTyped ==
  ASSUME NEW c \in Channels, NEW action \in Actions(c)
  PROVE  action \in DigitalActions \union PwmActions \union AnalogueActions \union UARTActions
                    \union UNION {I2CActions(r) \union SPIActions(r) : r \in {"master", "slave"}}
<1>1. action \in DigitalActions \/ action \in PwmActions \/ action \in AnalogueActions
      \/ action \in I2CActions(channels[c]) \/ action \in SPIActions(channels[c])
      \/ action \in UARTActions
  BY DEF Actions
<1>2. I2CActions(channels[c]) \in {I2CActions("master"), I2CActions("slave")}
  BY DEF I2CActions
<1>3. SPIActions(channels[c]) \in {SPIActions("master"), SPIActions("slave")}
  BY DEF SPIActions
<1>4. QED
  BY <1>1, <1>2, <1>3

-----------------------------------------------------------------------------
(* Every call keeps them *)

LEMMA InitKeeps == Init => KeptInv
<1> SUFFICES ASSUME Init PROVE KeptInv
  OBVIOUS
<1>1. instructions = <<>> /\ assertions = <<>> /\ compiled = None
      /\ frequency \in Frequencies
  BY DefinitionAssumption DEF Init
<1>2. Len(instructions) = 0 /\ Len(assertions) = 0
  BY <1>1
<1>3. QED
  BY <1>1, <1>2 DEF KeptInv

LEMMA ConfigureKeeps ==
  ASSUME KeptInv, NEW mode \in Frequencies, Configure(mode)
  PROVE  KeptInv'
<1>1. instructions' = <<>> /\ assertions' = <<>> /\ compiled' = None /\ frequency' = mode
  BY DEF Configure, Mutable
<1>2. Len(instructions') = 0 /\ Len(assertions') = 0
  BY <1>1
<1>3. QED
  BY <1>1, <1>2 DEF KeptInv

LEMMA ScheduleKeeps ==
  ASSUME KeptInv, NEW c \in Channels, NEW action \in Actions(c), NEW moment \in Moments,
         Schedule(c, action, moment)
  PROVE  KeptInv'
<1> DEFINE tick == ResolveTimestamp(moment, frequency)
           i == [id |-> Len(instructions), tick |-> tick,
                 channel |-> c, action |-> action, asked |-> moment]
<1>1. tick \in Nat /\ Keeps(tick, moment, frequency)
  BY ResolvedTimesKeep DEF Schedule, KeptInv
<1>2. instructions' = Append(instructions, i)
  BY DEF Schedule
<1>3. i \in Instructions
  <2>1. Len(instructions) \in Nat
    BY DEF KeptInv
  <2>2. QED
    BY <1>1, <2>1, ActionsAreTyped DEF Instructions
<1>4. i.tick = tick /\ i.asked = moment
  OBVIOUS
<1> HIDE DEF i, tick
<1>5. instructions \in Seq(Instructions)
  BY DEF KeptInv
<1>6. /\ instructions' \in Seq(Instructions)
      /\ Len(instructions') = Len(instructions) + 1 /\ Len(instructions) \in Nat
      /\ \A k \in 1..Len(instructions) : instructions'[k] = instructions[k]
      /\ instructions'[Len(instructions) + 1] = i
  BY <1>2, <1>3, <1>5, AppendKeeps
<1>7. \A k \in 1..Len(instructions') :
        Keeps(instructions'[k].tick, instructions'[k].asked, frequency)
  BY <1>1, <1>4, <1>6 DEF KeptInv
<1>8. /\ frequency' = frequency /\ assertions' = assertions /\ compiled' = compiled
  BY DEF Schedule
<1>9. QED
  BY <1>6, <1>7, <1>8 DEF KeptInv

LEMMA AddAssertionKeeps ==
  ASSUME KeptInv, NEW c \in Channels, NEW start \in Moments, NEW end \in Moments,
         AddAssertion(c, start, end)
  PROVE  KeptInv'
<1> DEFINE from == ResolveTimestamp(start, frequency)
           until == ResolveTimestamp(end, frequency)
           a == [id |-> Len(assertions), channel |-> c, from |-> from, until |-> until,
                 asked |-> <<start, end>>]
<1>1. from \in Nat /\ Keeps(from, start, frequency)
  BY ResolvedTimesKeep DEF AddAssertion, KeptInv
<1>2. until \in Nat /\ Keeps(until, end, frequency)
  BY ResolvedTimesKeep DEF AddAssertion, KeptInv
<1>3. assertions' = Append(assertions, a)
  BY DEF AddAssertion
<1>4. a \in Assertions
  <2>1. Len(assertions) \in Nat
    BY DEF KeptInv
  <2>2. QED
    BY <1>1, <1>2, <2>1 DEF Assertions
<1>5. a.from = from /\ a.until = until /\ a.asked[1] = start /\ a.asked[2] = end
  OBVIOUS
<1> HIDE DEF a, from, until
<1>6. assertions \in Seq(Assertions)
  BY DEF KeptInv
<1>7. /\ assertions' \in Seq(Assertions)
      /\ Len(assertions') = Len(assertions) + 1 /\ Len(assertions) \in Nat
      /\ \A k \in 1..Len(assertions) : assertions'[k] = assertions[k]
      /\ assertions'[Len(assertions) + 1] = a
  BY <1>3, <1>4, <1>6, AppendKeeps
<1>8. \A k \in 1..Len(assertions') :
        /\ Keeps(assertions'[k].from, assertions'[k].asked[1], frequency)
        /\ Keeps(assertions'[k].until, assertions'[k].asked[2], frequency)
  BY <1>1, <1>2, <1>5, <1>7 DEF KeptInv
<1>9. /\ frequency' = frequency /\ instructions' = instructions /\ compiled' = compiled
  BY DEF AddAssertion
<1>10. QED
  BY <1>7, <1>8, <1>9 DEF KeptInv

LEMMA CompileKeeps ==
  ASSUME KeptInv, Compile
  PROVE  KeptInv'
<1>1. compiled'.frequency = frequency
  BY DEF Compile, CompileTest
<1>2. UNCHANGED <<frequency, instructions, assertions>>
  BY DEF Compile, definition
<1>3. QED
  BY <1>1, <1>2 DEF KeptInv

LEMMA NextKeeps == KeptInv /\ [Next]_vars => KeptInv'
<1> SUFFICES ASSUME KeptInv, [Next]_vars PROVE KeptInv'
  OBVIOUS
<1>1. ASSUME NEW mode \in Frequencies, Configure(mode) PROVE KeptInv'
  BY <1>1, ConfigureKeeps
<1>2. ASSUME NEW c \in Channels, NEW configuration \in ChannelConfigurations(KindOf[c]),
             ConfigureChannel(c, configuration)
      PROVE  KeptInv'
  BY <1>2 DEF ConfigureChannel, KeptInv
<1>3. ASSUME NEW c \in Channels, NEW action \in Actions(c), NEW moment \in Moments,
             Schedule(c, action, moment)
      PROVE  KeptInv'
  BY <1>3, ScheduleKeeps
<1>4. ASSUME NEW c \in Channels, NEW start \in Moments, NEW end \in Moments,
             AddAssertion(c, start, end)
      PROVE  KeptInv'
  BY <1>4, AddAssertionKeeps
<1>5. CASE Compile
  BY <1>5, CompileKeeps
<1>6. CASE BuildUpload
  BY <1>6 DEF BuildUpload, definition, KeptInv
<1>7. CASE UNCHANGED vars
  BY <1>7 DEF vars, definition, KeptInv
<1>8. QED
  BY <1>1, <1>2, <1>3, <1>4, <1>5, <1>6, <1>7 DEF Next

LEMMA KeptImplies == KeptInv => TimesAreKept
<1> SUFFICES ASSUME KeptInv PROVE TimesAreKept
  OBVIOUS
<1>1. DOMAIN instructions = 1..Len(instructions) /\ DOMAIN assertions = 1..Len(assertions)
  BY DEF KeptInv
<1>2. \A i \in ToSet(instructions) : Keeps(i.tick, i.asked, frequency)
  BY <1>1 DEF ToSet, KeptInv
<1>3. \A a \in ToSet(assertions) :
        Keeps(a.from, a.asked[1], frequency) /\ Keeps(a.until, a.asked[2], frequency)
  BY <1>1 DEF ToSet, KeptInv
<1>4. compiled # None => compiled.frequency = frequency
  BY DEF KeptInv
<1>5. QED
  BY <1>2, <1>3, <1>4 DEF TimesAreKept, Keeps

\* Whatever the calls of the user and their order (api.py, timing.py), every stored tick means
\* the time that was asked for, at the frequency of the test and of its compiled plan.
THEOREM TimesStayTrue == Spec => []TimesAreKept
<1>1. QED
  BY InitKeeps, NextKeeps, KeptImplies, PTL DEF Spec

-----------------------------------------------------------------------------
(* The length of the run *)

\* The ticks that compile() waits for (compiler.py, _expected_tick_count).
Relevant ==
  {0} \union {i.tick : i \in ToSet(instructions)} \union {a.until : a \in ToSet(assertions)}

\* There is a latest of them, and a compiled plan waits for all of them.
CoverInv ==
  /\ Relevant \subseteq Nat
  /\ \E last \in Relevant : \A tick \in Relevant : last >= tick
  /\ compiled # None =>
       \A tick \in Relevant : tick + frequency < compiled.expectedTickCount

LEMMA LatestOfMore ==
  ASSUME NEW S \in SUBSET Nat, NEW m \in S, \A s \in S : m >= s, NEW t \in Nat
  PROVE  \E n \in S \union {t} : \A s \in S \union {t} : n >= s
<1>1. CASE m >= t
  BY <1>1
<1>2. CASE ~(m >= t)
  <2>1. m \in Nat /\ t >= m
    BY <1>2
  <2>2. \A s \in S \union {t} : t >= s
    BY <2>1
  <2>3. QED
    BY <2>2
<1>3. QED
  BY <1>1, <1>2

LEMMA ToSetOfAppend ==
  ASSUME NEW S, NEW s \in Seq(S), NEW e \in S
  PROVE  ToSet(Append(s, e)) = ToSet(s) \union {e}
<1>1. /\ DOMAIN s = 1..Len(s) /\ DOMAIN Append(s, e) = 1..Len(s) + 1 /\ Len(s) \in Nat
      /\ \A k \in 1..Len(s) : Append(s, e)[k] = s[k]
      /\ Append(s, e)[Len(s) + 1] = e
  OBVIOUS
<1>2. 1..Len(s) + 1 = (1..Len(s)) \union {Len(s) + 1}
  BY <1>1
<1>3. QED
  BY <1>1, <1>2 DEF ToSet

\* While the test is open, a call may add a tick to wait for.
LEMMA OneMoreCovers ==
  ASSUME CoverInv, compiled' = None, NEW tick \in Nat, Relevant' = Relevant \union {tick}
  PROVE  CoverInv'
<1>1. PICK last \in Relevant : \A t \in Relevant : last >= t
  BY DEF CoverInv
<1>2. Relevant \subseteq Nat
  BY DEF CoverInv
<1>3. \E n \in Relevant \union {tick} : \A s \in Relevant \union {tick} : n >= s
  BY <1>1, <1>2, LatestOfMore
<1>4. QED
  BY <1>2, <1>3 DEF CoverInv

LEMMA SameCovers ==
  ASSUME CoverInv, UNCHANGED <<instructions, assertions>>,
         compiled' = None \/ UNCHANGED <<compiled, frequency>>
  PROVE  CoverInv'
<1>1. Relevant' = Relevant
  BY DEF Relevant
<1>2. QED
  BY <1>1 DEF CoverInv

LEMMA InitCovers == Init => CoverInv
<1> SUFFICES ASSUME Init PROVE CoverInv
  OBVIOUS
<1>1. instructions = <<>> /\ assertions = <<>> /\ compiled = None
  BY DEF Init
<1>2. ToSet(instructions) = {} /\ ToSet(assertions) = {}
  BY <1>1 DEF ToSet
<1>3. Relevant = {0}
  BY <1>2 DEF Relevant
<1>4. QED
  BY <1>1, <1>3 DEF CoverInv

LEMMA ScheduleCovers ==
  ASSUME KeptInv, CoverInv, NEW c \in Channels, NEW action \in Actions(c),
         NEW moment \in Moments, Schedule(c, action, moment)
  PROVE  CoverInv'
<1> DEFINE tick == ResolveTimestamp(moment, frequency)
           i == [id |-> Len(instructions), tick |-> tick,
                 channel |-> c, action |-> action, asked |-> moment]
<1>1. tick \in Nat
  BY ResolvedTimesKeep DEF Schedule, KeptInv
<1>2. instructions' = Append(instructions, i) /\ assertions' = assertions /\ compiled' = None
  BY DEF Schedule, Mutable
<1>3. i \in Instructions
  <2>1. Len(instructions) \in Nat
    BY DEF KeptInv
  <2>2. QED
    BY <1>1, <2>1, ActionsAreTyped DEF Instructions
<1>4. i.tick = tick
  OBVIOUS
<1> HIDE DEF i, tick
<1>5. ToSet(instructions') = ToSet(instructions) \union {i}
  BY <1>2, <1>3, ToSetOfAppend DEF KeptInv
<1>6. Relevant' = Relevant \union {tick}
  BY <1>2, <1>4, <1>5 DEF Relevant
<1>7. QED
  BY <1>1, <1>2, <1>6, OneMoreCovers

LEMMA AddAssertionCovers ==
  ASSUME KeptInv, CoverInv, NEW c \in Channels, NEW start \in Moments, NEW end \in Moments,
         AddAssertion(c, start, end)
  PROVE  CoverInv'
<1> DEFINE from == ResolveTimestamp(start, frequency)
           until == ResolveTimestamp(end, frequency)
           a == [id |-> Len(assertions), channel |-> c, from |-> from, until |-> until,
                 asked |-> <<start, end>>]
<1>1. from \in Nat /\ until \in Nat
  BY ResolvedTimesKeep DEF AddAssertion, KeptInv
<1>2. assertions' = Append(assertions, a) /\ instructions' = instructions /\ compiled' = None
  BY DEF AddAssertion, Mutable
<1>3. a \in Assertions
  <2>1. Len(assertions) \in Nat
    BY DEF KeptInv
  <2>2. QED
    BY <1>1, <2>1 DEF Assertions
<1>4. a.until = until
  OBVIOUS
<1> HIDE DEF a, from, until
<1>5. ToSet(assertions') = ToSet(assertions) \union {a}
  BY <1>2, <1>3, ToSetOfAppend DEF KeptInv
<1>6. Relevant' = Relevant \union {until}
  BY <1>2, <1>4, <1>5 DEF Relevant
<1>7. QED
  BY <1>1, <1>2, <1>6, OneMoreCovers

LEMMA CompileCovers ==
  ASSUME KeptInv, CoverInv, Compile
  PROVE  CoverInv'
<1>1. PICK last \in Relevant : \A tick \in Relevant : last >= tick
  BY DEF CoverInv
<1> DEFINE latest == Max(Relevant)
<1>2. LatestRelevantTick = latest
  BY DEF LatestRelevantTick, Relevant
<1>3. latest \in Relevant /\ \A tick \in Relevant : latest >= tick
  BY <1>1 DEF Max
<1> HIDE DEF latest
<1>4. compiled'.expectedTickCount = latest + frequency + 1
  BY <1>2 DEF Compile, CompileTest, ExpectedTickCount
<1>5. frequency' = frequency /\ Relevant' = Relevant
  BY DEF Compile, definition, Relevant
<1>6. frequency \in Nat /\ Relevant \subseteq Nat
  BY DefinitionAssumption DEF KeptInv, CoverInv
<1>7. \A tick \in Relevant' : tick + frequency' < compiled'.expectedTickCount
  BY <1>3, <1>4, <1>5, <1>6
<1>8. QED
  BY <1>5, <1>6, <1>7, <1>1 DEF CoverInv

LEMMA NextCovers == KeptInv /\ CoverInv /\ [Next]_vars => CoverInv'
<1> SUFFICES ASSUME KeptInv, CoverInv, [Next]_vars PROVE CoverInv'
  OBVIOUS
<1>1. ASSUME NEW mode \in Frequencies, Configure(mode) PROVE CoverInv'
  BY <1>1, SameCovers DEF Configure, Mutable
<1>2. ASSUME NEW c \in Channels, NEW configuration \in ChannelConfigurations(KindOf[c]),
             ConfigureChannel(c, configuration)
      PROVE  CoverInv'
  BY <1>2, SameCovers DEF ConfigureChannel
<1>3. ASSUME NEW c \in Channels, NEW action \in Actions(c), NEW moment \in Moments,
             Schedule(c, action, moment)
      PROVE  CoverInv'
  BY <1>3, ScheduleCovers
<1>4. ASSUME NEW c \in Channels, NEW start \in Moments, NEW end \in Moments,
             AddAssertion(c, start, end)
      PROVE  CoverInv'
  BY <1>4, AddAssertionCovers
<1>5. CASE Compile
  BY <1>5, CompileCovers
<1>6. CASE BuildUpload
  BY <1>6, SameCovers DEF BuildUpload, definition
<1>7. CASE UNCHANGED vars
  BY <1>7, SameCovers DEF vars, definition
<1>8. QED
  BY <1>1, <1>2, <1>3, <1>4, <1>5, <1>6, <1>7 DEF Next

LEMMA CoverImplies == CoverInv => RunCoversDefinition
BY DEF CoverInv, Relevant, RunCoversDefinition

\* Whatever was scheduled and asserted, in whatever order (compiler.py, _expected_tick_count),
\* a compiled run lasts for a second after its last stimulus and its last assertion.
THEOREM RunsCoverDefinitions == Spec => []RunCoversDefinition
<1>1. QED
  BY InitKeeps, NextKeeps, InitCovers, NextCovers, CoverImplies, PTL DEF Spec

-----------------------------------------------------------------------------
(* What the operators of sequences and sets compute here *)

Applying == INSTANCE FoldTheory WITH op <- ApplyInstruction
Emitting == INSTANCE FoldTheory WITH op <- Emit

\* The operators that the instances bring along are those of this module.
LEMMA SameOperators ==
  /\ \A S : Applying!IsFiniteSet(S) = IsFiniteSet(S) /\ Applying!Cardinality(S) = Cardinality(S)
  /\ \A S : Applying!Max(S) = Max(S)
  /\ \A S : Applying!Ascending(S) = Ascending(S)
  /\ \A base, seq, n : DOMAIN seq = 1..n =>
       FoldLeft(ApplyInstruction, base, seq) = Applying!Folded(n, base, seq)
  /\ \A base, seq, n : DOMAIN seq = 1..n =>
       FoldLeft(Emit, base, seq) = Emitting!Folded(n, base, seq)
<1>1. \A S : Applying!IsFiniteSet(S) = IsFiniteSet(S)
  BY DEF IsFiniteSet, Applying!IsFiniteSet
<1>2. \A S : Applying!Cardinality(S) = Cardinality(S)
  BY DEF Cardinality, Applying!Cardinality, IsFiniteSet, Applying!IsFiniteSet
<1>3. \A S : Applying!Max(S) = Max(S)
  BY DEF Max, Applying!Max
<1>4. \A S : Emitting!Max(S) = Max(S)
  BY DEF Max, Emitting!Max
<1>5. \A S : Applying!Ascending(S) = Ascending(S)
  BY <1>2, Zenon DEF Ascending, Applying!Ascending, InOrder, Applying!InOrder
<1>6. \A base, seq, n : DOMAIN seq = 1..n =>
        FoldLeft(ApplyInstruction, base, seq) = Applying!Folded(n, base, seq)
  BY <1>3, Zenon DEF FoldLeft, MapThenFoldSet, Applying!Folded, Applying!Iterates
<1>7. \A base, seq, n : DOMAIN seq = 1..n =>
        FoldLeft(Emit, base, seq) = Emitting!Folded(n, base, seq)
  BY <1>4, Zenon DEF FoldLeft, MapThenFoldSet, Emitting!Folded, Emitting!Iterates
<1>8. QED
  BY <1>1, <1>2, <1>3, <1>5, <1>6, <1>7

LEMMA SortedTicksAscend ==
  ASSUME NEW S \in SUBSET Nat, IsFiniteSet(S)
  PROVE  /\ Cardinality(S) \in Nat
         /\ Ascending(S) \in [1..Cardinality(S) -> S]
         /\ \A i, j \in 1..Cardinality(S) : i < j => Ascending(S)[i] < Ascending(S)[j]
         /\ \A x \in S : \E k \in 1..Cardinality(S) : Ascending(S)[k] = x
BY SameOperators, Applying!AscendingOrder

\* applied[k] are the outputs after k instructions of a group.
AppliedBy(applied, n, outputs, group) ==
  /\ applied[0] = outputs
  /\ \A k \in 1..n : applied[k] = ApplyInstruction(applied[k - 1], group[k])
  /\ FoldLeft(ApplyInstruction, outputs, group) = applied[n]

LEMMA AppliedInSteps ==
  ASSUME NEW outputs, NEW group, NEW n \in Nat, DOMAIN group = 1..n
  PROVE  \E applied : AppliedBy(applied, n, outputs, group)
<1>1. PICK values : Applying!InSteps(values, n, outputs, group)
  BY Applying!FoldSteps
<1>2. FoldLeft(ApplyInstruction, outputs, group) = Applying!Folded(n, outputs, group)
  BY SameOperators
<1>3. QED
  BY <1>1, <1>2, Zenon DEF Applying!InSteps, AppliedBy

\* emitted[k] is what there is after the messages of k ticks.
EmittedBy(emitted, n, start, groups) ==
  /\ emitted[0] = start
  /\ \A k \in 1..n : emitted[k] = Emit(emitted[k - 1], groups[k])
  /\ FoldLeft(Emit, start, groups) = emitted[n]

LEMMA EmittedInSteps ==
  ASSUME NEW start, NEW groups, NEW n \in Nat, DOMAIN groups = 1..n
  PROVE  \E emitted : EmittedBy(emitted, n, start, groups)
<1>1. PICK values : Emitting!InSteps(values, n, start, groups)
  BY Emitting!FoldSteps
<1>2. FoldLeft(Emit, start, groups) = Emitting!Folded(n, start, groups)
  BY SameOperators
<1>3. QED
  BY <1>1, <1>2, Zenon DEF Emitting!InSteps, EmittedBy

-----------------------------------------------------------------------------
(* The order of the instructions *)

Sorting(S) == InOrder(S, Precedes)

LEMMA OrderedIsSorting == OrderedInstructions = Sorting(ToSet(instructions))
BY Zenon DEF OrderedInstructions, Sorting

\* Instructions that can be told apart by their identifiers.
Distinct(S) ==
  /\ IsFiniteSet(S)
  /\ \A i \in S : i.tick \in Nat /\ i.id \in Nat
  /\ \A i, j \in S : i.id = j.id => i = j

\* By tick, then by identifier: a strict total order.
LEMMA SortingOrders ==
  ASSUME NEW S, Distinct(S)
  PROVE  Applying!Orders({p \in S \X S : Precedes(p[1], p[2])}, S)
<1> DEFINE R == {p \in S \X S : Precedes(p[1], p[2])}
<1>1. \A x, y \in S : <<x, y>> \in R <=> Precedes(x, y)
  OBVIOUS
<1> HIDE DEF R
<1>2. \A x \in S : ~Precedes(x, x)
  BY DEF Distinct, Precedes
<1>3. \A x, y \in S : x # y => Precedes(x, y) \/ Precedes(y, x)
  BY DEF Distinct, Precedes
<1>4. \A x, y, z \in S : Precedes(x, y) /\ Precedes(y, z) => Precedes(x, z)
  BY DEF Distinct, Precedes
<1>5. Applying!Orders(R, S)
  BY <1>1, <1>2, <1>3, <1>4 DEF Applying!Orders
<1>6. QED
  BY <1>5 DEF R

LEMMA SortingIs ==
  ASSUME NEW S, Distinct(S)
  PROVE  /\ Cardinality(S) \in Nat
         /\ Sorting(S) \in [1..Cardinality(S) -> S]
         /\ \A j, k \in 1..Cardinality(S) : j < k => Precedes(Sorting(S)[j], Sorting(S)[k])
         /\ \A i \in S : \E k \in 1..Cardinality(S) : Sorting(S)[k] = i
<1> DEFINE R == {p \in S \X S : Precedes(p[1], p[2])}
           n == Cardinality(S)
<1>1. \A x, y \in S : <<x, y>> \in R <=> Precedes(x, y)
  OBVIOUS
<1> HIDE DEF R
<1>2. Applying!Orders(R, S)
  BY SortingOrders DEF R
<1>3. IsFiniteSet(S)
  BY DEF Distinct
<1>4. n \in Nat
  BY <1>3, FS_CardinalityType
<1>5. Applying!IsFiniteSet(S) /\ Applying!Cardinality(S) = n
  BY <1>3, SameOperators
<1>6. PICK t \in [1..n -> S] : Applying!Sorted(t, n, R)
  BY <1>2, <1>5, Applying!SortingExists
<1>7. \A j, k \in DOMAIN t : j < k => Precedes(t[j], t[k])
  BY <1>1, <1>6 DEF Applying!Sorted
<1>8. /\ Sorting(S) \in [1..n -> S]
      /\ \A j, k \in DOMAIN Sorting(S) : j < k => Precedes(Sorting(S)[j], Sorting(S)[k])
  BY <1>7, Zenon DEF InOrder, Sorting
<1>9. Applying!Sorted(Sorting(S), n, R)
  BY <1>1, <1>8 DEF Applying!Sorted
<1>10. \A i \in S : \E k \in 1..n : Sorting(S)[k] = i
  <2>1. /\ Sorting(S) \in [1..Applying!Cardinality(S) -> S]
        /\ Applying!Sorted(Sorting(S), Applying!Cardinality(S), R)
    BY <1>5, <1>8, <1>9
  <2> HIDE DEF n
  <2>2. Applying!Covers(Sorting(S), Applying!Cardinality(S), S)
    BY <1>2, <1>5, <2>1, Applying!SortedIsAll
  <2>3. QED
    BY <1>5, <2>2 DEF Applying!Covers
<1>11. QED
  BY <1>4, <1>8, <1>10

-----------------------------------------------------------------------------
(* What instructions make of an output *)

LEMMA LatestIs ==
  ASSUME NEW T, \A i \in T : i.tick \in Nat /\ i.id \in Nat,
         NEW x \in T, \A i \in T \ {x} : Precedes(i, x)
  PROVE  Latest(T) = x
<1> DEFINE L == CHOOSE i \in T : \A j \in T \ {i} : Precedes(j, i)
<1>1. L \in T /\ \A j \in T \ {L} : Precedes(j, L)
  OBVIOUS
<1> HIDE DEF L
<1>2. ASSUME L # x PROVE FALSE
  <2>1. Precedes(x, L) /\ Precedes(L, x)
    BY <1>1, <1>2
  <2>2. QED
    BY <1>1, <2>1 DEF Precedes
<1>3. QED
  BY <1>2 DEF Latest, L

OfChannel(c, S, ops) == {i \in S : i.channel = c /\ i.action.op \in ops}

DigitalState(initial, c, S) ==
  LET levels  == OfChannel(c, S, {"HIGH", "LOW"})
      high    == IF levels = {} THEN initial ELSE Latest(levels).action.op = "HIGH"
      toggles == {i \in OfChannel(c, S, {"TOGGLE"}) : levels = {} \/ Precedes(Latest(levels), i)}
  IN  high = (Cardinality(toggles) % 2 = 0)

AnalogueState(initial, c, S) == LastOf(OfChannel(c, S, {"set_voltage"}), "voltage", initial)

PwmState(initial, c, S) ==
  [period  |-> LastOf(OfChannel(c, S, {"set", "set_frequency"}), "period", initial.period),
   duty    |-> LastOf(OfChannel(c, S, {"set", "set_duty_cycle"}), "duty", initial.duty),
   enabled |-> LastOf(OfChannel(c, S, {"set_enabled"}), "enabled", initial.enabled)]

\* x comes after all of S.
Follows(x, S) ==
  /\ x \notin S
  /\ x.tick \in Nat /\ x.id \in Nat
  /\ \A i \in S : i.tick \in Nat /\ i.id \in Nat /\ Precedes(i, x)

LEMMA OneMore ==
  ASSUME NEW S, NEW x, Follows(x, S), NEW c, NEW ops
  PROVE  LET T == OfChannel(c, S, ops)
             U == OfChannel(c, S \union {x}, ops)
         IN  IF x.channel = c /\ x.action.op \in ops
             THEN U = T \union {x} /\ Latest(U) = x
             ELSE U = T
<1> DEFINE T == OfChannel(c, S, ops)
           U == OfChannel(c, S \union {x}, ops)
<1>1. CASE x.channel = c /\ x.action.op \in ops
  <2>1. U = T \union {x}
    BY <1>1 DEF OfChannel
  <2>2. x \in U /\ \A i \in U : i.tick \in Nat /\ i.id \in Nat
    BY <2>1 DEF OfChannel, Follows
  <2>3. \A i \in U \ {x} : Precedes(i, x)
    BY <2>1 DEF OfChannel, Follows
  <2> HIDE DEF T, U
  <2>4. Latest(U) = x
    BY <2>2, <2>3, LatestIs
  <2>5. QED
    BY <1>1, <2>1, <2>4 DEF T, U
<1>2. CASE ~(x.channel = c /\ x.action.op \in ops)
  BY <1>2 DEF OfChannel
<1>3. QED
  BY <1>1, <1>2

LEMMA LastOfOneMore ==
  ASSUME NEW S, NEW x, Follows(x, S), NEW c, NEW ops, NEW field, NEW otherwise
  PROVE  LastOf(OfChannel(c, S \union {x}, ops), field, otherwise)
           = IF x.channel = c /\ x.action.op \in ops THEN x.action[field]
             ELSE LastOf(OfChannel(c, S, ops), field, otherwise)
<1>1. CASE x.channel = c /\ x.action.op \in ops
  <2>1. /\ OfChannel(c, S \union {x}, ops) = OfChannel(c, S, ops) \union {x}
        /\ Latest(OfChannel(c, S \union {x}, ops)) = x
    BY <1>1, OneMore
  <2>2. QED
    BY <1>1, <2>1 DEF LastOf
<1>2. CASE ~(x.channel = c /\ x.action.op \in ops)
  <2>1. OfChannel(c, S \union {x}, ops) = OfChannel(c, S, ops)
    BY <1>2, OneMore
  <2>2. QED
    BY <1>2, <2>1
<1>3. QED
  BY <1>1, <1>2

LEMMA LatestExists ==
  ASSUME NEW S, Distinct(S), NEW T \in SUBSET S, T # {}
  PROVE  Latest(T) \in T
<1> DEFINE R == {p \in S \X S : Precedes(p[1], p[2])}
<1>1. \A x, y \in S : <<x, y>> \in R <=> Precedes(x, y)
  OBVIOUS
<1>2. Applying!Orders(R, T)
  BY SortingOrders DEF Applying!Orders
<1> HIDE DEF R
<1>3. Applying!IsFiniteSet(T)
  BY FS_Subset, SameOperators DEF Distinct
<1>4. PICK m \in T : \A x \in T \ {m} : <<x, m>> \in R
  BY <1>2, <1>3, Applying!LastExists
<1>5. \A x \in T \ {m} : Precedes(x, m)
  BY <1>1, <1>4
<1>6. Latest(T) = m
  <2>1. \A i \in T : i.tick \in Nat /\ i.id \in Nat
    BY DEF Distinct
  <2>2. QED
    BY <1>4, <1>5, <2>1, LatestIs
<1>7. QED
  BY <1>4, <1>6

LEMMA AnalogueStep ==
  ASSUME NEW S, NEW x, Follows(x, S), NEW c, NEW initial,
         x.channel = c => x.action \in AnalogueActions
  PROVE  AnalogueState(initial, c, S \union {x})
           = IF x.channel = c THEN After(AnalogueState(initial, c, S), x.action)
             ELSE AnalogueState(initial, c, S)
<1>1. CASE x.channel = c
  <2>1. x.action.op = "set_voltage"
    BY <1>1 DEF AnalogueActions
  <2>2. AnalogueState(initial, c, S \union {x}) = x.action["voltage"]
    BY <1>1, <2>1, LastOfOneMore DEF AnalogueState
  <2>3. QED
    BY <1>1, <2>1, <2>2 DEF After
<1>2. CASE x.channel # c
  BY <1>2, LastOfOneMore DEF AnalogueState
<1>3. QED
  BY <1>1, <1>2

LEMMA PwmStep ==
  ASSUME NEW S, NEW x, Follows(x, S), NEW c, NEW initial,
         x.channel = c => x.action \in PwmActions
  PROVE  PwmState(initial, c, S \union {x})
           = IF x.channel = c THEN After(PwmState(initial, c, S), x.action)
             ELSE PwmState(initial, c, S)
<1> DEFINE p(T) == LastOf(OfChannel(c, T, {"set", "set_frequency"}), "period", initial.period)
           d(T) == LastOf(OfChannel(c, T, {"set", "set_duty_cycle"}), "duty", initial.duty)
           e(T) == LastOf(OfChannel(c, T, {"set_enabled"}), "enabled", initial.enabled)
           U == S \union {x}
<1>1. \A T : PwmState(initial, c, T) = [period |-> p(T), duty |-> d(T), enabled |-> e(T)]
  BY DEF PwmState
<1>2. /\ p(U) = IF x.channel = c /\ x.action.op \in {"set", "set_frequency"} THEN x.action["period"] ELSE p(S)
      /\ d(U) = IF x.channel = c /\ x.action.op \in {"set", "set_duty_cycle"} THEN x.action["duty"] ELSE d(S)
      /\ e(U) = IF x.channel = c /\ x.action.op \in {"set_enabled"} THEN x.action["enabled"] ELSE e(S)
  <2>0. \A ops, field, otherwise :
          LastOf(OfChannel(c, U, ops), field, otherwise)
            = IF x.channel = c /\ x.action.op \in ops THEN x.action[field]
              ELSE LastOf(OfChannel(c, S, ops), field, otherwise)
    BY LastOfOneMore
  <2>1. p(U) = IF x.channel = c /\ x.action.op \in {"set", "set_frequency"} THEN x.action["period"] ELSE p(S)
    BY LastOfOneMore
  <2>2. d(U) = IF x.channel = c /\ x.action.op \in {"set", "set_duty_cycle"} THEN x.action["duty"] ELSE d(S)
    BY <2>0
  <2>3. e(U) = IF x.channel = c /\ x.action.op \in {"set_enabled"} THEN x.action["enabled"] ELSE e(S)
    BY <2>0
  <2>4. QED
    BY <2>1, <2>2, <2>3
<1> HIDE DEF p, d, e, U
<1>3. CASE x.channel = c
  <2>1. x.action.op \in {"set_enabled", "set", "set_frequency", "set_duty_cycle"}
    BY <1>3 DEF PwmActions
  <2>2. \A state : After(state, x.action) = AfterPwm(state, x.action)
    BY <2>1 DEF After
  <2>3. AfterPwm([period |-> p(S), duty |-> d(S), enabled |-> e(S)], x.action)
          = [period |-> p(U), duty |-> d(U), enabled |-> e(U)]
    BY <1>2, <1>3, <2>1 DEF AfterPwm
  <2>4. QED
    BY <1>1, <1>3, <2>2, <2>3 DEF U
<1>4. CASE x.channel # c
  BY <1>1, <1>2, <1>4 DEF U
<1>5. QED
  BY <1>3, <1>4

LEMMA DigitalStep ==
  ASSUME NEW S, Distinct(S), NEW x, Follows(x, S), NEW c, NEW initial \in BOOLEAN,
         x.channel = c => x.action \in DigitalActions
  PROVE  DigitalState(initial, c, S \union {x})
           = IF x.channel = c THEN After(DigitalState(initial, c, S), x.action)
             ELSE DigitalState(initial, c, S)
<1> DEFINE levels(T)  == OfChannel(c, T, {"HIGH", "LOW"})
           flips(T)   == OfChannel(c, T, {"TOGGLE"})
           high(T)    == IF levels(T) = {} THEN initial ELSE Latest(levels(T)).action.op = "HIGH"
           toggles(T) == {i \in flips(T) : levels(T) = {} \/ Precedes(Latest(levels(T)), i)}
           even(T)    == Cardinality(toggles(T)) % 2 = 0
           U == S \union {x}
<1>1. \A T : DigitalState(initial, c, T) = (high(T) = even(T))
  BY DEF DigitalState
<1>2. IF x.channel = c /\ x.action.op \in {"HIGH", "LOW"}
      THEN levels(U) = levels(S) \union {x} /\ Latest(levels(U)) = x
      ELSE levels(U) = levels(S)
  BY OneMore
<1>3. IF x.channel = c /\ x.action.op \in {"TOGGLE"} THEN flips(U) = flips(S) \union {x}
      ELSE flips(U) = flips(S)
  BY OneMore
<1>4. \A i \in flips(S) : Precedes(i, x) /\ ~Precedes(x, i) /\ i # x
  BY DEF Follows, OfChannel, Precedes
<1>5. IsFiniteSet(toggles(S)) /\ x \notin toggles(S)
  <2>1. toggles(S) \in SUBSET S
    BY DEF OfChannel
  <2>2. QED
    BY <2>1, FS_Subset DEF Follows, Distinct
<1>6. levels(S) # {} => Latest(levels(S)) \in levels(S)
  <2>1. levels(S) \in SUBSET S
    BY DEF OfChannel
  <2> HIDE DEF levels
  <2>2. QED
    BY <2>1, LatestExists
<1>7. CASE x.channel = c /\ x.action.op \in {"HIGH", "LOW"}
  <2>1. x.action.op \notin {"TOGGLE"}
    BY <1>7
  <2>2. toggles(U) = {}
    BY <1>2, <1>3, <1>4, <1>7, <2>1
  <2>3. Cardinality(toggles(U)) = 0
    BY <2>2, FS_EmptySet
  <2>4. even(U)
    BY <2>3
  <2>5. high(U) = (x.action.op = "HIGH")
    BY <1>2, <1>7
  <2> HIDE DEF high, even
  <2>6. \A state : After(state, x.action) = (x.action.op = "HIGH")
    BY <1>7 DEF After
  <2>7. QED
    BY <1>1, <1>7, <2>4, <2>5, <2>6
<1>8. CASE x.channel = c /\ x.action.op = "TOGGLE"
  <2>1. levels(U) = levels(S) /\ flips(U) = flips(S) \union {x}
    BY <1>2, <1>3, <1>8
  <2>2. levels(S) # {} => Precedes(Latest(levels(S)), x)
    <3> SUFFICES ASSUME levels(S) # {} PROVE Precedes(Latest(levels(S)), x)
      OBVIOUS
    <3>1. Latest(levels(S)) \in levels(S)
      BY <1>6
    <3>2. QED
      BY <3>1 DEF Follows, OfChannel
  <2>3. toggles(U) = toggles(S) \union {x}
    BY <2>1, <2>2
  <2>4. Cardinality(toggles(U)) = Cardinality(toggles(S)) + 1 /\ Cardinality(toggles(S)) \in Nat
    BY <1>5, <2>3, FS_AddElement, FS_CardinalityType
  <2>5. \A n \in Nat : (n + 1) % 2 = 0 <=> n % 2 # 0
    OBVIOUS
  <2>6. even(U) <=> ~even(S)
    BY <2>4, <2>5
  <2>7. high(U) = high(S) /\ high(S) \in BOOLEAN
    BY <2>1
  <2>8. even(U) \in BOOLEAN /\ even(S) \in BOOLEAN
    OBVIOUS
  <2> HIDE DEF high, even
  <2>9. (high(U) = even(U)) = ~(high(S) = even(S))
    BY <2>6, <2>7, <2>8
  <2>10. \A state : After(state, x.action) = ~state
    BY <1>8 DEF After
  <2>11. QED
    BY <1>1, <1>8, <2>9, <2>10
<1>9. CASE x.channel # c
  <2>1. levels(U) = levels(S) /\ flips(U) = flips(S)
    BY <1>2, <1>3, <1>9
  <2>2. high(U) = high(S) /\ even(U) = even(S)
    BY <2>1
  <2> HIDE DEF high, even
  <2>3. QED
    BY <1>1, <1>9, <2>2
<1>10. x.channel = c => x.action.op \in {"HIGH", "LOW", "TOGGLE"}
  BY DEF DigitalActions
<1>11. QED
  BY <1>7, <1>8, <1>9, <1>10

-----------------------------------------------------------------------------
(* The outputs after some instructions *)

StateAfter(initial, c, S) ==
  CASE KindOf[c] = "digital_output"  -> DigitalState(initial, c, S)
    [] KindOf[c] = "analogue_output" -> AnalogueState(initial, c, S)
    [] KindOf[c] = "pwm_output"      -> PwmState(initial, c, S)

OutputsAfter(start, S) == [c \in OutputChannels |-> StateAfter(start[c], c, S)]

\* An instruction of an output tells it what an output of its kind can be told.
Fits(i) ==
  /\ i.channel \in OutputChannels
  /\ KindOf[i.channel] = "digital_output"  => i.action \in DigitalActions
  /\ KindOf[i.channel] = "analogue_output" => i.action \in AnalogueActions
  /\ KindOf[i.channel] = "pwm_output"      => i.action \in PwmActions

Starts(start) ==
  /\ start = [c \in OutputChannels |-> start[c]]
  /\ \A c \in OutputChannels :
       /\ KindOf[c] = "digital_output" => start[c] \in BOOLEAN
       /\ KindOf[c] = "pwm_output" => start[c] \in [period : Nat, duty : Nat, enabled : BOOLEAN]

LEMMA KindsDiffer ==
  ASSUME NEW c \in OutputChannels
  PROVE  KindOf[c] \in {"digital_output", "analogue_output", "pwm_output"}
BY DEF OutputChannels, FixedOutputKinds

LEMMA StateStep ==
  ASSUME NEW S, Distinct(S), NEW x, Follows(x, S), Fits(x), NEW start, Starts(start),
         NEW c \in OutputChannels
  PROVE  StateAfter(start[c], c, S \union {x})
           = IF x.channel = c THEN After(StateAfter(start[c], c, S), x.action)
             ELSE StateAfter(start[c], c, S)
<1>1. CASE KindOf[c] = "digital_output"
  <2>1. start[c] \in BOOLEAN /\ (x.channel = c => x.action \in DigitalActions)
    BY <1>1 DEF Starts, Fits
  <2>2. \A T : StateAfter(start[c], c, T) = DigitalState(start[c], c, T)
    BY <1>1 DEF StateAfter
  <2>3. QED
    BY <2>1, <2>2, DigitalStep
<1>2. CASE KindOf[c] = "analogue_output"
  <2>1. x.channel = c => x.action \in AnalogueActions
    BY <1>2 DEF Fits
  <2>2. \A T : StateAfter(start[c], c, T) = AnalogueState(start[c], c, T)
    BY <1>2 DEF StateAfter
  <2>3. QED
    BY <2>1, <2>2, AnalogueStep
<1>3. CASE KindOf[c] = "pwm_output"
  <2>1. x.channel = c => x.action \in PwmActions
    BY <1>3 DEF Fits
  <2>2. \A T : StateAfter(start[c], c, T) = PwmState(start[c], c, T)
    BY <1>3 DEF StateAfter
  <2>3. QED
    BY <2>1, <2>2, PwmStep
<1>4. QED
  BY <1>1, <1>2, <1>3, KindsDiffer

\* _apply_instruction takes the outputs of some instructions to those of one more.
LEMMA ApplyStep ==
  ASSUME NEW S, Distinct(S), NEW x, Follows(x, S), Fits(x), NEW start, Starts(start)
  PROVE  ApplyInstruction(OutputsAfter(start, S), x) = OutputsAfter(start, S \union {x})
<1> DEFINE before == OutputsAfter(start, S)
           after == OutputsAfter(start, S \union {x})
<1>1. x.channel \in OutputChannels
  BY DEF Fits
<1>2. DOMAIN before = OutputChannels /\ DOMAIN after = OutputChannels
  BY DEF OutputsAfter
<1>3. \A c \in OutputChannels :
        after[c] = IF x.channel = c THEN After(before[c], x.action) ELSE before[c]
  BY StateStep DEF OutputsAfter
<1>4. after = [c \in OutputChannels |-> after[c]] /\ before = [c \in OutputChannels |-> before[c]]
  BY DEF OutputsAfter
<1> HIDE DEF before, after
<1>5. [before EXCEPT ![x.channel] = After(@, x.action)] = after
  BY <1>1, <1>2, <1>3, <1>4
<1>6. QED
  BY <1>5 DEF ApplyInstruction, before, after

-----------------------------------------------------------------------------
(* The instructions of the outputs, in order *)

Lists(f, n, F) ==
  /\ n \in Nat /\ f \in [1..n -> F]
  /\ \A j, k \in 1..n : j < k => Precedes(f[j], f[k])
  /\ \A i \in F : \E k \in 1..n : f[k] = i

Prefix(f, k) == {f[j] : j \in 1..k}

LEMMA PrefixGrows ==
  ASSUME NEW F, Distinct(F), NEW n, NEW f, Lists(f, n, F), NEW k \in 0..n - 1
  PROVE  /\ k + 1 \in 1..n
         /\ Prefix(f, k + 1) = Prefix(f, k) \union {f[k + 1]}
         /\ Follows(f[k + 1], Prefix(f, k))
         /\ Distinct(Prefix(f, k))
<1>1. k \in Nat /\ k + 1 \in 1..n /\ n \in Nat /\ f \in [1..n -> F]
  BY DEF Lists
<1>2. 1..k + 1 = (1..k) \union {k + 1} /\ 1..k \subseteq 1..n
  BY <1>1
<1>3. Prefix(f, k + 1) = Prefix(f, k) \union {f[k + 1]}
  BY <1>2 DEF Prefix
<1>4. Prefix(f, k) \in SUBSET F /\ f[k + 1] \in F
  BY <1>1, <1>2 DEF Prefix
<1>5. \A i \in F : i.tick \in Nat /\ i.id \in Nat
  BY DEF Distinct
<1>6. \A i \in Prefix(f, k) : Precedes(i, f[k + 1])
  <2> SUFFICES ASSUME NEW j \in 1..k PROVE Precedes(f[j], f[k + 1])
    BY DEF Prefix
  <2>1. j \in 1..n /\ j < k + 1
    BY <1>1, <1>2
  <2>2. QED
    BY <1>1, <2>1 DEF Lists
<1>7. f[k + 1] \notin Prefix(f, k)
  <2>1. ~Precedes(f[k + 1], f[k + 1])
    BY <1>4, <1>5 DEF Precedes
  <2>2. QED
    BY <1>6, <2>1
<1>8. Distinct(Prefix(f, k))
  BY <1>4, FS_Subset DEF Distinct
<1>9. QED
  BY <1>1, <1>3, <1>4, <1>5, <1>6, <1>7, <1>8 DEF Follows

\* Instructions of one tick are next to one another: groupby() makes one group of them, and
\* applying it takes the outputs from before the tick to after it.
LEMMA GroupIsApplied ==
  ASSUME NEW plan, NEW F, Distinct(F), \A i \in F : Fits(i),
         NEW n, Lists(FixedInstructions(plan), n, F),
         NEW start, Starts(start), NEW t \in Nat
  PROVE  FoldLeft(ApplyInstruction, OutputsAfter(start, {i \in F : i.tick < t}), GroupOf(plan, t))
           = OutputsAfter(start, {i \in F : i.tick <= t})
<1> DEFINE f == FixedInstructions(plan)
           at == {k \in 1..Len(f) : f[k].tick = t}
           heads == {k \in at : k - 1 \notin at}
           before == {i \in F : i.tick < t}
           upTo == {i \in F : i.tick <= t}
<1>1. /\ n \in Nat /\ f \in [1..n -> F]
      /\ \A j, k \in 1..n : j < k => Precedes(f[j], f[k])
      /\ \A i \in F : \E k \in 1..n : f[k] = i
  BY DEF Lists
<1> HIDE DEF f
<1>2. \A i \in F : i.tick \in Nat
  BY DEF Distinct
<1>3. Len(f) = n /\ f \in Seq(F)
  BY <1>1
<1>4. at = {k \in 1..n : f[k].tick = t}
  BY <1>3
<1>5. GroupOf(plan, t) = IF at = {} THEN <<>> ELSE SubSeq(f, Max(heads), Max(at))
  BY Zenon DEF GroupOf, f
<1> HIDE DEF at
<1>6. \A j, k \in 1..n : j <= k => f[j].tick \in Nat /\ f[k].tick \in Nat /\ f[j].tick <= f[k].tick
  <2> SUFFICES ASSUME NEW j \in 1..n, NEW k \in 1..n, j <= k
               PROVE  f[j].tick \in Nat /\ f[k].tick \in Nat /\ f[j].tick <= f[k].tick
    OBVIOUS
  <2>1. f[j].tick \in Nat /\ f[k].tick \in Nat
    BY <1>1, <1>2
  <2>2. j = k \/ j < k
    OBVIOUS
  <2>3. j < k => f[j].tick <= f[k].tick
    BY <1>1, <2>1 DEF Precedes
  <2>4. QED
    BY <2>1, <2>2, <2>3
<1>7. CASE at = {}
  <2>1. upTo = before
    BY <1>1, <1>2, <1>4, <1>7
  <2>2. GroupOf(plan, t) = <<>> /\ DOMAIN <<>> = 1..0
    BY <1>5, <1>7
  <2> HIDE DEF before, upTo
  <2>3. PICK applied : AppliedBy(applied, 0, OutputsAfter(start, before), GroupOf(plan, t))
    BY <2>2, AppliedInSteps
  <2>4. QED
    BY <2>1, <2>3, Zenon DEF AppliedBy, before, upTo
<1>8. CASE at # {}
  <2>1. PICK hi \in at : \A k \in at : k <= hi
    <3>1. at \in SUBSET (0..n)
      BY <1>1, <1>4
    <3>2. QED
      BY <1>1, <1>8, <3>1, Applying!GreatestOf
  <2>2. PICK lo \in at : \A k \in at : lo <= k
    <3>1. at \in SUBSET Nat
      BY <1>4
    <3>2. QED
      BY <1>8, <3>1, Applying!LeastOf
  <2>3. lo \in 1..n /\ hi \in 1..n /\ lo <= hi
    BY <1>4, <2>1, <2>2
  <2>4. \A k \in lo..hi : k \in at
    <3> SUFFICES ASSUME NEW k \in lo..hi PROVE f[k].tick = t /\ k \in 1..n
      BY <1>4
    <3>1. k \in 1..n /\ lo <= k /\ k <= hi
      BY <1>1, <2>3
    <3>2. f[lo].tick = t /\ f[hi].tick = t
      BY <1>4, <2>1, <2>2
    <3>3. f[lo].tick <= f[k].tick /\ f[k].tick <= f[hi].tick /\ f[k].tick \in Nat
      BY <1>6, <2>3, <3>1
    <3>4. QED
      BY <3>1, <3>2, <3>3
  <2>5. heads = {lo}
    <3>1. lo - 1 \notin at
      BY <2>2, <2>3
    <3>2. ASSUME NEW k \in at, k # lo PROVE k - 1 \in at
      <4>1. k \in 1..n /\ lo <= k /\ k <= hi
        BY <1>4, <2>1, <2>2
      <4>2. k - 1 \in lo..hi
        BY <2>3, <3>2, <4>1
      <4>3. QED
        BY <2>4, <4>2
    <3>3. QED
      BY <3>1, <3>2
  <2>6. Max(heads) = lo /\ Max(at) = hi
    <3>1. at \in SUBSET Nat /\ {lo} \in SUBSET Nat
      BY <1>4, <2>3
    <3>2. Applying!Max(at) = hi
      BY <2>1, <3>1, Applying!GreatestIsMax
    <3>3. Applying!Max({lo}) = lo
      <4>1. lo \in {lo} /\ \A y \in {lo} : y <= lo
        BY <2>3
      <4>2. QED
        BY <3>1, <4>1, Applying!GreatestIsMax
    <3>4. QED
      BY <2>5, <3>2, <3>3, SameOperators
  <2> DEFINE m == hi - lo + 1
             group == SubSeq(f, lo, hi)
  <2>7. GroupOf(plan, t) = group
    BY <1>5, <1>8, <2>6
  <2>8. /\ m \in Nat /\ DOMAIN group = 1..m
        /\ \A k \in 1..m : group[k] = f[lo - 1 + k] /\ lo - 1 + k \in 1..n
    <3>1. m \in Nat /\ lo \in 1..Len(f) /\ hi \in lo..Len(f)
      BY <1>1, <1>3, <2>3
    <3>2. group \in Seq(F) /\ Len(group) = m /\ \A k \in 1..m : group[k] = f[lo + k - 1]
      BY <1>3, <3>1, SubSeqProperties
    <3>3. \A k \in 1..m : lo + k - 1 = lo - 1 + k /\ lo - 1 + k \in 1..n
      BY <1>1, <2>3
    <3> HIDE DEF group, m
    <3>4. DOMAIN group = 1..m
      BY <3>1, <3>2
    <3>5. QED
      BY <3>1, <3>2, <3>3, <3>4
  <2>9. before = Prefix(f, lo - 1)
    <3>1. ASSUME NEW j \in 1..lo - 1 PROVE f[j] \in before
      <4>1. j \in 1..n /\ j <= lo /\ j \notin at
        BY <1>1, <2>2, <2>3
      <4>2. f[j].tick <= f[lo].tick /\ f[j].tick # t /\ f[lo].tick = t /\ f[j].tick \in Nat
        BY <1>4, <1>6, <2>3, <4>1
      <4>3. QED
        BY <1>1, <4>1, <4>2
    <3>2. ASSUME NEW i \in before PROVE i \in Prefix(f, lo - 1)
      <4>1. PICK j \in 1..n : f[j] = i
        BY <1>1
      <4>2. ~(lo <= j)
        <5>1. f[lo].tick = t /\ i.tick < t /\ i.tick \in Nat
          BY <1>2, <1>4, <2>2
        <5>2. QED
          BY <1>6, <2>3, <4>1, <5>1
      <4>3. j \in 1..lo - 1
        BY <2>3, <4>1, <4>2
      <4>4. QED
        BY <4>1, <4>3 DEF Prefix
    <3> HIDE DEF before
    <3>3. QED
      BY <3>1, <3>2 DEF Prefix
  <2>10. upTo = Prefix(f, hi)
    <3>1. ASSUME NEW j \in 1..hi PROVE f[j] \in upTo
      <4>1. j \in 1..n /\ j <= hi
        BY <1>1, <2>3
      <4>2. f[j].tick <= f[hi].tick /\ f[hi].tick = t
        BY <1>4, <1>6, <2>1, <2>3, <4>1
      <4>3. QED
        BY <1>1, <4>1, <4>2
    <3>2. ASSUME NEW i \in upTo PROVE i \in Prefix(f, hi)
      <4>1. PICK j \in 1..n : f[j] = i
        BY <1>1
      <4>2. j <= hi
        <5> SUFFICES ASSUME ~(j <= hi) PROVE FALSE
          OBVIOUS
        <5>1. hi <= j /\ f[hi].tick = t /\ i.tick <= t /\ i.tick \in Nat
          BY <1>2, <1>4, <2>1, <2>3, <4>1
        <5>2. f[hi].tick <= f[j].tick
          BY <1>6, <2>3, <4>1, <5>1
        <5>3. f[j].tick = t
          BY <4>1, <5>1, <5>2
        <5>4. j \in at
          BY <1>4, <4>1, <5>3
        <5>5. QED
          BY <2>1, <5>4
      <4>3. j \in 1..hi
        BY <2>3, <4>1, <4>2
      <4>4. QED
        BY <4>1, <4>3 DEF Prefix
    <3> HIDE DEF upTo
    <3>3. QED
      BY <3>1, <3>2 DEF Prefix
  <2> HIDE DEF group, m
  <2>11. PICK applied : AppliedBy(applied, m, OutputsAfter(start, before), group)
    BY <2>8, AppliedInSteps
  <2> DEFINE Good == {k \in 0..m : applied[k] = OutputsAfter(start, Prefix(f, lo - 1 + k))}
  <2>12. 0 \in Good
    <3>1. lo - 1 + 0 = lo - 1
      BY <2>3
    <3>2. applied[0] = OutputsAfter(start, before)
      BY <2>11 DEF AppliedBy
    <3> HIDE DEF before
    <3>3. QED
      BY <2>8, <2>9, <3>1, <3>2
  <2>13. ASSUME NEW k \in Good, k \in 0..m - 1 PROVE k + 1 \in Good
    <3> DEFINE q == lo - 1 + k
    <3>1. /\ k + 1 \in 1..m /\ k + 1 \in 0..m /\ k + 1 - 1 = k
          /\ q + 1 = lo - 1 + (k + 1) /\ q \in Nat
      BY <2>3, <2>8, <2>13
    <3>2. q + 1 \in 1..n /\ group[k + 1] = f[q + 1]
      BY <2>8, <3>1
    <3>3. q \in 0..n - 1
      BY <1>1, <3>1, <3>2
    <3>4. applied[k] = OutputsAfter(start, Prefix(f, q))
      OBVIOUS
    <3>5. applied[k + 1] = ApplyInstruction(applied[k], group[k + 1])
      <4>1. \A j \in 1..m : applied[j] = ApplyInstruction(applied[j - 1], group[j])
        BY <2>11, Zenon DEF AppliedBy
      <4>2. applied[k + 1] = ApplyInstruction(applied[k + 1 - 1], group[k + 1])
        BY <3>1, <4>1
      <4>3. QED
        BY <3>1, <4>2
    <3> HIDE DEF q, Good
    <3>6. /\ Prefix(f, q + 1) = Prefix(f, q) \union {f[q + 1]}
          /\ Follows(f[q + 1], Prefix(f, q)) /\ Distinct(Prefix(f, q))
      BY <3>3, PrefixGrows DEF f
    <3>7. Fits(f[q + 1])
      BY <1>1, <3>2
    <3>8. ApplyInstruction(OutputsAfter(start, Prefix(f, q)), f[q + 1])
            = OutputsAfter(start, Prefix(f, q + 1))
      BY <3>6, <3>7, ApplyStep
    <3>9. applied[k + 1] = OutputsAfter(start, Prefix(f, lo - 1 + (k + 1)))
      BY <3>1, <3>2, <3>4, <3>5, <3>8
    <3>10. QED
      BY <3>1, <3>9 DEF Good
  <2>14. m \in Good
    <3> HIDE DEF Good
    <3>1. 0..m \subseteq Good
      BY <2>8, <2>12, <2>13, Applying!CountingTo
    <3>2. QED
      BY <2>8, <3>1
  <2>15. applied[m] = OutputsAfter(start, upTo)
    <3>1. lo - 1 + m = hi
      BY <2>3 DEF m
    <3>2. applied[m] = OutputsAfter(start, Prefix(f, lo - 1 + m))
      BY <2>14
    <3> HIDE DEF upTo
    <3>3. QED
      BY <2>10, <3>1, <3>2
  <2> HIDE DEF before, upTo
  <2>16. QED
    BY <2>7, <2>11, <2>15, Zenon DEF AppliedBy, before, upTo
<1>9. QED
  BY <1>7, <1>8

-----------------------------------------------------------------------------
(* The messages of an upload *)

\* Nothing was told yet.
LEMMA OutputsBeforeAll ==
  ASSUME NEW start, Starts(start)
  PROVE  OutputsAfter(start, {}) = start
<1>1. \A c, ops : OfChannel(c, {}, ops) = {}
  BY DEF OfChannel
<1>2. ASSUME NEW c \in OutputChannels PROVE StateAfter(start[c], c, {}) = start[c]
  <2>1. CASE KindOf[c] = "digital_output"
    <3>1. start[c] \in BOOLEAN
      BY <2>1 DEF Starts
    <3>2. Cardinality({}) % 2 = 0
      BY FS_EmptySet
    <3>3. DigitalState(start[c], c, {}) = (start[c] = (Cardinality({}) % 2 = 0))
      BY <1>1 DEF DigitalState
    <3>4. DigitalState(start[c], c, {}) = start[c]
      BY <3>1, <3>2, <3>3
    <3>5. QED
      BY <2>1, <3>4 DEF StateAfter
  <2>2. CASE KindOf[c] = "analogue_output"
    BY <1>1, <2>2 DEF StateAfter, AnalogueState, LastOf
  <2>3. CASE KindOf[c] = "pwm_output"
    <3>1. start[c] \in [period : Nat, duty : Nat, enabled : BOOLEAN]
      BY <2>3 DEF Starts
    <3>2. PwmState(start[c], c, {})
            = [period |-> start[c].period, duty |-> start[c].duty, enabled |-> start[c].enabled]
      BY <1>1 DEF PwmState, LastOf
    <3>3. PwmState(start[c], c, {}) = start[c]
      BY <3>1, <3>2
    <3>4. QED
      BY <2>3, <3>3 DEF StateAfter
  <2>4. QED
    BY <2>1, <2>2, <2>3, KindsDiffer
<1>3. start = [c \in OutputChannels |-> start[c]]
  BY DEF Starts
<1>4. OutputsAfter(start, {}) = [c \in OutputChannels |-> start[c]]
  BY <1>2 DEF OutputsAfter
<1>5. QED
  BY <1>3, <1>4

MessageFor(start, F, tick) ==
  [tick |-> tick, outputs |-> Encoded(OutputsAfter(start, {i \in F : i.tick <= tick}))]

LEMMA MessageIs ==
  ASSUME NEW start, NEW F, NEW tick
  PROVE  /\ MessageFor(start, F, tick).tick = tick
         /\ MessageFor(start, F, tick).outputs
              = Encoded(OutputsAfter(start, {i \in F : i.tick <= tick}))
<1> DEFINE o == Encoded(OutputsAfter(start, {i \in F : i.tick <= tick}))
<1>1. MessageFor(start, F, tick) = [tick |-> tick, outputs |-> o]
  BY Zenon DEF MessageFor
<1> HIDE DEF o
<1>2. MessageFor(start, F, tick).tick = tick /\ MessageFor(start, F, tick).outputs = o
  BY <1>1
<1>3. QED
  BY <1>2 DEF o

LEMMA MessageHasTick == \A start, F, tick : MessageFor(start, F, tick).tick = tick
BY MessageIs

MessagesFor(start, F, ticks, k) == [j \in 1..k |-> MessageFor(start, F, ticks[j])]

LEMMA MessagesGrow ==
  ASSUME NEW start, NEW F, NEW ticks, NEW k \in Nat
  PROVE  Append(MessagesFor(start, F, ticks, k), MessageFor(start, F, ticks[k + 1]))
           = MessagesFor(start, F, ticks, k + 1)
<1> DEFINE m(j) == MessageFor(start, F, ticks[j])
           U == {m(j) : j \in Nat}
           s == [j \in 1..k |-> m(j)]
           x == m(k + 1)
<1> HIDE DEF m
<1>1. s \in Seq(U) /\ Len(s) = k /\ \A j \in 1..k : s[j] = m(j)
  <2>1. \A j \in 1..k : j \in Nat
    OBVIOUS
  <2>2. s \in [1..k -> U]
    BY <2>1
  <2>3. QED
    BY <2>2
<1>2. x \in U
  OBVIOUS
<1> HIDE DEF s, x, U
<1>3. /\ Append(s, x) \in Seq(U) /\ DOMAIN Append(s, x) = 1..k + 1
      /\ \A j \in 1..k : Append(s, x)[j] = s[j]
      /\ Append(s, x)[k + 1] = x
  BY <1>1, <1>2
<1>4. ASSUME NEW j \in 1..k + 1 PROVE Append(s, x)[j] = m(j)
  <2>1. CASE j \in 1..k
    BY <1>1, <1>3, <2>1
  <2>2. CASE j = k + 1
    BY <1>3, <2>2 DEF x
  <2>3. j \in 1..k \/ j = k + 1
    OBVIOUS
  <2>4. QED
    BY <2>1, <2>2, <2>3
<1>5. Append(s, x) = [j \in 1..k + 1 |-> m(j)]
  <2> DEFINE r == [j \in 1..k + 1 |-> m(j)]
  <2>1. \A j \in 1..k + 1 : m(j) \in U
    BY DEF U
  <2>2. r \in [1..k + 1 -> U] /\ \A j \in 1..k + 1 : r[j] = m(j)
    BY <2>1
  <2> HIDE DEF r
  <2>3. r \in Seq(U) /\ Len(r) = k + 1 /\ Len(Append(s, x)) = k + 1
    BY <1>1, <1>2, <2>2
  <2>4. Append(s, x) = r
    BY <1>3, <1>4, <2>2, <2>3, SeqEqual
  <2>5. QED
    BY <2>4 DEF r
<1>6. QED
  BY <1>5 DEF MessagesFor, s, x, m

LEMMA ImageIsFinite ==
  ASSUME NEW g, IsFiniteSet(DOMAIN g)
  PROVE  IsFiniteSet({g[x] : x \in DOMAIN g})
<1> DEFINE T == {g[x] : x \in DOMAIN g}
           h == [x \in DOMAIN g |-> g[x]]
<1>1. h \in [DOMAIN g -> T] /\ \A t \in T : \E x \in DOMAIN g : h[x] = t
  OBVIOUS
<1> HIDE DEF h, T
<1>2. h \in Surjection(DOMAIN g, T)
  BY <1>1 DEF Surjection
<1>3. IsFiniteSet(T)
  BY <1>2, FS_Surjection DEF ExistsSurjection
<1>4. QED
  BY <1>3 DEF T

\* The ticks that get a message.
TicksOf(plan, F) == {i.tick : i \in F} \union (IF HasAnalogueOutput(plan) THEN {0} ELSE {})

LEMMA MessageTicksAre ==
  ASSUME NEW plan, NEW F, Distinct(F), NEW n, Lists(FixedInstructions(plan), n, F)
  PROVE  \E m \in Nat :
           /\ MessageTicks(plan) \in [1..m -> TicksOf(plan, F)]
           /\ \A j, k \in 1..m : j < k => MessageTicks(plan)[j] < MessageTicks(plan)[k]
           /\ \A t \in TicksOf(plan, F) : \E k \in 1..m : MessageTicks(plan)[k] = t
<1> DEFINE T == TicksOf(plan, F)
           f == FixedInstructions(plan)
<1>1. ToSet(f) = F
  BY DEF ToSet, Lists
<1>2. StimulusTicks(plan) = {i.tick : i \in F}
  BY <1>1 DEF StimulusTicks
<1>3. MessageTicks(plan) = Ascending(T)
  BY <1>2, Zenon DEF MessageTicks, TicksOf
<1>4. T \in SUBSET Nat
  BY DEF Distinct, TicksOf
<1>5. IsFiniteSet(T)
  <2>1. IsFiniteSet({i.tick : i \in F})
    <3> DEFINE g == [i \in F |-> i.tick]
    <3>1. IsFiniteSet({g[i] : i \in DOMAIN g})
      <4>1. DOMAIN g = F /\ IsFiniteSet(F)
        BY DEF Distinct
      <4> HIDE DEF g
      <4>2. QED
        BY <4>1, ImageIsFinite
    <3>2. {g[i] : i \in DOMAIN g} = {i.tick : i \in F}
      OBVIOUS
    <3>3. QED
      BY <3>1, <3>2
  <2>2. IsFiniteSet(IF HasAnalogueOutput(plan) THEN {0} ELSE {})
    BY FS_Singleton, FS_EmptySet
  <2>3. QED
    BY <2>1, <2>2, FS_Union DEF TicksOf
<1> HIDE DEF T
<1>6. /\ Cardinality(T) \in Nat
      /\ Ascending(T) \in [1..Cardinality(T) -> T]
      /\ \A i, j \in 1..Cardinality(T) : i < j => Ascending(T)[i] < Ascending(T)[j]
      /\ \A x \in T : \E k \in 1..Cardinality(T) : Ascending(T)[k] = x
  BY <1>4, <1>5, SortedTicksAscend
<1>7. QED
  BY <1>3, <1>6 DEF T

\* _build_sparse_instructions: a message for each tick of a stimulus, and one for tick 0 if it
\* needs one, with what every output is after the instructions up to the tick.
LEMMA SparseInstructionsAre ==
  ASSUME NEW plan, NEW F, Distinct(F), \A i \in F : Fits(i),
         NEW n, Lists(FixedInstructions(plan), n, F), Starts(InitialOutputs(plan)),
         NEW m \in Nat, MessageTicks(plan) \in [1..m -> TicksOf(plan, F)],
         \A j, k \in 1..m : j < k => MessageTicks(plan)[j] < MessageTicks(plan)[k],
         \A t \in TicksOf(plan, F) : \E k \in 1..m : MessageTicks(plan)[k] = t
  PROVE  SparseInstructions(plan) = MessagesFor(InitialOutputs(plan), F, MessageTicks(plan), m)
<1> DEFINE start == InitialOutputs(plan)
           ticks == MessageTicks(plan)
           groups == [k \in DOMAIN ticks |-> [tick |-> ticks[k], instructions |-> GroupOf(plan, ticks[k])]]
           base == [outputs |-> start, messages |-> <<>>]
           upTo(k) == IF k = 0 THEN {} ELSE {i \in F : i.tick <= ticks[k]}
<1>1. SparseInstructions(plan) = FoldLeft(Emit, base, groups).messages
  BY Zenon DEF SparseInstructions
<1>2. /\ ticks \in [1..m -> TicksOf(plan, F)]
      /\ \A j, k \in 1..m : j < k => ticks[j] < ticks[k]
      /\ \A i \in F : \E k \in 1..m : ticks[k] = i.tick
  BY DEF TicksOf
<1>3. \A i \in F : i.tick \in Nat
  BY DEF Distinct
<1>4. \A k \in 1..m : ticks[k] \in Nat
  <2>1. TicksOf(plan, F) \subseteq Nat
    BY <1>3 DEF TicksOf
  <2>2. QED
    BY <1>2, <2>1
<1> HIDE DEF ticks, start
<1>5. /\ DOMAIN groups = 1..m
      /\ \A k \in 1..m : groups[k].tick = ticks[k] /\ groups[k].instructions = GroupOf(plan, ticks[k])
  BY <1>2
<1> HIDE DEF groups
<1>6. PICK emitted : EmittedBy(emitted, m, base, groups)
  <2> HIDE DEF base
  <2>1. QED
    BY <1>5, EmittedInSteps
<1> DEFINE done(k) == [outputs |-> OutputsAfter(start, upTo(k)),
                       messages |-> MessagesFor(start, F, ticks, k)]
           Good == {k \in 0..m : emitted[k] = done(k)}
<1>7. 0 \in Good
  <2>1. MessagesFor(start, F, ticks, 0) = <<>>
    BY DEF MessagesFor
  <2>2. OutputsAfter(start, upTo(0)) = start
    BY OutputsBeforeAll DEF start
  <2>3. emitted[0] = base
    BY <1>6 DEF EmittedBy
  <2>4. QED
    BY <2>1, <2>2, <2>3
<1>8. ASSUME NEW k \in Good, k \in 0..m - 1 PROVE k + 1 \in Good
  <2> DEFINE t == ticks[k + 1]
  <2>1. k \in Nat /\ k + 1 \in 1..m /\ k + 1 \in 0..m /\ k + 1 - 1 = k /\ k + 1 # 0
    BY <1>8
  <2>2. t \in Nat
    BY <1>4, <2>1
  <2>3. upTo(k) = {i \in F : i.tick < t}
    <3>1. ASSUME NEW i \in F, i.tick < t PROVE i \in upTo(k)
      <4>1. PICK j \in 1..m : ticks[j] = i.tick
        BY <1>2
      <4>2. j < k + 1
        <5>1. k + 1 < j => t < ticks[j]
          BY <1>2, <2>1, <4>1
        <5>2. ~(t < ticks[j]) /\ t # ticks[j]
          BY <1>3, <2>2, <3>1, <4>1
        <5>3. ~(k + 1 < j) /\ j # k + 1
          BY <5>1, <5>2
        <5>4. QED
          BY <2>1, <5>3
      <4>3. k # 0 /\ k \in 1..m /\ (j < k \/ j = k)
        BY <2>1, <4>2
      <4>4. ticks[j] < ticks[k] \/ ticks[j] = ticks[k]
        BY <1>2, <4>3
      <4>5. i.tick <= ticks[k]
        BY <1>4, <4>1, <4>3, <4>4
      <4>6. QED
        BY <4>3, <4>5
    <3>2. ASSUME NEW i \in upTo(k) PROVE i \in F /\ i.tick < t
      <4>1. k # 0 /\ i \in F /\ i.tick <= ticks[k]
        BY <3>2
      <4>2. k \in 1..m /\ k < k + 1
        BY <2>1, <4>1
      <4>3. ticks[k] < t /\ ticks[k] \in Nat
        BY <1>2, <1>4, <2>1, <4>2
      <4>4. QED
        BY <1>3, <2>2, <4>1, <4>3
    <3> HIDE DEF upTo, t
    <3>3. QED
      BY <3>1, <3>2
  <2>4. emitted[k + 1] = Emit(emitted[k], groups[k + 1])
    <3>1. \A j \in 1..m : emitted[j] = Emit(emitted[j - 1], groups[j])
      BY <1>6, Zenon DEF EmittedBy
    <3>2. emitted[k + 1] = Emit(emitted[k + 1 - 1], groups[k + 1])
      BY <2>1, <3>1
    <3>3. QED
      BY <2>1, <3>2
  <2>5. /\ emitted[k].outputs = OutputsAfter(start, upTo(k))
        /\ emitted[k].messages = MessagesFor(start, F, ticks, k)
    <3>1. emitted[k] = done(k)
      OBVIOUS
    <3> HIDE DEF upTo, Good
    <3>2. QED
      BY <3>1
  <2>6. groups[k + 1].tick = t /\ groups[k + 1].instructions = GroupOf(plan, t)
    BY <1>5, <2>1
  <2>7. upTo(k + 1) = {i \in F : i.tick <= t}
    BY <2>1
  <2> HIDE DEF upTo, Good
  <2>8. FoldLeft(ApplyInstruction, OutputsAfter(start, upTo(k)), GroupOf(plan, t))
          = OutputsAfter(start, {i \in F : i.tick <= t})
    <3> HIDE DEF t
    <3>1. FoldLeft(ApplyInstruction, OutputsAfter(start, {i \in F : i.tick < t}), GroupOf(plan, t))
            = OutputsAfter(start, {i \in F : i.tick <= t})
      BY <2>2, GroupIsApplied DEF start
    <3>2. QED
      BY <2>3, <3>1, Zenon
  <2>9. Append(MessagesFor(start, F, ticks, k), MessageFor(start, F, t))
          = MessagesFor(start, F, ticks, k + 1)
    BY <2>1, MessagesGrow
  <2>10. MessageFor(start, F, t)
           = [tick |-> t, outputs |-> Encoded(OutputsAfter(start, {i \in F : i.tick <= t}))]
    BY DEF MessageFor
  <2> HIDE DEF t
  <2> DEFINE outputs == FoldLeft(ApplyInstruction, emitted[k].outputs, groups[k + 1].instructions)
  <2>11. outputs = OutputsAfter(start, {i \in F : i.tick <= t})
    BY <2>5, <2>6, <2>8, Zenon
  <2>12. Emit(emitted[k], groups[k + 1])
           = [outputs |-> outputs,
              messages |-> Append(emitted[k].messages,
                             [tick |-> groups[k + 1].tick, outputs |-> Encoded(outputs)])]
    BY Zenon DEF Emit
  <2> HIDE DEF outputs
  <2>13. emitted[k + 1] = [outputs |-> OutputsAfter(start, upTo(k + 1)),
                           messages |-> MessagesFor(start, F, ticks, k + 1)]
    BY <2>4, <2>5, <2>6, <2>7, <2>9, <2>10, <2>11, <2>12
  <2>14. QED
    BY <2>1, <2>13 DEF Good
<1>9. emitted[m].messages = MessagesFor(start, F, ticks, m)
  <2>1. m \in Good
    <3> HIDE DEF Good
    <3>1. 0..m \subseteq Good
      BY <1>7, <1>8, Applying!CountingTo
    <3>2. QED
      BY <3>1
  <2>2. QED
    BY <2>1
<1> HIDE DEF base
<1>10. QED
  BY <1>1, <1>6, <1>9, Zenon DEF EmittedBy, start, ticks

-----------------------------------------------------------------------------
(* What a definition is made of, and what is built from it *)

\* A channel is told something only when it is configured, and only what it understands.
Told(i) == channels[i.channel] # None /\ i.action \in Actions(i.channel)

\* Identifiers count the instructions, and what was compiled and built is still so.
DefinedInv ==
  /\ configured \in BOOLEAN
  /\ DOMAIN channels = Channels
  /\ \A c \in Channels : channels[c] \in ChannelConfigurations(KindOf[c]) \union {None}
  /\ \A k \in 1..Len(instructions) : instructions[k].id = k - 1 /\ Told(instructions[k])
  /\ compiled # None =>
       /\ compiled.configurations = channels /\ compiled.instructions = OrderedInstructions
       /\ compiled.expectedTickCount \in 1..MaxExpectedTickCount - 1
  /\ upload # None => compiled # None /\ upload = SparseInstructions(compiled)

LEMMA InitIsDefined == Init => DefinedInv
<1> SUFFICES ASSUME Init PROVE DefinedInv
  OBVIOUS
<1>1. Len(instructions) = 0 /\ configured = FALSE /\ compiled = None /\ upload = None
  BY DEF Init
<1>2. channels = [c \in Channels |-> None]
  BY DEF Init
<1>3. DOMAIN channels = Channels /\ \A c \in Channels : channels[c] = None
  BY <1>2
<1>4. 1..Len(instructions) = {}
  BY <1>1
<1>5. configured \in BOOLEAN
  BY <1>1
<1>6. QED
  BY <1>1, <1>3, <1>4, <1>5, Zenon DEF DefinedInv

\* While the definition is open nothing is built from it.
LEMMA OpenIsDefined ==
  ASSUME DefinedInv, compiled = None, compiled' = None, upload' = upload,
         configured' \in BOOLEAN, DOMAIN channels' = Channels,
         \A c \in Channels : channels'[c] \in ChannelConfigurations(KindOf[c]) \union {None},
         \A k \in 1..Len(instructions') : instructions'[k].id = k - 1 /\ Told(instructions[k])'
  PROVE  DefinedInv'
BY DEF DefinedInv

LEMMA ConfigureChannelIsDefined ==
  ASSUME KeptInv, DefinedInv, NEW c \in Channels,
         NEW configuration \in ChannelConfigurations(KindOf[c]), ConfigureChannel(c, configuration)
  PROVE  DefinedInv'
<1>1. /\ compiled = None /\ channels[c] = None
      /\ channels' = [channels EXCEPT ![c] = configuration]
      /\ UNCHANGED <<configured, instructions, compiled, upload>>
  BY DEF ConfigureChannel, Mutable
<1>2. DOMAIN channels' = Channels /\ \A d \in Channels : channels'[d] \in ChannelConfigurations(KindOf[d]) \union {None}
  BY <1>1 DEF DefinedInv
<1>3. ASSUME NEW k \in 1..Len(instructions) PROVE Told(instructions[k])'
  <2> DEFINE d == instructions[k].channel
  <2>1. d \in Channels /\ channels[d] # None /\ instructions[k].action \in Actions(d)
    <3>1. instructions[k] \in Instructions
      BY DEF KeptInv
    <3>2. QED
      BY <3>1 DEF Instructions, DefinedInv, Told
  <2>2. channels'[d] = channels[d]
    BY <1>1, <2>1 DEF DefinedInv
  <2>3. Actions(d)' = Actions(d)
    BY <1>1, <2>2 DEF Actions
  <2>4. QED
    BY <1>1, <2>1, <2>2, <2>3 DEF Told
<1>4. QED
  BY <1>1, <1>2, <1>3, OpenIsDefined DEF DefinedInv

LEMMA ScheduleIsDefined ==
  ASSUME KeptInv, DefinedInv, NEW c \in Channels, NEW action \in Actions(c),
         NEW moment \in Moments, Schedule(c, action, moment)
  PROVE  DefinedInv'
<1> DEFINE i == [id |-> Len(instructions), tick |-> ResolveTimestamp(moment, frequency),
                 channel |-> c, action |-> action, asked |-> moment]
<1>1. /\ compiled = None /\ channels[c] # None /\ instructions' = Append(instructions, i)
      /\ UNCHANGED <<configured, channels, compiled, upload>>
  BY DEF Schedule, Mutable
<1>2. i.id = Len(instructions) /\ i.channel = c /\ i.action = action
  OBVIOUS
<1> HIDE DEF i
<1>3. /\ Len(instructions') = Len(instructions) + 1 /\ Len(instructions) \in Nat
      /\ \A k \in 1..Len(instructions) : instructions'[k] = instructions[k]
      /\ instructions'[Len(instructions) + 1] = i
  <2>1. instructions \in Seq(Instructions \union {i}) /\ i \in Instructions \union {i}
    <3>1. Seq(Instructions) \subseteq Seq(Instructions \union {i})
      OBVIOUS
    <3>2. QED
      BY <3>1 DEF KeptInv
  <2>2. QED
    BY <1>1, <2>1, AppendKeeps
<1>4. \A d : Actions(d)' = Actions(d)
  BY <1>1 DEF Actions
<1>5. ASSUME NEW k \in 1..Len(instructions')
      PROVE  instructions'[k].id = k - 1 /\ Told(instructions[k])'
  <2>1. CASE k \in 1..Len(instructions)
    BY <1>1, <1>3, <1>4, <2>1 DEF DefinedInv, Told
  <2>2. CASE k = Len(instructions) + 1
    BY <1>1, <1>2, <1>3, <1>4, <2>2 DEF Told
  <2>3. QED
    BY <1>3, <2>1, <2>2
<1>6. QED
  BY <1>1, <1>5, OpenIsDefined DEF DefinedInv

LEMMA SameOrder ==
  ASSUME instructions' = instructions
  PROVE  OrderedInstructions' = OrderedInstructions
<1>1. OrderedInstructions' = Sorting(ToSet(instructions'))
  BY Zenon DEF OrderedInstructions, Sorting
<1>2. QED
  BY <1>1, OrderedIsSorting

LEMMA CompileIsDefined ==
  ASSUME KeptInv, CoverInv, DefinedInv, Compile
  PROVE  DefinedInv'
<1>1. /\ compiled = None /\ ExpectedTickCount < MaxExpectedTickCount
      /\ compiled' = CompileTest
      /\ UNCHANGED <<configured, channels, instructions, upload>>
  BY DEF Compile, definition
<1>2. LatestRelevantTick \in Nat
  <2>1. LatestRelevantTick = Max(Relevant)
    BY DEF LatestRelevantTick, Relevant
  <2>2. QED
    BY <2>1 DEF Max, CoverInv
<1>3. ExpectedTickCount \in 1..MaxExpectedTickCount - 1
  <2>1. frequency \in Nat /\ MaxExpectedTickCount \in Nat
    BY DefinitionAssumption DEF KeptInv
  <2>2. QED
    BY <1>1, <1>2, <2>1 DEF ExpectedTickCount
<1>4. /\ compiled'.configurations = channels /\ compiled'.instructions = OrderedInstructions
      /\ compiled'.expectedTickCount = ExpectedTickCount
  BY <1>1, Zenon DEF CompileTest
<1>5. OrderedInstructions' = OrderedInstructions
  BY <1>1, SameOrder
<1>6. \A d : Actions(d)' = Actions(d)
  BY <1>1 DEF Actions
<1>7. \A k \in 1..Len(instructions') : instructions'[k].id = k - 1 /\ Told(instructions[k])'
  BY <1>1, <1>6 DEF DefinedInv, Told
<1>8. QED
  BY <1>1, <1>3, <1>4, <1>5, <1>7 DEF DefinedInv

LEMMA SameIsDefined ==
  ASSUME DefinedInv, UNCHANGED <<configured, channels, instructions, compiled>>,
         upload' = upload \/ (compiled # None /\ upload' = SparseInstructions(compiled))
  PROVE  DefinedInv'
<1>1. OrderedInstructions' = OrderedInstructions
  BY SameOrder
<1>2. \A d : Actions(d)' = Actions(d)
  BY DEF Actions
<1>3. \A k \in 1..Len(instructions') : instructions'[k].id = k - 1 /\ Told(instructions[k])'
  BY <1>2 DEF DefinedInv, Told
<1>4. QED
  BY <1>1, <1>3 DEF DefinedInv

LEMMA NextIsDefined == KeptInv /\ CoverInv /\ DefinedInv /\ [Next]_vars => DefinedInv'
<1> SUFFICES ASSUME KeptInv, CoverInv, DefinedInv, [Next]_vars PROVE DefinedInv'
  OBVIOUS
<1>1. ASSUME NEW mode \in Frequencies, Configure(mode) PROVE DefinedInv'
  <2>1. /\ compiled = None /\ compiled' = None /\ upload' = upload /\ configured' \in BOOLEAN
        /\ channels' = channels /\ instructions' = <<>>
    BY <1>1 DEF Configure, Mutable
  <2>2. Len(instructions') = 0
    BY <2>1
  <2>3. QED
    BY <2>1, <2>2, OpenIsDefined DEF DefinedInv
<1>2. ASSUME NEW c \in Channels, NEW configuration \in ChannelConfigurations(KindOf[c]),
             ConfigureChannel(c, configuration)
      PROVE  DefinedInv'
  BY <1>2, ConfigureChannelIsDefined
<1>3. ASSUME NEW c \in Channels, NEW action \in Actions(c), NEW moment \in Moments,
             Schedule(c, action, moment)
      PROVE  DefinedInv'
  BY <1>3, ScheduleIsDefined
<1>4. ASSUME NEW c \in Channels, NEW start \in Moments, NEW end \in Moments,
             AddAssertion(c, start, end)
      PROVE  DefinedInv'
  BY <1>4, SameIsDefined DEF AddAssertion
<1>5. CASE Compile
  BY <1>5, CompileIsDefined
<1>6. CASE BuildUpload
  BY <1>6, SameIsDefined DEF BuildUpload, definition
<1>7. CASE UNCHANGED vars
  BY <1>7, SameIsDefined DEF vars, definition
<1>8. QED
  BY <1>1, <1>2, <1>3, <1>4, <1>5, <1>6, <1>7 DEF Next

-----------------------------------------------------------------------------
(* The upload of a definition *)

\* The instructions of the fixed outputs.
Fixed == {i \in ToSet(instructions) : KindOf[i.channel] \in FixedOutputKinds}

LEMMA InstructionsAreDistinct ==
  ASSUME KeptInv, DefinedInv
  PROVE  /\ Distinct(ToSet(instructions))
         /\ \A i \in ToSet(instructions) : i \in Instructions /\ Told(i)
<1>1. instructions \in Seq(Instructions) /\ DOMAIN instructions = 1..Len(instructions)
  BY DEF KeptInv
<1>2. \A i \in ToSet(instructions) : \E k \in 1..Len(instructions) : i = instructions[k]
  BY <1>1 DEF ToSet
<1>3. \A i \in ToSet(instructions) : i \in Instructions /\ Told(i)
  BY <1>1, <1>2 DEF DefinedInv
<1>4. \A i, j \in ToSet(instructions) : i.id = j.id => i = j
  <2> SUFFICES ASSUME NEW k \in 1..Len(instructions), NEW l \in 1..Len(instructions),
                      instructions[k].id = instructions[l].id
               PROVE  k = l
    BY <1>2
  <2>1. k - 1 = l - 1
    BY DEF DefinedInv
  <2>2. QED
    BY <2>1
<1>5. IsFiniteSet(ToSet(instructions))
  <2>1. IsFiniteSet(DOMAIN instructions)
    BY <1>1, FS_Interval
  <2>2. ToSet(instructions) = {instructions[k] : k \in DOMAIN instructions}
    BY DEF ToSet
  <2>3. QED
    BY <2>1, <2>2, ImageIsFinite
<1>6. QED
  BY <1>3, <1>4, <1>5 DEF Distinct, Instructions

LEMMA FixedFits ==
  ASSUME KeptInv, DefinedInv
  PROVE  Distinct(Fixed) /\ \A i \in Fixed : Fits(i)
<1>1. Fixed \in SUBSET ToSet(instructions)
  BY DEF Fixed
<1>2. Distinct(Fixed)
  BY <1>1, InstructionsAreDistinct, FS_Subset DEF Distinct
<1>3. ASSUME NEW i \in Fixed PROVE Fits(i)
  <2>1. i.channel \in Channels /\ i.action \in Actions(i.channel) /\ KindOf[i.channel] \in FixedOutputKinds
    BY <1>1, InstructionsAreDistinct DEF Instructions, Told, Fixed
  <2>2. i.channel \in OutputChannels
    BY <2>1 DEF OutputChannels
  <2>3. KindOf[i.channel] = "digital_output" => i.action \in DigitalActions
    BY <2>1 DEF Actions
  <2>4. KindOf[i.channel] = "analogue_output" => i.action \in AnalogueActions
    BY <2>1 DEF Actions
  <2>5. KindOf[i.channel] = "pwm_output" => i.action \in PwmActions
    BY <2>1 DEF Actions
  <2>6. QED
    BY <2>2, <2>3, <2>4, <2>5 DEF Fits
<1>4. QED
  BY <1>2, <1>3

LEMMA InitialOutputsStart ==
  ASSUME DefinedInv, compiled # None
  PROVE  /\ Starts(InitialOutputs(compiled))
         /\ \A c \in OutputChannels : channels[c] # None => InitialOutputs(compiled)[c] = channels[c]
<1> DEFINE start == InitialOutputs(compiled)
<1>1. start = [c \in OutputChannels |-> IF channels[c] = None THEN Disabled(c) ELSE channels[c]]
  BY DEF InitialOutputs, DefinedInv
<1> HIDE DEF start
<1>2. ASSUME NEW c \in OutputChannels
      PROVE  /\ KindOf[c] = "digital_output" => start[c] \in BOOLEAN
             /\ KindOf[c] = "pwm_output" => start[c] \in [period : Nat, duty : Nat, enabled : BOOLEAN]
  <2>1. start[c] = Disabled(c) \/ start[c] \in ChannelConfigurations(KindOf[c])
    BY <1>1 DEF DefinedInv, OutputChannels
  <2>2. KindOf[c] = "digital_output" => start[c] \in BOOLEAN
    BY <2>1 DEF Disabled, ChannelConfigurations
  <2>3. ASSUME KindOf[c] = "pwm_output"
        PROVE  start[c] \in [period : Nat, duty : Nat, enabled : BOOLEAN]
    <3>1. Disabled(c) = [period |-> 0, duty |-> 0, enabled |-> FALSE]
      BY <2>3 DEF Disabled
    <3>2. ChannelConfigurations(KindOf[c]) = Waveforms
      BY <2>3 DEF ChannelConfigurations
    <3>3. Waveforms \subseteq [period : Nat, duty : Nat, enabled : BOOLEAN]
      BY DefinitionAssumption DEF Waveforms
    <3>4. CASE start[c] = Disabled(c)
      BY <3>1, <3>4
    <3>5. CASE start[c] \in ChannelConfigurations(KindOf[c])
      BY <3>2, <3>3, <3>5
    <3>6. QED
      BY <2>1, <3>4, <3>5
  <2>4. QED
    BY <2>2, <2>3
<1>3. start = [c \in OutputChannels |-> start[c]]
  BY <1>1
<1>4. QED
  BY <1>1, <1>2, <1>3 DEF Starts, start

LEMMA FixedIsListed ==
  ASSUME KeptInv, DefinedInv, compiled # None
  PROVE  \E n : Lists(FixedInstructions(compiled), n, Fixed)
<1> DEFINE I == ToSet(instructions)
           N == Cardinality(I)
           s == compiled.instructions
           K == {k \in DOMAIN s : KindOf[s[k].channel] \in FixedOutputKinds}
           n == Cardinality(K)
           a == Ascending(K)
           f == FixedInstructions(compiled)
<1>1. s = Sorting(I)
  BY OrderedIsSorting DEF DefinedInv
<1>2. f = [k \in DOMAIN a |-> s[a[k]]]
  BY Zenon DEF FixedInstructions
<1> HIDE DEF s, f
<1>3. /\ N \in Nat /\ s \in [1..N -> I]
      /\ \A j, k \in 1..N : j < k => Precedes(s[j], s[k])
      /\ \A i \in I : \E k \in 1..N : s[k] = i
  BY <1>1, SortingIs, InstructionsAreDistinct
<1> HIDE DEF N, I
<1>4. K \in SUBSET (1..N) /\ K \in SUBSET Nat
  BY <1>3
<1>5. IsFiniteSet(K)
  BY <1>3, <1>4, FS_Interval, FS_Subset
<1>6. Fixed = {i \in I : KindOf[i.channel] \in FixedOutputKinds}
  BY DEF Fixed, I
<1>7. \A k \in K : s[k] \in Fixed
  BY <1>3, <1>6
<1>8. \A i \in Fixed : \E k \in K : s[k] = i
  <2> SUFFICES ASSUME NEW i \in Fixed PROVE \E k \in K : s[k] = i
    OBVIOUS
  <2>1. PICK k \in 1..N : s[k] = i
    BY <1>3, <1>6
  <2>2. k \in K
    BY <1>3, <1>6, <2>1
  <2>3. QED
    BY <2>1, <2>2
<1> HIDE DEF K
<1>9. /\ n \in Nat /\ a \in [1..n -> K]
      /\ \A i, j \in 1..n : i < j => a[i] < a[j]
      /\ \A x \in K : \E k \in 1..n : a[k] = x
  BY <1>4, <1>5, SortedTicksAscend
<1> HIDE DEF a, n
<1>10. f \in [1..n -> Fixed] /\ \A k \in 1..n : f[k] = s[a[k]]
  BY <1>2, <1>7, <1>9
<1>11. ASSUME NEW j \in 1..n, NEW k \in 1..n, j < k PROVE Precedes(f[j], f[k])
  <2>1. a[j] \in 1..N /\ a[k] \in 1..N /\ a[j] < a[k]
    BY <1>4, <1>9, <1>11
  <2>2. QED
    BY <1>3, <1>10, <2>1
<1>12. \A i \in Fixed : \E k \in 1..n : f[k] = i
  BY <1>8, <1>9, <1>10
<1>13. Lists(f, n, Fixed)
  BY <1>9, <1>10, <1>11, <1>12 DEF Lists
<1>14. QED
  BY <1>13 DEF f

UploadOf(ticks, m) ==
  /\ upload = MessagesFor(InitialOutputs(compiled), Fixed, ticks, m)
  /\ ticks \in [1..m -> TicksOf(compiled, Fixed)]
  /\ \A j, k \in 1..m : j < k => ticks[j] < ticks[k]
  /\ \A t \in TicksOf(compiled, Fixed) : \E k \in 1..m : ticks[k] = t

LEMMA UploadIs ==
  ASSUME KeptInv, DefinedInv, upload # None
  PROVE  \E m \in Nat : UploadOf(MessageTicks(compiled), m)
<1>1. compiled # None /\ upload = SparseInstructions(compiled)
  BY DEF DefinedInv
<1>2. Distinct(Fixed) /\ \A i \in Fixed : Fits(i)
  BY FixedFits
<1>3. PICK n : Lists(FixedInstructions(compiled), n, Fixed)
  BY <1>1, FixedIsListed
<1>4. Starts(InitialOutputs(compiled))
  BY <1>1, InitialOutputsStart
<1>5. PICK m \in Nat :
        /\ MessageTicks(compiled) \in [1..m -> TicksOf(compiled, Fixed)]
        /\ \A j, k \in 1..m : j < k => MessageTicks(compiled)[j] < MessageTicks(compiled)[k]
        /\ \A t \in TicksOf(compiled, Fixed) : \E k \in 1..m : MessageTicks(compiled)[k] = t
  BY <1>2, <1>3, MessageTicksAre
<1>6. SparseInstructions(compiled)
        = MessagesFor(InitialOutputs(compiled), Fixed, MessageTicks(compiled), m)
  BY <1>2, <1>3, <1>4, <1>5, SparseInstructionsAre
<1>7. QED
  BY <1>1, <1>5, <1>6 DEF UploadOf

LEMMA UploadFacts ==
  ASSUME KeptInv, CoverInv, DefinedInv, NEW m \in Nat, NEW ticks, UploadOf(ticks, m)
  PROVE  /\ Len(upload) = m /\ DOMAIN upload = 1..m
         /\ \A k \in 1..m :
              /\ upload[k] = MessageFor(InitialOutputs(compiled), Fixed, ticks[k])
              /\ ticks[k] \in Nat /\ ticks[k] \in Relevant
<1> DEFINE message(k) == MessageFor(InitialOutputs(compiled), Fixed, ticks[k])
<1>1. upload = [k \in 1..m |-> message(k)]
  BY DEF UploadOf, MessagesFor
<1> HIDE DEF message
<1>2. Len(upload) = m /\ DOMAIN upload = 1..m
  <2> DEFINE U == {message(k) : k \in 1..m}
  <2>1. upload \in [1..m -> U]
    BY <1>1
  <2> HIDE DEF U
  <2>2. QED
    BY <2>1
<1>3. TicksOf(compiled, Fixed) \subseteq Relevant /\ Relevant \subseteq Nat
  BY DEF TicksOf, Fixed, Relevant, CoverInv
<1>4. \A k \in 1..m : ticks[k] \in Nat /\ ticks[k] \in Relevant
  BY <1>3 DEF UploadOf
<1>5. QED
  BY <1>1, <1>2, <1>4 DEF message

LEMMA UploadsAscend == KeptInv /\ CoverInv /\ DefinedInv => UploadTicksAscend
<1> SUFFICES ASSUME KeptInv, CoverInv, DefinedInv, upload # None
             PROVE  /\ \A k \in 1..Len(upload) - 1 : upload[k].tick < upload[k + 1].tick
                    /\ \A k \in 1..Len(upload) : upload[k].tick < compiled.expectedTickCount
  BY DEF UploadTicksAscend
<1> DEFINE ticks == MessageTicks(compiled)
<1>1. PICK m \in Nat : UploadOf(ticks, m)
  BY UploadIs
<1> HIDE DEF ticks
<1>2. Len(upload) = m /\ \A k \in 1..m : upload[k].tick = ticks[k] /\ ticks[k] \in Relevant /\ ticks[k] \in Nat
  <2>1. Len(upload) = m
    BY <1>1, UploadFacts
  <2>2. \A k \in 1..m : upload[k] = MessageFor(InitialOutputs(compiled), Fixed, ticks[k])
    BY <1>1, UploadFacts
  <2>3. \A k \in 1..m : ticks[k] \in Relevant /\ ticks[k] \in Nat
    BY <1>1, UploadFacts
  <2>4. ASSUME NEW k \in 1..m PROVE upload[k].tick = ticks[k]
    <3>1. upload[k] = MessageFor(InitialOutputs(compiled), Fixed, ticks[k])
      BY <2>2
    <3>2. MessageFor(InitialOutputs(compiled), Fixed, ticks[k]).tick = ticks[k]
      BY MessageHasTick
    <3>3. QED
      BY <3>1, <3>2
  <2>5. QED
    BY <2>1, <2>3, <2>4
<1>3. ASSUME NEW k \in 1..m - 1 PROVE upload[k].tick < upload[k + 1].tick
  <2>1. k \in 1..m /\ k + 1 \in 1..m /\ k < k + 1
    OBVIOUS
  <2>2. QED
    BY <1>1, <1>2, <2>1 DEF UploadOf
<1>4. ASSUME NEW k \in 1..m PROVE upload[k].tick < compiled.expectedTickCount
  <2>1. compiled # None
    BY DEF DefinedInv
  <2>2. ticks[k] + frequency < compiled.expectedTickCount /\ frequency \in Nat /\ ticks[k] \in Nat
    BY <1>2, <2>1, DefinitionAssumption DEF CoverInv, KeptInv
  <2>3. compiled.expectedTickCount \in Int
    BY <2>1, DefinitionAssumption DEF DefinedInv
  <2>4. QED
    BY <1>2, <2>2, <2>3
<1>5. QED
  BY <1>2, <1>3, <1>4

LEMMA DefinedIsTyped == KeptInv /\ CoverInv /\ DefinedInv => TypeOK
<1> SUFFICES ASSUME KeptInv, CoverInv, DefinedInv PROVE TypeOK
  OBVIOUS
<1>1. ASSUME upload # None, NEW msg \in ToSet(upload)
      PROVE  msg.tick \in Nat /\ DOMAIN msg.outputs = OutputChannels
  <2> DEFINE ticks == MessageTicks(compiled)
  <2>1. PICK m \in Nat : UploadOf(ticks, m)
    BY <1>1, UploadIs
  <2> HIDE DEF ticks
  <2>2. DOMAIN upload = 1..m
    BY <2>1, UploadFacts
  <2>3. PICK k \in 1..m : msg = upload[k]
    BY <1>1, <2>2 DEF ToSet
  <2>4. msg = MessageFor(InitialOutputs(compiled), Fixed, ticks[k]) /\ ticks[k] \in Nat
    BY <2>1, <2>3, UploadFacts
  <2>5. QED
    BY <2>4 DEF MessageFor, Encoded
<1>2. QED
  BY <1>1 DEF TypeOK, KeptInv, DefinedInv

-----------------------------------------------------------------------------
(* What an output is, and what it was asked to be *)

LEMMA HeldIs ==
  ASSUME KeptInv, CoverInv, DefinedInv, upload # None,
         NEW c \in OutputChannels, channels[c] # None, NEW tick \in Nat
  PROVE  Held(c, tick)
           = Encoded(OutputsAfter(InitialOutputs(compiled), {i \in Fixed : i.tick <= tick}))[c]
<1> DEFINE start == InitialOutputs(compiled)
           upTo(t) == {i \in Fixed : i.tick <= t}
           after(t) == Encoded(OutputsAfter(start, upTo(t)))
           ticks == MessageTicks(compiled)
           reached == {k \in 1..Len(upload) : upload[k].tick <= tick}
<1>1. PICK m \in Nat : UploadOf(ticks, m)
  BY UploadIs
<1>2. /\ ticks \in [1..m -> TicksOf(compiled, Fixed)]
      /\ \A j, k \in 1..m : j < k => ticks[j] < ticks[k]
      /\ \A t \in TicksOf(compiled, Fixed) : \E k \in 1..m : ticks[k] = t
  BY <1>1, Zenon DEF UploadOf
<1> HIDE DEF ticks
<1>3. Len(upload) = m /\ \A k \in 1..m : ticks[k] \in Nat
  BY <1>1, UploadFacts
<1>4. \A k \in 1..m : upload[k].tick = ticks[k] /\ upload[k].outputs = after(ticks[k])
  <2>1. \A k \in 1..m : upload[k] = MessageFor(start, Fixed, ticks[k])
    BY <1>1, UploadFacts
  <2>2. QED
    BY <2>1, MessageIs
<1>5. reached = {k \in 1..m : ticks[k] <= tick}
  BY <1>3, <1>4
<1>6. IF reached # {} THEN Held(c, tick) = upload[Max(reached)].outputs[c]
      ELSE IF KindOf[c] = "analogue_output" THEN Held(c, tick) = None
      ELSE Held(c, tick) = Encoded(start)[c]
  BY DEF Held
<1>7. \A i \in Fixed : i.tick \in Nat /\ \E k \in 1..m : ticks[k] = i.tick
  BY <1>2, FixedFits DEF TicksOf, Distinct
<1> HIDE DEF reached, after
<1>8. CASE reached # {}
  <2>1. PICK p \in reached : \A k \in reached : k <= p
    <3>1. reached \in SUBSET (0..m)
      BY <1>5
    <3>2. QED
      BY <1>8, <3>1, Applying!GreatestOf
  <2>2. Max(reached) = p
    <3>1. reached \in SUBSET Nat
      BY <1>5
    <3>2. Applying!Max(reached) = p
      BY <2>1, <3>1, Applying!GreatestIsMax
    <3>3. QED
      BY <3>2, SameOperators
  <2>3. p \in 1..m /\ ticks[p] <= tick /\ ticks[p] \in Nat
    BY <1>3, <1>5, <2>1
  <2>4. ASSUME NEW i \in Fixed, i.tick <= tick PROVE i.tick <= ticks[p]
    <3>1. PICK k \in 1..m : ticks[k] = i.tick
      BY <1>7
    <3>2. k \in reached
      BY <1>5, <2>4, <3>1
    <3>3. k < p \/ k = p
      BY <2>1, <2>3, <3>2
    <3>4. QED
      BY <1>2, <2>3, <3>1, <3>3, <1>3
  <2>5. ASSUME NEW i \in Fixed, i.tick <= ticks[p] PROVE i.tick <= tick
    BY <1>7, <2>3, <2>5
  <2>6. upTo(ticks[p]) = upTo(tick)
    BY <2>4, <2>5
  <2> HIDE DEF upTo
  <2>7. after(ticks[p]) = after(tick)
    BY <2>6 DEF after
  <2>8. Held(c, tick) = after(tick)[c]
    BY <1>4, <1>6, <1>8, <2>2, <2>3, <2>7
  <2>9. QED
    BY <2>8, Zenon DEF after, upTo
<1>9. CASE reached = {}
  <2>1. upTo(tick) = {}
    BY <1>5, <1>7, <1>9
  <2>2. KindOf[c] # "analogue_output"
    <3> SUFFICES ASSUME KindOf[c] = "analogue_output" PROVE FALSE
      OBVIOUS
    <3>1. compiled.configurations = channels
      BY DEF DefinedInv
    <3>2. HasAnalogueOutput(compiled)
      BY <3>1 DEF HasAnalogueOutput
    <3>3. 0 \in TicksOf(compiled, Fixed)
      BY <3>2 DEF TicksOf
    <3>4. PICK k \in 1..m : ticks[k] = 0
      BY <1>2, <3>3
    <3>5. QED
      BY <1>5, <1>9, <3>4
  <2>3. OutputsAfter(start, {}) = start
    BY OutputsBeforeAll, InitialOutputsStart DEF DefinedInv
  <2> HIDE DEF upTo
  <2>4. after(tick) = Encoded(start)
    BY <2>1, <2>3, Zenon DEF after
  <2> HIDE DEF start
  <2>5. Held(c, tick) = after(tick)[c]
    BY <1>6, <1>9, <2>2, <2>4
  <2>6. QED
    BY <2>5, Zenon DEF after, upTo, start
<1>10. QED
  BY <1>8, <1>9

LEMMA AskedIs ==
  ASSUME KeptInv, DefinedInv, compiled # None,
         NEW c \in OutputChannels, channels[c] # None, NEW tick \in Nat
  PROVE  Asked(c, tick)
           = Encoded(OutputsAfter(InitialOutputs(compiled), {i \in Fixed : i.tick <= tick}))[c]
<1> DEFINE S == {i \in Fixed : i.tick <= tick}
           initial == channels[c]
           told(ops) == {i \in ToSet(instructions) :
                           i.channel = c /\ i.tick <= tick /\ i.action.op \in ops}
           outputs == OutputsAfter(InitialOutputs(compiled), S)
<1>1. \A ops : told(ops) = OfChannel(c, S, ops)
  BY DEF OfChannel, Fixed, OutputChannels
<1>2. outputs[c] = StateAfter(initial, c, S)
  BY InitialOutputsStart DEF OutputsAfter
<1>3. Encoded(outputs)[c]
        = IF KindOf[c] # "pwm_output" THEN outputs[c]
          ELSE IF outputs[c].enabled
          THEN [period |-> outputs[c].period, duty |-> outputs[c].duty] ELSE Off
  BY DEF Encoded
<1> HIDE DEF outputs
<1>4. CASE KindOf[c] = "digital_output"
  <2> DEFINE levels  == told({"HIGH", "LOW"})
             flips   == told({"TOGGLE"})
             high    == IF levels = {} THEN initial ELSE Latest(levels).action.op = "HIGH"
             toggles == {i \in flips : levels = {} \/ Precedes(Latest(levels), i)}
  <2>1. Asked(c, tick) = (high = (Cardinality(toggles) % 2 = 0))
    BY <1>4 DEF Asked
  <2>2. levels = OfChannel(c, S, {"HIGH", "LOW"}) /\ flips = OfChannel(c, S, {"TOGGLE"})
    BY <1>1
  <2> HIDE DEF levels, flips, S, told
  <2>3. DigitalState(initial, c, S) = (high = (Cardinality(toggles) % 2 = 0))
    BY <2>2 DEF DigitalState
  <2>4. QED
    BY <1>2, <1>3, <1>4, <2>1, <2>3 DEF StateAfter, outputs, S
<1>5. CASE KindOf[c] = "analogue_output"
  <2>1. Asked(c, tick) = LastOf(told({"set_voltage"}), "voltage", initial)
    BY <1>5 DEF Asked
  <2> HIDE DEF told, S
  <2>2. Asked(c, tick) = AnalogueState(initial, c, S)
    BY <1>1, <2>1 DEF AnalogueState
  <2>3. QED
    BY <1>2, <1>3, <1>5, <2>2 DEF StateAfter, outputs, S
<1>6. CASE KindOf[c] = "pwm_output"
  <2>1. Asked(c, tick)
          = IF LastOf(told({"set_enabled"}), "enabled", initial.enabled)
            THEN [period |-> LastOf(told({"set", "set_frequency"}), "period", initial.period),
                  duty   |-> LastOf(told({"set", "set_duty_cycle"}), "duty", initial.duty)]
            ELSE Off
    BY <1>6 DEF Asked
  <2> HIDE DEF told, S
  <2>2. outputs[c] = PwmState(initial, c, S)
    BY <1>2, <1>6 DEF StateAfter
  <2>3. /\ outputs[c].enabled = LastOf(told({"set_enabled"}), "enabled", initial.enabled)
        /\ outputs[c].period = LastOf(told({"set", "set_frequency"}), "period", initial.period)
        /\ outputs[c].duty = LastOf(told({"set", "set_duty_cycle"}), "duty", initial.duty)
    BY <1>1, <2>2 DEF PwmState
  <2>4. QED
    BY <1>3, <1>6, <2>1, <2>3 DEF outputs, S
<1>7. QED
  BY <1>4, <1>5, <1>6, KindsDiffer

LEMMA DefinedImplies == KeptInv /\ CoverInv /\ DefinedInv => OutputsAreAsAsked
<1> SUFFICES ASSUME KeptInv, CoverInv, DefinedInv, upload # None,
                    NEW c \in OutputChannels, channels[c] # None,
                    NEW tick \in 0..compiled.expectedTickCount - 1
             PROVE  Held(c, tick) = Asked(c, tick)
  BY DEF OutputsAreAsAsked
<1>1. compiled # None
  BY DEF DefinedInv
<1>2. tick \in Nat
  OBVIOUS
<1>3. QED
  BY <1>1, <1>2, HeldIs, AskedIs

-----------------------------------------------------------------------------

\* Every call of a Test and of its compilation keeps the types (api.py, compiler.py), and a
\* compiled test is short enough for the protocol (_MAX_EXPECTED_TICK_COUNT_EXCLUSIVE).
THEOREM DefinitionsAreTyped == Spec => []TypeOK
<1>1. QED
  BY InitKeeps, NextKeeps, InitCovers, NextCovers, InitIsDefined, NextIsDefined, DefinedIsTyped,
     PTL DEF Spec

\* The messages that _build_sparse_instructions makes (protocol/application.py) have
\* different ticks, in order and within the run, whatever was scheduled.
THEOREM UploadsAreInOrder == Spec => []UploadTicksAscend
<1>1. QED
  BY InitKeeps, NextKeeps, InitCovers, NextCovers, InitIsDefined, NextIsDefined, UploadsAscend,
     PTL DEF Spec

\* Sparse messages, applied by the rig one after another, give every output at every tick what
\* the calls of the user ask of it (protocol/application.py, _build_sparse_instructions).
THEOREM EveryOutputIsAsAsked == Spec => []OutputsAreAsAsked
<1>1. QED
  BY InitKeeps, NextKeeps, InitCovers, NextCovers, InitIsDefined, NextIsDefined, DefinedImplies,
     PTL DEF Spec
=============================================================================
