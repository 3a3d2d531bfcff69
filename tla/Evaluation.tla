------------------------------ MODULE Evaluation ------------------------------
(***************************************************************************)
(* Host-side evaluation of a captured run (src/hilrig/evaluation): one     *)
(* call of AssertionEvaluator.evaluate() on a capture that may still be    *)
(* written to.  The call reads the metadata, then the evidence of one      *)
(* assertion after another, then the stored application errors.            *)
(*                                                                         *)
(* Each kind of input has one channel: a handler only picks its column.    *)
(* Frequencies are compared as rationals, without floating-point rounding. *)
(***************************************************************************)
EXTENDS Integers, SequencesExt, Ordering

CONSTANTS
  None,                \* Python's None
  Problem,             \* the row of a tick with EXECUTION_PROBLEM
  ExpectedTickCount,
  Rows,                \* what a tick may measure: [peripheral -> value]
  FinalStatuses,       \* CaptureStatus without IN_PROGRESS
  AssertionSets,       \* the assertion sets that may be stored with a run
  NanosecondsPerSecond

Ticks == 0..ExpectedTickCount - 1
Verdicts == {"pass", "fail", "inconclusive"}

PointAssertions ==
  {"state_at_tick", "near", "within", "period_near", "frequency_near", "duty_cycle_near",
   "waveform_near"}

\* A point assertion asks for its tick, the others for all of their window.
HasWindow(a) ==
  /\ a.from \in Nat /\ a.until \in Nat /\ a.from <= a.until
  /\ a.assertion \in PointAssertions => a.from = a.until

ASSUME EvaluationAssumption ==
  /\ ExpectedTickCount \in Nat \ {0}
  /\ Rows # {} /\ Problem \notin Rows
  /\ {"complete", "incomplete"} \subseteq FinalStatuses /\ "in_progress" \notin FinalStatuses
  /\ \A set \in AssertionSets : set \in Seq(Range(set)) /\ \A a \in Range(set) : HasWindow(a)
  /\ None \notin FinalStatuses \union Verdicts

VARIABLES
  rows,         \* tick_results: a function on the stored ticks
  errors,       \* application_errors: the `recoverable' of the stored ones
  status,       \* run_metadata.status
  assertions,   \* assertion_definitions of the set to be evaluated
  metadata,     \* the status evaluate() read, None before the call
  results,      \* results
  report        \* the verdict of the returned report, None before it returns

vars == <<rows, errors, status, assertions, metadata, results, report>>

-----------------------------------------------------------------------------
(* Evidence *)

Sample(captured, peripheral, tick) ==
  IF captured[tick] = Problem THEN [tick |-> tick, state |-> "invalid"]
  ELSE [tick |-> tick, state |-> "valid", value |-> captured[tick][peripheral]]

MissingTicks(from, until) ==
  [k \in 1..until - from + 1 |-> [tick |-> from + k - 1, state |-> "missing"]]

\* Mistake: the stored rows are taken for all there is.
StoredSamples(samples, from, until) == samples

\* A stored sample is yielded after the ticks that are missing before it.
Yield(sofar, sample) ==
  [expected |-> sample.tick + 1,
   items |-> Append(sofar.items \o MissingTicks(sofar.expected, sample.tick - 1), sample)]

IncludeMissingTicks(samples, from, until) ==
  LET all == FoldLeft(Yield, [expected |-> from, items |-> <<>>], samples)
  IN  all.items \o MissingTicks(all.expected, until)

PointEvidence(captured, a) ==
  IF a.from \in DOMAIN captured THEN <<Sample(captured, a.peripheral, a.from)>>
  ELSE MissingTicks(a.from, a.from)

RangeEvidence(captured, a) ==
  LET stored == Ascending(DOMAIN captured \intersect a.from..a.until)
  IN  IncludeMissingTicks([k \in DOMAIN stored |-> Sample(captured, a.peripheral, stored[k])],
                          a.from, a.until)

-----------------------------------------------------------------------------
(* What an assertion accepts of one valid sample *)

Within(value, low, high) == low <= value /\ value <= high

DigitalAccepts(a, high) ==
  CASE a.assertion = "state_at_tick" -> high = a.expected_state
    [] a.assertion = "remain_high"   -> high
    [] a.assertion = "remain_low"    -> ~high

AnalogueAccepts(a, uv) ==
  CASE a.assertion = "near"         -> Within(uv, a.target - a.tolerance, a.target + a.tolerance)
    [] a.assertion \in {"within", "remain_within"} -> Within(uv, a.minimum, a.maximum)
    [] a.assertion = "remain_above" -> uv > a.threshold
    [] a.assertion = "remain_below" -> uv < a.threshold

FrequencyWithin(pwm, low, high) ==
  Within(NanosecondsPerSecond, low * pwm.period, high * pwm.period)

\* A period of zero is a valid report of no waveform.
PwmAccepts(a, pwm) ==
  /\ pwm.period # 0
  /\ CASE a.assertion = "period_near" ->
            Within(pwm.period, a.period - a.tolerance, a.period + a.tolerance)
       [] a.assertion = "frequency_near" ->
            FrequencyWithin(pwm, a.frequency - a.tolerance, a.frequency + a.tolerance)
       [] a.assertion = "duty_cycle_near" ->
            Within(pwm.duty, a.duty - a.tolerance, a.duty + a.tolerance)
       [] a.assertion = "waveform_near" ->
            /\ FrequencyWithin(pwm, a.frequency - a.tolerance, a.frequency + a.tolerance)
            /\ Within(pwm.duty, a.duty - a.duty_tolerance, a.duty + a.duty_tolerance)
       [] a.assertion = "frequency_remain_within" -> FrequencyWithin(pwm, a.minimum, a.maximum)
       [] a.assertion = "duty_cycle_remain_within" -> Within(pwm.duty, a.minimum, a.maximum)

Accepts(a, value) ==
  CASE a.peripheral = "digital_input"  -> DigitalAccepts(a, value)
    [] a.peripheral = "analogue_input" -> AnalogueAccepts(a, value)
    [] a.peripheral = "pwm_input"      -> PwmAccepts(a, value)

-----------------------------------------------------------------------------
(* The handlers *)

Count(evidence, state) == Cardinality({k \in DOMAIN evidence : evidence[k].state = state})

Gaps(evidence) == Count(evidence, "missing") + Count(evidence, "invalid")

MakeResult(evidence, verdict, violations, first) ==
  [verdict |-> verdict, valid |-> Count(evidence, "valid"),
   missing |-> Count(evidence, "missing"), invalid |-> Count(evidence, "invalid"),
   violations |-> violations, firstFailure |-> first]

RangeVerdict(violations, gaps) ==
  IF violations > 0 THEN "fail" ELSE IF gaps > 0 THEN "inconclusive" ELSE "pass"

EvaluatePoint(a, evidence) ==
  LET sample == evidence[1]
      failed == sample.state = "valid" /\ ~Accepts(a, sample.value)
  IN  IF failed THEN MakeResult(evidence, "fail", 1, sample.tick)
      ELSE MakeResult(evidence, IF sample.state = "valid" THEN "pass" ELSE "inconclusive", 0, None)

EvaluateRange(a, evidence) ==
  LET violating == {k \in DOMAIN evidence :
                      evidence[k].state = "valid" /\ ~Accepts(a, evidence[k].value)}
      violations == Cardinality(violating)
  IN  MakeResult(evidence, RangeVerdict(violations, Gaps(evidence)), violations,
                 IF violating = {} THEN None ELSE evidence[Min(violating)].tick)

\* Mistake: bool(None) is False, so what was not measured is low.
UnmeasuredIsLow(a, evidence) ==
  LET high(e) == e.state = "valid" /\ e.value
  IN  \E k \in 1..Len(evidence) - 1 :
        high(evidence[k]) = a.from_state /\ high(evidence[k + 1]) = a.to_state

TransitionSeen(a, evidence) ==
  \E k \in 1..Len(evidence) - 1 :
    /\ evidence[k].state = "valid" /\ evidence[k + 1].state = "valid"
    /\ evidence[k].value = a.from_state /\ evidence[k + 1].value = a.to_state

EvaluateTransition(a, evidence) ==
  LET verdict == IF TransitionSeen(a, evidence) THEN "pass"
                 ELSE IF Gaps(evidence) > 0 THEN "inconclusive" ELSE "fail"
  IN  MakeResult(evidence, verdict, IF verdict = "fail" THEN 1 ELSE 0, None)

Evaluated(captured, a) ==
  IF a.assertion \in PointAssertions THEN EvaluatePoint(a, PointEvidence(captured, a))
  ELSE IF a.assertion = "transition" THEN EvaluateTransition(a, RangeEvidence(captured, a))
  ELSE EvaluateRange(a, RangeEvidence(captured, a))

\* Mistake: the health of the capture is left to the assertions.
VerdictOfAssertions(verdicts) ==
  IF "fail" \in verdicts THEN "fail"
  ELSE IF verdicts = {} \/ "inconclusive" \in verdicts THEN "inconclusive" ELSE "pass"

OverallVerdict(verdicts) ==
  IF "fail" \in verdicts THEN "fail"
  ELSE IF \/ verdicts = {} \/ "inconclusive" \in verdicts
          \/ metadata # "complete" \/ FALSE \in errors
  THEN "inconclusive" ELSE "pass"

-----------------------------------------------------------------------------
(* The capture (see CaptureWriter), and the call *)

StoreRow(tick, row) ==
  /\ status = "in_progress"
  /\ tick \notin DOMAIN rows
  /\ rows' = [t \in DOMAIN rows \union {tick} |-> IF t = tick THEN row ELSE rows[t]]
  /\ UNCHANGED <<errors, status, assertions, metadata, results, report>>

StoreError(recoverable) ==
  /\ status = "in_progress"
  /\ recoverable \notin errors
  /\ errors' = errors \union {recoverable}
  /\ UNCHANGED <<rows, status, assertions, metadata, results, report>>

\* Without a requested status finalize() tells COMPLETE from INCOMPLETE; it refuses to say
\* COMPLETE of a capture that lacks a tick.
Finalize(requested) ==
  /\ status = "in_progress"
  /\ requested = "complete" => DOMAIN rows = Ticks
  /\ status' = IF requested # None THEN requested
               ELSE IF DOMAIN rows = Ticks THEN "complete" ELSE "incomplete"
  /\ UNCHANGED <<rows, errors, assertions, metadata, results, report>>

\* Mistake: a capture is evaluated while it is written.
BeginAtOnce ==
  /\ metadata = None
  /\ metadata' = status
  /\ UNCHANGED <<rows, errors, status, assertions, results, report>>

Begin ==
  /\ metadata = None
  /\ status # "in_progress"
  /\ metadata' = status
  /\ UNCHANGED <<rows, errors, status, assertions, results, report>>

EvaluateNext ==
  /\ metadata # None
  /\ Len(results) < Len(assertions)
  /\ results' = Append(results, Evaluated(rows, assertions[Len(results) + 1]))
  /\ UNCHANGED <<rows, errors, status, assertions, metadata, report>>

Return ==
  /\ metadata # None /\ report = None
  /\ Len(results) = Len(assertions)
  /\ report' = OverallVerdict({results[k].verdict : k \in DOMAIN results})
  /\ UNCHANGED <<rows, errors, status, assertions, metadata, results>>

Init ==
  /\ rows = <<>> /\ errors = {} /\ status = "in_progress"
  /\ assertions \in AssertionSets
  /\ metadata = None /\ results = <<>> /\ report = None

Next ==
  \/ \E tick \in Ticks, row \in Rows \union {Problem} : StoreRow(tick, row)
  \/ \E recoverable \in BOOLEAN : StoreError(recoverable)
  \/ \E requested \in FinalStatuses \union {None} : Finalize(requested)
  \/ Begin
  \/ EvaluateNext
  \/ Return

Spec == Init /\ [][Next]_vars

-----------------------------------------------------------------------------
(* Properties *)

(* What an assertion means, of a run every tick of which was measured *)

Holds(a, run) ==
  IF a.assertion = "transition"
  THEN \E t \in a.from..a.until - 1 :
         run[t][a.peripheral] = a.from_state /\ run[t + 1][a.peripheral] = a.to_state
  ELSE \A t \in a.from..a.until : Accepts(a, run[t][a.peripheral])

\* The runs that may have taken place, as far as the capture tells.
Measured == {t \in DOMAIN rows : rows[t] # Problem}
PossibleRuns == {run \in [Ticks -> Rows] : \A t \in Measured : run[t] = rows[t]}

\* PASS is proven by the evidence and so is FAIL: whatever was measured at the ticks that are
\* missing or invalid, the assertion holds, or does not.  Only a gap makes it inconclusive,
\* and a known violation of a point or range outweighs every gap.
VerdictsAreProven ==
  \A k \in DOMAIN results :
    LET a == assertions[k]
    IN  CASE results[k].verdict = "pass" -> \A run \in PossibleRuns : Holds(a, run)
          [] results[k].verdict = "fail" -> \A run \in PossibleRuns : ~Holds(a, run)
          [] OTHER ->
               /\ ~(a.from..a.until \subseteq Measured)
               /\ a.assertion = "transition"
                  \/ \A t \in Measured \intersect (a.from..a.until) :
                       Accepts(a, rows[t][a.peripheral])

\* The counts account for every tick of the window once, and the first failure is the first
\* tick that was measured and is not accepted.
CountsAreTrue ==
  \A k \in DOMAIN results :
    LET a == assertions[k]
        r == results[k]
        window == a.from..a.until
        refused == {t \in window \intersect Measured : ~Accepts(a, rows[t][a.peripheral])}
    IN  /\ r.valid = Cardinality(window \intersect Measured)
        /\ r.missing = Cardinality(window \ DOMAIN rows)
        /\ r.invalid = Cardinality(window \intersect (DOMAIN rows \ Measured))
        /\ a.assertion # "transition" =>
             /\ r.violations = Cardinality(refused)
             /\ r.firstFailure = IF refused = {} THEN None ELSE Min(refused)

\* Evaluation can be run again at any time: what was found for an assertion is what the
\* capture says now, also when it was being written to as evaluate() was called.
ResultsStand == \A k \in DOMAIN results : results[k] = Evaluated(rows, assertions[k])

\* A run passes only when it has assertions, all its ticks were received, the rig reported
\* nothing it could not recover from, and every assertion holds of every run that may have
\* taken place; it fails only when one of them holds of none.
ReportIsSound ==
  /\ report = "pass" =>
       /\ assertions # <<>> /\ DOMAIN rows = Ticks /\ FALSE \notin errors
       /\ \A k \in DOMAIN assertions : \A run \in PossibleRuns : Holds(assertions[k], run)
  /\ report = "fail" =>
       \E k \in DOMAIN assertions : \A run \in PossibleRuns : ~Holds(assertions[k], run)
  /\ report = "inconclusive" =>
       \/ assertions = <<>> \/ status # "complete" \/ FALSE \in errors
       \/ \E k \in DOMAIN assertions : ~(assertions[k].from..assertions[k].until \subseteq Measured)
=============================================================================
