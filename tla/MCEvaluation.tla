----------------------------- MODULE MCEvaluation -----------------------------
(* Windows over three ticks, every kind of assertion, for TLC. *)
EXTENDS Evaluation

\* Ascending is the sorting of the community modules.
ASSUME AscendingSorts == \A S \in SUBSET (0..5) : Ascending(S) = SetToSortSeq(S, <)

\* With 12 nanoseconds to the second, a period of 4 is a frequency of 3 and one of 6 of 2.
MCRows ==
  {[digital_input |-> FALSE, analogue_input |-> 1, pwm_input |-> [period |-> 0, duty |-> 0]],
   [digital_input |-> TRUE,  analogue_input |-> 2, pwm_input |-> [period |-> 4, duty |-> 5]],
   [digital_input |-> TRUE,  analogue_input |-> 3, pwm_input |-> [period |-> 6, duty |-> 5]],
   [digital_input |-> FALSE, analogue_input |-> 2, pwm_input |-> [period |-> 6, duty |-> 9]]}

On(peripheral, from, until) == [peripheral |-> peripheral, from |-> from, until |-> until]

Points == {
  [assertion |-> "state_at_tick", expected_state |-> TRUE] @@ On("digital_input", 1, 1),
  [assertion |-> "near", target |-> 1, tolerance |-> 1] @@ On("analogue_input", 1, 1),
  [assertion |-> "within", minimum |-> 2, maximum |-> 3] @@ On("analogue_input", 2, 2),
  [assertion |-> "period_near", period |-> 4, tolerance |-> 1] @@ On("pwm_input", 0, 0),
  [assertion |-> "frequency_near", frequency |-> 3, tolerance |-> 1] @@ On("pwm_input", 1, 1),
  [assertion |-> "duty_cycle_near", duty |-> 6, tolerance |-> 1] @@ On("pwm_input", 2, 2),
  [assertion |-> "waveform_near", frequency |-> 2, tolerance |-> 0, duty |-> 5,
   duty_tolerance |-> 0] @@ On("pwm_input", 1, 1)}

Demands == {
  [assertion |-> "remain_high"] @@ On("digital_input", 0, 0),
  [assertion |-> "remain_low"] @@ On("digital_input", 0, 0),
  [assertion |-> "transition", from_state |-> FALSE, to_state |-> TRUE] @@ On("digital_input", 0, 0),
  [assertion |-> "remain_within", minimum |-> 2, maximum |-> 2] @@ On("analogue_input", 0, 0),
  [assertion |-> "remain_above", threshold |-> 1] @@ On("analogue_input", 0, 0),
  [assertion |-> "remain_below", threshold |-> 3] @@ On("analogue_input", 0, 0),
  [assertion |-> "frequency_remain_within", minimum |-> 2, maximum |-> 2] @@ On("pwm_input", 0, 0),
  [assertion |-> "duty_cycle_remain_within", minimum |-> 5, maximum |-> 6] @@ On("pwm_input", 0, 0)}

Windows == {w \in Ticks \X Ticks : w[1] <= w[2]}

Ranges == {[d EXCEPT !.from = w[1], !.until = w[2]] : d \in Demands, w \in Windows}

MCAssertionSets ==
  {<<>>} \union {<<a>> : a \in Points \union Ranges}
  \union {<<a, b>> : a \in {p \in Points : p.from = 0 \/ p.assertion = "near"}, b \in {r \in Ranges : r.from = 0 /\ r.until = 2}}
=============================================================================
