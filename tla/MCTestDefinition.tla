--------------------------- MODULE MCTestDefinition ---------------------------
(* A test with one channel of each kind that matters, for TLC. *)
EXTENDS TestDefinition

CONSTANTS led, dac, pwm, probe, bus

MCKindOf ==
  [c \in Channels |->
     CASE c = led   -> "digital_output"
       [] c = dac   -> "analogue_output"
       [] c = pwm   -> "pwm_output"
       [] c = probe -> "digital_input"
       [] c = bus   -> "i2c"]

\* The frequencies are one and two ticks per second, and times are in half-seconds.
MCMoments == {[unit |-> "tick", value |-> 0],
              [unit |-> "time", value |-> 1], [unit |-> "time", value |-> 2]}
=============================================================================
