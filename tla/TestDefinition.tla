---------------------------- MODULE TestDefinition ----------------------------
(***************************************************************************)
(* A Test (src/hilrig/api.py) from its definition to the messages of its   *)
(* upload: the calls of the user, compile() (compiler.py, timing.py) and   *)
(* FixedIOProtocolAdapter.build_upload (protocol/application.py).          *)
(*                                                                         *)
(* A call that raises changes nothing and is not an action.  Channels      *)
(* stand for their handles, which are cached by identity.                  *)
(***************************************************************************)
EXTENDS Naturals, SequencesExt, Ordering

CONSTANTS
  None,                 \* Python's None
  Channels,             \* the channels a test may use
  KindOf,               \* [c -> its peripheral kind]
  Frequencies,          \* frequency modes, in ticks per second
  DefaultFrequency,     \* the mode of a test that is not configured
  TimesPerSecond,       \* at_ms and at_s give times in this fraction of a second
  Moments,              \* when things may be asked for: [unit, value]
  Levels,               \* analogue voltages, in microvolts
  Periods, Duties,      \* PWM waveforms
  MaxExpectedTickCount, \* _MAX_EXPECTED_TICK_COUNT_EXCLUSIVE
  MaxCalls              \* bound on the calls that make up a test

InputKinds       == {"digital_input", "analogue_input", "pwm_input"}
FixedOutputKinds == {"digital_output", "analogue_output", "pwm_output"}
BusKinds         == {"i2c", "spi", "uart"}

ASSUME DefinitionAssumption ==
  /\ KindOf \in [Channels -> InputKinds \union FixedOutputKinds \union BusKinds]
  /\ Frequencies \subseteq Nat \ {0} /\ DefaultFrequency \in Frequencies
  /\ TimesPerSecond \in Nat \ {0}
  /\ Moments \subseteq [unit : {"tick", "time"}, value : Nat]
  /\ Levels \subseteq Nat /\ Periods \subseteq Nat \ {0} /\ Duties \subseteq Nat
  /\ MaxExpectedTickCount \in Nat /\ MaxCalls \in Nat

VARIABLES
  configured,    \* _test_configuration_set
  frequency,     \* _configuration.frequency_mode
  channels,      \* _configuration.channel_configurations
  instructions,  \* _instructions
  assertions,    \* _assertions
  compiled,      \* _compiled_plan
  upload         \* the instruction messages of the last FixedIOUploadMessages built from it

definition == <<configured, frequency, channels, instructions, assertions>>
vars == <<definition, compiled, upload>>

OutputChannels == {c \in Channels : KindOf[c] \in FixedOutputKinds}

-----------------------------------------------------------------------------
(* Times *)

Aligned(moment, hertz) ==
  moment.unit = "tick" \/ (moment.value * hertz) % TimesPerSecond = 0

ResolveTimestamp(moment, hertz) ==
  IF moment.unit = "tick" THEN moment.value ELSE (moment.value * hertz) \div TimesPerSecond

-----------------------------------------------------------------------------
(* What a channel may be configured as, and told to do *)

Waveforms == [period : Periods, duty : Duties, enabled : BOOLEAN]

\* A digital output's initial state (high or not), an analogue output's initial voltage,
\* a PWM output's initial waveform, a bus's role; inputs and UARTs are just declared.
ChannelConfigurations(kind) ==
  CASE kind = "digital_output"  -> BOOLEAN
    [] kind = "analogue_output" -> Levels
    [] kind = "pwm_output"      -> Waveforms
    [] kind \in {"i2c", "spi"}  -> {"master", "slave"}
    [] OTHER                    -> {"declared"}

DigitalActions == [op : {"HIGH", "LOW", "TOGGLE"}]

PwmActions ==
  [op : {"set_enabled"}, enabled : BOOLEAN]
  \union [op : {"set"}, period : Periods, duty : Duties]
  \union [op : {"set_frequency"}, period : Periods]
  \union [op : {"set_duty_cycle"}, duty : Duties]

AnalogueActions == [op : {"set_voltage"}, voltage : Levels]

\* An I2C master writes and reads, a slave preloads its response.
I2CActions(role) == [op : IF role = "master" THEN {"write", "read"} ELSE {"preload_response"}]
SPIActions(role) == [op : IF role = "master" THEN {"transfer"} ELSE {}]
UARTActions      == [op : {"write"}]

Actions(c) ==
  CASE KindOf[c] = "digital_output"  -> DigitalActions
    [] KindOf[c] = "pwm_output"      -> PwmActions
    [] KindOf[c] = "analogue_output" -> AnalogueActions
    [] KindOf[c] = "i2c"             -> I2CActions(channels[c])
    [] KindOf[c] = "spi"             -> SPIActions(channels[c])
    [] KindOf[c] = "uart"            -> UARTActions
    [] OTHER                         -> {}

-----------------------------------------------------------------------------
(* The user *)

Mutable == compiled = None

CallsLeft ==
  Cardinality({c \in Channels : channels[c] # None}) + Len(instructions) + Len(assertions) < MaxCalls

\* Mistake: the frequency may change under timestamps that were already converted.
ConfigureAnyTime(mode) ==
  /\ Mutable
  /\ ~configured
  /\ frequency' = mode
  /\ configured' = TRUE
  /\ UNCHANGED <<channels, instructions, assertions, compiled, upload>>

Configure(mode) ==
  /\ Mutable
  /\ ~configured
  /\ instructions = <<>> /\ assertions = <<>>
  /\ frequency' = mode
  /\ configured' = TRUE
  /\ UNCHANGED <<channels, instructions, assertions, compiled, upload>>

ConfigureChannel(c, configuration) ==
  /\ Mutable
  /\ channels[c] = None
  /\ CallsLeft
  /\ channels' = [channels EXCEPT ![c] = configuration]
  /\ UNCHANGED <<configured, frequency, instructions, assertions, compiled, upload>>

Schedule(c, action, moment) ==
  /\ Mutable
  /\ channels[c] # None
  /\ Aligned(moment, frequency)
  /\ CallsLeft
  /\ instructions' = Append(instructions,
       [id |-> Len(instructions), tick |-> ResolveTimestamp(moment, frequency),
        channel |-> c, action |-> action, asked |-> moment])
  /\ UNCHANGED <<configured, frequency, channels, assertions, compiled, upload>>

\* A point assertion is a window of one tick; both ends are given in the same unit.
AddAssertion(c, start, end) ==
  /\ Mutable
  /\ KindOf[c] \in InputKinds /\ channels[c] # None
  /\ start.unit = end.unit
  /\ Aligned(start, frequency) /\ Aligned(end, frequency)
  /\ ResolveTimestamp(start, frequency) <= ResolveTimestamp(end, frequency)
  /\ CallsLeft
  /\ assertions' = Append(assertions,
       [id |-> Len(assertions), channel |-> c,
        from |-> ResolveTimestamp(start, frequency),
        until |-> ResolveTimestamp(end, frequency), asked |-> <<start, end>>])
  /\ UNCHANGED <<configured, frequency, channels, instructions, compiled, upload>>

-----------------------------------------------------------------------------
(* compile() *)

Precedes(i, j) == i.tick < j.tick \/ (i.tick = j.tick /\ i.id < j.id)

\* Mistake: instructions stay in the order they were scheduled in.
AsScheduled == instructions

OrderedInstructions == InOrder(ToSet(instructions), Precedes)

\* Mistake: what the assertions still need is not waited for.
LatestStimulusTick == Max({0} \union {i.tick : i \in ToSet(instructions)})

LatestRelevantTick ==
  Max({0} \union {i.tick : i \in ToSet(instructions)} \union {a.until : a \in ToSet(assertions)})

\* Ticks 0 through the last event plus one second, inclusively.
ExpectedTickCount == LatestRelevantTick + frequency + 1

CompileTest ==
  [frequency |-> frequency, expectedTickCount |-> ExpectedTickCount,
   configurations |-> channels, instructions |-> OrderedInstructions,
   assertions |-> assertions]

\* Mistake: the length of the run is not limited.
CompileAnyLength ==
  /\ compiled = None
  /\ compiled' = CompileTest
  /\ UNCHANGED <<definition, upload>>

\* compile() again returns the same plan.
Compile ==
  /\ compiled = None
  /\ ExpectedTickCount < MaxExpectedTickCount
  /\ compiled' = CompileTest
  /\ UNCHANGED <<definition, upload>>

-----------------------------------------------------------------------------
(* _build_sparse_instructions: the sparse instructions as complete states *)

Off == [period |-> 0, duty |-> 0]

\* What an unconfigured output is sent as.
Disabled(c) ==
  CASE KindOf[c] = "digital_output"  -> FALSE
    [] KindOf[c] = "analogue_output" -> 0
    [] KindOf[c] = "pwm_output"      -> [period |-> 0, duty |-> 0, enabled |-> FALSE]

InitialOutputs(plan) ==
  [c \in OutputChannels |->
     IF plan.configurations[c] = None THEN Disabled(c) ELSE plan.configurations[c]]

AfterPwm(state, action) ==
  CASE action.op = "set_enabled"    -> [state EXCEPT !.enabled = action.enabled]
    [] action.op = "set" -> [state EXCEPT !.period = action.period, !.duty = action.duty]
    [] action.op = "set_frequency"  -> [state EXCEPT !.period = action.period]
    [] action.op = "set_duty_cycle" -> [state EXCEPT !.duty = action.duty]

After(state, action) ==
  CASE action.op = "HIGH"        -> TRUE
    [] action.op = "LOW"         -> FALSE
    [] action.op = "TOGGLE"      -> ~state
    [] action.op = "set_voltage" -> action.voltage
    [] OTHER                     -> AfterPwm(state, action)

ApplyInstruction(outputs, i) == [outputs EXCEPT ![i.channel] = After(@, i.action)]

\* A disabled PWM output is sent as 0/0.
Encoded(outputs) ==
  [c \in OutputChannels |->
     IF KindOf[c] # "pwm_output" THEN outputs[c]
     ELSE IF outputs[c].enabled
     THEN [period |-> outputs[c].period, duty |-> outputs[c].duty] ELSE Off]

FixedInstructions(plan) ==
  LET fixed == Ascending({k \in DOMAIN plan.instructions :
                            KindOf[plan.instructions[k].channel] \in FixedOutputKinds})
  IN  [k \in DOMAIN fixed |-> plan.instructions[fixed[k]]]

StimulusTicks(plan) == {i.tick : i \in ToSet(FixedInstructions(plan))}

HasAnalogueOutput(plan) ==
  \E c \in OutputChannels : KindOf[c] = "analogue_output" /\ plan.configurations[c] # None

\* Mistake: the initial voltages get a message of their own.
InitialStateThenTicks(plan) ==
  (IF HasAnalogueOutput(plan) THEN <<0>> ELSE <<>>) \o Ascending(StimulusTicks(plan))

\* An analogue output needs a message at tick 0: the configuration has no initial voltage.
MessageTicks(plan) ==
  Ascending(StimulusTicks(plan) \union (IF HasAnalogueOutput(plan) THEN {0} ELSE {}))

\* `grouped': groupby makes a group of each run of equal ticks, and the last one of a tick
\* is kept.
GroupOf(plan, tick) ==
  LET fixed == FixedInstructions(plan)
      at    == {k \in 1..Len(fixed) : fixed[k].tick = tick}
      heads == {k \in at : k - 1 \notin at}
  IN  IF at = {} THEN <<>> ELSE SubSeq(fixed, Max(heads), Max(at))

\* A message has the state of every output after the group of its tick.
Emit(sofar, group) ==
  LET outputs == FoldLeft(ApplyInstruction, sofar.outputs, group.instructions)
  IN  [outputs  |-> outputs,
       messages |-> Append(sofar.messages, [tick |-> group.tick, outputs |-> Encoded(outputs)])]

SparseInstructions(plan) ==
  LET ticks  == MessageTicks(plan)
      groups == [k \in DOMAIN ticks |-> [tick |-> ticks[k], instructions |-> GroupOf(plan, ticks[k])]]
  IN  FoldLeft(Emit, [outputs |-> InitialOutputs(plan), messages |-> <<>>], groups).messages

BuildUpload ==
  /\ compiled # None
  /\ upload' = SparseInstructions(compiled)
  /\ UNCHANGED <<definition, compiled>>

-----------------------------------------------------------------------------
Init ==
  /\ configured = FALSE /\ frequency = DefaultFrequency
  /\ channels = [c \in Channels |-> None]
  /\ instructions = <<>> /\ assertions = <<>>
  /\ compiled = None /\ upload = None

Next ==
  \/ \E mode \in Frequencies : Configure(mode)
  \/ \E c \in Channels :
       \/ \E configuration \in ChannelConfigurations(KindOf[c]) : ConfigureChannel(c, configuration)
       \/ \E action \in Actions(c), moment \in Moments : Schedule(c, action, moment)
       \/ \E start, end \in Moments : AddAssertion(c, start, end)
  \/ Compile
  \/ BuildUpload

Spec == Init /\ [][Next]_vars

-----------------------------------------------------------------------------
(* Properties *)

Instructions ==
  [id : Nat, tick : Nat, channel : Channels, asked : Moments,
   action : DigitalActions \union PwmActions \union AnalogueActions \union UARTActions
            \union UNION {I2CActions(r) \union SPIActions(r) : r \in {"master", "slave"}}]
Assertions ==
  [id : Nat, channel : Channels, from : Nat, until : Nat, asked : Moments \X Moments]

\* Every field has its type; a compiled test is short enough for the protocol.
TypeOK ==
  /\ configured \in BOOLEAN
  /\ frequency \in Frequencies
  /\ \A c \in Channels : channels[c] \in ChannelConfigurations(KindOf[c]) \union {None}
  /\ instructions \in Seq(Instructions)
  /\ assertions \in Seq(Assertions)
  /\ compiled # None => compiled.expectedTickCount \in 1..MaxExpectedTickCount - 1
  /\ upload # None => \A m \in ToSet(upload) : m.tick \in Nat /\ DOMAIN m.outputs = OutputChannels

\* Every tick still means the time that was asked for, at the frequency the rig will run
\* at: a change of frequency never leaves converted timestamps behind.
TimesAreKept ==
  LET Means(tick, moment) ==
        tick * TimesPerSecond = moment.value * (IF moment.unit = "tick" THEN TimesPerSecond
                                                ELSE frequency)
  IN  /\ \A i \in ToSet(instructions) : Means(i.tick, i.asked)
      /\ \A a \in ToSet(assertions) : Means(a.from, a.asked[1]) /\ Means(a.until, a.asked[2])
      /\ compiled # None => compiled.frequency = frequency

\* The run is as long as the definition needs: one second past its last event, be it a
\* stimulus or the end of an assertion's window.
RunCoversDefinition ==
  compiled # None =>
    /\ \A i \in ToSet(instructions) : i.tick + frequency < compiled.expectedTickCount
    /\ \A a \in ToSet(assertions) : a.until + frequency < compiled.expectedTickCount

\* The messages of an upload have different ticks, in order, all within the run: Tick
\* Responses can be told apart by their tick, which the connection relies on.
UploadTicksAscend ==
  upload # None =>
    /\ \A k \in 1..Len(upload) - 1 : upload[k].tick < upload[k + 1].tick
    /\ \A k \in 1..Len(upload) : upload[k].tick < compiled.expectedTickCount

(* What the user asked each output to be, straight from the calls that were made *)

Latest(S) == CHOOSE i \in S : \A j \in S \ {i} : Precedes(j, i)
LastOf(S, field, otherwise) == IF S = {} THEN otherwise ELSE Latest(S).action[field]

Asked(c, tick) ==
  LET initial == channels[c]
      told(ops) == {i \in ToSet(instructions) :
                      i.channel = c /\ i.tick <= tick /\ i.action.op \in ops}
      levels  == told({"HIGH", "LOW"})
      high    == IF levels = {} THEN initial ELSE Latest(levels).action.op = "HIGH"
      toggles == {i \in told({"TOGGLE"}) : levels = {} \/ Precedes(Latest(levels), i)}
  IN  CASE KindOf[c] = "digital_output"  -> high = (Cardinality(toggles) % 2 = 0)
        [] KindOf[c] = "analogue_output" -> LastOf(told({"set_voltage"}), "voltage", initial)
        [] KindOf[c] = "pwm_output" ->
             IF LastOf(told({"set_enabled"}), "enabled", initial.enabled)
             THEN [period |-> LastOf(told({"set", "set_frequency"}), "period", initial.period),
                   duty   |-> LastOf(told({"set", "set_duty_cycle"}), "duty", initial.duty)]
             ELSE Off

\* The rig holds its configured outputs until the first message, and each message until the
\* next.  Of an analogue output the configuration says nothing.
Held(c, tick) ==
  LET reached == {k \in 1..Len(upload) : upload[k].tick <= tick}
  IN  IF reached # {} THEN upload[Max(reached)].outputs[c]
      ELSE IF KindOf[c] = "analogue_output" THEN None
      ELSE Encoded(InitialOutputs(compiled))[c]

\* At every tick of the run, every output has what the calls of the user ask of it, in
\* whatever order they were made: sparse messages lose nothing, a disabled PWM output
\* remembers, a toggle sees what came before it.
OutputsAreAsAsked ==
  upload # None =>
    \A c \in {d \in OutputChannels : channels[d] # None} :
      \A tick \in 0..compiled.expectedTickCount - 1 : Held(c, tick) = Asked(c, tick)
=============================================================================
