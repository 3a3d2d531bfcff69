SPECIFICATION Spec
CONSTANTS
  None = None
  led = led
  dac = dac
  pwm = pwm
  probe = probe
  bus = bus
  Channels = {led, dac, pwm, probe, bus}
  KindOf <- MCKindOf
  Frequencies = {1, 2}
  DefaultFrequency = 1
  TimesPerSecond = 2
  Moments <- MCMoments
  Levels = {0, 5}
  Periods = {1, 2}
  Duties = {3}
  MaxExpectedTickCount = 5
  MaxCalls = 4
INVARIANTS
  TypeOK
  TimesAreKept
  RunCoversDefinition
  UploadTicksAscend
  OutputsAreAsAsked
\* a test of full size that is too long to compile takes no further call
CHECK_DEADLOCK FALSE
