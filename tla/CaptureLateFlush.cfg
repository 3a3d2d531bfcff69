SPECIFICATION Spec
CONSTANTS
  None = None
  main = main
  feeder = feeder
  tick0 = tick0
  tick1 = tick1
  again1 = again1
  numbered = numbered
  unnumbered = unnumbered
  Threads = {main, feeder}
  Records = {tick0}
  KindOf <- MCKindOf
  TickOf <- MCTickOf
  OrdinalOf <- MCOrdinalOf
  CallsOf <- EveryoneFlushes
  RequestedStatuses <- NoStatus
  ExpectedTickCount = 2
  QueueCapacity = 2
  BatchSize = 2
  DiskMayFail = FALSE
  MayCrash = FALSE
PROPERTY CallsReturn
\* the call that never returns leaves nothing else to do
CHECK_DEADLOCK FALSE
