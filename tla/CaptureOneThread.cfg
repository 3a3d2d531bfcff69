SPECIFICATION StoreSpec
CONSTANTS
  None = None
  main = main
  tick0 = tick0
  tick1 = tick1
  again1 = again1
  unnumbered = unnumbered
  Threads = {main}
  Makers = {m1, m2}
  Records = {tick0, tick1, again1, unnumbered}
  KindOf <- MCKindOf
  TickOf <- MCTickOf
  OrdinalOf <- MCOrdinalOf
  CallsOf <- MCCallsOf
  RequestedStatuses <- AnyStatus
  ExpectedTickCount = 2
  QueueCapacity = 2
  BatchSize = 2
  DiskMayFail = TRUE
  MayCrash = FALSE
INVARIANTS
  NothingAcknowledgedIsLost
  PartialFilesAreRefused
PROPERTIES
  CallsReturn
  CapturesAreKept
