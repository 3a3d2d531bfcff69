SPECIFICATION SessionSpec
CONSTANTS
  None = None
  first = first
  second = second
  Attempts = {first, second}
  SparseTicks <- MCSparseTicks
  StartMode <- MCStartMode
  ExpectedTickCount <- MCExpectedTickCount
  PeerMessages <- Nothing
  MaxEvents = 2
  Faults <- Nothing
  MaxFaults = 0
  RigRejects <- Nothing
  ConfirmFirst = TRUE
  CallerControls <- JustStart
INVARIANT NeverFailsByItself
PROPERTY RunsComplete
