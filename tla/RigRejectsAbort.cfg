SPECIFICATION SessionSpec
CONSTANTS
  None = None
  first = first
  second = second
  Attempts = {first}
  SparseTicks <- MCSparseTicks
  StartMode <- MCStartMode
  ExpectedTickCount <- MCExpectedTickCount
  PeerMessages <- Nothing
  MaxEvents = 2
  Faults <- Nothing
  MaxFaults = 0
  RigRejects <- Controls
  ConfirmFirst = TRUE
  CallerControls <- JustAbort
INVARIANT ResultsAreReported
