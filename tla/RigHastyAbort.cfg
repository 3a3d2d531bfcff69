SPECIFICATION SessionSpec
CONSTANTS
  None = None
  first = first
  second = second
  Attempts = {first}
  SparseTicks <- MCSparseTicks
  StartMode <- MCStartMode
  ExpectedTickCount <- MCExpectedTickCount
  PeerMessages <- Nothing
  MaxEvents = 2
  Faults <- JustReset
  MaxFaults = 1
  RigRejects <- Nothing
  ConfirmFirst = TRUE
  CallerControls <- HastyAbort
PROPERTY SessionsAreIdentified
