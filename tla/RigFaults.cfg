SPECIFICATION SessionSpec
CONSTANTS
  None = None
  first = first
  second = second
  Attempts = {first}
  SparseTicks <- MCSparseTicks
  StartMode <- MCStartMode
  ExpectedTickCount <- MCExpectedTickCount
  PeerMessages <- Nothing
  MaxEvents = 2
  Faults <- AnyFault
  MaxFaults = 2
  RigRejects <- RequestKinds
  ConfirmFirst = FALSE
  CallerControls <- Controls
PROPERTIES
  RequestsEnd
  SessionsAreIdentified
