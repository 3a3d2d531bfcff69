SPECIFICATION Spec
CONSTANTS
  MaxSent = 3
  OutputLength <- MCOutputLength
  MaxFaults = 2
INVARIANTS
  ReceivedInOrder
  PortsAreReleased
PROPERTIES
  OutputsAreWhole
  PassesReturn
