SPECIFICATION Spec
CONSTANTS
  None = None
  first = first
  second = second
  Attempts <- MCAttempts
  SparseTicks <- MCSparseTicks
  StartMode <- MCStartMode
  ExpectedTickCount <- MCExpectedTickCount
  PeerMessages <- MCPeerMessages
  MaxEvents = 2
INVARIANTS
  TypeOK
  UploadAccounting
  NeverReplayed
  AcceptedMeansDelivered
  RequestsAreAboutTheUpload
  WorkflowStateTellsThePhase
  CapturedInOrder
  BuilderMatchesUpload
  ConfirmedSessionIsLive
  DeliveryIsOwed
  ResponseWaitIsTimed
PROPERTIES
  AbandonedIdsAreRetired
  ImplementsLifecycle
