------------------------- MODULE HostConnectionProofs -------------------------
(***************************************************************************)
(* Safety of HostConnection for every set of attempts, every plan and      *)
(* whatever Transport and the rig send: its types; who the requests, the   *)
(* builder and the retired IDs belong to, which is one active upload from  *)
(* queue_upload to its retirement; and that it never waits for ever on     *)
(* something nobody will say.                                              *)
(***************************************************************************)
EXTENDS HostConnection, TLAPS

\* The steps, whatever the peer says: the invariants below do not ask that a message is one
\* of PeerMessages, so they hold as well where another module says what the peer sends.
AnyNext ==
  \/ ServicePass
  \/ Caller
  \/ Transport
  \/ \E m \in Messages : DrainMessage(m)
  \/ Closed

LEMMA NextIsAny == [Next]_vars => [AnyNext]_vars
BY ConnectionAssumption DEF Next, AnyNext

(* The parts of TypeOK, by who changes them. *)

SessionTypes ==
  /\ pending \in Operation
  /\ uploadOperations \in Seq(Operation)
  /\ activeUpload \in Tests
  /\ retired \subseteq Attempts
  /\ delivered \in Nat /\ nextResultTick \in Nat
  /\ deliveryPending \in BOOLEAN /\ accepted \in BOOLEAN /\ started \in BOOLEAN
  /\ confirmed \in BOOLEAN
  /\ workflow \in WorkflowStates

CaptureTypes ==
  /\ builder \in Tests
  /\ diagnosed \subseteq Attempts
  /\ captured \in [Attempts -> Seq(Nat)]

TransportTypes ==
  /\ established \in BOOLEAN /\ inFlight \in BOOLEAN
  /\ events \in Seq(EventTypes)
  /\ wire \in [Attempts -> Seq(Ticks)]

ControlTypes ==
  /\ closed \in BOOLEAN
  /\ stage \in {"idle", "receive", "events", "messages", "advance", "submit", "process", "output"}
  /\ leg \in {1, 2}

\* What the queue of an upload holds: messages of its plan that were never submitted.
PlannedMessages ==
  {op \in Operation : op.kind \in UploadKinds /\ ~op.submitted /\ ~op.armed /\ ~op.received}

PlanIsFresh == uploadOperations \in Seq(PlannedMessages)

\* An operation has a deadline only once it is submitted, and NoOperation is the only one
\* without a kind.
PendingIsSound ==
  /\ pending.armed => pending.submitted
  /\ pending.kind = "none" => pending = NoOperation

Types == SessionTypes /\ PlanIsFresh /\ PendingIsSound

LEMMA TypeParts ==
  TypeOK <=> SessionTypes /\ CaptureTypes /\ TransportTypes /\ ControlTypes
BY DEF TypeOK, SessionTypes, CaptureTypes, TransportTypes, ControlTypes

-----------------------------------------------------------------------------
(* Operations *)

LEMMA NewOperationTypes ==
  ASSUME NEW kind \in Kinds, NEW test \in Tests, NEW tick \in Ticks
  PROVE  /\ NewOperation(kind, test, tick) \in Operation
         /\ NewOperation(kind, test, tick).kind = kind
         /\ NewOperation(kind, test, tick).armed => NewOperation(kind, test, tick).submitted
         /\ kind \in UploadKinds => NewOperation(kind, test, tick) \in PlannedMessages
BY DEF NewOperation, Operation, Outcomes, WorkflowStates, SettledStates, PlannedMessages,
       UploadKinds, Kinds, RequestKinds

LEMMA NoOperationTypes ==
  /\ NoOperation \in Operation
  /\ NoOperation.kind = "none" /\ NoOperation.submitted /\ ~NoOperation.armed
BY DEF NoOperation, NewOperation, Operation, Outcomes, WorkflowStates, SettledStates, Tests, Ticks

LEMMA PlanTypes ==
  ASSUME NEW a \in Attempts
  PROVE  /\ UploadPlan(a) \in Seq(PlannedMessages)
         /\ UploadPlan(a) # <<>>
<1>1. UploadTicks(a) \in Seq(Ticks) /\ UploadTicks(a) # <<>>
  BY ConnectionAssumption DEF UploadTicks, Ticks
<1>2. ASSUME NEW i \in 1..Len(UploadTicks(a))
      PROVE  UploadPlan(a)[i] \in PlannedMessages
  <2>1. a \in Tests /\ None \in Ticks /\ UploadTicks(a)[i] \in Ticks
    BY <1>1 DEF Tests, Ticks
  <2>2. {"configuration", "tick"} \subseteq Kinds \intersect UploadKinds
    BY DEF Kinds, RequestKinds, UploadKinds
  <2>3. /\ NewOperation("configuration", a, None) \in PlannedMessages
        /\ NewOperation("tick", a, UploadTicks(a)[i]) \in PlannedMessages
    BY <2>1, <2>2, NewOperationTypes
  <2>4. QED
    BY <2>3 DEF UploadPlan
<1>3. Len(UploadTicks(a)) \in Nat \ {0}
  BY <1>1
<1>4. QED
  BY <1>2, <1>3 DEF UploadPlan

LEMMA ActivateTypes ==
  ASSUME NEW op \in Operation, op.kind # "none", Activate(op)
  PROVE  pending' = op /\ workflow' \in WorkflowStates
BY DEF Activate, WorkflowStates, Operation

LEMMA SubsequenceTypes ==
  ASSUME NEW q \in Seq(PlannedMessages)
  PROVE  /\ q \in Seq(Operation)
         /\ q # <<>> => Head(q) \in PlannedMessages /\ Tail(q) \in Seq(PlannedMessages)
<1>1. PlannedMessages \subseteq Operation
  BY DEF PlannedMessages
<1>2. q # <<>> => Head(q) \in PlannedMessages /\ Tail(q) \in Seq(PlannedMessages)
  OBVIOUS
<1>3. QED
  BY <1>1, <1>2

-----------------------------------------------------------------------------
(* What the handlers have in common *)

LEMMA NothingPendingIsSound ==
  ASSUME pending' = NoOperation
  PROVE  pending' \in Operation /\ PendingIsSound'
<1>1. PendingIsSound'
  BY NoOperationTypes DEF PendingIsSound
<1>2. QED
  BY <1>1, NoOperationTypes

LEMMA EmptyPlan == <<>> \in Seq(Operation) /\ <<>> \in Seq(PlannedMessages)
OBVIOUS

LEMMA FailWorkflowTypes ==
  ASSUME Types, FailWorkflow, confirmed' \in BOOLEAN
  PROVE  Types'
<1>1. "FAILED" \in WorkflowStates
  BY DEF WorkflowStates, SettledStates
<1>2. QED
  BY <1>1, NothingPendingIsSound, EmptyPlan DEF Types, FailWorkflow, SessionTypes, PlanIsFresh

LEMMA RetireTypes ==
  ASSUME Types, RetireActiveUpload, deliveryPending' \in BOOLEAN, confirmed' \in BOOLEAN,
         workflow' \in WorkflowStates, pending' = NoOperation
  PROVE  Types'
<1>1. activeUpload \in Attempts \union {None}
  BY DEF Types, SessionTypes, Tests
<1>2. QED
  BY <1>1, NothingPendingIsSound, EmptyPlan DEF Types, RetireActiveUpload, RetireIntoSet,
     SessionTypes, PlanIsFresh, Tests

LEMMA AdvanceTypes ==
  ASSUME Types, NEW q \in Seq(PlannedMessages), AdvanceWith(q)
  PROVE  /\ pending' \in Operation /\ workflow' \in WorkflowStates /\ PendingIsSound'
         /\ uploadOperations' \in Seq(PlannedMessages)
<1>1. CASE ~NothingPending \/ ~established \/ (confirmed /\ q = <<>>)
  BY <1>1 DEF AdvanceWith, Types, SessionTypes, PendingIsSound
<1>2. CASE NothingPending /\ established /\ confirmed /\ q # <<>>
  <2>1. /\ Activate(Head(q)) /\ uploadOperations' = Tail(q)
        /\ Head(q) \in PlannedMessages /\ Tail(q) \in Seq(PlannedMessages)
    BY <1>2, SubsequenceTypes DEF AdvanceWith
  <2>2. Head(q) \in Operation /\ Head(q).kind # "none" /\ ~Head(q).armed
    BY <2>1 DEF PlannedMessages, UploadKinds
  <2>3. QED
    BY <2>1, <2>2, ActivateTypes DEF PendingIsSound
<1>3. CASE NothingPending /\ established /\ ~confirmed
  <2> DEFINE discovery == NewOperation("discovery", None, None)
  <2>1. Activate(discovery) /\ uploadOperations' = q
    BY <1>3 DEF AdvanceWith
  <2>2. "discovery" \in Kinds /\ None \in Tests /\ None \in Ticks
    BY DEF Kinds, Tests, Ticks
  <2>3. discovery \in Operation /\ discovery.kind = "discovery"
        /\ (discovery.armed => discovery.submitted)
    BY <2>2, NewOperationTypes
  <2>4. pending' = discovery /\ workflow' \in WorkflowStates
    <3> HIDE DEF discovery
    <3> QED
      BY <2>1, <2>3, ActivateTypes
  <2>5. QED
    BY <2>1, <2>3, <2>4 DEF PendingIsSound
<1>4. QED
  BY <1>1, <1>2, <1>3

LEMMA RaiseOrContinue ==
  ASSUME ControlTypes, Raise \/ Continue
  PROVE  ControlTypes'
BY DEF ControlTypes, Raise, Continue, controlVars

LEMMA FinishNegativeTypes ==
  ASSUME Types, NEW op \in Operation, FinishNegative(op)
  PROVE  Types'
<1>1. /\ deliveryPending' \in BOOLEAN /\ confirmed' \in BOOLEAN
      /\ {"FAILED", "READY_TO_START", op.restore} \subseteq WorkflowStates
  BY DEF FinishNegative, Types, SessionTypes, WorkflowStates, SettledStates, Operation
<1>2. CASE pending' = NoOperation /\ workflow' = "FAILED" /\ RetireActiveUpload
  BY <1>1, <1>2, RetireTypes
<1>3. CASE /\ pending' = NoOperation /\ workflow' = "READY_TO_START"
           /\ started' = FALSE /\ accepted' = TRUE
           /\ UNCHANGED <<uploadOperations, activeUpload, delivered, nextResultTick, retired>>
  BY <1>1, <1>3, NothingPendingIsSound DEF Types, SessionTypes, PlanIsFresh
<1>4. CASE pending' = NoOperation /\ workflow' = op.restore /\ UNCHANGED transactionVars
  BY <1>1, <1>4, NothingPendingIsSound DEF Types, SessionTypes, PlanIsFresh, transactionVars
<1>5. CASE FailWorkflow
  BY <1>1, <1>5, FailWorkflowTypes
<1>6. QED
  BY <1>2, <1>3, <1>4, <1>5 DEF FinishNegative

LEMMA FinishUploadMessageTypes ==
  ASSUME Types, NEW op \in Operation, NEW count \in Nat, FinishUploadMessage(op, count),
         deliveryPending' \in BOOLEAN
  PROVE  Types'
<1> DEFINE complete == NewOperation("complete_test", op.test, None)
<1>1. pending' \in Operation /\ workflow' \in WorkflowStates /\ PendingIsSound'
      /\ uploadOperations' \in Seq(PlannedMessages)
  <2>1. CASE uploadOperations # <<>>
    <3>1. /\ Activate(Head(uploadOperations)) /\ uploadOperations' = Tail(uploadOperations)
          /\ Head(uploadOperations) \in PlannedMessages
          /\ Tail(uploadOperations) \in Seq(PlannedMessages)
      BY <2>1, SubsequenceTypes
         DEF FinishUploadMessage, UploadMessageFinished, Types, PlanIsFresh
    <3>2. /\ Head(uploadOperations) \in Operation
          /\ Head(uploadOperations).kind # "none" /\ ~Head(uploadOperations).armed
      BY <3>1 DEF PlannedMessages, UploadKinds
    <3>3. QED
      BY <3>1, <3>2, ActivateTypes DEF PendingIsSound
  <2>2. CASE uploadOperations = <<>>
    <3>1. Activate(complete) /\ UNCHANGED uploadOperations
      BY <2>2 DEF FinishUploadMessage, UploadMessageFinished
    <3>2. "complete_test" \in Kinds /\ op.test \in Tests /\ None \in Ticks
      BY DEF Kinds, RequestKinds, Ticks, Operation
    <3>3. /\ complete \in Operation /\ complete.kind = "complete_test"
          /\ complete.armed => complete.submitted
      BY <3>2, NewOperationTypes
    <3>4. pending' = complete /\ workflow' \in WorkflowStates
      <4> HIDE DEF complete
      <4> QED
        BY <3>1, <3>3, ActivateTypes
    <3>5. QED
      BY <3>1, <3>3, <3>4 DEF PendingIsSound, Types, PlanIsFresh
  <2>3. QED
    BY <2>1, <2>2
<1>2. QED
  BY <1>1, SubsequenceTypes
     DEF Types, SessionTypes, PlanIsFresh, FinishUploadMessage, UploadMessageFinished

LEMMA FinishCompleteTestTypes ==
  ASSUME Types, NEW op \in Operation, FinishCompleteTest(op), deliveryPending' \in BOOLEAN
  PROVE  Types'
<1> DEFINE start == NewOperation("start", activeUpload, None)
<1>1. pending' \in Operation /\ workflow' \in WorkflowStates /\ PendingIsSound'
  <2>1. CASE Activate(start)
    <3>1. "start" \in Kinds /\ activeUpload \in Tests /\ None \in Ticks
      BY DEF Kinds, RequestKinds, Ticks, Types, SessionTypes
    <3>2. start \in Operation /\ start.kind = "start" /\ (start.armed => start.submitted)
      BY <3>1, NewOperationTypes
    <3>3. pending' = start /\ workflow' \in WorkflowStates
      <4> HIDE DEF start
      <4> QED
        BY <2>1, <3>2, ActivateTypes
    <3>4. QED
      BY <3>2, <3>3 DEF PendingIsSound
  <2>2. CASE pending' = NoOperation /\ workflow' = "READY_TO_START"
    BY <2>2, NothingPendingIsSound DEF WorkflowStates, SettledStates
  <2>3. QED
    BY <2>1, <2>2 DEF FinishCompleteTest
<1>2. QED
  BY <1>1 DEF Types, SessionTypes, PlanIsFresh, FinishCompleteTest

LEMMA FinishControlTypes ==
  ASSUME Types, NEW op \in Operation, FinishControl(op), deliveryPending' \in BOOLEAN
  PROVE  Types'
<1>1. pending' = NoOperation /\ {"READY", "RUNNING", "ABORTED"} \subseteq WorkflowStates
  BY DEF FinishControl, WorkflowStates, SettledStates
<1>2. CASE op.kind = "discovery"
  BY <1>1, <1>2, NothingPendingIsSound
     DEF FinishControl, Types, SessionTypes, PlanIsFresh, transactionVars
<1>3. CASE op.kind = "start"
  BY <1>1, <1>3, NothingPendingIsSound DEF FinishControl, Types, SessionTypes, PlanIsFresh
<1>4. CASE op.kind \in {"abort", "reset"}
  <2>1. /\ RetireActiveUpload /\ confirmed' \in BOOLEAN /\ workflow' \in WorkflowStates
    BY <1>1, <1>4 DEF FinishControl, Types, SessionTypes
  <2>2. QED
    BY <1>1, <2>1, RetireTypes
<1>5. QED
  BY <1>2, <1>3, <1>4 DEF FinishControl

LEMMA FinishTypes ==
  ASSUME Types, NEW op \in Operation, NEW count \in Nat, Finish(op, count)
  PROVE  Types' /\ (Raise \/ Continue)
<1>1. CASE FinishNegative(op)
  BY <1>1, FinishNegativeTypes DEF FinishNegative
<1>2. CASE /\ deliveryPending' = FALSE /\ Continue
           /\ FinishUploadMessage(op, count) \/ FinishCompleteTest(op) \/ FinishControl(op)
  BY <1>2, FinishUploadMessageTypes, FinishCompleteTestTypes, FinishControlTypes
<1>3. QED
  BY <1>1, <1>2 DEF Finish

-----------------------------------------------------------------------------
(* Events and messages *)

LEMMA DeliveryConfirmedTypes ==
  ASSUME Types, HandleDeliveryConfirmed
  PROVE  Types' /\ (Raise \/ Continue)
<1> DEFINE op    == [pending EXCEPT !.armed = @ \/ pending.submitted]
           count == delivered + (IF pending.kind \in UploadKinds THEN 1 ELSE 0)
<1>1. CASE NothingPending \/ ~deliveryPending
  <2>1. FailWorkflow /\ Raise /\ confirmed' \in BOOLEAN
    BY <1>1 DEF HandleDeliveryConfirmed, Types, SessionTypes
  <2>2. QED
    BY <2>1, FailWorkflowTypes
<1>2. CASE ~(NothingPending \/ ~deliveryPending)
  <2>1. /\ op \in Operation /\ op.kind = pending.kind /\ (op.armed => op.submitted)
        /\ count \in Nat
    BY DEF Types, SessionTypes, PendingIsSound, Operation
  <2>2. DeliveryConfirmedFor(op)
    BY <1>2 DEF HandleDeliveryConfirmed
  <2>3. CASE Finish(op, count)
    <3> HIDE DEF op, count
    <3> QED
      BY <2>1, <2>3, FinishTypes
  <2>4. CASE /\ pending' = op /\ deliveryPending' = FALSE /\ delivered' = count /\ Continue
             /\ UNCHANGED <<confirmed, workflow, uploadOperations, activeUpload, accepted,
                            started, nextResultTick, retired>>
    <3>1. pending' \in Operation /\ delivered' \in Nat
      BY <2>1, <2>4
    <3>2. PendingIsSound'
      <4> HIDE DEF op
      <4>1. pending.kind # "none"
        BY <1>2 DEF NothingPending, Types, PendingIsSound
      <4>2. QED
        BY <2>1, <2>4, <4>1 DEF PendingIsSound
    <3>3. QED
      BY <2>4, <3>1, <3>2 DEF Types, SessionTypes, PlanIsFresh
  <2>5. QED
    BY <2>2, <2>3, <2>4 DEF DeliveryConfirmedFor
<1>3. QED
  BY <1>1, <1>2

LEMMA EventTypesKept ==
  ASSUME Types, NEW event, HandleEvent(event)
  PROVE  Types' /\ (Raise \/ Continue)
<1>1. CASE HandleDeliveryConfirmed
  BY <1>1, DeliveryConfirmedTypes
<1>2. CASE HandleFailure \/ HandleSessionReset
  <2>1. FailWorkflow /\ Raise /\ confirmed' \in BOOLEAN
    BY <1>2 DEF HandleFailure, HandleSessionReset, Types, SessionTypes
  <2>2. QED
    BY <2>1, FailWorkflowTypes
<1>3. CASE HandleSessionEstablished
  <2>1. "CONNECTING" \in WorkflowStates
    BY DEF WorkflowStates, SettledStates
  <2>2. QED
    BY <1>3, <2>1 DEF HandleSessionEstablished, Types, SessionTypes, PlanIsFresh, PendingIsSound,
       transactionVars
<1>4. QED
  BY <1>1, <1>2, <1>3 DEF HandleEvent

LEMMA ResponseTypes ==
  ASSUME Types, NEW outcome \in Outcomes, pending.kind # "none", ReceiveResponse(outcome)
  PROVE  Types' /\ (Raise \/ Continue)
<1> DEFINE op == [pending EXCEPT !.received = TRUE,
                    !.outcome = IF outcome = "success" THEN @ ELSE outcome]
<1>1. op \in Operation /\ op.kind = pending.kind /\ (op.armed => op.submitted)
  BY DEF Types, SessionTypes, PendingIsSound, Operation
<1>2. CASE Finish(op, delivered)
  <2>1. delivered \in Nat
    BY DEF Types, SessionTypes
  <2> HIDE DEF op
  <2>2. QED
    BY <1>1, <1>2, <2>1, FinishTypes
<1>3. CASE /\ pending' = op /\ Continue
           /\ UNCHANGED <<deliveryPending, confirmed, workflow, transactionVars>>
  <2> HIDE DEF op
  <2>1. pending' \in Operation /\ PendingIsSound'
    BY <1>1, <1>3 DEF PendingIsSound
  <2>2. QED
    BY <1>3, <2>1 DEF Types, SessionTypes, PlanIsFresh, transactionVars
<1>4. QED
  BY <1>2, <1>3 DEF ReceiveResponse

LEMMA UnchangedTypes ==
  ASSUME Types, UNCHANGED <<sessionVars, transactionVars>>
  PROVE  Types'
BY DEF Types, SessionTypes, PlanIsFresh, PendingIsSound, sessionVars, transactionVars

LEMMA SystemInfoTypes ==
  ASSUME Types, NEW m, HandleSystemInfo(m)
  PROVE  Types' /\ (Raise \/ Continue) /\ UNCHANGED captureVars
<1>1. CASE pending.kind = "discovery" /\ ReceiveResponse("success")
  BY <1>1, ResponseTypes DEF HandleSystemInfo, Outcomes
<1>2. CASE FailWorkflow /\ Raise /\ UNCHANGED confirmed
  <2>1. confirmed' \in BOOLEAN
    BY <1>2 DEF Types, SessionTypes
  <2>2. QED
    BY <1>2, <2>1, FailWorkflowTypes DEF HandleSystemInfo
<1>3. QED
  BY <1>1, <1>2 DEF HandleSystemInfo

LEMMA ApplicationResponseTypes ==
  ASSUME Types, NEW m \in Messages, HandleApplicationResponse(m)
  PROVE  Types' /\ (Raise \/ Continue) /\ UNCHANGED captureVars
<1>1. CASE Correlates(m) /\ ReceiveResponse(m.outcome)
  <2>1. m.kind \in RequestKinds /\ m.outcome \in Outcomes
    BY DEF HandleApplicationResponse, Messages
  <2>2. pending.kind # "none"
    BY <1>1, <2>1 DEF Correlates, RequestKinds, UploadKinds
  <2>3. QED
    BY <1>1, <2>1, <2>2, ResponseTypes DEF HandleApplicationResponse
<1>2. CASE FailWorkflow /\ Raise /\ UNCHANGED confirmed
  <2>1. confirmed' \in BOOLEAN
    BY <1>2 DEF Types, SessionTypes
  <2>2. QED
    BY <1>2, <2>1, FailWorkflowTypes DEF HandleApplicationResponse
<1>3. QED
  BY <1>1, <1>2 DEF HandleApplicationResponse

LEMMA TestResultTypes ==
  ASSUME Types, CaptureTypes, NEW m \in Messages, HandleTestResult(m)
  PROVE  Types' /\ CaptureTypes' /\ (Raise \/ Continue)
<1>1. CASE RefuseResult(m)
  BY <1>1, UnchangedTypes DEF RefuseResult, CaptureTypes, captureVars
<1>2. CASE StoreResult(m)
  <2>1. m.tick \in Nat
    BY DEF HandleTestResult, Messages
  <2>2. CaptureTypes'
    <3>1. CASE builder = None
      BY <1>2, <3>1 DEF StoreResult, CaptureTypes
    <3>2. CASE builder # None
      <4>1. builder \in Attempts /\ captured[builder] \in Seq(Nat)
        BY <3>2 DEF CaptureTypes, Tests
      <4>2. captured' = [captured EXCEPT ![builder] = Append(captured[builder], m.tick)]
        BY <1>2, <3>2 DEF StoreResult
      <4>3. Append(captured[builder], m.tick) \in Seq(Nat)
        BY <2>1, <4>1
      <4>4. captured' \in [Attempts -> Seq(Nat)]
        BY <4>2, <4>3 DEF CaptureTypes
      <4>5. QED
        BY <1>2, <4>4 DEF StoreResult, CaptureTypes
    <3>3. QED
      BY <3>1, <3>2
  <2>3. nextResultTick' \in Nat /\ workflow' \in WorkflowStates
    <3>1. "RESULTS_COMPLETE" \in WorkflowStates
      BY DEF WorkflowStates, SettledStates
    <3>2. QED
      BY <1>2, <3>1 DEF StoreResult, Types, SessionTypes
  <2>4. QED
    BY <1>2, <2>2, <2>3 DEF StoreResult, Types, SessionTypes, PlanIsFresh, PendingIsSound
<1>3. CASE FailWorkflow /\ Raise /\ UNCHANGED <<confirmed, captureVars>>
  <2>1. confirmed' \in BOOLEAN
    BY <1>3 DEF Types, SessionTypes
  <2>2. QED
    BY <1>3, <2>1, FailWorkflowTypes DEF CaptureTypes, captureVars
<1>4. QED
  BY <1>1, <1>2, <1>3 DEF HandleTestResult

LEMMA MessageTypesKept ==
  ASSUME Types, CaptureTypes, NEW m \in Messages, HandleMessage(m)
  PROVE  Types' /\ CaptureTypes' /\ (Raise \/ Continue)
<1>1. CASE HandleSystemInfo(m) \/ HandleApplicationResponse(m)
  BY <1>1, SystemInfoTypes, ApplicationResponseTypes DEF CaptureTypes, captureVars
<1>2. CASE HandleApplicationError(m)
  <2>1. Types' /\ (Raise \/ Continue)
    BY <1>2, UnchangedTypes DEF HandleApplicationError
  <2>2. CaptureTypes'
    <3>1. diagnosed' = diagnosed \/ (builder # None /\ diagnosed' = diagnosed \union {builder})
      BY <1>2 DEF HandleApplicationError
    <3>2. UNCHANGED <<builder, captured>>
      BY <1>2 DEF HandleApplicationError
    <3>3. QED
      BY <3>1, <3>2 DEF CaptureTypes, Tests
  <2>3. QED
    BY <2>1, <2>2
<1>3. CASE HandleTestResult(m)
  BY <1>3, TestResultTypes
<1>4. CASE HandleUnreadable(m)
  <2>1. CASE UNCHANGED <<sessionVars, transactionVars>>
    BY <1>4, <2>1, UnchangedTypes DEF HandleUnreadable, CaptureTypes, captureVars
  <2>2. CASE FailWorkflow /\ UNCHANGED confirmed
    <3>1. confirmed' \in BOOLEAN
      BY <2>2 DEF Types, SessionTypes
    <3>2. QED
      BY <1>4, <2>2, <3>1, FailWorkflowTypes DEF HandleUnreadable, CaptureTypes, captureVars
  <2>3. QED
    BY <1>4, <2>1, <2>2 DEF HandleUnreadable
<1>5. QED
  BY <1>1, <1>2, <1>3, <1>4 DEF HandleMessage

-----------------------------------------------------------------------------
(* Type correctness *)

TypeInv == Types /\ CaptureTypes /\ TransportTypes /\ ControlTypes

LEMMA InitTypes == Init => TypeInv
<1> SUFFICES ASSUME Init PROVE TypeInv
  OBVIOUS
<1>1. Types
  BY NoOperationTypes, EmptyPlan
     DEF Init, Types, SessionTypes, PlanIsFresh, PendingIsSound, Tests, WorkflowStates, SettledStates
<1>2. CaptureTypes /\ TransportTypes /\ ControlTypes
  <2>1. [a \in Attempts |-> <<>>] \in [Attempts -> Seq(Ticks)]
    OBVIOUS
  <2>2. [a \in Attempts |-> <<>>] \in [Attempts -> Seq(Nat)]
    OBVIOUS
  <2>3. <<>> \in Seq(EventTypes)
    OBVIOUS
  <2>4. QED
    BY <2>1, <2>2, <2>3 DEF Init, CaptureTypes, TransportTypes, ControlTypes
<1>3. QED
  BY <1>1, <1>2 DEF TypeInv

\* A step that fails the workflow, or leaves the session alone, and raises.
LEMMA FailingStep ==
  ASSUME TypeInv, FailWorkflow, Raise, UNCHANGED <<confirmed, captureVars, transportVars>>
  PROVE  TypeInv'
<1>1. confirmed' \in BOOLEAN
  BY DEF TypeInv, Types, SessionTypes
<1>2. Types' /\ ControlTypes'
  BY <1>1, FailWorkflowTypes, RaiseOrContinue DEF TypeInv
<1>3. QED
  BY <1>2 DEF TypeInv, CaptureTypes, captureVars, TransportTypes, transportVars

LEMMA DataUnchanged ==
  ASSUME TypeInv, UNCHANGED dataVars, ControlTypes'
  PROVE  TypeInv'
<1>1. UNCHANGED <<sessionVars, transactionVars>> /\ UNCHANGED <<captureVars, transportVars>>
  BY DEF dataVars
<1>2. Types'
  BY <1>1, UnchangedTypes DEF TypeInv
<1>3. QED
  BY <1>1, <1>2 DEF TypeInv, CaptureTypes, TransportTypes, captureVars, transportVars

LEMMA ServicePassTypes ==
  ASSUME TypeInv, ServicePass
  PROVE  TypeInv'
<1>1. CASE SerialFault
  BY <1>1, DataUnchanged, RaiseOrContinue DEF SerialFault, TypeInv
<1>2. CASE ProcessFails \/ ResponseTimeout \/ SubmitRefused
  BY <1>2, FailingStep DEF ProcessFails, ResponseTimeout, SubmitRefused
<1>3. CASE Processed \/ EventsDrained \/ MessagesDrained \/ NothingSubmitted
  <2>1. UNCHANGED dataVars /\ ControlTypes'
    BY <1>3 DEF Processed, EventsDrained, MessagesDrained, NothingSubmitted, TypeInv, ControlTypes
  <2>2. QED
    BY <2>1, DataUnchanged
<1>4. CASE DrainEvent
  <2>1. Types' /\ (Raise \/ Continue)
    BY <1>4, EventTypesKept DEF DrainEvent, TypeInv
  <2>2. events' \in Seq(EventTypes)
    <3>1. events \in Seq(EventTypes) /\ events # <<>> /\ events' = Tail(events)
      BY <1>4 DEF DrainEvent, TypeInv, TransportTypes
    <3>2. QED
      BY <3>1
  <2>3. ControlTypes'
    BY <2>1, RaiseOrContinue DEF TypeInv
  <2>4. QED
    BY <1>4, <2>1, <2>2, <2>3 DEF DrainEvent, TypeInv, TransportTypes, CaptureTypes, captureVars
<1>5. CASE AdvanceWorkflow
  <2>1. AdvanceWith(uploadOperations) /\ uploadOperations \in Seq(PlannedMessages)
    BY <1>5 DEF AdvanceWorkflow, TypeInv, Types, PlanIsFresh
  <2>2. /\ pending' \in Operation /\ workflow' \in WorkflowStates /\ PendingIsSound'
        /\ uploadOperations' \in Seq(PlannedMessages)
    BY <2>1, AdvanceTypes DEF TypeInv
  <2>3. Types'
    BY <1>5, <2>2, SubsequenceTypes
       DEF AdvanceWorkflow, TypeInv, Types, SessionTypes, PlanIsFresh
  <2>4. ControlTypes'
    BY <1>5 DEF AdvanceWorkflow, TypeInv, ControlTypes
  <2>5. QED
    BY <1>5, <2>3, <2>4 DEF AdvanceWorkflow, TypeInv, TransportTypes, CaptureTypes, captureVars,
       transportVars
<1>6. CASE SubmitMessage
  <2> DEFINE op == [pending EXCEPT !.submitted = TRUE]
  <2>1. op \in Operation /\ op.kind = pending.kind /\ op.submitted
    BY DEF TypeInv, Types, SessionTypes, Operation
  <2>2. pending' = op
    BY <1>6 DEF SubmitMessage
  <2>3. pending.kind # "none"
    BY <1>6, NoOperationTypes DEF SubmitMessage, CanSubmit, TypeInv, Types, PendingIsSound
  <2>4. pending' \in Operation /\ PendingIsSound'
    <3> HIDE DEF op
    <3> QED
      BY <2>1, <2>2, <2>3 DEF PendingIsSound
  <2>5. Types'
    BY <1>6, <2>4 DEF SubmitMessage, TypeInv, Types, SessionTypes, PlanIsFresh, transactionVars
  <2>6. wire' \in [Attempts -> Seq(Ticks)]
    <3>1. CASE pending.kind \in UploadKinds
      <4>1. pending.tick \in Ticks /\ wire \in [Attempts -> Seq(Ticks)]
        BY DEF TypeInv, Types, SessionTypes, Operation, TransportTypes
      <4>2. wire' = [wire EXCEPT ![pending.test] = Append(wire[pending.test], pending.tick)]
        BY <1>6, <3>1 DEF SubmitMessage
      <4>3. ASSUME pending.test \in Attempts
            PROVE  Append(wire[pending.test], pending.tick) \in Seq(Ticks)
        <5>1. wire[pending.test] \in Seq(Ticks)
          BY <4>1, <4>3
        <5>2. QED
          BY <4>1, <5>1
      <4>4. QED
        BY <4>1, <4>2, <4>3
    <3>2. CASE pending.kind \notin UploadKinds
      BY <1>6, <3>2 DEF SubmitMessage, TypeInv, TransportTypes
    <3>3. QED
      BY <3>1, <3>2
  <2>7. ControlTypes'
    BY <1>6 DEF SubmitMessage, TypeInv, ControlTypes
  <2>8. QED
    BY <1>6, <2>5, <2>6, <2>7 DEF SubmitMessage, TypeInv, TransportTypes, CaptureTypes, captureVars
<1>7. QED
  BY <1>1, <1>2, <1>3, <1>4, <1>5, <1>6 DEF ServicePass

LEMMA RequestTypes ==
  ASSUME TypeInv, NEW op \in Operation, op.kind # "none", op.armed => op.submitted, Request(op)
  PROVE  TypeInv'
<1>1. pending' = op /\ workflow' \in WorkflowStates
  BY ActivateTypes DEF Request
<1>2. Types'
  BY <1>1 DEF Request, TypeInv, Types, SessionTypes, PlanIsFresh, PendingIsSound, transactionVars
<1>3. QED
  BY <1>2 DEF Request, TypeInv, CaptureTypes, TransportTypes, ControlTypes, captureVars,
     transportVars, controlVars

LEMMA CallerTypes ==
  ASSUME TypeInv, Caller
  PROVE  TypeInv'
<1>1. CASE Service
  <2>1. UNCHANGED dataVars /\ ControlTypes'
    BY <1>1 DEF Service, TypeInv, ControlTypes
  <2>2. QED
    BY <2>1, DataUnchanged
<1>2. ASSUME NEW a \in Attempts, NEW replace \in BOOLEAN, BindResultBuilder(a, replace)
      PROVE  TypeInv'
  <2>1. Types'
    BY <1>2, UnchangedTypes DEF BindResultBuilder, Bind, TypeInv
  <2>2. QED
    BY <1>2, <2>1 DEF BindResultBuilder, Bind, TypeInv, CaptureTypes, TransportTypes, ControlTypes,
       transportVars, controlVars, Tests
<1>3. ASSUME NEW a \in Attempts, QueueUpload(a)
      PROVE  TypeInv'
  <2>1. /\ pending' \in Operation /\ workflow' \in WorkflowStates /\ PendingIsSound'
        /\ uploadOperations' \in Seq(PlannedMessages)
    BY <1>3, PlanTypes, AdvanceTypes DEF QueueUpload, TypeInv
  <2>2. Types'
    BY <1>3, <2>1, SubsequenceTypes
       DEF QueueUpload, TypeInv, Types, SessionTypes, PlanIsFresh, Tests
  <2>3. QED
    BY <1>3, <2>2 DEF QueueUpload, TypeInv, CaptureTypes, TransportTypes, ControlTypes,
       captureVars, transportVars, controlVars
<1>4. CASE Start
  <2>1. activeUpload \in Tests /\ None \in Ticks /\ "start" \in Kinds
    BY DEF TypeInv, Types, SessionTypes, Ticks, Kinds, RequestKinds
  <2>2. QED
    BY <1>4, <2>1, NewOperationTypes, RequestTypes DEF Start
<1>5. CASE Abort
  <2> DEFINE op == [NewOperation("abort", activeUpload, None) EXCEPT !.restore = workflow]
  <2>1. /\ activeUpload \in Tests /\ None \in Ticks /\ "abort" \in Kinds
        /\ workflow \in WorkflowStates
    BY DEF TypeInv, Types, SessionTypes, Ticks, Kinds, RequestKinds
  <2>2. op \in Operation /\ op.kind = "abort" /\ (op.armed => op.submitted)
    BY <2>1, NewOperationTypes DEF Operation
  <2>3. Request(op)
    BY <1>5 DEF Abort
  <2> HIDE DEF op
  <2>4. QED
    BY <2>2, <2>3, RequestTypes
<1>6. CASE ResetApplication
  <2> DEFINE op == [NewOperation("reset", None, None) EXCEPT !.restore = workflow]
  <2>1. None \in Tests /\ None \in Ticks /\ "reset" \in Kinds /\ workflow \in WorkflowStates
    BY DEF TypeInv, Types, SessionTypes, Tests, Ticks, Kinds, RequestKinds
  <2>2. op \in Operation /\ op.kind = "reset" /\ (op.armed => op.submitted)
    BY <2>1, NewOperationTypes DEF Operation
  <2>3. Request(op)
    BY <1>6 DEF ResetApplication
  <2> HIDE DEF op
  <2>4. QED
    BY <2>2, <2>3, RequestTypes
<1>7. CASE Close
  <2>1. Types'
    BY <1>7, NothingPendingIsSound, EmptyPlan DEF Close, TypeInv, Types, SessionTypes, PlanIsFresh
  <2>2. <<>> \in Seq(EventTypes)
    OBVIOUS
  <2>3. QED
    BY <1>7, <2>1, <2>2 DEF Close, TypeInv, CaptureTypes, TransportTypes, ControlTypes, captureVars
<1>8. QED
  BY <1>1, <1>2, <1>3, <1>4, <1>5, <1>6, <1>7 DEF Caller

LEMMA TransportTypesKept ==
  ASSUME TypeInv, Transport
  PROVE  TypeInv'
<1>1. \E new \in Seq(EventTypes) : TransportRuns(new)
  <2>1. /\ <<"DELIVERY_CONFIRMED">> \in Seq(EventTypes) /\ <<"FAILURE">> \in Seq(EventTypes)
        /\ <<"SESSION_RESET">> \in Seq(EventTypes)
        /\ <<"SESSION_ESTABLISHED">> \in Seq(EventTypes)
    BY DEF EventTypes
  <2>2. QED
    BY <2>1 DEF Transport, DeliveryConfirmed, TransportFailure, SessionReset, SessionEstablished
<1>2. PICK new \in Seq(EventTypes) : TransportRuns(new)
  BY <1>1
<1>3. events' \in Seq(EventTypes) /\ UNCHANGED <<wire, sessionVars, transactionVars>>
      /\ UNCHANGED <<captureVars, controlVars>>
  <2>1. events \in Seq(EventTypes) /\ events' = events \o new
    BY <1>2 DEF TransportRuns, TypeInv, TransportTypes
  <2>2. QED
    BY <1>2, <2>1 DEF TransportRuns
<1>4. established' \in BOOLEAN /\ inFlight' \in BOOLEAN
  BY DEF Transport, DeliveryConfirmed, TransportFailure, SessionReset, SessionEstablished,
     TypeInv, TransportTypes
<1>5. Types'
  BY <1>3, UnchangedTypes DEF TypeInv
<1>6. QED
  BY <1>3, <1>4, <1>5 DEF TypeInv, TransportTypes, CaptureTypes, ControlTypes, captureVars, controlVars

LEMMA TypeStep == TypeInv /\ [AnyNext]_vars => TypeInv'
<1> SUFFICES ASSUME TypeInv, [AnyNext]_vars PROVE TypeInv'
  OBVIOUS
<1>1. CASE ServicePass
  BY <1>1, ServicePassTypes
<1>2. CASE Caller
  BY <1>2, CallerTypes
<1>3. CASE Transport
  BY <1>3, TransportTypesKept
<1>4. ASSUME NEW m \in Messages, DrainMessage(m)
      PROVE  TypeInv'
  <2>1. Types' /\ CaptureTypes' /\ (Raise \/ Continue)
    BY <1>4, MessageTypesKept DEF DrainMessage, TypeInv
  <2>2. ControlTypes'
    BY <2>1, RaiseOrContinue DEF TypeInv
  <2>3. QED
    BY <1>4, <2>1, <2>2 DEF DrainMessage, TypeInv, TransportTypes, transportVars
<1>5. CASE Closed \/ UNCHANGED vars
  <2>1. UNCHANGED dataVars /\ ControlTypes'
    BY <1>5 DEF Closed, vars, controlVars, TypeInv, ControlTypes
  <2>2. QED
    BY <2>1, DataUnchanged
<1>6. QED
  BY <1>1, <1>2, <1>3, <1>4, <1>5 DEF AnyNext

\* Whatever Transport, the rig and the caller do, every field of the connection keeps the
\* type __init__ gives it, and the queue only ever holds messages never submitted.
THEOREM TypeCorrectness == Spec => []TypeOK
<1>1. TypeInv => TypeOK
  BY TypeParts DEF TypeInv, Types
<1>2. QED
  BY NextIsAny, InitTypes, TypeStep, <1>1, PTL DEF Spec

-----------------------------------------------------------------------------
(* One active upload: whom requests, the builder and the retired IDs belong to *)

\* Everything that waits is about the active upload.
WaitsForUpload ==
  /\ pending.kind \in UploadKinds \union {"complete_test", "start", "abort"} =>
       activeUpload # None /\ pending.test = activeUpload
  /\ \A i \in 1..Len(uploadOperations) :
       activeUpload # None /\ uploadOperations[i].test = activeUpload

\* How far the active upload is: not accepted while it is sent and validated, not started
\* while START is outstanding or the workflow, now or when a refused control request puts
\* it back, is READY_TO_START.
ReadyToStart == accepted /\ ~started
PhasesAgree ==
  /\ uploadOperations # <<>> \/ pending.kind \in UploadKinds \union {"complete_test"} =>
       ~accepted /\ ~started
  /\ pending.kind = "complete_test" => uploadOperations = <<>>
  /\ pending.kind = "start" => ReadyToStart /\ StartMode[activeUpload] # "EXTERNAL_TRIGGER"
  /\ workflow = "READY_TO_START" => ReadyToStart
  /\ pending.kind \in {"abort", "reset"} /\ pending.restore = "READY_TO_START" => ReadyToStart
  /\ accepted \/ started => activeUpload # None

OwnerInv == WaitsForUpload /\ PhasesAgree

-----------------------------------------------------------------------------
(* Activations and endings *)

LEMMA ActiveStatesAreNotSettled ==
  ASSUME NEW kind \in Kinds
  PROVE  ActiveState[kind] \notin SettledStates
<1>1. kind \in {"configuration", "tick", "complete_test", "start", "abort", "reset", "discovery"}
  BY DEF Kinds, RequestKinds, UploadKinds
<1>2. QED
  BY <1>1 DEF ActiveState, SettledStates

LEMMA ActivateWorkflow ==
  ASSUME NEW op \in Operation, op.kind # "none", Activate(op)
  PROVE  pending' = op /\ workflow' \notin SettledStates /\ workflow' # "READY_TO_START"
<1>1. op.kind \in Kinds
  BY DEF Operation
<1>2. QED
  BY <1>1, ActiveStatesAreNotSettled DEF Activate, SettledStates

LEMMA NoOperationOwner ==
  ASSUME pending' = NoOperation
  PROVE  /\ pending'.kind = "none"
         /\ pending'.kind \notin UploadKinds \union {"complete_test", "start", "abort", "reset"}
BY NoOperationTypes DEF UploadKinds

LEMMA FailWorkflowOwner ==
  ASSUME OwnerInv, FailWorkflow
  PROVE  OwnerInv'
<1>1. pending' = NoOperation /\ uploadOperations' = <<>> /\ workflow' = "FAILED"
      /\ ~accepted' /\ ~started'
  BY DEF FailWorkflow
<1>2. QED
  BY <1>1, NoOperationOwner DEF OwnerInv, WaitsForUpload, PhasesAgree, ReadyToStart

LEMMA RetireOwner ==
  ASSUME RetireActiveUpload, pending' = NoOperation, workflow' # "READY_TO_START"
  PROVE  OwnerInv'
<1>1. uploadOperations' = <<>> /\ ~accepted' /\ ~started'
  BY DEF RetireActiveUpload, RetireIntoSet
<1>2. QED
  BY <1>1, NoOperationOwner DEF OwnerInv, WaitsForUpload, PhasesAgree, ReadyToStart

\* Taking the head of the queue is the next step of the same upload.
LEMMA TakeHeadOwner ==
  ASSUME Types, OwnerInv, uploadOperations # <<>>,
         Activate(Head(uploadOperations)), uploadOperations' = Tail(uploadOperations),
         UNCHANGED <<activeUpload, accepted, started>>
  PROVE  OwnerInv'
<1>1. /\ Head(uploadOperations) \in PlannedMessages
      /\ uploadOperations \in Seq(PlannedMessages)
  BY SubsequenceTypes DEF Types, PlanIsFresh
<1>2. /\ Head(uploadOperations) \in Operation
      /\ Head(uploadOperations).kind \in UploadKinds
      /\ Head(uploadOperations).kind # "none"
      /\ Head(uploadOperations).kind \notin {"start", "abort", "reset"}
  BY <1>1 DEF PlannedMessages, UploadKinds
<1>3. pending' = Head(uploadOperations) /\ workflow' # "READY_TO_START"
  BY <1>2, ActivateWorkflow
<1>4. /\ activeUpload # None /\ Head(uploadOperations).test = activeUpload
      /\ ~accepted /\ ~started
  BY <1>1 DEF OwnerInv, WaitsForUpload, PhasesAgree
<1>5. \A i \in 1..Len(uploadOperations') : uploadOperations'[i].test = activeUpload
  BY <1>1 DEF OwnerInv, WaitsForUpload
<1>6. WaitsForUpload'
  BY <1>2, <1>3, <1>4, <1>5 DEF WaitsForUpload
<1>7. PhasesAgree'
  <2>1. pending'.kind \in UploadKinds /\ pending'.kind \notin {"complete_test", "start", "abort", "reset"}
    BY <1>2, <1>3 DEF UploadKinds
  <2>2. QED
    BY <1>3, <1>4, <2>1 DEF PhasesAgree, ReadyToStart
<1>8. QED
  BY <1>6, <1>7 DEF OwnerInv

\* The pending operation, with the flags of its delivery or response updated.
Same(op) ==
  /\ op \in Operation
  /\ op.kind = pending.kind /\ op.test = pending.test /\ op.restore = pending.restore

LEMMA SameOwner ==
  ASSUME OwnerInv, NEW op, Same(op), pending' = op,
         UNCHANGED <<uploadOperations, activeUpload, accepted, started, workflow>>
  PROVE  OwnerInv'
BY DEF OwnerInv, WaitsForUpload, PhasesAgree, ReadyToStart, Same

LEMMA FinishNegativeOwner ==
  ASSUME Types, OwnerInv, NEW op, Same(op), FinishNegative(op)
  PROVE  OwnerInv'
<1>1. CASE pending' = NoOperation /\ workflow' = "FAILED" /\ RetireActiveUpload
  BY <1>1, RetireOwner
<1>2. CASE /\ op.kind = "start" /\ pending' = NoOperation
           /\ started' = FALSE /\ accepted' = TRUE
           /\ UNCHANGED <<uploadOperations, activeUpload, delivered, nextResultTick, retired>>
  <2>1. activeUpload # None /\ accepted
    BY <1>2 DEF Same, OwnerInv, WaitsForUpload, PhasesAgree, ReadyToStart
  <2>2. uploadOperations = <<>>
    BY <1>2, <2>1 DEF OwnerInv, PhasesAgree
  <2>3. QED
    BY <1>2, <2>1, <2>2, NoOperationOwner DEF OwnerInv, WaitsForUpload, PhasesAgree, ReadyToStart
<1>3. CASE /\ op.kind \in {"abort", "reset"} /\ pending' = NoOperation
           /\ workflow' = op.restore /\ UNCHANGED transactionVars
  BY <1>3, NoOperationOwner
     DEF Same, OwnerInv, WaitsForUpload, PhasesAgree, ReadyToStart, transactionVars
<1>4. CASE FailWorkflow
  BY <1>4, FailWorkflowOwner
<1>5. QED
  BY <1>1, <1>2, <1>3, <1>4 DEF FinishNegative

LEMMA FinishUploadMessageOwner ==
  ASSUME Types, OwnerInv, NEW op, Same(op), NEW count, FinishUploadMessage(op, count)
  PROVE  OwnerInv'
<1>1. CASE uploadOperations # <<>>
  <2>1. /\ Activate(Head(uploadOperations)) /\ uploadOperations' = Tail(uploadOperations)
        /\ UNCHANGED <<activeUpload, accepted, started>>
    BY <1>1 DEF FinishUploadMessage, UploadMessageFinished
  <2>2. QED
    BY <1>1, <2>1, TakeHeadOwner
<1>2. CASE uploadOperations = <<>>
  <2> DEFINE complete == NewOperation("complete_test", op.test, None)
  <2>1. Activate(complete) /\ UNCHANGED <<uploadOperations, activeUpload, accepted, started>>
    BY <1>2 DEF FinishUploadMessage, UploadMessageFinished
  <2>2. /\ op.kind \in UploadKinds /\ activeUpload # None /\ op.test = activeUpload
        /\ ~accepted /\ ~started
    BY DEF FinishUploadMessage, UploadMessageFinished, Same, OwnerInv, WaitsForUpload, PhasesAgree
  <2>3. "complete_test" \in Kinds /\ op.test \in Tests /\ None \in Ticks
    BY DEF Kinds, RequestKinds, Ticks, Operation, Same
  <2>4. /\ complete \in Operation /\ complete.kind = "complete_test"
        /\ complete.test = op.test
    BY <2>3, NewOperationTypes DEF NewOperation
  <2>5. pending' = complete /\ workflow' # "READY_TO_START"
    <3> HIDE DEF complete
    <3> QED
      BY <2>1, <2>4, ActivateWorkflow
  <2> HIDE DEF complete
  <2>6. QED
    BY <1>2, <2>1, <2>2, <2>4, <2>5 DEF OwnerInv, WaitsForUpload, PhasesAgree, ReadyToStart
<1>3. QED
  BY <1>1, <1>2

LEMMA FinishCompleteTestOwner ==
  ASSUME Types, OwnerInv, NEW op, Same(op), FinishCompleteTest(op)
  PROVE  OwnerInv'
<1> DEFINE start == NewOperation("start", activeUpload, None)
<1>1. /\ activeUpload # None /\ ~accepted /\ ~started
      /\ accepted' /\ ~started' /\ activeUpload' = activeUpload
      /\ uploadOperations' = uploadOperations
  BY DEF FinishCompleteTest, Same, OwnerInv, WaitsForUpload, PhasesAgree
<1>2. uploadOperations = <<>>
  BY DEF FinishCompleteTest, Same, OwnerInv, PhasesAgree
<1>3. CASE Activate(start) /\ StartMode[activeUpload] = "IMMEDIATE"
  <2>1. "start" \in Kinds /\ activeUpload \in Tests /\ None \in Ticks
    BY DEF Kinds, RequestKinds, Ticks, Types, SessionTypes
  <2>2. start \in Operation /\ start.kind = "start" /\ start.test = activeUpload
    BY <2>1, NewOperationTypes DEF NewOperation
  <2>3. pending' = start /\ workflow' # "READY_TO_START"
    <3> HIDE DEF start
    <3> QED
      BY <1>3, <2>2, ActivateWorkflow
  <2> HIDE DEF start
  <2>4. QED
    BY <1>1, <1>2, <1>3, <2>2, <2>3
       DEF OwnerInv, WaitsForUpload, PhasesAgree, ReadyToStart, UploadKinds
<1>4. CASE pending' = NoOperation
  BY <1>1, <1>2, <1>4, NoOperationOwner DEF OwnerInv, WaitsForUpload, PhasesAgree, ReadyToStart
<1>5. QED
  BY <1>3, <1>4 DEF FinishCompleteTest

LEMMA FinishControlOwner ==
  ASSUME OwnerInv, NEW op, Same(op), FinishControl(op)
  PROVE  OwnerInv'
<1>1. pending' = NoOperation
  BY DEF FinishControl
<1>2. CASE op.kind = "discovery"
  BY <1>1, <1>2, NoOperationOwner
     DEF FinishControl, OwnerInv, WaitsForUpload, PhasesAgree, ReadyToStart, transactionVars
<1>3. CASE op.kind = "start"
  <2>1. activeUpload # None /\ accepted /\ uploadOperations = <<>>
    BY <1>3 DEF Same, OwnerInv, WaitsForUpload, PhasesAgree, ReadyToStart
  <2>2. QED
    BY <1>1, <1>3, <2>1, NoOperationOwner
       DEF FinishControl, OwnerInv, WaitsForUpload, PhasesAgree, ReadyToStart
<1>4. CASE op.kind \in {"abort", "reset"}
  BY <1>1, <1>4, RetireOwner DEF FinishControl
<1>5. QED
  BY <1>2, <1>3, <1>4 DEF FinishControl

LEMMA FinishOwner ==
  ASSUME Types, OwnerInv, NEW op, Same(op), NEW count, Finish(op, count)
  PROVE  OwnerInv'
BY FinishNegativeOwner, FinishUploadMessageOwner, FinishCompleteTestOwner, FinishControlOwner
   DEF Finish

-----------------------------------------------------------------------------
(* Events and messages *)

LEMMA UnchangedOwner ==
  ASSUME OwnerInv, UNCHANGED <<pending, uploadOperations, activeUpload, accepted, started>>,
         workflow' = workflow \/ workflow' # "READY_TO_START"
  PROVE  OwnerInv'
BY DEF OwnerInv, WaitsForUpload, PhasesAgree, ReadyToStart

LEMMA EventOwner ==
  ASSUME Types, OwnerInv, NEW event, HandleEvent(event)
  PROVE  OwnerInv'
<1>1. CASE HandleDeliveryConfirmed /\ ~FailWorkflow
  <2> DEFINE op == [pending EXCEPT !.armed = @ \/ pending.submitted]
             count == delivered + (IF pending.kind \in UploadKinds THEN 1 ELSE 0)
  <2>1. Same(op)
    BY DEF Same, Types, SessionTypes, Operation
  <2>2. DeliveryConfirmedFor(op)
    BY <1>1 DEF HandleDeliveryConfirmed
  <2>3. CASE Finish(op, count)
    <3> HIDE DEF op, count
    <3> QED
      BY <2>1, <2>3, FinishOwner
  <2>4. CASE /\ pending' = op
             /\ UNCHANGED <<confirmed, workflow, uploadOperations, activeUpload, accepted,
                            started, nextResultTick, retired>>
    <3> HIDE DEF op
    <3> QED
      BY <2>1, <2>4, SameOwner
  <2>5. QED
    BY <2>2, <2>3, <2>4 DEF DeliveryConfirmedFor
<1>2. CASE FailWorkflow
  BY <1>2, FailWorkflowOwner
<1>3. CASE HandleSessionEstablished
  BY <1>3, UnchangedOwner DEF HandleSessionEstablished, transactionVars
<1>4. QED
  BY <1>1, <1>2, <1>3 DEF HandleEvent, HandleFailure, HandleSessionReset

LEMMA ResponseOwner ==
  ASSUME Types, OwnerInv, NEW outcome \in Outcomes, ReceiveResponse(outcome)
  PROVE  OwnerInv'
<1> DEFINE op == [pending EXCEPT !.received = TRUE,
                    !.outcome = IF outcome = "success" THEN @ ELSE outcome]
<1>1. Same(op)
  BY DEF Same, Types, SessionTypes, Operation
<1>2. CASE Finish(op, delivered)
  <2> HIDE DEF op
  <2> QED
    BY <1>1, <1>2, FinishOwner
<1>3. CASE pending' = op /\ UNCHANGED <<deliveryPending, confirmed, workflow, transactionVars>>
  <2> HIDE DEF op
  <2> QED
    BY <1>1, <1>3, SameOwner DEF transactionVars
<1>4. QED
  BY <1>2, <1>3 DEF ReceiveResponse

LEMMA MessageOwner ==
  ASSUME Types, OwnerInv, NEW m \in Messages, HandleMessage(m)
  PROVE  OwnerInv'
<1>1. CASE FailWorkflow
  BY <1>1, FailWorkflowOwner
<1>2. CASE \E outcome \in Outcomes : ReceiveResponse(outcome)
  BY <1>2, ResponseOwner
<1>3. CASE UNCHANGED <<sessionVars, transactionVars>>
  BY <1>3, UnchangedOwner DEF sessionVars, transactionVars
<1>4. CASE HandleTestResult(m) /\ StoreResult(m)
  BY <1>4, UnchangedOwner DEF StoreResult
<1>5. QED
  <2>1. CASE HandleSystemInfo(m)
    BY <1>1, <1>2, <2>1 DEF HandleSystemInfo, Outcomes
  <2>2. CASE HandleApplicationResponse(m)
    <3>1. m.outcome \in Outcomes
      BY <2>2 DEF HandleApplicationResponse, Messages
    <3>2. QED
      BY <1>1, <1>2, <2>2, <3>1 DEF HandleApplicationResponse
  <2>3. CASE HandleApplicationError(m)
    BY <1>3, <2>3 DEF HandleApplicationError
  <2>4. CASE HandleTestResult(m)
    BY <1>1, <1>3, <1>4, <2>4 DEF HandleTestResult, RefuseResult
  <2>5. CASE HandleUnreadable(m)
    BY <1>1, <1>3, <2>5 DEF HandleUnreadable
  <2>6. QED
    BY <2>1, <2>2, <2>3, <2>4, <2>5 DEF HandleMessage

-----------------------------------------------------------------------------
(* Steps *)

LEMMA DiscoveryOwner ==
  ASSUME NothingPending, Activate(NewOperation("discovery", None, None))
  PROVE  pending'.kind = "discovery" /\ workflow' # "READY_TO_START"
<1> DEFINE discovery == NewOperation("discovery", None, None)
<1>1. "discovery" \in Kinds /\ None \in Tests /\ None \in Ticks
  BY DEF Kinds, Tests, Ticks
<1>2. discovery \in Operation /\ discovery.kind = "discovery"
  BY <1>1, NewOperationTypes
<1>3. Activate(discovery)
  OBVIOUS
<1> HIDE DEF discovery
<1>4. QED
  BY <1>2, <1>3, ActivateWorkflow

LEMMA AdvanceOwner ==
  ASSUME Types, OwnerInv, AdvanceWith(uploadOperations),
         UNCHANGED <<activeUpload, accepted, started>>
  PROVE  OwnerInv'
<1>1. CASE UNCHANGED <<pending, workflow, uploadOperations>>
  BY <1>1, UnchangedOwner
<1>2. CASE /\ uploadOperations # <<>> /\ Activate(Head(uploadOperations))
           /\ uploadOperations' = Tail(uploadOperations)
  BY <1>2, TakeHeadOwner
<1>3. CASE /\ NothingPending /\ Activate(NewOperation("discovery", None, None))
           /\ UNCHANGED uploadOperations
  <2>1. pending'.kind = "discovery" /\ workflow' # "READY_TO_START"
    BY <1>3, DiscoveryOwner
  <2>2. QED
    BY <1>3, <2>1 DEF OwnerInv, WaitsForUpload, PhasesAgree, ReadyToStart, UploadKinds
<1>4. QED
  BY <1>1, <1>2, <1>3 DEF AdvanceWith

LEMMA PlanOwner ==
  ASSUME NEW a \in Attempts, NEW i \in 1..Len(UploadPlan(a))
  PROVE  UploadPlan(a)[i].test = a
<1>1. UploadTicks(a) \in Seq(Ticks)
  BY ConnectionAssumption DEF UploadTicks, Ticks
<1>2. Len(UploadPlan(a)) = Len(UploadTicks(a))
  BY <1>1 DEF UploadPlan
<1>3. QED
  BY <1>2 DEF UploadPlan, NewOperation

LEMMA QueueUploadOwner ==
  ASSUME TypeInv, OwnerInv, NEW a \in Attempts, QueueUpload(a)
  PROVE  OwnerInv'
<1> DEFINE plan == UploadPlan(a)
<1>1. /\ plan \in Seq(PlannedMessages) /\ plan # <<>>
      /\ \A i \in 1..Len(plan) : plan[i].test = a
      /\ a # None
  BY PlanTypes, PlanOwner, ConnectionAssumption
<1>2. /\ activeUpload' = a /\ ~accepted' /\ ~started'
      /\ pending.kind \in {"none", "discovery"} /\ workflow # "READY_TO_START"
  BY NoOperationTypes DEF QueueUpload, NothingPending, OwnerInv, PhasesAgree, ReadyToStart
<1>3. AdvanceWith(plan)
  BY DEF QueueUpload
<1> HIDE DEF plan
<1>4. CASE UNCHANGED <<pending, workflow>> /\ uploadOperations' = plan
  BY <1>1, <1>2, <1>4 DEF OwnerInv, WaitsForUpload, PhasesAgree, ReadyToStart, UploadKinds
<1>5. CASE Activate(Head(plan)) /\ uploadOperations' = Tail(plan)
  <2>1. Head(plan) \in PlannedMessages /\ Head(plan).test = a
    BY <1>1
  <2>2. /\ Head(plan) \in Operation /\ Head(plan).kind \in UploadKinds
        /\ Head(plan).kind \notin {"none", "complete_test", "start", "abort", "reset"}
    BY <2>1 DEF PlannedMessages, UploadKinds
  <2>3. pending' = Head(plan) /\ workflow' # "READY_TO_START"
    BY <1>5, <2>2, ActivateWorkflow
  <2>4. \A i \in 1..Len(uploadOperations') : uploadOperations'[i].test = a
    BY <1>1, <1>5
  <2>5. WaitsForUpload'
    BY <1>1, <1>2, <2>1, <2>3, <2>4 DEF WaitsForUpload
  <2>6. PhasesAgree'
    BY <1>2, <2>2, <2>3 DEF PhasesAgree, ReadyToStart
  <2>7. QED
    BY <2>5, <2>6 DEF OwnerInv
<1>6. CASE /\ NothingPending /\ Activate(NewOperation("discovery", None, None))
           /\ uploadOperations' = plan
  <2>1. pending'.kind = "discovery" /\ workflow' # "READY_TO_START"
    BY <1>6, DiscoveryOwner
  <2>2. QED
    BY <1>1, <1>2, <1>6, <2>1 DEF OwnerInv, WaitsForUpload, PhasesAgree, ReadyToStart, UploadKinds
<1>7. QED
  BY <1>3, <1>4, <1>5, <1>6 DEF AdvanceWith

\* start, abort and reset_application, from a connection on which nothing is outstanding.
LEMMA RequestOwner ==
  ASSUME TypeInv, OwnerInv, NEW op \in Operation, Request(op),
         op.kind \in {"start", "abort", "reset"},
         op.kind \in {"start", "abort"} => activeUpload # None /\ op.test = activeUpload,
         op.kind = "start" => ReadyToStart /\ StartMode[activeUpload] # "EXTERNAL_TRIGGER",
         op.kind \in {"abort", "reset"} => op.restore = workflow
  PROVE  OwnerInv'
<1>1. pending' = op /\ workflow' # "READY_TO_START" /\ UNCHANGED transactionVars
  BY ActivateWorkflow DEF Request
<1>2. QED
  BY <1>1 DEF OwnerInv, WaitsForUpload, PhasesAgree, ReadyToStart, UploadKinds, transactionVars

LEMMA CallerOwner ==
  ASSUME TypeInv, OwnerInv, Caller
  PROVE  OwnerInv'
<1>1. None \in Tests /\ None \in Ticks /\ activeUpload \in Tests /\ workflow \in WorkflowStates
      /\ {"start", "abort", "reset"} \subseteq Kinds
  BY DEF TypeInv, Types, SessionTypes, Tests, Ticks, Kinds, RequestKinds
<1>2. CASE Service
  BY <1>2, UnchangedOwner DEF Service, dataVars, sessionVars, transactionVars
<1>3. ASSUME NEW a \in Attempts, NEW replace \in BOOLEAN, BindResultBuilder(a, replace)
      PROVE  OwnerInv'
  BY <1>3, UnchangedOwner DEF BindResultBuilder, Bind, sessionVars, transactionVars
<1>4. ASSUME NEW a \in Attempts, QueueUpload(a)
      PROVE  OwnerInv'
  BY <1>4, QueueUploadOwner
<1>5. CASE Start
  <2> DEFINE op == NewOperation("start", activeUpload, None)
  <2>1. op \in Operation /\ op.kind = "start" /\ op.test = activeUpload
    BY <1>1, NewOperationTypes DEF NewOperation
  <2>2. /\ Request(op) /\ activeUpload # None /\ ReadyToStart
        /\ StartMode[activeUpload] # "EXTERNAL_TRIGGER"
    BY <1>5 DEF Start, OwnerInv, PhasesAgree
  <2> HIDE DEF op
  <2>3. QED
    BY <2>1, <2>2, RequestOwner
<1>6. CASE Abort
  <2> DEFINE op == [NewOperation("abort", activeUpload, None) EXCEPT !.restore = workflow]
  <2>1. op \in Operation /\ op.kind = "abort" /\ op.test = activeUpload /\ op.restore = workflow
    BY <1>1 DEF NewOperation, Operation, Kinds, RequestKinds, Outcomes
  <2>2. Request(op) /\ activeUpload # None
    BY <1>6 DEF Abort
  <2> HIDE DEF op
  <2>3. QED
    BY <2>1, <2>2, RequestOwner
<1>7. CASE ResetApplication
  <2> DEFINE op == [NewOperation("reset", None, None) EXCEPT !.restore = workflow]
  <2>1. op \in Operation /\ op.kind = "reset" /\ op.restore = workflow
    BY <1>1 DEF NewOperation, Operation, Kinds, RequestKinds, Outcomes
  <2>2. Request(op)
    BY <1>7 DEF ResetApplication
  <2> HIDE DEF op
  <2>3. QED
    BY <2>1, <2>2, RequestOwner
<1>8. CASE Close
  BY <1>8, NoOperationOwner DEF Close, OwnerInv, WaitsForUpload, PhasesAgree, ReadyToStart
<1>9. QED
  BY <1>2, <1>3, <1>4, <1>5, <1>6, <1>7, <1>8 DEF Caller

LEMMA SubmitOwner ==
  ASSUME TypeInv, OwnerInv, SubmitMessage
  PROVE  OwnerInv'
<1> DEFINE op == [pending EXCEPT !.submitted = TRUE]
<1>1. Same(op)
  BY DEF Same, TypeInv, Types, SessionTypes, Operation
<1>2. pending' = op /\ UNCHANGED <<uploadOperations, activeUpload, accepted, started, workflow>>
  BY DEF SubmitMessage, transactionVars
<1> HIDE DEF op
<1>3. QED
  BY <1>1, <1>2, SameOwner

LEMMA ServicePassOwner ==
  ASSUME TypeInv, OwnerInv, ServicePass
  PROVE  OwnerInv'
<1>1. CASE UNCHANGED dataVars
  BY <1>1, UnchangedOwner DEF dataVars, sessionVars, transactionVars
<1>2. CASE FailWorkflow
  BY <1>2, FailWorkflowOwner
<1>3. CASE DrainEvent
  BY <1>3, EventOwner DEF DrainEvent, TypeInv
<1>4. CASE AdvanceWorkflow
  BY <1>4, AdvanceOwner DEF AdvanceWorkflow, TypeInv
<1>5. CASE SubmitMessage
  BY <1>5, SubmitOwner
<1>6. QED
  BY <1>1, <1>2, <1>3, <1>4, <1>5
     DEF ServicePass, SerialFault, ProcessFails, Processed, EventsDrained, MessagesDrained,
         ResponseTimeout, NothingSubmitted, SubmitRefused

LEMMA OwnerStep == TypeInv /\ OwnerInv /\ [AnyNext]_vars => OwnerInv'
<1> SUFFICES ASSUME TypeInv, OwnerInv, [AnyNext]_vars PROVE OwnerInv'
  OBVIOUS
<1>1. CASE ServicePass
  BY <1>1, ServicePassOwner
<1>2. CASE Caller
  BY <1>2, CallerOwner
<1>3. CASE Transport
  <2>1. UNCHANGED <<sessionVars, transactionVars>>
    BY <1>3 DEF Transport, DeliveryConfirmed, TransportFailure, SessionReset, SessionEstablished,
       TransportRuns
  <2>2. QED
    BY <2>1, UnchangedOwner DEF sessionVars, transactionVars
<1>4. ASSUME NEW m \in Messages, DrainMessage(m)
      PROVE  OwnerInv'
  BY <1>4, MessageOwner DEF DrainMessage, TypeInv
<1>5. CASE Closed \/ UNCHANGED vars
  BY <1>5, UnchangedOwner DEF Closed, vars, dataVars, sessionVars, transactionVars
<1>6. QED
  BY <1>1, <1>2, <1>3, <1>4, <1>5 DEF AnyNext

LEMMA InitOwner == Init => OwnerInv
BY NoOperationTypes DEF Init, OwnerInv, WaitsForUpload, PhasesAgree, UploadKinds

\* Every request for a test names the active upload, and START is outstanding only for an
\* upload that was accepted, is not running and may be started by the host: for any plan,
\* any peer and any order of calls, failures and refusals.
THEOREM RequestsConcernTheUpload == Spec => []RequestsAreAboutTheUpload
<1>1. TypeInv /\ OwnerInv => RequestsAreAboutTheUpload
  BY DEF OwnerInv, WaitsForUpload, PhasesAgree, ReadyToStart, RequestsAreAboutTheUpload
<1>2. QED
  BY NextIsAny, InitTypes, TypeStep, InitOwner, OwnerStep, <1>1, PTL DEF Spec

-----------------------------------------------------------------------------
(* The builder and the retired IDs *)

\* A step leaves the active upload alone, retires it, or queues one when there is none.
LEMMA FinishRetiresOrKeeps ==
  ASSUME NEW op, NEW count, Finish(op, count)
  PROVE  UNCHANGED <<activeUpload, retired>> \/ RetireActiveUpload
BY DEF Finish, FinishNegative, FinishUploadMessage, UploadMessageFinished, FinishCompleteTest,
       FinishControl, FailWorkflow, transactionVars

LEMMA ServiceRetiresOrKeeps ==
  ASSUME \/ ServicePass \/ \E m \in Messages : DrainMessage(m)
  PROVE  /\ UNCHANGED <<activeUpload, retired>> \/ RetireActiveUpload
         /\ UNCHANGED builder
<1>1. ASSUME NEW event, HandleEvent(event)
      PROVE  UNCHANGED <<activeUpload, retired>> \/ RetireActiveUpload
  BY <1>1, FinishRetiresOrKeeps
     DEF HandleEvent, HandleDeliveryConfirmed, DeliveryConfirmedFor, HandleFailure,
         HandleSessionReset, HandleSessionEstablished, FailWorkflow, transactionVars
<1>2. ASSUME NEW m, HandleMessage(m)
      PROVE  /\ UNCHANGED <<activeUpload, retired>> \/ RetireActiveUpload
             /\ UNCHANGED builder
  <2>1. ASSUME NEW outcome, ReceiveResponse(outcome)
        PROVE  UNCHANGED <<activeUpload, retired>> \/ RetireActiveUpload
    BY <2>1, FinishRetiresOrKeeps DEF ReceiveResponse, transactionVars
  <2>2. FailWorkflow => UNCHANGED <<activeUpload, retired>>
    BY DEF FailWorkflow
  <2>3. CASE HandleSystemInfo(m) \/ HandleApplicationResponse(m)
    BY <2>1, <2>2, <2>3 DEF HandleSystemInfo, HandleApplicationResponse, captureVars
  <2>4. CASE HandleApplicationError(m) \/ HandleTestResult(m) \/ HandleUnreadable(m)
    BY <2>2, <2>4 DEF HandleApplicationError, HandleTestResult, HandleUnreadable, RefuseResult,
       StoreResult, transactionVars, captureVars
  <2>5. QED
    BY <1>2, <2>3, <2>4 DEF HandleMessage
<1>3. CASE ServicePass
  <2>1. CASE DrainEvent
    BY <1>1, <2>1 DEF DrainEvent, captureVars
  <2>2. CASE AdvanceWorkflow \/ SubmitMessage
    BY <2>2 DEF AdvanceWorkflow, SubmitMessage, transactionVars, captureVars
  <2>3. CASE SerialFault \/ Processed \/ EventsDrained \/ MessagesDrained \/ NothingSubmitted
    BY <2>3 DEF SerialFault, Processed, EventsDrained, MessagesDrained, NothingSubmitted,
       dataVars, transactionVars, captureVars
  <2>4. CASE ProcessFails \/ ResponseTimeout \/ SubmitRefused
    BY <2>4 DEF ProcessFails, ResponseTimeout, SubmitRefused, FailWorkflow, captureVars
  <2>5. QED
    BY <1>3, <2>1, <2>2, <2>3, <2>4 DEF ServicePass
<1>4. CASE \E m \in Messages : DrainMessage(m)
  BY <1>2, <1>4 DEF DrainMessage
<1>5. QED
  BY <1>3, <1>4

LEMMA OwnershipSteps ==
  ASSUME [AnyNext]_vars
  PROVE  \/ UNCHANGED <<activeUpload, retired, builder>>
         \/ RetireActiveUpload /\ UNCHANGED builder
         \/ \E a \in Attempts : QueueUpload(a)
         \/ \E a \in Attempts, replace \in BOOLEAN : BindResultBuilder(a, replace)
<1>1. CASE ServicePass \/ \E m \in Messages : DrainMessage(m)
  BY <1>1, ServiceRetiresOrKeeps
<1>2. CASE Caller
  BY <1>2 DEF Caller, Service, Start, Abort, ResetApplication, Request, Close, dataVars,
     transactionVars, captureVars
<1>3. CASE Transport
  BY <1>3 DEF Transport, DeliveryConfirmed, TransportFailure, SessionReset, SessionEstablished,
     TransportRuns, transactionVars, captureVars
<1>4. CASE Closed \/ UNCHANGED vars
  BY <1>4 DEF Closed, vars, dataVars, transactionVars, captureVars
<1>5. QED
  BY <1>1, <1>2, <1>3, <1>4 DEF AnyNext

\* Results are only ever stored in the capture of the active upload, whose Application
\* Test ID was never abandoned before: bind_result_builder and queue_upload check each
\* other, in either order.
THEOREM CapturesBelongToUploads == Spec => []BuilderMatchesUpload
<1>1. Init => BuilderMatchesUpload
  BY DEF Init, BuilderMatchesUpload
<1>2. BuilderMatchesUpload /\ [AnyNext]_vars => BuilderMatchesUpload'
  <2> SUFFICES ASSUME BuilderMatchesUpload, [AnyNext]_vars PROVE BuilderMatchesUpload'
    OBVIOUS
  <2>1. CASE UNCHANGED <<activeUpload, retired, builder>>
    BY <2>1 DEF BuilderMatchesUpload
  <2>2. CASE RetireActiveUpload
    BY <2>2 DEF BuilderMatchesUpload, RetireActiveUpload, RetireIntoSet
  <2>3. ASSUME NEW a \in Attempts, QueueUpload(a)
        PROVE  BuilderMatchesUpload'
    BY <2>3 DEF BuilderMatchesUpload, QueueUpload, captureVars
  <2>4. ASSUME NEW a \in Attempts, NEW replace \in BOOLEAN, BindResultBuilder(a, replace)
        PROVE  BuilderMatchesUpload'
    BY <2>4 DEF BuilderMatchesUpload, BindResultBuilder, Bind, transactionVars
  <2>5. QED
    BY <2>1, <2>2, <2>3, <2>4, OwnershipSteps
<1>3. QED
  BY <1>1, <1>2, NextIsAny, PTL DEF Spec

\* No step makes the connection forget an active upload without retiring its Application
\* Test ID, or swaps one upload for another.
THEOREM AbandonmentRetires == Spec => AbandonedIdsAreRetired
<1> DEFINE Step == activeUpload # None /\ activeUpload' # activeUpload =>
                     activeUpload' = None /\ retired' = retired \union {activeUpload}
<1>1. [AnyNext]_vars => [Step]_vars
  <2> SUFFICES ASSUME [AnyNext]_vars PROVE Step
    OBVIOUS
  <2>1. CASE RetireActiveUpload
    BY <2>1 DEF RetireActiveUpload, RetireIntoSet
  <2>2. QED
    BY <2>1, OwnershipSteps DEF QueueUpload, BindResultBuilder, Bind, transactionVars
<1>2. QED
  BY <1>1, NextIsAny, PTL DEF Spec, AbandonedIdsAreRetired

-----------------------------------------------------------------------------
(* While a delivery is awaited, Transport owes an event; while a response is, a *)
(* deadline runs.                                                               *)

Owed == inFlight \/ \E i \in 1..Len(events) : events[i] # "SESSION_ESTABLISHED"

\* A wait for a delivery is about a submitted operation whose deadline is not set yet.
DeliveryWait == deliveryPending => pending.submitted /\ ~pending.armed /\ pending.kind # "none"

\* A submitted operation whose delivery is no longer awaited has its deadline.
ResponseWait == pending.kind # "none" /\ pending.submitted /\ ~deliveryPending => pending.armed

Waits == DeliveryWait /\ ResponseWait
DeliveryInv == Waits /\ (deliveryPending => Owed)

-----------------------------------------------------------------------------
(* Where an operation ends or begins *)

LEMMA NoWait ==
  ASSUME pending' = NoOperation, ~deliveryPending'
  PROVE  Waits'
BY NoOperationTypes DEF Waits, DeliveryWait, ResponseWait

LEMMA FailWorkflowEndsWaits ==
  ASSUME FailWorkflow
  PROVE  Waits' /\ ~deliveryPending'
BY NoWait DEF FailWorkflow

LEMMA FreshWait ==
  ASSUME NEW op, pending' = op, ~deliveryPending', op.submitted => op.armed
  PROVE  Waits'
BY DEF Waits, DeliveryWait, ResponseWait

LEMMA NewOperationWait ==
  ASSUME NEW kind, NEW test, NEW tick, Activate(NewOperation(kind, test, tick)), ~deliveryPending'
  PROVE  Waits'
<1> DEFINE op == NewOperation(kind, test, tick)
<1>1. op.submitted => op.armed
  BY DEF NewOperation
<1>2. pending' = op
  BY DEF Activate
<1> HIDE DEF op
<1>3. QED
  BY <1>1, <1>2, FreshWait

LEMMA PlannedWait ==
  ASSUME NEW q \in Seq(PlannedMessages), q # <<>>, Activate(Head(q)), ~deliveryPending'
  PROVE  Waits'
<1>1. Head(q) \in PlannedMessages /\ pending' = Head(q)
  BY SubsequenceTypes DEF Activate
<1>2. QED
  BY <1>1, FreshWait DEF PlannedMessages

LEMMA FinishEndsWait ==
  ASSUME Types, NEW op, NEW count, Finish(op, count)
  PROVE  Waits' /\ ~deliveryPending'
<1>1. CASE FinishNegative(op)
  BY <1>1, NoWait, FailWorkflowEndsWaits DEF FinishNegative
<1>2. CASE ~deliveryPending' /\ FinishUploadMessage(op, count)
  <2>1. uploadOperations \in Seq(PlannedMessages)
    BY DEF Types, PlanIsFresh
  <2>2. QED
    BY <1>2, <2>1, PlannedWait, NewOperationWait DEF FinishUploadMessage, UploadMessageFinished
<1>3. CASE ~deliveryPending' /\ FinishCompleteTest(op)
  BY <1>3, NoWait, NewOperationWait DEF FinishCompleteTest
<1>4. CASE ~deliveryPending' /\ FinishControl(op)
  BY <1>4, NoWait DEF FinishControl
<1>5. QED
  BY <1>1, <1>2, <1>3, <1>4 DEF Finish

LEMMA AdvanceWait ==
  ASSUME Waits, NEW q \in Seq(PlannedMessages), AdvanceWith(q), UNCHANGED deliveryPending
  PROVE  Waits'
<1>1. CASE UNCHANGED pending
  BY <1>1 DEF Waits, DeliveryWait, ResponseWait
<1>2. CASE NothingPending /\ q # <<>> /\ Activate(Head(q))
  <2>1. ~deliveryPending'
    BY <1>2, NoOperationTypes DEF Waits, DeliveryWait, NothingPending
  <2>2. QED
    BY <1>2, <2>1, PlannedWait
<1>3. CASE NothingPending /\ Activate(NewOperation("discovery", None, None))
  <2>1. ~deliveryPending'
    BY <1>3, NoOperationTypes DEF Waits, DeliveryWait, NothingPending
  <2>2. QED
    BY <1>3, <2>1, NewOperationWait
<1>4. QED
  BY <1>1, <1>2, <1>3 DEF AdvanceWith

-----------------------------------------------------------------------------
(* Events and messages *)

\* Only SESSION_ESTABLISHED leaves a wait for a delivery as it is.
LEMMA EventWait ==
  ASSUME Types, Waits, NEW event, HandleEvent(event)
  PROVE  Waits' /\ (deliveryPending' => deliveryPending /\ event = "SESSION_ESTABLISHED")
<1>1. CASE HandleDeliveryConfirmed /\ ~FailWorkflow
  <2> DEFINE op == [pending EXCEPT !.armed = @ \/ pending.submitted]
             count == delivered + (IF pending.kind \in UploadKinds THEN 1 ELSE 0)
  <2>1. op.submitted => op.armed
    BY DEF Types, SessionTypes, Operation
  <2>2. DeliveryConfirmedFor(op)
    BY <1>1 DEF HandleDeliveryConfirmed
  <2>3. CASE Finish(op, count)
    <3> HIDE DEF op, count
    <3> QED
      BY <2>3, FinishEndsWait
  <2>4. CASE pending' = op /\ deliveryPending' = FALSE
    <3> HIDE DEF op
    <3> QED
      BY <2>1, <2>4, FreshWait
  <2>5. QED
    BY <2>2, <2>3, <2>4 DEF DeliveryConfirmedFor
<1>2. CASE FailWorkflow
  BY <1>2, FailWorkflowEndsWaits
<1>3. CASE event = "SESSION_ESTABLISHED" /\ HandleSessionEstablished
  BY <1>3 DEF HandleSessionEstablished, Waits, DeliveryWait, ResponseWait
<1>4. QED
  BY <1>1, <1>2, <1>3 DEF HandleEvent, HandleFailure, HandleSessionReset

LEMMA ResponseEndsWait ==
  ASSUME Types, Waits, NEW outcome, ReceiveResponse(outcome)
  PROVE  Waits' /\ (deliveryPending' => deliveryPending)
<1> DEFINE op == [pending EXCEPT !.received = TRUE,
                    !.outcome = IF outcome = "success" THEN @ ELSE outcome]
<1>1. CASE Finish(op, delivered)
  <2> HIDE DEF op
  <2> QED
    BY <1>1, FinishEndsWait
<1>2. CASE pending' = op /\ UNCHANGED deliveryPending
  <2>1. op.kind = pending.kind /\ op.submitted = pending.submitted /\ op.armed = pending.armed
    BY DEF Types, SessionTypes, Operation
  <2> HIDE DEF op
  <2>2. QED
    BY <1>2, <2>1 DEF Waits, DeliveryWait, ResponseWait
<1>3. QED
  BY <1>1, <1>2 DEF ReceiveResponse

LEMMA MessageWait ==
  ASSUME Types, Waits, NEW m, HandleMessage(m)
  PROVE  Waits' /\ (deliveryPending' => deliveryPending)
<1>1. CASE FailWorkflow
  BY <1>1, FailWorkflowEndsWaits
<1>2. CASE UNCHANGED <<pending, deliveryPending>>
  BY <1>2 DEF Waits, DeliveryWait, ResponseWait
<1>3. CASE \E outcome : ReceiveResponse(outcome)
  BY <1>3, ResponseEndsWait
<1>4. QED
  <2>1. CASE HandleSystemInfo(m) \/ HandleApplicationResponse(m)
    BY <1>1, <1>3, <2>1 DEF HandleSystemInfo, HandleApplicationResponse
  <2>2. CASE HandleApplicationError(m) \/ HandleTestResult(m) \/ HandleUnreadable(m)
    BY <1>1, <1>2, <2>2 DEF HandleApplicationError, HandleTestResult, HandleUnreadable,
       RefuseResult, StoreResult, sessionVars
  <2>3. QED
    BY <2>1, <2>2 DEF HandleMessage

-----------------------------------------------------------------------------
(* What Transport owes *)

LEMMA OwedKept ==
  ASSUME Owed, UNCHANGED <<inFlight, events>>
  PROVE  Owed'
BY DEF Owed

\* Reading SESSION_ESTABLISHED pays nothing back: what ends the wait is still in the queue.
LEMMA OwedAfterRead ==
  ASSUME events \in Seq(EventTypes), events # <<>>, Head(events) = "SESSION_ESTABLISHED",
         events' = Tail(events), UNCHANGED inFlight, Owed
  PROVE  Owed'
<1>1. CASE inFlight
  BY <1>1 DEF Owed
<1>2. CASE \E i \in 1..Len(events) : events[i] # "SESSION_ESTABLISHED"
  <2>1. PICK i \in 1..Len(events) : events[i] # "SESSION_ESTABLISHED"
    BY <1>2
  <2>2. i # 1
    BY <2>1
  <2>3. i - 1 \in 1..Len(events') /\ events'[i - 1] = events[i]
    BY <2>1, <2>2
  <2>4. QED
    BY <2>1, <2>3 DEF Owed
<1>3. QED
  BY <1>1, <1>2 DEF Owed

LEMMA OwedWhileTransportRuns ==
  ASSUME TypeInv, Transport, Owed
  PROVE  Owed'
<1>1. events \in Seq(EventTypes)
  BY DEF TypeInv, TransportTypes
<1>2. ASSUME NEW event \in EventTypes, events' = events \o <<event>>, NEW i \in 1..Len(events)
      PROVE  i \in 1..Len(events') /\ events'[i] = events[i]
  BY <1>1, <1>2
<1>3. ASSUME NEW event \in EventTypes, events' = events \o <<event>>,
             event # "SESSION_ESTABLISHED" \/ UNCHANGED inFlight
      PROVE  Owed'
  <2>1. CASE event # "SESSION_ESTABLISHED"
    <3>1. Len(events) + 1 \in 1..Len(events') /\ events'[Len(events) + 1] = event
      BY <1>1, <1>3
    <3>2. QED
      BY <2>1, <3>1 DEF Owed
  <2>2. CASE UNCHANGED inFlight
    BY <1>2, <1>3, <2>2 DEF Owed
  <2>3. QED
    BY <1>3, <2>1, <2>2
<1>4. /\ "DELIVERY_CONFIRMED" \in EventTypes /\ "FAILURE" \in EventTypes
      /\ "SESSION_RESET" \in EventTypes /\ "SESSION_ESTABLISHED" \in EventTypes
  BY DEF EventTypes
<1>5. QED
  BY <1>3, <1>4 DEF Transport, DeliveryConfirmed, TransportFailure, SessionReset, SessionEstablished,
     TransportRuns

-----------------------------------------------------------------------------
(* Steps *)

LEMMA UnchangedWait ==
  ASSUME DeliveryInv, UNCHANGED <<pending, deliveryPending, inFlight, events>>
  PROVE  DeliveryInv'
BY OwedKept DEF DeliveryInv, Waits, DeliveryWait, ResponseWait

LEMMA ServicePassDelivery ==
  ASSUME TypeInv, DeliveryInv, ServicePass
  PROVE  DeliveryInv'
<1>1. CASE UNCHANGED dataVars
  BY <1>1, UnchangedWait DEF dataVars, sessionVars, transportVars
<1>2. CASE FailWorkflow
  BY <1>2, FailWorkflowEndsWaits DEF DeliveryInv
<1>3. CASE DrainEvent
  <2>1. Waits' /\ (deliveryPending' => deliveryPending /\ Head(events) = "SESSION_ESTABLISHED")
    BY <1>3, EventWait DEF DrainEvent, TypeInv, DeliveryInv
  <2>2. ASSUME deliveryPending'
        PROVE  Owed'
    BY <1>3, <2>1, <2>2, OwedAfterRead DEF DrainEvent, TypeInv, TransportTypes, DeliveryInv
  <2>3. QED
    BY <2>1, <2>2 DEF DeliveryInv
<1>4. CASE AdvanceWorkflow
  <2>1. Waits'
    BY <1>4, AdvanceWait DEF AdvanceWorkflow, DeliveryInv, TypeInv, Types, PlanIsFresh
  <2>2. QED
    BY <1>4, <2>1, OwedKept DEF AdvanceWorkflow, DeliveryInv, transportVars
<1>5. CASE SubmitMessage
  <2> DEFINE op == [pending EXCEPT !.submitted = TRUE]
  <2>1. op.submitted /\ op.kind = pending.kind /\ op.armed = pending.armed
    BY DEF TypeInv, Types, SessionTypes, Operation
  <2>2. pending' = op /\ deliveryPending' = TRUE /\ inFlight' = TRUE
    BY <1>5 DEF SubmitMessage
  <2>3. ~pending.armed /\ pending.kind # "none"
    BY <1>5, NoOperationTypes DEF SubmitMessage, CanSubmit, TypeInv, Types, PendingIsSound
  <2> HIDE DEF op
  <2>4. QED
    BY <2>1, <2>2, <2>3 DEF DeliveryInv, Waits, DeliveryWait, ResponseWait, Owed
<1>6. QED
  BY <1>1, <1>2, <1>3, <1>4, <1>5
     DEF ServicePass, SerialFault, ProcessFails, Processed, EventsDrained, MessagesDrained,
         ResponseTimeout, NothingSubmitted, SubmitRefused

LEMMA RequestDelivery ==
  ASSUME NEW op, Request(op), ~op.submitted
  PROVE  DeliveryInv'
BY FreshWait DEF Request, Activate, DeliveryInv

LEMMA CallerDelivery ==
  ASSUME TypeInv, DeliveryInv, Caller
  PROVE  DeliveryInv'
<1>1. CASE Service \/ \E a \in Attempts, replace \in BOOLEAN : BindResultBuilder(a, replace)
  BY <1>1, UnchangedWait DEF Service, BindResultBuilder, Bind, dataVars, sessionVars, transportVars
<1>2. ASSUME NEW a \in Attempts, QueueUpload(a)
      PROVE  DeliveryInv'
  <2>1. Waits'
    BY <1>2, PlanTypes, AdvanceWait DEF QueueUpload, DeliveryInv
  <2>2. QED
    BY <1>2, <2>1, OwedKept DEF QueueUpload, DeliveryInv, transportVars
<1>3. CASE Start \/ Abort \/ ResetApplication
  <2>1. ASSUME NEW kind \in {"start", "abort", "reset"}, NEW test, NEW restore
        PROVE  /\ ~NewOperation(kind, test, None).submitted
               /\ ~[NewOperation(kind, test, None) EXCEPT !.restore = restore].submitted
    BY DEF NewOperation
  <2>2. QED
    BY <1>3, <2>1, RequestDelivery DEF Start, Abort, ResetApplication
<1>4. CASE Close
  BY <1>4, NoWait DEF Close, DeliveryInv
<1>5. QED
  BY <1>1, <1>2, <1>3, <1>4 DEF Caller

LEMMA DeliveryStep == TypeInv /\ DeliveryInv /\ [AnyNext]_vars => DeliveryInv'
<1> SUFFICES ASSUME TypeInv, DeliveryInv, [AnyNext]_vars PROVE DeliveryInv'
  OBVIOUS
<1>1. CASE ServicePass
  BY <1>1, ServicePassDelivery
<1>2. CASE Caller
  BY <1>2, CallerDelivery
<1>3. CASE Transport
  <2>1. UNCHANGED <<pending, deliveryPending>>
    BY <1>3 DEF Transport, DeliveryConfirmed, TransportFailure, SessionReset, SessionEstablished,
       TransportRuns, sessionVars
  <2>2. QED
    BY <1>3, <2>1, OwedWhileTransportRuns
       DEF DeliveryInv, Waits, DeliveryWait, ResponseWait
<1>4. ASSUME NEW m \in Messages, DrainMessage(m)
      PROVE  DeliveryInv'
  <2>1. Waits' /\ (deliveryPending' => deliveryPending)
    BY <1>4, MessageWait DEF DrainMessage, DeliveryInv, TypeInv
  <2>2. QED
    BY <1>4, <2>1, OwedKept DEF DrainMessage, DeliveryInv, transportVars
<1>5. CASE Closed \/ UNCHANGED vars
  BY <1>5, UnchangedWait DEF Closed, vars, dataVars, sessionVars, transportVars
<1>6. QED
  BY <1>1, <1>2, <1>3, <1>4, <1>5 DEF AnyNext

LEMMA InitDelivery == Init => DeliveryInv
BY NoOperationTypes DEF Init, DeliveryInv, Waits, DeliveryWait, ResponseWait

\* While the connection waits for a delivery confirmation, which has no deadline of its
\* own, the message is in flight or an event that ends the wait is on its way.
THEOREM DeliveriesAreOwed == Spec => []DeliveryIsOwed
<1>1. DeliveryInv => DeliveryIsOwed
  BY NoOperationTypes DEF DeliveryInv, Waits, DeliveryWait, Owed, DeliveryIsOwed, NothingPending
<1>2. QED
  BY NextIsAny, InitTypes, TypeStep, InitDelivery, DeliveryStep, <1>1, PTL DEF Spec

\* Once a request is delivered, every wait for its response has a deadline.
THEOREM ResponseWaitsAreTimed == Spec => []ResponseWaitIsTimed
<1>1. TypeInv /\ DeliveryInv => ResponseWaitIsTimed
  BY DEF DeliveryInv, Waits, ResponseWait, ResponseWaitIsTimed, NothingPending, TypeInv, Types,
     PendingIsSound
<1>2. QED
  BY NextIsAny, InitTypes, TypeStep, InitDelivery, DeliveryStep, <1>1, PTL DEF Spec
=============================================================================
