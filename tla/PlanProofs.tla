------------------------------ MODULE PlanProofs ------------------------------
(***************************************************************************)
(* Where a HostConnection is in the plan of an upload, what its captures   *)
(* hold and what it tells its caller: for every plan, and whatever         *)
(* Transport, the rig and the caller do.                                   *)
(***************************************************************************)
EXTENDS HostConnectionProofs, SequenceTheorems

(* Positions in a plan, over values *)

\* What is queued is the end of the plan.
QueuedIsEnd(a, queue) ==
  /\ Len(queue) <= Len(UploadTicks(a))
  /\ \A i \in 1..Len(queue) : queue[i] = UploadPlan(a)[Len(UploadTicks(a)) - Len(queue) + i]

\* The pending message is the one before it; `count' messages are confirmed and `sent'
\* were handed to Transport.
PendingIsNext(a, op, queue, count, sent) ==
  /\ Len(queue) < Len(UploadTicks(a))
  /\ op.tick = UploadTicks(a)[Len(UploadTicks(a)) - Len(queue)]
  /\ count = Len(UploadTicks(a)) - Len(queue) - (IF op.armed THEN 0 ELSE 1)
  /\ sent = Len(UploadTicks(a)) - Len(queue) - (IF op.submitted THEN 0 ELSE 1)

NothingSent(a, queue, count, sent) ==
  /\ count = Len(UploadTicks(a)) - Len(queue)
  /\ sent = Len(UploadTicks(a)) - Len(queue)

Position(a, op, queue, count, sent) ==
  /\ QueuedIsEnd(a, queue)
  /\ IF op.kind \in UploadKinds THEN PendingIsNext(a, op, queue, count, sent)
                                ELSE NothingSent(a, queue, count, sent)

SentIsPrefix(a) ==
  /\ Len(wire[a]) <= Len(UploadTicks(a))
  /\ \A i \in 1..Len(wire[a]) : wire[a][i] = UploadTicks(a)[i]

\* The whole upload was handed over and confirmed.
AllDelivered ==
  /\ activeUpload # None /\ uploadOperations = <<>>
  /\ delivered = Len(UploadTicks(activeUpload))
  /\ Len(wire[activeUpload]) = Len(UploadTicks(activeUpload))

PlanInv ==
  /\ \A a \in Attempts : SentIsPrefix(a)
  /\ \A a \in Attempts : a \notin retired /\ a # activeUpload => wire[a] = <<>>
  /\ Uploading =>
       Position(activeUpload, pending, uploadOperations, delivered, Len(wire[activeUpload]))
  /\ accepted \/ started \/ pending.kind \in {"complete_test", "start"} => AllDelivered

LEMMA PlanFacts ==
  ASSUME NEW a \in Attempts
  PROVE  /\ UploadTicks(a) \in Seq(Ticks) /\ Len(UploadTicks(a)) \in Nat \ {0}
         /\ UploadPlan(a) \in Seq(PlannedMessages)
         /\ Len(UploadPlan(a)) = Len(UploadTicks(a))
         /\ \A i \in 1..Len(UploadTicks(a)) :
              UploadPlan(a)[i].test = a /\ UploadPlan(a)[i].tick = UploadTicks(a)[i]
<1>1. UploadTicks(a) \in Seq(Ticks) /\ UploadTicks(a) # <<>>
  BY ConnectionAssumption DEF UploadTicks, Ticks
<1>2. Len(UploadTicks(a)) \in Nat \ {0}
  BY <1>1
<1>3. Len(UploadPlan(a)) = Len(UploadTicks(a))
  BY <1>2 DEF UploadPlan
<1>4. UploadTicks(a)[1] = None
  BY ConnectionAssumption DEF UploadTicks
<1>5. \A i \in 1..Len(UploadTicks(a)) :
        UploadPlan(a)[i].test = a /\ UploadPlan(a)[i].tick = UploadTicks(a)[i]
  BY <1>4 DEF UploadPlan, NewOperation
<1>6. QED
  BY <1>1, <1>2, <1>3, <1>5, PlanTypes

LEMMA PlannedFacts ==
  ASSUME NEW op \in PlannedMessages
  PROVE  op.kind \in UploadKinds /\ ~op.submitted /\ ~op.armed
BY DEF PlannedMessages

-----------------------------------------------------------------------------
(* Moves over a plan *)

LEMMA TakeHeadPosition ==
  ASSUME NEW a \in Attempts, NEW q \in Seq(PlannedMessages), q # <<>>,
         NEW count, NEW sent, QueuedIsEnd(a, q), NothingSent(a, q, count, sent)
  PROVE  Position(a, Head(q), Tail(q), count, sent)
<1> DEFINE N == Len(UploadTicks(a))
           L == Len(q)
<1>1. N \in Nat /\ L \in Nat /\ 0 < L /\ L <= N
  BY PlanFacts DEF QueuedIsEnd
<1>2. Len(Tail(q)) = L - 1 /\ \A i \in 1..L - 1 : Tail(q)[i] = q[i + 1]
  OBVIOUS
<1>3. Head(q) = q[1] /\ Head(q) \in PlannedMessages
  OBVIOUS
<1>4. q[1] = UploadPlan(a)[N - L + 1]
  BY <1>1 DEF QueuedIsEnd
<1>5. N - L + 1 \in 1..N
  BY <1>1
<1>6. Head(q).tick = UploadTicks(a)[N - L + 1]
  BY <1>3, <1>4, <1>5, PlanFacts
<1>7. QueuedIsEnd(a, Tail(q))
  <2>1. ASSUME NEW i \in 1..L - 1
        PROVE  Tail(q)[i] = UploadPlan(a)[N - (L - 1) + i]
    <3>1. i + 1 \in 1..L /\ Tail(q)[i] = q[i + 1]
      BY <1>1, <1>2
    <3>2. q[i + 1] = UploadPlan(a)[N - L + (i + 1)]
      BY <3>1 DEF QueuedIsEnd
    <3>3. N - L + (i + 1) = N - (L - 1) + i
      BY <1>1
    <3>4. QED
      BY <3>1, <3>2, <3>3
  <2>2. QED
    BY <1>1, <1>2, <2>1 DEF QueuedIsEnd
<1>8. PendingIsNext(a, Head(q), Tail(q), count, sent)
  <2>1. ~Head(q).submitted /\ ~Head(q).armed
    BY <1>3, PlannedFacts
  <2>2. count = N - L /\ sent = N - L
    BY DEF NothingSent
  <2>3. N - L = N - (L - 1) - 1 /\ N - (L - 1) = N - L + 1 /\ L - 1 < N
    BY <1>1
  <2>4. QED
    BY <1>2, <1>6, <2>1, <2>2, <2>3 DEF PendingIsNext
<1>9. QED
  BY <1>3, <1>7, <1>8, PlannedFacts DEF Position

LEMMA WholePlanPosition ==
  ASSUME NEW a \in Attempts
  PROVE  QueuedIsEnd(a, UploadPlan(a)) /\ NothingSent(a, UploadPlan(a), 0, 0)
BY PlanFacts DEF QueuedIsEnd, NothingSent

\* A message that is submitted and confirmed leaves a position at which nothing is sent.
LEMMA ConfirmedPosition ==
  ASSUME NEW a, NEW op, NEW q, NEW count, NEW sent, op.kind \in UploadKinds,
         op.submitted, op.armed, Position(a, op, q, count, sent)
  PROVE  QueuedIsEnd(a, q) /\ NothingSent(a, q, count, sent)
BY DEF Position, PendingIsNext, NothingSent, QueuedIsEnd

-----------------------------------------------------------------------------
(* What a step may do to an upload *)

\* Nothing, or the arrival of the next result.
Quiet ==
  /\ UNCHANGED <<pending, confirmed, uploadOperations, activeUpload, delivered, accepted, started,
                 retired>>
  /\ \/ UNCHANGED <<workflow, nextResultTick>>
     \/ /\ activeUpload # None /\ started
        /\ nextResultTick' = nextResultTick + 1
        /\ workflow' = IF nextResultTick + 1 = ExpectedTickCount[activeUpload]
                       THEN "RESULTS_COMPLETE" ELSE workflow

Fails == FailWorkflow /\ (UNCHANGED confirmed \/ ~confirmed')

\* The confirmation or the response that is not the last of the two.
Noted(op, count) ==
  /\ Same(op) /\ op.tick = pending.tick
  /\ op.submitted = pending.submitted
  /\ \/ count = delivered /\ op.armed = pending.armed
     \/ /\ pending.kind # "none" /\ deliveryPending
        /\ op.armed = (pending.armed \/ pending.submitted)
        /\ count = delivered + (IF pending.kind \in UploadKinds THEN 1 ELSE 0)

Updates(op, count) ==
  /\ pending' = op /\ delivered' = count
  /\ UNCHANGED <<confirmed, workflow, uploadOperations, activeUpload, accepted, started,
                 nextResultTick, retired>>

Requests(op) ==
  /\ Request(op)
  /\ op \in Operation /\ op.kind \in {"start", "abort", "reset"}
  /\ op.kind = "start" => accepted
  /\ op.kind \in {"abort", "reset"} => op.restore = workflow /\ ~op.submitted
  /\ NothingPending

\* Every step, by what it does to the session's operation and the active upload.
ServiceShape ==
  \/ Quiet
  \/ Fails
  \/ \E op, count : Noted(op, count) /\ op.submitted /\ op.armed /\ Finish(op, count)
  \/ \E op, count : Noted(op, count) /\ Updates(op, count)

Shape ==
  \/ (ServiceShape \/ HandleSessionEstablished) /\ UNCHANGED wire
  \/ AdvanceWorkflow
  \/ SubmitMessage
  \/ \E a \in Attempts : QueueUpload(a)
  \/ \E op : Requests(op)
  \/ Close

LEMMA EventShape ==
  ASSUME TypeInv, DeliveryInv, NEW event, HandleEvent(event)
  PROVE  /\ ServiceShape \/ HandleSessionEstablished
         /\ HandleSessionEstablished /\ ~ServiceShape => event = "SESSION_ESTABLISHED"
<1>1. CASE HandleDeliveryConfirmed /\ ~NothingPending /\ deliveryPending
  <2> DEFINE op == [pending EXCEPT !.armed = @ \/ pending.submitted]
             count == delivered + (IF pending.kind \in UploadKinds THEN 1 ELSE 0)
  <2>1. Same(op) /\ op.tick = pending.tick /\ op.submitted = pending.submitted
        /\ op.armed = (pending.armed \/ pending.submitted) /\ op.received = pending.received
    BY DEF Same, TypeInv, Types, SessionTypes, Operation
  <2>2. DeliveryConfirmedFor(op) /\ ~NothingPending /\ deliveryPending
    BY <1>1 DEF HandleDeliveryConfirmed
  <2>3. pending.kind # "none" /\ pending.submitted
    BY <2>2 DEF NothingPending, TypeInv, Types, PendingIsSound, DeliveryInv, Waits, DeliveryWait
  <2>4. Noted(op, count) /\ op.submitted /\ op.armed
    <3> HIDE DEF op
    <3> QED
      BY <2>1, <2>2, <2>3 DEF Noted
  <2>5. Finish(op, count) \/ Updates(op, count)
    <3>1. DeliveryConfirmedFor(op) => Finish(op, count) \/ Updates(op, count)
      <4> HIDE DEF op
      <4> QED
        BY DEF DeliveryConfirmedFor, Updates
    <3>2. QED
      BY <2>2, <3>1
  <2> HIDE DEF op, count
  <2>6. QED
    BY <2>4, <2>5 DEF ServiceShape
<1>2. CASE Fails
  BY <1>2 DEF ServiceShape
<1>3. CASE event = "SESSION_ESTABLISHED" /\ HandleSessionEstablished
  BY <1>3
<1>4. HandleFailure \/ HandleSessionReset => Fails
  BY DEF HandleFailure, HandleSessionReset, Fails
<1>5. HandleDeliveryConfirmed => Fails \/ (~NothingPending /\ deliveryPending)
  BY DEF HandleDeliveryConfirmed, Fails
<1>6. QED
  BY <1>1, <1>2, <1>3, <1>4, <1>5 DEF HandleEvent

LEMMA ResponseShape ==
  ASSUME TypeInv, DeliveryInv, pending.kind # "none", NEW outcome \in Outcomes,
         ReceiveResponse(outcome)
  PROVE  ServiceShape
<1> DEFINE op == [pending EXCEPT !.received = TRUE,
                    !.outcome = IF outcome = "success" THEN @ ELSE outcome]
<1>1. Same(op) /\ op.tick = pending.tick /\ op.submitted = pending.submitted
      /\ op.armed = pending.armed
  BY DEF Same, TypeInv, Types, SessionTypes, Operation
<1>2. \/ op.submitted /\ ~deliveryPending /\ Finish(op, delivered)
      \/ Updates(op, delivered)
  <2>1. ReceiveResponse(outcome) =>
          \/ op.submitted /\ ~deliveryPending /\ Finish(op, delivered)
          \/ /\ pending' = op
             /\ UNCHANGED <<deliveryPending, confirmed, workflow, transactionVars>>
    BY DEF ReceiveResponse
  <2> HIDE DEF op
  <2>2. QED
    BY <2>1 DEF Updates, transactionVars
<1> HIDE DEF op
<1>3. Noted(op, delivered)
  BY <1>1 DEF Noted
<1>4. op.submitted /\ ~deliveryPending => op.armed
  BY <1>1 DEF DeliveryInv, Waits, ResponseWait
<1>5. QED
  BY <1>2, <1>3, <1>4 DEF ServiceShape

LEMMA MessageShape ==
  ASSUME TypeInv, DeliveryInv, NEW m \in Messages, HandleMessage(m)
  PROVE  ServiceShape
<1>1. CASE FailWorkflow /\ UNCHANGED confirmed
  BY <1>1 DEF ServiceShape, Fails
<1>2. CASE UNCHANGED <<sessionVars, transactionVars>>
  BY <1>2 DEF ServiceShape, Quiet, sessionVars, transactionVars
<1>3. CASE HandleSystemInfo(m)
  BY <1>1, <1>3, ResponseShape DEF HandleSystemInfo, Outcomes
<1>4. CASE HandleApplicationResponse(m)
  <2>1. CASE Correlates(m) /\ ReceiveResponse(m.outcome)
    <3>1. m.kind \in RequestKinds /\ m.outcome \in Outcomes
      BY <1>4 DEF HandleApplicationResponse, Messages
    <3>2. pending.kind # "none"
      BY <2>1, <3>1 DEF Correlates, RequestKinds, UploadKinds
    <3>3. QED
      BY <2>1, <3>1, <3>2, ResponseShape
  <2>2. QED
    BY <1>1, <1>4, <2>1 DEF HandleApplicationResponse
<1>5. CASE HandleApplicationError(m)
  BY <1>2, <1>5 DEF HandleApplicationError
<1>6. CASE HandleTestResult(m)
  <2>1. CASE ResultIsNext(m) /\ StoreResult(m)
    BY <2>1 DEF ResultIsNext, StoreResult, ServiceShape, Quiet
  <2>2. QED
    BY <1>1, <1>2, <1>6, <2>1 DEF HandleTestResult, RefuseResult
<1>7. CASE HandleUnreadable(m)
  BY <1>1, <1>2, <1>7 DEF HandleUnreadable
<1>8. QED
  BY <1>3, <1>4, <1>5, <1>6, <1>7 DEF HandleMessage

LEMMA RequestShape ==
  ASSUME TypeInv, Start \/ Abort \/ ResetApplication
  PROVE  \E op : Requests(op)
<1>1. None \in Tests /\ None \in Ticks /\ activeUpload \in Tests /\ workflow \in WorkflowStates
      /\ {"start", "abort", "reset"} \subseteq Kinds
  BY DEF TypeInv, Types, SessionTypes, Tests, Ticks, Kinds, RequestKinds
<1>2. CASE Start
  <2> DEFINE op == NewOperation("start", activeUpload, None)
  <2>1. op \in Operation /\ op.kind = "start"
    BY <1>1, NewOperationTypes
  <2>2. Request(op) /\ accepted
    BY <1>2 DEF Start
  <2> HIDE DEF op
  <2>3. QED
    BY <2>1, <2>2 DEF Requests, Request
<1>3. CASE Abort
  <2> DEFINE op == [NewOperation("abort", activeUpload, None) EXCEPT !.restore = workflow]
  <2>1. op \in Operation /\ op.kind = "abort" /\ op.restore = workflow /\ ~op.submitted
    BY <1>1 DEF NewOperation, Operation, Kinds, RequestKinds, Outcomes
  <2>2. Request(op)
    BY <1>3 DEF Abort
  <2> HIDE DEF op
  <2>3. QED
    BY <2>1, <2>2 DEF Requests, Request
<1>4. CASE ResetApplication
  <2> DEFINE op == [NewOperation("reset", None, None) EXCEPT !.restore = workflow]
  <2>1. op \in Operation /\ op.kind = "reset" /\ op.restore = workflow /\ ~op.submitted
    BY <1>1 DEF NewOperation, Operation, Kinds, RequestKinds, Outcomes
  <2>2. Request(op)
    BY <1>4 DEF ResetApplication
  <2> HIDE DEF op
  <2>3. QED
    BY <2>1, <2>2 DEF Requests, Request
<1>5. QED
  BY <1>2, <1>3, <1>4

LEMMA StepShape ==
  ASSUME TypeInv, DeliveryInv, [AnyNext]_vars
  PROVE  Shape
<1>1. CASE UNCHANGED <<sessionVars, transactionVars, wire>>
  BY <1>1 DEF Shape, ServiceShape, Quiet, sessionVars, transactionVars
<1>2. CASE FailWorkflow /\ UNCHANGED <<confirmed, wire>>
  BY <1>2 DEF Shape, ServiceShape, Fails
<1>3. CASE DrainEvent
  BY <1>3, EventShape DEF DrainEvent, Shape
<1>4. CASE ServicePass
  BY <1>1, <1>2, <1>3, <1>4
     DEF ServicePass, SerialFault, ProcessFails, Processed, EventsDrained, MessagesDrained,
         ResponseTimeout, NothingSubmitted, SubmitRefused, dataVars, transportVars, Shape
<1>5. CASE Caller
  BY <1>1, <1>5, RequestShape
     DEF Caller, Service, BindResultBuilder, Bind, dataVars, transportVars, Shape
<1>6. CASE Transport
  BY <1>1, <1>6 DEF Transport, DeliveryConfirmed, TransportFailure, SessionReset,
     SessionEstablished, TransportRuns
<1>7. ASSUME NEW m \in Messages, DrainMessage(m)
      PROVE  Shape
  BY <1>7, MessageShape DEF DrainMessage, transportVars, Shape
<1>8. CASE Closed \/ UNCHANGED vars
  BY <1>1, <1>8 DEF Closed, vars, dataVars, transportVars
<1>9. QED
  BY <1>4, <1>5, <1>6, <1>7, <1>8 DEF AnyNext

-----------------------------------------------------------------------------
(* The position is kept *)

\* The facts of the other invariants that a position needs.
Grounds == TypeInv /\ OwnerInv /\ DeliveryInv

LEMMA ActiveIsAttempt ==
  ASSUME Grounds, activeUpload # None
  PROVE  activeUpload \in Attempts
BY DEF Grounds, TypeInv, Types, SessionTypes, Tests

LEMMA UploadingIsActive ==
  ASSUME Grounds, Uploading
  PROVE  activeUpload # None /\ activeUpload \in Attempts
<1>1. uploadOperations # <<>> => 1 \in 1..Len(uploadOperations)
  BY DEF Grounds, TypeInv, Types, SessionTypes
<1>2. activeUpload # None
  BY <1>1 DEF Uploading, Grounds, OwnerInv, WaitsForUpload
<1>3. QED
  BY <1>2, ActiveIsAttempt

\* What was sent is not touched, and each attempt keeps or gains its claim to have been
\* active.
LEMMA SentIsKept ==
  ASSUME PlanInv, UNCHANGED wire,
         \/ UNCHANGED <<activeUpload, retired>>
         \/ RetireActiveUpload
         \/ \E b \in Attempts : activeUpload' = b /\ activeUpload = None /\ UNCHANGED retired
  PROVE  /\ \A a \in Attempts : SentIsPrefix(a)'
         /\ \A a \in Attempts : a \notin retired' /\ a # activeUpload' => wire'[a] = <<>>
<1>1. \A a \in Attempts : SentIsPrefix(a)'
  BY DEF PlanInv, SentIsPrefix
<1>2. ASSUME NEW a \in Attempts, a \notin retired', a # activeUpload'
      PROVE  wire'[a] = <<>>
  <2>1. a # None
    BY ConnectionAssumption
  <2>2. a \notin retired /\ a # activeUpload
    BY <1>2, <2>1 DEF RetireActiveUpload, RetireIntoSet
  <2>3. QED
    BY <2>2 DEF PlanInv
<1>3. QED
  BY <1>1, <1>2

LEMMA NothingLeft ==
  ASSUME PlanInv, UNCHANGED wire,
         UNCHANGED <<activeUpload, retired>> \/ RetireActiveUpload,
         pending' = NoOperation, uploadOperations' = <<>>, ~accepted', ~started'
  PROVE  PlanInv'
<1>1. ~Uploading' /\ pending'.kind \notin {"complete_test", "start"}
  BY NoOperationOwner DEF Uploading
<1>2. QED
  BY <1>1, SentIsKept DEF PlanInv

LEMMA FinishPlan ==
  ASSUME Grounds, PlanInv, NEW op, NEW count, Noted(op, count), op.submitted, op.armed,
         Finish(op, count), UNCHANGED wire
  PROVE  PlanInv'
<1> DEFINE sent == Len(wire[activeUpload])
<1>1. op.kind = pending.kind /\ op.test = pending.test /\ op \in Operation
  BY DEF Noted, Same
<1>2. CASE op.kind \in UploadKinds /\ FinishUploadMessage(op, count)
  <2>1. /\ delivered' = count
        /\ UNCHANGED <<activeUpload, accepted, started, retired>>
    BY <1>2 DEF FinishUploadMessage, UploadMessageFinished
  <2>2. Uploading /\ activeUpload \in Attempts /\ ~accepted /\ ~started /\ activeUpload # None
    BY <1>1, <1>2, UploadingIsActive DEF Uploading, Grounds, OwnerInv, PhasesAgree
  <2>3. Position(activeUpload, pending, uploadOperations, delivered, sent)
    BY <2>2 DEF PlanInv
  <2>4. Position(activeUpload, op, uploadOperations, count, sent)
    <3>1. /\ pending.kind \in UploadKinds
          /\ QueuedIsEnd(activeUpload, uploadOperations)
          /\ PendingIsNext(activeUpload, pending, uploadOperations, delivered, sent)
      BY <1>1, <1>2, <2>3 DEF Position
    <3>2. op.tick = pending.tick /\ pending.submitted
      BY DEF Noted
    <3>3. count = Len(UploadTicks(activeUpload)) - Len(uploadOperations)
      <4>1. Len(UploadTicks(activeUpload)) \in Nat /\ Len(uploadOperations) \in Nat
            /\ delivered \in Nat
        BY <2>2, PlanFacts DEF Grounds, TypeInv, Types, SessionTypes
      <4>2. CASE count = delivered /\ op.armed = pending.armed
        <5>1. pending.armed
          BY <4>2
        <5>2. QED
          BY <3>1, <4>1, <4>2, <5>1 DEF PendingIsNext
      <4>3. CASE deliveryPending /\ count = delivered + 1
        <5>1. ~pending.armed
          BY <4>3 DEF Grounds, DeliveryInv, Waits, DeliveryWait
        <5>2. QED
          BY <3>1, <4>1, <4>3, <5>1 DEF PendingIsNext
      <4>4. QED
        BY <3>1, <4>2, <4>3 DEF Noted
    <3>4. PendingIsNext(activeUpload, op, uploadOperations, count, sent)
      <4>1. Len(UploadTicks(activeUpload)) \in Nat /\ Len(uploadOperations) \in Nat
        BY <2>2, PlanFacts DEF Grounds, TypeInv, Types, SessionTypes
      <4>2. QED
        BY <3>1, <3>2, <3>3, <4>1 DEF PendingIsNext
    <3>5. QED
      BY <1>2, <3>1, <3>4 DEF Position
  <2>5. QueuedIsEnd(activeUpload, uploadOperations)
        /\ NothingSent(activeUpload, uploadOperations, count, sent)
    BY <1>2, <2>4, ConfirmedPosition
  <2>6. CASE uploadOperations # <<>>
    <3>1. Activate(Head(uploadOperations)) /\ uploadOperations' = Tail(uploadOperations)
      BY <1>2, <2>6 DEF FinishUploadMessage, UploadMessageFinished
    <3>2. uploadOperations \in Seq(PlannedMessages)
      BY DEF Grounds, TypeInv, Types, PlanIsFresh
    <3>3. Position(activeUpload, pending', uploadOperations', delivered', sent)
      BY <2>1, <2>2, <2>5, <2>6, <3>1, <3>2, TakeHeadPosition DEF Activate
    <3>4. pending'.kind \in UploadKinds /\ pending'.kind \notin {"complete_test", "start"}
      BY <2>6, <3>1, <3>2, SubsequenceTypes, PlannedFacts DEF Activate, UploadKinds
    <3>5. QED
      BY <2>1, <2>2, <3>3, <3>4, SentIsKept DEF PlanInv
  <2>7. CASE uploadOperations = <<>>
    <3>1. /\ Activate(NewOperation("complete_test", op.test, None))
          /\ UNCHANGED uploadOperations
      BY <1>2, <2>7 DEF FinishUploadMessage, UploadMessageFinished
    <3>2. pending'.kind = "complete_test"
      BY <3>1 DEF Activate, NewOperation
    <3>3. ~Uploading'
      BY <2>7, <3>1, <3>2 DEF Uploading, UploadKinds
    <3>4. count = Len(UploadTicks(activeUpload)) /\ sent = Len(UploadTicks(activeUpload))
      BY <2>2, <2>5, <2>7, PlanFacts DEF NothingSent
    <3>5. AllDelivered'
      BY <2>1, <2>2, <2>7, <3>1, <3>4 DEF AllDelivered
    <3>6. QED
      BY <2>1, <3>3, <3>5, SentIsKept DEF PlanInv
  <2>8. QED
    BY <2>6, <2>7
<1>3. ASSUME UNCHANGED <<activeUpload, uploadOperations, retired, delivered>>,
             pending' = NoOperation \/ (~Uploading /\ pending'.kind \notin UploadKinds),
             pending.kind \notin UploadKinds,
             accepted' \/ started' \/ pending'.kind \in {"complete_test", "start"} => AllDelivered
      PROVE  PlanInv'
  <2>1. pending'.kind \notin UploadKinds
    BY <1>3, NoOperationOwner
  <2>2. Uploading' => Uploading /\ Position(activeUpload, pending', uploadOperations, delivered, sent)
    BY <1>3, <2>1 DEF Uploading, PlanInv, Position
  <2>3. AllDelivered => AllDelivered'
    BY <1>3 DEF AllDelivered
  <2>4. QED
    BY <1>3, <2>2, <2>3, SentIsKept DEF PlanInv
<1>4. CASE FinishCompleteTest(op)
  <2>1. AllDelivered /\ pending.kind = "complete_test"
    BY <1>1, <1>4 DEF FinishCompleteTest, PlanInv
  <2>2. ~Uploading
    BY <2>1 DEF Uploading, AllDelivered, UploadKinds
  <2>3. pending' = NoOperation \/ pending'.kind = "start"
    BY <1>4 DEF FinishCompleteTest, Activate, NewOperation
  <2>4. pending' = NoOperation \/ (~Uploading /\ pending'.kind \notin UploadKinds)
    BY <2>2, <2>3 DEF UploadKinds
  <2>5. UNCHANGED <<activeUpload, uploadOperations, retired, delivered>>
    BY <1>4 DEF FinishCompleteTest
  <2>6. pending.kind \notin UploadKinds
    BY <2>1 DEF UploadKinds
  <2>7. QED
    BY <1>3, <2>1, <2>4, <2>5, <2>6
<1>5. CASE FinishControl(op)
  <2>1. CASE op.kind \in {"abort", "reset"}
    BY <1>5, <2>1, NothingLeft DEF FinishControl, RetireActiveUpload, RetireIntoSet
  <2>2. CASE op.kind \in {"discovery", "start"}
    <3>1. /\ pending' = NoOperation
          /\ UNCHANGED <<activeUpload, uploadOperations, retired, delivered, accepted>>
          /\ started' => started \/ op.kind = "start"
      BY <1>5, <2>2 DEF FinishControl, transactionVars
    <3>2. pending.kind \notin UploadKinds /\ pending'.kind \notin {"complete_test", "start"}
      BY <1>1, <2>2, <3>1, NoOperationOwner DEF UploadKinds
    <3>3. accepted' \/ started' => AllDelivered
      BY <1>1, <3>1 DEF PlanInv
    <3>4. QED
      BY <1>3, <3>1, <3>2, <3>3
  <2>3. QED
    BY <1>5, <2>1, <2>2 DEF FinishControl
<1>6. CASE FinishNegative(op)
  <2>1. CASE pending' = NoOperation /\ RetireActiveUpload
    BY <2>1, NothingLeft DEF RetireActiveUpload, RetireIntoSet
  <2>2. CASE FailWorkflow
    BY <2>2, NothingLeft DEF FailWorkflow
  <2>3. CASE /\ op.kind = "start" /\ pending' = NoOperation
             /\ UNCHANGED <<uploadOperations, activeUpload, delivered, nextResultTick, retired>>
    <3>1. AllDelivered /\ pending.kind \notin UploadKinds
      BY <1>1, <2>3 DEF PlanInv, UploadKinds
    <3>2. QED
      BY <1>3, <2>3, <3>1
  <2>4. CASE /\ op.kind \in {"abort", "reset"} /\ pending' = NoOperation
             /\ UNCHANGED transactionVars
    <3>1. pending.kind \notin UploadKinds /\ pending'.kind \notin {"complete_test", "start"}
      BY <1>1, <2>4, NoOperationOwner DEF UploadKinds
    <3>2. accepted' \/ started' => AllDelivered
      BY <2>4 DEF PlanInv, transactionVars
    <3>3. QED
      BY <1>3, <2>4, <3>1, <3>2 DEF transactionVars
  <2>5. QED
    BY <1>6, <2>1, <2>2, <2>3, <2>4 DEF FinishNegative
<1>7. QED
  <2>1. FinishUploadMessage(op, count) => op.kind \in UploadKinds
    BY DEF FinishUploadMessage, UploadMessageFinished
  <2>2. QED
    BY <1>2, <1>4, <1>5, <1>6, <2>1 DEF Finish

LEMMA UpdatePlan ==
  ASSUME Grounds, PlanInv, NEW op, NEW count, Noted(op, count), Updates(op, count),
         UNCHANGED wire
  PROVE  PlanInv'
<1> DEFINE sent == Len(wire[activeUpload])
<1>1. /\ pending' = op /\ delivered' = count
      /\ UNCHANGED <<uploadOperations, activeUpload, accepted, started, retired>>
      /\ op.kind = pending.kind /\ op.tick = pending.tick /\ op.submitted = pending.submitted
  BY DEF Updates, Noted, Same
<1>2. ASSUME Uploading
      PROVE  Position(activeUpload, op, uploadOperations, count, sent)
  <2>1. Position(activeUpload, pending, uploadOperations, delivered, sent)
    BY <1>2 DEF PlanInv
  <2>2. CASE count = delivered /\ op.armed = pending.armed
    BY <1>1, <2>1, <2>2 DEF Position, PendingIsNext
  <2>3. CASE /\ deliveryPending /\ op.armed = (pending.armed \/ pending.submitted)
             /\ count = delivered + (IF pending.kind \in UploadKinds THEN 1 ELSE 0)
    <3>1. pending.submitted /\ ~pending.armed /\ op.armed /\ delivered \in Nat
      BY <2>3 DEF Grounds, DeliveryInv, Waits, DeliveryWait, TypeInv, Types, SessionTypes
    <3>2. CASE pending.kind \in UploadKinds
      <4>1. Len(UploadTicks(activeUpload)) \in Nat /\ Len(uploadOperations) \in Nat
        BY <1>2, UploadingIsActive, PlanFacts DEF Grounds, TypeInv, Types, SessionTypes
      <4>2. QED
        BY <1>1, <2>1, <2>3, <3>1, <3>2, <4>1 DEF Position, PendingIsNext
    <3>3. CASE pending.kind \notin UploadKinds
      BY <1>1, <2>1, <2>3, <3>1, <3>3 DEF Position
    <3>4. QED
      BY <3>2, <3>3
  <2>4. QED
    BY <2>2, <2>3 DEF Noted
<1>3. ASSUME accepted' \/ started' \/ pending'.kind \in {"complete_test", "start"}
      PROVE  AllDelivered'
  <2>1. AllDelivered
    BY <1>1, <1>3 DEF PlanInv
  <2>2. pending.kind \notin UploadKinds
    BY <1>1, <1>3 DEF UploadKinds, Grounds, OwnerInv, PhasesAgree
  <2>3. count = delivered
    BY <2>2 DEF Noted, Grounds, TypeInv, Types, SessionTypes
  <2>4. QED
    BY <1>1, <2>1, <2>3 DEF AllDelivered
<1>5. Uploading' => Uploading
  BY <1>1 DEF Uploading
<1>6. QED
  BY <1>1, <1>2, <1>3, <1>5, SentIsKept DEF PlanInv

\* Nothing of a plan moves: the pending operation, if it changes, is not about it.
LEMMA UnchangedPlan ==
  ASSUME PlanInv, UNCHANGED <<wire, uploadOperations, activeUpload, delivered, accepted, started,
                              retired>>,
         \/ UNCHANGED pending
         \/ /\ pending.kind \notin UploadKinds
            /\ pending'.kind \notin UploadKinds \union {"complete_test"}
            /\ pending'.kind = "start" => accepted
  PROVE  PlanInv'
<1>1. Uploading' =>
        Position(activeUpload, pending', uploadOperations, delivered, Len(wire[activeUpload]))
  BY DEF Uploading, PlanInv, Position
<1>2. accepted' \/ started' \/ pending'.kind \in {"complete_test", "start"} => AllDelivered
  BY DEF PlanInv
<1>3. AllDelivered => AllDelivered'
  BY DEF AllDelivered
<1>4. QED
  BY <1>1, <1>2, <1>3, SentIsKept DEF PlanInv

LEMMA DiscoveryKind ==
  ASSUME Activate(NewOperation("discovery", None, None))
  PROVE  /\ pending'.kind = "discovery"
         /\ pending'.kind \notin UploadKinds \union {"complete_test", "start"}
BY DEF Activate, NewOperation, UploadKinds

LEMMA NothingPendingKind ==
  ASSUME NothingPending
  PROVE  /\ pending.kind = "none"
         /\ pending.kind \notin UploadKinds \union {"complete_test", "start"}
BY NoOperationTypes DEF NothingPending, UploadKinds

LEMMA AdvancePlan ==
  ASSUME Grounds, PlanInv, AdvanceWorkflow
  PROVE  PlanInv'
<1>1. AdvanceWith(uploadOperations)
      /\ UNCHANGED <<wire, activeUpload, delivered, accepted, started, retired>>
  BY DEF AdvanceWorkflow, transportVars
<1>2. CASE UNCHANGED <<pending, uploadOperations>>
  BY <1>1, <1>2, UnchangedPlan
<1>3. CASE NothingPending /\ Activate(NewOperation("discovery", None, None))
           /\ UNCHANGED uploadOperations
  BY <1>1, <1>3, UnchangedPlan, DiscoveryKind, NothingPendingKind
<1>4. CASE /\ NothingPending /\ uploadOperations # <<>>
           /\ Activate(Head(uploadOperations)) /\ uploadOperations' = Tail(uploadOperations)
  <2> DEFINE sent == Len(wire[activeUpload])
  <2>1. Uploading /\ activeUpload # None /\ activeUpload \in Attempts
    BY <1>4, UploadingIsActive DEF Uploading
  <2>2. /\ QueuedIsEnd(activeUpload, uploadOperations)
        /\ NothingSent(activeUpload, uploadOperations, delivered, sent)
    BY <1>4, <2>1, NothingPendingKind DEF PlanInv, Position
  <2>3. uploadOperations \in Seq(PlannedMessages)
    BY DEF Grounds, TypeInv, Types, PlanIsFresh
  <2>4. Position(activeUpload, pending', uploadOperations', delivered, sent)
    BY <1>4, <2>1, <2>2, <2>3, TakeHeadPosition DEF Activate
  <2>5. pending'.kind \in UploadKinds /\ pending'.kind \notin {"complete_test", "start"}
    BY <1>4, <2>3, SubsequenceTypes, PlannedFacts DEF Activate, UploadKinds
  <2>6. ~accepted /\ ~started
    BY <1>4 DEF Grounds, OwnerInv, PhasesAgree
  <2>7. QED
    BY <1>1, <2>4, <2>5, <2>6, SentIsKept DEF PlanInv
<1>5. QED
  BY <1>1, <1>2, <1>3, <1>4 DEF AdvanceWith

LEMMA QueuePlan ==
  ASSUME Grounds, PlanInv, NEW a \in Attempts, QueueUpload(a)
  PROVE  PlanInv'
<1> DEFINE plan == UploadPlan(a)
<1>1. /\ activeUpload = None /\ activeUpload' = a /\ a \notin retired /\ a # None
      /\ delivered' = 0 /\ ~accepted' /\ ~started' /\ UNCHANGED <<retired, wire>>
      /\ pending.kind \notin UploadKinds \union {"complete_test", "start"}
  BY NothingPendingKind, ConnectionAssumption DEF QueueUpload, transportVars, UploadKinds
<1>2. wire'[a] = <<>> /\ Len(wire'[a]) = 0
  BY <1>1 DEF PlanInv
<1>3. AdvanceWith(plan) /\ plan \in Seq(PlannedMessages) /\ plan # <<>>
  BY PlanTypes DEF QueueUpload
<1>4. QueuedIsEnd(a, plan) /\ NothingSent(a, plan, 0, 0)
  BY WholePlanPosition
<1> HIDE DEF plan
<1>5. CASE uploadOperations' = plan /\ pending'.kind \notin UploadKinds \union {"complete_test", "start"}
  <2>1. Position(a, pending', uploadOperations', 0, 0)
    BY <1>4, <1>5 DEF Position
  <2>2. QED
    BY <1>1, <1>2, <1>5, <2>1, SentIsKept DEF PlanInv
<1>6. CASE Activate(Head(plan)) /\ uploadOperations' = Tail(plan)
  <2>1. Position(a, pending', uploadOperations', 0, 0)
    BY <1>3, <1>4, <1>6, TakeHeadPosition DEF Activate
  <2>2. pending'.kind \in UploadKinds /\ pending'.kind \notin {"complete_test", "start"}
    BY <1>3, <1>6, SubsequenceTypes, PlannedFacts DEF Activate, UploadKinds
  <2>3. QED
    BY <1>1, <1>2, <2>1, <2>2, SentIsKept DEF PlanInv
<1>7. QED
  BY <1>1, <1>3, <1>5, <1>6, DiscoveryKind DEF AdvanceWith

LEMMA SubmitPlan ==
  ASSUME Grounds, PlanInv, SubmitMessage
  PROVE  PlanInv'
<1> DEFINE op == [pending EXCEPT !.submitted = TRUE]
           N == Len(UploadTicks(activeUpload))
           L == Len(uploadOperations)
<1>1. op.kind = pending.kind /\ op.tick = pending.tick /\ op.armed = pending.armed /\ op.submitted
  BY DEF Grounds, TypeInv, Types, SessionTypes, Operation
<1>2. pending' = op
      /\ UNCHANGED <<uploadOperations, activeUpload, delivered, accepted, started, retired>>
  BY DEF SubmitMessage, transactionVars
<1> HIDE DEF op
<1>3. CASE pending.kind \in UploadKinds
  <2>1. /\ Uploading /\ activeUpload # None /\ activeUpload \in Attempts
        /\ pending.test = activeUpload /\ ~accepted /\ ~started
    BY <1>3, UploadingIsActive DEF Uploading, Grounds, OwnerInv, WaitsForUpload, PhasesAgree
  <2>2. wire' = [wire EXCEPT ![activeUpload] = Append(wire[activeUpload], pending.tick)]
    BY <1>3, <2>1 DEF SubmitMessage
  <2>3. /\ wire \in [Attempts -> Seq(Ticks)] /\ wire[activeUpload] \in Seq(Ticks)
        /\ pending.tick \in Ticks
    BY <2>1 DEF Grounds, TypeInv, Types, SessionTypes, TransportTypes, Operation
  <2>4. /\ QueuedIsEnd(activeUpload, uploadOperations)
        /\ PendingIsNext(activeUpload, pending, uploadOperations, delivered,
                         Len(wire[activeUpload]))
    BY <1>3, <2>1 DEF PlanInv, Position
  <2>5. ~pending.submitted
    BY DEF SubmitMessage, CanSubmit
  <2>6. ~pending.armed
    BY <2>5 DEF Grounds, TypeInv, Types, PendingIsSound
  <2>7. N \in Nat /\ L \in Nat /\ L < N
    BY <2>1, <2>4, PlanFacts DEF PendingIsNext, Grounds, TypeInv, Types, SessionTypes
  <2>8. Len(wire[activeUpload]) = N - L - 1 /\ pending.tick = UploadTicks(activeUpload)[N - L]
    BY <2>4, <2>5 DEF PendingIsNext
  <2>9. /\ wire'[activeUpload] = Append(wire[activeUpload], pending.tick)
        /\ \A b \in Attempts : b # activeUpload => wire'[b] = wire[b]
    BY <2>1, <2>2, <2>3
  <2>10. /\ Len(wire'[activeUpload]) = N - L
         /\ wire'[activeUpload][N - L] = pending.tick
         /\ \A i \in 1..N - L - 1 : wire'[activeUpload][i] = wire[activeUpload][i]
    BY <2>3, <2>7, <2>8, <2>9
  <2>11. PendingIsNext(activeUpload, op, uploadOperations, delivered, N - L)
    <3>1. delivered = N - L - 1
      BY <2>4, <2>6 DEF PendingIsNext
    <3>2. ~op.armed /\ op.submitted /\ op.tick = UploadTicks(activeUpload)[N - L]
      BY <1>1, <2>6, <2>8
    <3>3. QED
      BY <2>7, <3>1, <3>2 DEF PendingIsNext
  <2>12. Position(activeUpload', pending', uploadOperations', delivered', Len(wire'[activeUpload']))
    BY <1>1, <1>2, <1>3, <2>4, <2>10, <2>11 DEF Position
  <2>13. ASSUME NEW b \in Attempts
         PROVE  SentIsPrefix(b)'
    <3>1. CASE b # activeUpload
      BY <2>9, <3>1 DEF PlanInv, SentIsPrefix
    <3>2. CASE b = activeUpload
      <4>1. \A i \in 1..N - L - 1 : wire[b][i] = UploadTicks(b)[i]
        BY <2>8, <3>2 DEF PlanInv, SentIsPrefix
      <4>2. \A i \in 1..N - L : wire'[b][i] = UploadTicks(b)[i]
        BY <2>7, <2>8, <2>10, <3>2, <4>1
      <4>3. Len(wire'[b]) = N - L /\ N - L <= N
        BY <2>7, <2>10, <3>2
      <4>4. QED
        BY <3>2, <4>2, <4>3 DEF SentIsPrefix
    <3>3. QED
      BY <3>1, <3>2
  <2>14. \A b \in Attempts : b \notin retired' /\ b # activeUpload' => wire'[b] = <<>>
    BY <1>2, <2>9 DEF PlanInv
  <2>15. pending'.kind \notin {"complete_test", "start"}
    BY <1>1, <1>2, <1>3 DEF UploadKinds
  <2>16. QED
    BY <1>2, <2>1, <2>12, <2>13, <2>14, <2>15 DEF PlanInv
<1>4. CASE pending.kind \notin UploadKinds
  <2>1. UNCHANGED wire
    BY <1>4 DEF SubmitMessage
  <2>2. Uploading' =>
          Position(activeUpload, pending', uploadOperations, delivered, Len(wire[activeUpload]))
    BY <1>1, <1>2, <1>4 DEF Uploading, PlanInv, Position
  <2>3. accepted' \/ started' \/ pending'.kind \in {"complete_test", "start"} => AllDelivered
    BY <1>1, <1>2 DEF PlanInv
  <2>4. AllDelivered => AllDelivered'
    BY <1>2, <2>1 DEF AllDelivered
  <2>5. QED
    BY <1>2, <2>1, <2>2, <2>3, <2>4, SentIsKept DEF PlanInv
<1>5. QED
  BY <1>3, <1>4

LEMMA PlanStep == Grounds /\ PlanInv /\ [AnyNext]_vars => PlanInv'
<1> SUFFICES ASSUME Grounds, PlanInv, [AnyNext]_vars PROVE PlanInv'
  OBVIOUS
<1>1. CASE Quiet /\ UNCHANGED wire
  BY <1>1, UnchangedPlan DEF Quiet
<1>2. CASE Fails /\ UNCHANGED wire
  BY <1>2, NothingLeft DEF Fails, FailWorkflow
<1>3. ASSUME NEW op, NEW count, Noted(op, count), op.submitted, op.armed, Finish(op, count),
             UNCHANGED wire
      PROVE  PlanInv'
  BY <1>3, FinishPlan
<1>4. ASSUME NEW op, NEW count, Noted(op, count), Updates(op, count), UNCHANGED wire
      PROVE  PlanInv'
  BY <1>4, UpdatePlan
<1>5. ASSUME NEW a \in Attempts, QueueUpload(a)
      PROVE  PlanInv'
  BY <1>5, QueuePlan
<1>6. ASSUME NEW op, Requests(op)
      PROVE  PlanInv'
  <2>1. pending' = op /\ UNCHANGED <<wire, transactionVars>>
    BY <1>6 DEF Requests, Request, Activate, transportVars
  <2>2. op.kind \notin UploadKinds \union {"complete_test"} /\ (op.kind = "start" => accepted)
    BY <1>6 DEF Requests, UploadKinds
  <2>3. pending.kind \notin UploadKinds
    BY <1>6, NothingPendingKind DEF Requests
  <2>4. QED
    BY <2>1, <2>2, <2>3, UnchangedPlan DEF transactionVars
<1>7. CASE Close
  <2>1. /\ pending' = NoOperation /\ uploadOperations' = <<>>
        /\ UNCHANGED <<wire, activeUpload, delivered, accepted, started, retired>>
    BY <1>7 DEF Close
  <2>2. ~Uploading' /\ pending'.kind \notin {"complete_test", "start"}
    BY <2>1, NoOperationOwner DEF Uploading
  <2>3. accepted' \/ started' => AllDelivered'
    BY <2>1 DEF PlanInv, AllDelivered
  <2>4. QED
    BY <2>1, <2>2, <2>3, SentIsKept DEF PlanInv
<1>8. CASE HandleSessionEstablished /\ UNCHANGED wire
  BY <1>8, UnchangedPlan DEF HandleSessionEstablished, transactionVars
<1>9. Shape
  BY StepShape DEF Grounds
<1>10. QED
  BY <1>1, <1>2, <1>3, <1>4, <1>5, <1>6, <1>7, <1>8, <1>9, AdvancePlan, SubmitPlan
     DEF Shape, ServiceShape

LEMMA InitPlan == Init => PlanInv
<1> SUFFICES ASSUME Init PROVE PlanInv
  OBVIOUS
<1>1. ~Uploading /\ pending.kind \notin {"complete_test", "start"} /\ ~accepted /\ ~started
  BY NoOperationTypes DEF Init, Uploading, UploadKinds
<1>2. ASSUME NEW a \in Attempts
      PROVE  wire[a] = <<>> /\ SentIsPrefix(a)
  <2>1. wire[a] = <<>> /\ Len(wire[a]) = 0
    BY DEF Init
  <2>2. QED
    BY <2>1, PlanFacts DEF SentIsPrefix
<1>3. QED
  BY <1>1, <1>2 DEF PlanInv

LEMMA GroundsStep ==
  /\ Init => Grounds
  /\ Grounds /\ [AnyNext]_vars => Grounds'
BY InitTypes, InitOwner, InitDelivery, TypeStep, OwnerStep, DeliveryStep DEF Grounds

-----------------------------------------------------------------------------
(* Uploads are sent once, in order, and confirmed before they are accepted *)

LEMMA PrefixIsSubSeq ==
  ASSUME NEW S, NEW s \in Seq(S), NEW t \in Seq(S), NEW n \in Nat, n <= Len(s), Len(t) = n,
         \A i \in 1..n : t[i] = s[i]
  PROVE  t = SubSeq(s, 1, n)
<1>1. SubSeq(s, 1, n) \in Seq(S) /\ Len(SubSeq(s, 1, n)) = n
      /\ \A i \in 1..n : SubSeq(s, 1, n)[i] = s[i]
  OBVIOUS
<1>2. QED
  BY <1>1, SeqEqual

LEMMA EndIsSubSeq ==
  ASSUME NEW S, NEW s \in Seq(S), NEW q \in Seq(S), NEW n \in Nat, n <= Len(s),
         Len(q) = Len(s) - n, \A i \in 1..Len(q) : q[i] = s[n + i]
  PROVE  q = SubSeq(s, n + 1, Len(s))
<1>1. SubSeq(s, n + 1, Len(s)) \in Seq(S) /\ Len(SubSeq(s, n + 1, Len(s))) = Len(s) - n
      /\ \A i \in 1..Len(s) - n : SubSeq(s, n + 1, Len(s))[i] = s[n + i]
  OBVIOUS
<1>2. QED
  BY <1>1, SeqEqual

LEMMA WireIsPrefix ==
  ASSUME Grounds, PlanInv, NEW a \in Attempts
  PROVE  /\ Len(wire[a]) \in 0..Len(UploadTicks(a))
         /\ wire[a] = SubSeq(UploadTicks(a), 1, Len(wire[a]))
<1>1. wire[a] \in Seq(Ticks) /\ UploadTicks(a) \in Seq(Ticks)
  BY PlanFacts DEF Grounds, TypeInv, TransportTypes
<1>2. Len(wire[a]) \in Nat /\ Len(wire[a]) <= Len(UploadTicks(a))
      /\ \A i \in 1..Len(wire[a]) : wire[a][i] = UploadTicks(a)[i]
  BY <1>1 DEF PlanInv, SentIsPrefix
<1>3. QED
  BY <1>1, <1>2, PrefixIsSubSeq

LEMMA AccountingHolds ==
  ASSUME Grounds, PlanInv
  PROVE  UploadAccounting
<1> SUFFICES ASSUME Uploading PROVE UploadAccounting
  BY DEF UploadAccounting
<1> DEFINE plan == UploadPlan(activeUpload)
           ticks == UploadTicks(activeUpload)
           N == Len(ticks)
           L == Len(uploadOperations)
           sent == Len(wire[activeUpload])
           done == Len(plan) - Len(uploadOperations) - InFlightUpload
           confirmedNow == IF pending.kind \in UploadKinds /\ pending.armed THEN 1 ELSE 0
           handedNow    == IF pending.kind \in UploadKinds /\ pending.submitted THEN 1 ELSE 0
<1>1. activeUpload # None /\ activeUpload \in Attempts
  BY UploadingIsActive
<1>2. Position(activeUpload, pending, uploadOperations, delivered, sent)
  BY DEF PlanInv
<1>3. /\ N \in Nat /\ L \in Nat /\ L <= N /\ Len(plan) = N
      /\ plan \in Seq(PlannedMessages) /\ uploadOperations \in Seq(PlannedMessages)
  BY <1>1, <1>2, PlanFacts DEF Position, QueuedIsEnd, Grounds, TypeInv, Types, PlanIsFresh
<1>4. uploadOperations = SubSeq(plan, Len(plan) - L + 1, Len(plan))
  <2>1. \A i \in 1..L : uploadOperations[i] = plan[(N - L) + i]
    BY <1>2 DEF Position, QueuedIsEnd
  <2>2. N - L \in Nat /\ N - L <= N /\ L = N - (N - L)
    BY <1>3
  <2> HIDE DEF plan, N, L
  <2>3. QED
    BY <1>3, <2>1, <2>2, EndIsSubSeq DEF L
<1>5. done \in 0..N - handedNow /\ delivered = done + confirmedNow /\ sent = done + handedNow
  <2>1. CASE pending.kind \in UploadKinds
    <3>1. /\ L < N /\ delivered = N - L - (IF pending.armed THEN 0 ELSE 1)
          /\ sent = N - L - (IF pending.submitted THEN 0 ELSE 1)
      BY <1>2, <2>1 DEF Position, PendingIsNext
    <3>2. done = N - L - 1
      BY <1>3, <2>1 DEF InFlightUpload
    <3>3. confirmedNow = (IF pending.armed THEN 1 ELSE 0)
          /\ handedNow = (IF pending.submitted THEN 1 ELSE 0)
      BY <2>1
    <3> HIDE DEF N, L, sent, done, confirmedNow, handedNow
    <3>4. QED
      BY <1>3, <3>1, <3>2, <3>3
  <2>2. CASE pending.kind \notin UploadKinds
    <3>1. delivered = N - L /\ sent = N - L
      BY <1>2, <2>2 DEF Position, NothingSent
    <3>2. done = N - L /\ confirmedNow = 0 /\ handedNow = 0
      BY <1>3, <2>2 DEF InFlightUpload
    <3> HIDE DEF N, L, sent, done, confirmedNow, handedNow
    <3>3. QED
      BY <1>3, <3>1, <3>2
  <2>3. QED
    BY <2>1, <2>2
<1>6. wire[activeUpload] = SubSeq(ticks, 1, done + handedNow)
  BY <1>1, <1>5, WireIsPrefix
<1>7. QED
  BY <1>1, <1>3, <1>4, <1>5, <1>6 DEF UploadAccounting

LEMMA PlanInvariant == Spec => [](Grounds /\ PlanInv)
BY NextIsAny, GroundsStep, InitPlan, PlanStep, PTL DEF Spec

\* While an upload is sent, what is queued, pending, confirmed and handed to Transport is
\* one position in its plan: no message is skipped, sent twice or counted early.
THEOREM UploadsAreAccounted == Spec => []UploadAccounting
BY PlanInvariant, AccountingHolds, PTL

\* Over the whole life of the connection Transport is handed each message of an
\* Application Test ID at most once, in plan order.
THEOREM NothingIsReplayed == Spec => []NeverReplayed
<1>1. Grounds /\ PlanInv => NeverReplayed
  BY WireIsPrefix DEF NeverReplayed
<1>2. QED
  BY PlanInvariant, <1>1, PTL

\* The rig's verdict on an upload is awaited, START is sent and results are taken only for
\* an upload every message of which was handed over and confirmed.
THEOREM AcceptanceFollowsDelivery == Spec => []AcceptedMeansDelivered
<1>1. Grounds /\ PlanInv => AcceptedMeansDelivered
  <2> SUFFICES ASSUME Grounds, PlanInv,
                      accepted \/ started \/ pending.kind \in {"complete_test", "start"}
               PROVE  /\ activeUpload # None /\ uploadOperations = <<>>
                      /\ delivered = Len(UploadPlan(activeUpload))
                      /\ wire[activeUpload] = UploadTicks(activeUpload)
    BY DEF AcceptedMeansDelivered
  <2>1. AllDelivered /\ activeUpload \in Attempts
    BY ActiveIsAttempt DEF PlanInv, AllDelivered
  <2>2. /\ UploadTicks(activeUpload) \in Seq(Ticks)
        /\ Len(UploadPlan(activeUpload)) = Len(UploadTicks(activeUpload))
    BY <2>1, PlanFacts
  <2>3. wire[activeUpload] = SubSeq(UploadTicks(activeUpload), 1, Len(UploadTicks(activeUpload)))
    BY <2>1, WireIsPrefix DEF AllDelivered
  <2>4. UploadTicks(activeUpload) =
          SubSeq(UploadTicks(activeUpload), 1, Len(UploadTicks(activeUpload)))
    BY <2>2, PrefixIsSubSeq
  <2>5. QED
    BY <2>1, <2>2, <2>3, <2>4 DEF AllDelivered
<1>2. QED
  BY PlanInvariant, <1>1, PTL

-----------------------------------------------------------------------------
(* The session that is trusted, and the state the caller is told *)

\* The session is identified, or its discovery is on its way.
Trusted == confirmed \/ (pending.kind = "discovery" /\ pending.submitted)

\* Discovery precedes identification, and everything else follows it.
Identified ==
  /\ pending.kind = "discovery" => ~confirmed
  /\ accepted \/ started \/ pending.kind \in UploadKinds \union {"complete_test", "start"} =>
       confirmed
  /\ pending.kind \in {"abort", "reset"} /\ pending.submitted => confirmed

\* What a settled workflow state says of the upload and of the session.
Truth(state) ==
  /\ state = "READY_TO_START" => accepted /\ ~started
  /\ state \in {"RUNNING", "RESULTS_COMPLETE"} => started
  /\ state = "RESULTS_COMPLETE" => nextResultTick >= ExpectedTickCount[activeUpload]
  /\ state \in {"ABORTED", "CONNECTING", "READY", "FAILED"} => ~accepted /\ ~started
  /\ state \in {"ABORTED", "READY"} => confirmed
  /\ state = "CONNECTING" => ~confirmed

\* The workflow state fits the phase, and so does the one a refused ABORT or RESET_APPLICATION
\* puts back.
Tells ==
  /\ pending.kind = "none" => workflow \in SettledStates
  /\ Truth(workflow)
  /\ pending.kind \in {"abort", "reset"} =>
       pending.restore \in SettledStates /\ Truth(pending.restore)

ToldInv == Identified /\ Tells

LEMMA ActiveTruth ==
  ASSUME NEW state, state \notin SettledStates
  PROVE  Truth(state) /\ Truth(state)'
BY DEF Truth, SettledStates

LEMMA KeptTruth ==
  ASSUME Grounds, NEW state, Truth(state), UNCHANGED <<activeUpload, accepted, started, confirmed>>,
         \/ UNCHANGED nextResultTick
         \/ nextResultTick' = nextResultTick + 1
  PROVE  Truth(state)'
<1>1. nextResultTick \in Nat /\ (started => activeUpload \in Attempts)
  BY ActiveIsAttempt DEF Grounds, TypeInv, Types, SessionTypes, OwnerInv, PhasesAgree
<1>2. started => ExpectedTickCount[activeUpload] \in Nat
  BY <1>1, ConnectionAssumption
<1>3. QED
  BY <1>1, <1>2 DEF Truth

LEMMA NoneTold ==
  ASSUME pending' = NoOperation, workflow' \in SettledStates, Truth(workflow)',
         accepted' \/ started' => confirmed'
  PROVE  ToldInv'
BY NoOperationOwner DEF ToldInv, Identified, Tells

\* The connection is on its way: any operation is activated.
LEMMA ActivationTold ==
  ASSUME NEW op \in Operation, op.kind # "none", Activate(op),
         op.kind \notin {"abort", "reset"},
         op.kind = "discovery" => ~confirmed',
         accepted' \/ started' \/ op.kind # "discovery" => confirmed'
  PROVE  ToldInv'
<1>1. pending' = op /\ Truth(workflow)'
  BY ActivateWorkflow, ActiveTruth
<1>2. QED
  BY <1>1 DEF ToldInv, Identified, Tells, UploadKinds

LEMMA TakeHeadTold ==
  ASSUME NEW q \in Seq(PlannedMessages), q # <<>>, Activate(Head(q)), confirmed'
  PROVE  ToldInv' /\ pending'.kind # "discovery"
<1>1. /\ Head(q) \in Operation /\ Head(q).kind \in UploadKinds
      /\ Head(q).kind \notin {"none", "abort", "reset", "discovery"}
  BY SubsequenceTypes DEF PlannedMessages, UploadKinds
<1>2. QED
  BY <1>1, ActivationTold DEF Activate

LEMMA FinishTold ==
  ASSUME Grounds, ToldInv, NEW op, NEW count, Noted(op, count), op.submitted, Finish(op, count)
  PROVE  ToldInv' /\ (Trusted' => Trusted)
<1>1. op.kind = pending.kind /\ op.test = pending.test /\ op.restore = pending.restore
      /\ op \in Operation /\ pending.submitted
  BY DEF Noted, Same
<1>2. None \in Ticks /\ {"complete_test", "start"} \subseteq Kinds
  BY DEF Ticks, Kinds, RequestKinds
<1>3. CASE FinishUploadMessage(op, count)
  <2>1. op.kind \in UploadKinds /\ confirmed /\ UNCHANGED confirmed
    BY <1>1, <1>3 DEF FinishUploadMessage, UploadMessageFinished, ToldInv, Identified
  <2>2. CASE uploadOperations # <<>>
    <3>1. Activate(Head(uploadOperations)) /\ uploadOperations \in Seq(PlannedMessages)
      BY <1>3, <2>2 DEF FinishUploadMessage, UploadMessageFinished, Grounds, TypeInv, Types,
         PlanIsFresh
    <3>2. QED
      BY <2>1, <2>2, <3>1, TakeHeadTold DEF Trusted
  <2>3. CASE uploadOperations = <<>>
    <3> DEFINE new == NewOperation("complete_test", op.test, None)
    <3>1. Activate(new)
      BY <1>3, <2>3 DEF FinishUploadMessage, UploadMessageFinished
    <3>2. new \in Operation /\ new.kind = "complete_test"
      BY <1>1, <1>2, NewOperationTypes DEF Operation
    <3> HIDE DEF new
    <3>3. QED
      BY <2>1, <3>1, <3>2, ActivationTold DEF Trusted
  <2>4. QED
    BY <2>2, <2>3
<1>4. CASE FinishCompleteTest(op)
  <2>1. /\ confirmed /\ UNCHANGED confirmed /\ ~started'
        /\ accepted' /\ activeUpload \in Tests
    BY <1>1, <1>4 DEF FinishCompleteTest, ToldInv, Identified, Grounds, OwnerInv, PhasesAgree,
       TypeInv, Types, SessionTypes
  <2>2. CASE Activate(NewOperation("start", activeUpload, None))
    <3> DEFINE new == NewOperation("start", activeUpload, None)
    <3>1. Activate(new)
      BY <2>2
    <3>2. new \in Operation /\ new.kind = "start"
      BY <1>2, <2>1, NewOperationTypes
    <3> HIDE DEF new
    <3>3. QED
      BY <2>1, <3>1, <3>2, ActivationTold DEF Trusted
  <2>3. CASE pending' = NoOperation /\ workflow' = "READY_TO_START"
    <3>1. Truth(workflow)' /\ workflow' \in SettledStates
      BY <2>1, <2>3 DEF Truth, SettledStates
    <3>2. QED
      BY <2>1, <2>3, <3>1, NoneTold DEF Trusted
  <2>4. QED
    BY <1>4, <2>2, <2>3 DEF FinishCompleteTest
<1>5. CASE FinishControl(op)
  <2>1. pending' = NoOperation
    BY <1>5 DEF FinishControl
  <2>2. CASE op.kind = "discovery"
    <3>1. ~accepted /\ ~started /\ UNCHANGED transactionVars /\ confirmed' /\ workflow' = "READY"
      BY <1>1, <1>5, <2>2 DEF FinishControl, ToldInv, Identified
    <3>2. Truth(workflow)' /\ workflow' \in SettledStates
      BY <3>1 DEF Truth, SettledStates, transactionVars
    <3>3. Trusted
      BY <1>1, <2>2 DEF Trusted
    <3>4. QED
      BY <2>1, <3>1, <3>2, <3>3, NoneTold
  <2>3. CASE op.kind = "start"
    <3>1. confirmed /\ UNCHANGED confirmed /\ started' /\ workflow' = "RUNNING"
      BY <1>1, <1>5, <2>3 DEF FinishControl, ToldInv, Identified
    <3>2. Truth(workflow)' /\ workflow' \in SettledStates
      BY <3>1 DEF Truth, SettledStates
    <3>3. QED
      BY <2>1, <3>1, <3>2, NoneTold DEF Trusted
  <2>4. CASE op.kind \in {"abort", "reset"}
    <3>1. /\ ~accepted' /\ ~started' /\ workflow' \in {"ABORTED", "READY"}
          /\ confirmed /\ UNCHANGED confirmed
      BY <1>1, <1>5, <2>4 DEF FinishControl, RetireActiveUpload, RetireIntoSet, ToldInv, Identified
    <3>2. Truth(workflow)' /\ workflow' \in SettledStates
      BY <3>1 DEF Truth, SettledStates
    <3>3. Trusted' => Trusted
      BY <2>1, <3>1, NoOperationOwner DEF Trusted
    <3>4. QED
      BY <2>1, <3>1, <3>2, <3>3, NoneTold
  <2>5. QED
    BY <1>5, <2>2, <2>3, <2>4 DEF FinishControl
<1>6. CASE FinishNegative(op)
  <2>1. UNCHANGED confirmed /\ pending' = NoOperation
    BY <1>6 DEF FinishNegative, FailWorkflow
  <2>2. Trusted' => Trusted
    BY <2>1, NoOperationOwner DEF Trusted
  <2>3. CASE workflow' = "FAILED" /\ ~accepted' /\ ~started'
    <3>1. Truth(workflow)' /\ workflow' \in SettledStates
      BY <2>3 DEF Truth, SettledStates
    <3>2. QED
      BY <2>1, <2>2, <2>3, <3>1, NoneTold
  <2>4. CASE op.kind = "start" /\ workflow' = "READY_TO_START" /\ accepted' /\ ~started'
    <3>1. confirmed /\ Truth(workflow)' /\ workflow' \in SettledStates
      BY <1>1, <2>4 DEF Truth, SettledStates, ToldInv, Identified
    <3>2. QED
      BY <2>1, <2>2, <3>1, NoneTold
  <2>5. CASE op.kind \in {"abort", "reset"} /\ workflow' = op.restore /\ UNCHANGED transactionVars
    <3>1. op.restore \in SettledStates /\ Truth(op.restore)
      BY <1>1, <2>5 DEF ToldInv, Tells
    <3>2. Truth(op.restore)'
      BY <2>1, <2>5, <3>1, KeptTruth DEF transactionVars
    <3>3. Truth(workflow)'
      BY <2>5, <3>2 DEF Truth
    <3>4. accepted' \/ started' => confirmed'
      BY <2>1, <2>5 DEF transactionVars, ToldInv, Identified
    <3>5. QED
      BY <2>1, <2>2, <2>5, <3>1, <3>3, <3>4, NoneTold
  <2>6. QED
    BY <1>6, <2>3, <2>4, <2>5 DEF FinishNegative, FailWorkflow, RetireActiveUpload, RetireIntoSet
<1>7. QED
  BY <1>3, <1>4, <1>5, <1>6 DEF Finish

LEMMA ServiceTold ==
  ASSUME Grounds, ToldInv, ServiceShape
  PROVE  ToldInv' /\ (Trusted' => Trusted)
<1>1. CASE Quiet
  <2>1. /\ UNCHANGED <<pending, confirmed, activeUpload, accepted, started>>
        /\ nextResultTick' = nextResultTick \/ nextResultTick' = nextResultTick + 1
    BY <1>1 DEF Quiet
  <2>2. ASSUME NEW state, Truth(state) PROVE Truth(state)'
    BY <2>1, <2>2, KeptTruth
  <2>3. Truth(workflow)
    BY DEF ToldInv, Tells
  <2>4. Truth(workflow)' /\ (workflow' = workflow \/ workflow' \in SettledStates)
    <3>1. CASE workflow' = workflow
      <4>1. ASSUME NEW state, state = workflow PROVE Truth(state)'
        BY <2>2, <2>3, <4>1
      <4>2. QED
        BY <3>1, <4>1 DEF Truth
    <3>2. CASE /\ started /\ activeUpload # None
               /\ workflow' = "RESULTS_COMPLETE" /\ nextResultTick' = nextResultTick + 1
               /\ nextResultTick + 1 = ExpectedTickCount[activeUpload]
      <4>1. nextResultTick \in Nat
        BY DEF Grounds, TypeInv, Types, SessionTypes
      <4>2. nextResultTick' >= ExpectedTickCount[activeUpload']
        BY <2>1, <3>2, <4>1
      <4>3. QED
        BY <2>1, <3>2, <4>2 DEF Truth, SettledStates
    <3>3. QED
      BY <1>1, <3>1, <3>2 DEF Quiet
  <2>5. pending.kind \in {"abort", "reset"} => Truth(pending.restore)'
    <3>1. ASSUME NEW state, state = pending.restore, Truth(state) PROVE Truth(pending.restore)'
      BY <2>1, <2>2, <3>1 DEF Truth
    <3>2. QED
      BY <3>1 DEF ToldInv, Tells
  <2>6. QED
    BY <2>1, <2>4, <2>5 DEF ToldInv, Identified, Tells, Trusted
<1>2. CASE Fails
  <2>1. /\ pending' = NoOperation /\ workflow' = "FAILED" /\ ~accepted' /\ ~started'
        /\ confirmed' => confirmed
    BY <1>2 DEF Fails, FailWorkflow
  <2>2. Truth(workflow)' /\ workflow' \in SettledStates
    BY <2>1 DEF Truth, SettledStates
  <2>3. QED
    BY <2>1, <2>2, NoneTold, NoOperationOwner DEF Trusted
<1>3. ASSUME NEW op, NEW count, Noted(op, count), op.submitted, Finish(op, count)
      PROVE  ToldInv' /\ (Trusted' => Trusted)
  BY <1>3, FinishTold
<1>4. ASSUME NEW op, NEW count, Noted(op, count), Updates(op, count)
      PROVE  ToldInv' /\ (Trusted' => Trusted)
  <2>1. /\ pending' = op /\ op.kind = pending.kind /\ op.restore = pending.restore
        /\ op.submitted = pending.submitted
        /\ UNCHANGED <<confirmed, workflow, activeUpload, accepted, started, nextResultTick>>
    BY <1>4 DEF Noted, Same, Updates
  <2>2. QED
    BY <2>1 DEF ToldInv, Identified, Tells, Truth, Trusted
<1>5. QED
  BY <1>1, <1>2, <1>3, <1>4 DEF ServiceShape

-----------------------------------------------------------------------------
(* Sessions and events *)

ResetComing == \E i \in 1..Len(events) : events[i] = "SESSION_RESET"

\* No new session is announced before the end of the one that is trusted.
NewSessionsFollowResets ==
  \A i \in 1..Len(events) :
    events[i] = "SESSION_ESTABLISHED" => \E j \in 1..i - 1 : events[j] = "SESSION_RESET"

Live == (established \/ ResetComing) /\ NewSessionsFollowResets

\* Events are drained before a message is handled, a workflow advanced or a request sent.
SessionInv ==
  /\ stage \in {"messages", "advance", "submit"} => events = <<>>
  /\ ~closed => ToldInv /\ (Trusted => Live)

LEMMA LiveKept ==
  ASSUME Live, UNCHANGED <<established, events>>
  PROVE  Live'
BY DEF Live, ResetComing, NewSessionsFollowResets

LEMMA LiveAfterRead ==
  ASSUME events \in Seq(EventTypes), events # <<>>, events' = Tail(events),
         Head(events) # "SESSION_RESET", UNCHANGED established, Live
  PROVE  Live' /\ Head(events) # "SESSION_ESTABLISHED"
<1>1. /\ Len(events) \in Nat \ {0} /\ Head(events) = events[1]
      /\ Len(events') = Len(events) - 1
      /\ \A i \in 1..Len(events) - 1 : events'[i] = events[i + 1]
  OBVIOUS
<1>2. Head(events) # "SESSION_ESTABLISHED"
  BY <1>1 DEF Live, NewSessionsFollowResets
<1>3. ResetComing => ResetComing'
  <2> SUFFICES ASSUME NEW i \in 1..Len(events), events[i] = "SESSION_RESET" PROVE ResetComing'
    BY DEF ResetComing
  <2>1. i # 1
    BY <1>1
  <2>2. i - 1 \in 1..Len(events') /\ events'[i - 1] = events[(i - 1) + 1] /\ (i - 1) + 1 = i
    BY <1>1, <2>1
  <2>3. QED
    BY <2>2 DEF ResetComing
<1>4. NewSessionsFollowResets'
  <2> SUFFICES ASSUME NEW i \in 1..Len(events'), events'[i] = "SESSION_ESTABLISHED"
               PROVE  \E j \in 1..i - 1 : events'[j] = "SESSION_RESET"
    BY DEF NewSessionsFollowResets
  <2>1. i + 1 \in 1..Len(events) /\ events[i + 1] = "SESSION_ESTABLISHED"
    BY <1>1
  <2>2. PICK j \in 1..(i + 1) - 1 : events[j] = "SESSION_RESET"
    BY <2>1 DEF Live, NewSessionsFollowResets
  <2>3. j # 1
    BY <1>1, <2>2
  <2>4. j - 1 \in 1..i - 1 /\ j - 1 \in 1..Len(events) - 1 /\ (j - 1) + 1 = j
    BY <1>1, <2>2, <2>3
  <2>5. events'[j - 1] = events[j]
    BY <1>1, <2>4
  <2>6. QED
    BY <2>2, <2>4, <2>5
<1>5. QED
  BY <1>2, <1>3, <1>4 DEF Live

LEMMA LiveWhileTransportRuns ==
  ASSUME TypeInv, Transport, Live
  PROVE  Live'
<1>1. events \in Seq(EventTypes)
  BY DEF TypeInv, TransportTypes
<1>2. ASSUME NEW event \in EventTypes, events' = events \o <<event>>,
             \/ event \notin {"SESSION_ESTABLISHED", "SESSION_RESET"} /\ UNCHANGED established
             \/ event = "SESSION_RESET"
             \/ event = "SESSION_ESTABLISHED" /\ ~established
      PROVE  Live'
  <2>1. /\ Len(events) \in Nat /\ Len(events') = Len(events) + 1
        /\ \A i \in 1..Len(events) : events'[i] = events[i]
        /\ events'[Len(events) + 1] = event
    BY <1>1, <1>2
  <2>2. ResetComing => ResetComing'
    BY <2>1 DEF ResetComing
  <2>3. event = "SESSION_RESET" => ResetComing'
    BY <2>1 DEF ResetComing
  <2>4. established' \/ ResetComing'
    BY <1>2, <2>2, <2>3 DEF Live
  <2>5. ASSUME NEW i \in 1..Len(events'), events'[i] = "SESSION_ESTABLISHED"
        PROVE  \E j \in 1..i - 1 : events'[j] = "SESSION_RESET"
    <3>1. CASE i \in 1..Len(events)
      BY <2>1, <2>5, <3>1 DEF Live, NewSessionsFollowResets
    <3>2. CASE i = Len(events) + 1
      <4>1. ResetComing
        BY <1>2, <2>1, <2>5, <3>2 DEF Live
      <4>2. QED
        BY <2>1, <3>2, <4>1 DEF ResetComing
    <3>3. QED
      BY <2>1, <3>1, <3>2
  <2>6. QED
    BY <2>4, <2>5 DEF Live, NewSessionsFollowResets
<1>3. /\ "DELIVERY_CONFIRMED" \in EventTypes /\ "FAILURE" \in EventTypes
      /\ "SESSION_RESET" \in EventTypes /\ "SESSION_ESTABLISHED" \in EventTypes
  BY DEF EventTypes
<1>4. QED
  BY <1>2, <1>3 DEF Transport, DeliveryConfirmed, TransportFailure, SessionReset,
     SessionEstablished, TransportRuns

LEMMA AdvanceTold ==
  ASSUME Grounds, ToldInv, NEW q \in Seq(PlannedMessages), AdvanceWith(q), UNCHANGED confirmed,
         \/ UNCHANGED <<activeUpload, accepted, started, nextResultTick>>
         \/ /\ ~accepted' /\ ~started'
            /\ workflow \notin {"READY_TO_START", "RUNNING", "RESULTS_COMPLETE"}
            /\ pending.kind \in {"none", "discovery"}
  PROVE  ToldInv' /\ (Trusted' => Trusted)
<1>1. CASE UNCHANGED <<pending, workflow>>
  <2>1. CASE UNCHANGED <<activeUpload, accepted, started, nextResultTick>>
    BY <1>1, <2>1 DEF ToldInv, Identified, Tells, Truth, Trusted
  <2>2. CASE /\ ~accepted' /\ ~started'
             /\ workflow \notin {"READY_TO_START", "RUNNING", "RESULTS_COMPLETE"}
             /\ pending.kind \in {"none", "discovery"}
    BY <1>1, <2>2 DEF ToldInv, Identified, Tells, Truth, Trusted, UploadKinds
  <2>3. QED
    BY <2>1, <2>2
<1>2. CASE confirmed /\ q # <<>> /\ Activate(Head(q))
  BY <1>2, TakeHeadTold DEF Trusted
<1>3. CASE ~confirmed /\ Activate(NewOperation("discovery", None, None))
  <2> DEFINE new == NewOperation("discovery", None, None)
  <2>1. "discovery" \in Kinds /\ None \in Tests /\ None \in Ticks
    BY DEF Kinds, Tests, Ticks
  <2>2. new \in Operation /\ new.kind = "discovery" /\ ~new.submitted
    BY <2>1, NewOperationTypes DEF NewOperation
  <2>3. Activate(new) /\ ~accepted' /\ ~started' /\ ~confirmed'
    BY <1>3 DEF ToldInv, Identified
  <2> HIDE DEF new
  <2>4. QED
    BY <2>2, <2>3, ActivationTold DEF Activate, Trusted
<1>4. QED
  BY <1>1, <1>2, <1>3 DEF AdvanceWith

LEMMA QueueTold ==
  ASSUME Grounds, ToldInv, NEW a \in Attempts, QueueUpload(a)
  PROVE  ToldInv' /\ (Trusted' => Trusted)
<1>1. ~accepted /\ ~started
  BY DEF QueueUpload, Grounds, OwnerInv, PhasesAgree
<1>2. workflow \notin {"READY_TO_START", "RUNNING", "RESULTS_COMPLETE"}
  BY <1>1 DEF ToldInv, Tells, Truth
<1>3. /\ ~accepted' /\ ~started' /\ UNCHANGED confirmed /\ AdvanceWith(UploadPlan(a))
      /\ pending.kind \in {"none", "discovery"}
  BY NothingPendingKind DEF QueueUpload
<1>4. QED
  BY <1>2, <1>3, PlanTypes, AdvanceTold

LEMMA RequestTold ==
  ASSUME Grounds, ToldInv, NEW op, Requests(op)
  PROVE  ToldInv' /\ (Trusted' => Trusted)
<1>1. /\ op \in Operation /\ op.kind # "none" /\ Activate(op)
      /\ UNCHANGED <<confirmed, activeUpload, accepted, started, nextResultTick>>
      /\ op.kind \notin UploadKinds \union {"discovery", "complete_test"}
  BY DEF Requests, Request, transactionVars, UploadKinds
<1>2. pending' = op /\ Truth(workflow)'
  BY <1>1, ActivateWorkflow, ActiveTruth
<1>3. op.kind \in {"abort", "reset"} => op.restore \in SettledStates /\ Truth(op.restore)'
  <2>1. pending.kind = "none"
    BY NothingPendingKind DEF Requests
  <2>2. workflow \in SettledStates /\ Truth(workflow)
    BY <2>1 DEF ToldInv, Tells
  <2>3. ASSUME op.restore = workflow PROVE Truth(op.restore)'
    BY <1>1, <2>2, <2>3 DEF Truth
  <2>4. QED
    BY <2>2, <2>3 DEF Requests
<1>4. Truth(pending.restore)' <=> Truth(op.restore)'
  BY <1>2 DEF Truth
<1>5. Identified'
  BY <1>1, <1>2 DEF Requests, ToldInv, Identified
<1>6. QED
  BY <1>1, <1>2, <1>3, <1>4, <1>5 DEF ToldInv, Tells, Trusted, Requests

\* A step that leaves the events alone and trusts no session that was not.
LEMMA SameSession ==
  ASSUME SessionInv, UNCHANGED <<established, events>>,
         stage' \in {"messages", "advance", "submit"} => events = <<>>,
         closed' \/ UNCHANGED closed,
         ~closed /\ ~closed' => ToldInv' /\ (Trusted' => Trusted)
  PROVE  SessionInv'
BY LiveKept DEF SessionInv

LEMMA StillTold ==
  ASSUME ToldInv, UNCHANGED <<sessionVars, transactionVars>>
  PROVE  ToldInv' /\ (Trusted' => Trusted)
BY DEF ToldInv, Identified, Tells, Truth, Trusted, sessionVars, transactionVars

LEMMA DrainEventSession ==
  ASSUME Grounds, SessionInv, DrainEvent
  PROVE  SessionInv'
<1> DEFINE event == Head(events)
<1>1. /\ events \in Seq(EventTypes) /\ events # <<>> /\ events' = Tail(events)
      /\ HandleEvent(event) /\ UNCHANGED established /\ stage = "events"
  BY DEF DrainEvent, Grounds, TypeInv, TransportTypes
<1>2. Raise \/ Continue
  BY <1>1, EventTypesKept DEF Grounds, TypeInv
<1>3. stage' \notin {"messages", "advance", "submit"} /\ UNCHANGED closed
  BY <1>1, <1>2 DEF Raise, Continue, controlVars
<1> SUFFICES ASSUME ~closed PROVE ToldInv' /\ (Trusted' => Live')
  BY <1>3 DEF SessionInv
<1>4. ToldInv /\ (Trusted => Live)
  BY DEF SessionInv
<1>5. CASE ServiceShape
  <2>1. ToldInv' /\ (Trusted' => Trusted)
    BY <1>4, <1>5, ServiceTold
  <2>2. event = "SESSION_RESET" => ~Trusted'
    <3>1. event = "SESSION_RESET" => HandleSessionReset
      BY <1>1 DEF HandleEvent
    <3>2. HandleSessionReset => ~confirmed' /\ pending' = NoOperation
      BY DEF HandleSessionReset, FailWorkflow
    <3>3. QED
      BY <3>1, <3>2, NoOperationOwner DEF Trusted
  <2>3. Trusted' => Live'
    BY <1>1, <1>4, <2>1, <2>2, LiveAfterRead
  <2>4. QED
    BY <2>1, <2>3
<1>6. CASE HandleSessionEstablished /\ event = "SESSION_ESTABLISHED"
  <2>1. ~Trusted
    BY <1>1, <1>4, <1>6, LiveAfterRead
  <2>2. ~confirmed /\ ~accepted /\ ~started
    BY <1>4, <2>1 DEF Trusted, ToldInv, Identified
  <2>3. ~confirmed' /\ workflow' = "CONNECTING" /\ UNCHANGED <<pending, transactionVars>>
    BY <1>6 DEF HandleSessionEstablished
  <2>4. ~Trusted'
    BY <2>1, <2>3 DEF Trusted
  <2>5. Truth(workflow)' /\ workflow' \in SettledStates
    BY <2>2, <2>3 DEF Truth, SettledStates, transactionVars
  <2>6. pending.kind \in {"abort", "reset"} => Truth(pending.restore)'
    BY <1>4, <2>2, <2>3 DEF ToldInv, Tells, Truth, transactionVars
  <2>7. QED
    BY <1>4, <2>2, <2>3, <2>4, <2>5, <2>6 DEF ToldInv, Identified, Tells, transactionVars
<1>7. QED
  BY <1>1, <1>5, <1>6, EventShape DEF Grounds

LEMMA SubmitSession ==
  ASSUME Grounds, SessionInv, SubmitMessage
  PROVE  SessionInv'
<1> DEFINE op == [pending EXCEPT !.submitted = TRUE]
<1>1. op.kind = pending.kind /\ op.restore = pending.restore
  BY DEF Grounds, TypeInv, Types, SessionTypes, Operation
<1>2. /\ pending' = op /\ (pending.kind = "discovery" \/ confirmed)
      /\ events = <<>> /\ established /\ stage' = "process"
      /\ UNCHANGED <<confirmed, workflow, established, events, closed, transactionVars>>
  BY DEF SubmitMessage, CanSubmit, SessionInv
<1> HIDE DEF op
<1>3. ToldInv => ToldInv'
  BY <1>1, <1>2 DEF ToldInv, Identified, Tells, Truth, transactionVars
<1>4. Live'
  BY <1>2 DEF Live, NewSessionsFollowResets
<1>5. QED
  BY <1>2, <1>3, <1>4 DEF SessionInv

LEMMA ServicePassSession ==
  ASSUME Grounds, SessionInv, ServicePass
  PROVE  SessionInv'
<1>1. CASE SerialFault \/ Processed \/ EventsDrained \/ MessagesDrained \/ NothingSubmitted
  <2>1. /\ UNCHANGED <<established, events, closed, sessionVars, transactionVars>>
        /\ stage' \in {"messages", "advance", "submit"} => events = <<>>
    BY <1>1 DEF SerialFault, Processed, EventsDrained, MessagesDrained, NothingSubmitted, Raise,
       dataVars, transportVars, SessionInv
  <2>2. ToldInv => ToldInv' /\ (Trusted' => Trusted)
    BY <2>1, StillTold
  <2>3. QED
    BY <2>1, <2>2, SameSession DEF SessionInv
<1>2. CASE ProcessFails \/ ResponseTimeout \/ SubmitRefused
  <2>1. /\ FailWorkflow /\ Raise /\ UNCHANGED <<confirmed, established, events>>
    BY <1>2 DEF ProcessFails, ResponseTimeout, SubmitRefused, transportVars
  <2>2. ServiceShape /\ stage' = "idle" /\ UNCHANGED closed
    BY <2>1 DEF ServiceShape, Fails, Raise
  <2>3. ToldInv => ToldInv' /\ (Trusted' => Trusted)
    BY <2>2, ServiceTold
  <2>4. QED
    BY <2>1, <2>2, <2>3, SameSession DEF SessionInv
<1>3. CASE AdvanceWorkflow
  <2>1. /\ AdvanceWith(uploadOperations) /\ uploadOperations \in Seq(PlannedMessages)
        /\ UNCHANGED <<established, events, closed, confirmed>>
        /\ UNCHANGED <<activeUpload, accepted, started, nextResultTick>>
        /\ events = <<>>
    BY <1>3 DEF AdvanceWorkflow, Grounds, TypeInv, Types, PlanIsFresh, transportVars, SessionInv
  <2>2. ToldInv => ToldInv' /\ (Trusted' => Trusted)
    BY <2>1, AdvanceTold
  <2>3. QED
    BY <2>1, <2>2, SameSession DEF SessionInv
<1>4. QED
  BY <1>1, <1>2, <1>3, DrainEventSession, SubmitSession DEF ServicePass

LEMMA CallerSession ==
  ASSUME Grounds, SessionInv, Caller
  PROVE  SessionInv'
<1>1. CASE Service \/ \E a \in Attempts, replace \in BOOLEAN : BindResultBuilder(a, replace)
  <2>1. /\ UNCHANGED <<established, events, closed, sessionVars, transactionVars>>
        /\ stage' \notin {"messages", "advance", "submit"}
    BY <1>1 DEF Service, BindResultBuilder, Bind, dataVars, transportVars, controlVars
  <2>2. ToldInv => ToldInv' /\ (Trusted' => Trusted)
    BY <2>1, StillTold
  <2>3. QED
    BY <2>1, <2>2, SameSession DEF SessionInv
<1>2. ASSUME NEW a \in Attempts, QueueUpload(a)
      PROVE  SessionInv'
  <2>1. UNCHANGED <<established, events, stage, closed>>
    BY <1>2 DEF QueueUpload, transportVars, controlVars
  <2>2. QED
    BY <1>2, <2>1, QueueTold, SameSession DEF SessionInv
<1>3. ASSUME NEW op, Requests(op)
      PROVE  SessionInv'
  <2>1. UNCHANGED <<established, events, stage, closed>>
    BY <1>3 DEF Requests, Request, transportVars, controlVars
  <2>2. QED
    BY <1>3, <2>1, RequestTold, SameSession DEF SessionInv
<1>4. CASE Close
  BY <1>4 DEF Close, SessionInv
<1>5. QED
  BY <1>1, <1>2, <1>3, <1>4, RequestShape DEF Caller, Grounds

LEMMA SessionStep == Grounds /\ SessionInv /\ [AnyNext]_vars => SessionInv'
<1> SUFFICES ASSUME Grounds, SessionInv, [AnyNext]_vars PROVE SessionInv'
  OBVIOUS
<1>1. CASE Transport
  <2>1. /\ stage \notin {"messages", "advance", "submit"}
        /\ UNCHANGED <<stage, closed, sessionVars, transactionVars>>
    BY <1>1 DEF Transport, DeliveryConfirmed, TransportFailure, SessionReset, SessionEstablished,
       TransportRuns, controlVars
  <2>2. ToldInv => ToldInv' /\ (Trusted' => Trusted)
    BY <2>1, StillTold
  <2>3. Live => Live'
    BY <1>1, LiveWhileTransportRuns DEF Grounds
  <2>4. QED
    BY <2>1, <2>2, <2>3 DEF SessionInv
<1>2. ASSUME NEW m \in Messages, DrainMessage(m)
      PROVE  SessionInv'
  <2>1. m \in Messages /\ HandleMessage(m) /\ UNCHANGED <<established, events>>
    BY <1>2 DEF DrainMessage, transportVars
  <2>2. Raise \/ Continue
    BY <2>1, MessageTypesKept DEF Grounds, TypeInv
  <2>3. (stage' = "idle" \/ UNCHANGED stage) /\ UNCHANGED closed
    BY <2>2 DEF Raise, Continue, controlVars
  <2>4. ToldInv => ToldInv' /\ (Trusted' => Trusted)
    BY <2>1, MessageShape, ServiceTold DEF Grounds
  <2>5. QED
    BY <2>1, <2>3, <2>4, SameSession DEF SessionInv
<1>3. CASE Closed \/ UNCHANGED vars
  <2>1. UNCHANGED <<established, events, stage, closed, sessionVars, transactionVars>>
    BY <1>3 DEF Closed, vars, dataVars, transportVars, controlVars
  <2>2. ToldInv => ToldInv' /\ (Trusted' => Trusted)
    BY <2>1, StillTold
  <2>3. QED
    BY <2>1, <2>2, SameSession DEF SessionInv
<1>4. QED
  BY <1>1, <1>2, <1>3, ServicePassSession, CallerSession DEF AnyNext

LEMMA InitSession == Init => SessionInv
<1> SUFFICES ASSUME Init PROVE SessionInv
  OBVIOUS
<1>1. pending.kind = "none" /\ workflow = "CONNECTING" /\ ~accepted /\ ~started /\ ~confirmed
      /\ stage = "idle"
  BY NoOperationTypes DEF Init
<1>2. QED
  BY <1>1 DEF SessionInv, ToldInv, Identified, Tells, Truth, Trusted, SettledStates, UploadKinds

LEMMA SessionInvariant == Spec => [](Grounds /\ SessionInv)
BY NextIsAny, GroundsStep, InitSession, SessionStep, PTL DEF Spec

\* The host trusts the identification of a session only while Transport has that session
\* up, or until it reads the reset that ended it: never that of an earlier session.
THEOREM TrustFollowsTheSession == Spec => []ConfirmedSessionIsLive
<1>1. SessionInv => ConfirmedSessionIsLive
  BY DEF SessionInv, Trusted, Live, ResetComing, ConfirmedSessionIsLive
<1>2. QED
  BY SessionInvariant, <1>1, PTL

\* Between two operations workflow_state tells the phase of the upload and of the session,
\* and no phase hides behind another state. Whether the results of a started run are complete
\* is claimed in one direction only: RESULTS_COMPLETE is never early, but RUNNING may be put
\* back over complete results.
THEOREM CallersKnowThePhase == Spec => []WorkflowStateTellsThePhase
<1>1. SessionInv => WorkflowStateTellsThePhase
  <2> SUFFICES ASSUME SessionInv, ~closed PROVE WorkflowStateTellsThePhase
    BY DEF WorkflowStateTellsThePhase
  <2>1. NothingPending => pending.kind = "none"
    BY NothingPendingKind
  <2>2. NothingPending => workflow \in SettledStates
    BY <2>1 DEF SessionInv, ToldInv, Tells
  <2>3. Truth(workflow)
    BY DEF SessionInv, ToldInv, Tells
  <2>4. QED
    BY <2>2, <2>3 DEF Truth, SettledStates, WorkflowStateTellsThePhase
<1>2. QED
  BY SessionInvariant, <1>1, PTL

-----------------------------------------------------------------------------
(* What the captures hold *)

LastTick(a) == captured[a][Len(captured[a])]

CapturesInv ==
  \A a \in Attempts :
    /\ \A i \in 1..Len(captured[a]) - 1 : captured[a][i + 1] = captured[a][i] + 1
    /\ captured[a] # <<>> =>
         /\ a = activeUpload \/ a \in retired
         /\ a = activeUpload => builder = a /\ LastTick(a) = nextResultTick - 1
         /\ LastTick(a) < ExpectedTickCount[a]

ActiveKept == UNCHANGED <<activeUpload, retired, nextResultTick>>

LEMMA FinishKeepsResults ==
  ASSUME NEW op, NEW count, Finish(op, count)
  PROVE  ActiveKept \/ RetireActiveUpload
BY DEF ActiveKept, Finish, FinishNegative, FinishUploadMessage, UploadMessageFinished,
       FinishCompleteTest, FinishControl, FailWorkflow, transactionVars

LEMMA CaptureSteps ==
  ASSUME [AnyNext]_vars
  PROVE  \/ (ActiveKept \/ RetireActiveUpload) /\ UNCHANGED <<captured, builder>>
         \/ \E a \in Attempts : QueueUpload(a)
         \/ \E a \in Attempts, replace \in BOOLEAN : BindResultBuilder(a, replace)
         \/ \E m \in Messages : m.type = "result" /\ ResultIsNext(m) /\ StoreResult(m)
<1>1. ASSUME NEW event, HandleEvent(event)
      PROVE  ActiveKept \/ RetireActiveUpload
  BY <1>1, FinishKeepsResults
     DEF HandleEvent, HandleDeliveryConfirmed, DeliveryConfirmedFor, HandleFailure,
         HandleSessionReset, HandleSessionEstablished, FailWorkflow, transactionVars, ActiveKept
<1>2. ASSUME NEW m, HandleMessage(m)
      PROVE  \/ (ActiveKept \/ RetireActiveUpload) /\ UNCHANGED <<captured, builder>>
             \/ m.type = "result" /\ ResultIsNext(m) /\ StoreResult(m)
  <2>1. ASSUME NEW outcome, ReceiveResponse(outcome)
        PROVE  ActiveKept \/ RetireActiveUpload
    BY <2>1, FinishKeepsResults DEF ReceiveResponse, transactionVars, ActiveKept
  <2>2. FailWorkflow => ActiveKept
    BY DEF FailWorkflow, ActiveKept
  <2>3. CASE HandleSystemInfo(m) \/ HandleApplicationResponse(m)
    BY <2>1, <2>2, <2>3 DEF HandleSystemInfo, HandleApplicationResponse, captureVars
  <2>4. CASE HandleApplicationError(m) \/ HandleTestResult(m) \/ HandleUnreadable(m)
    BY <2>2, <2>4 DEF HandleApplicationError, HandleTestResult, HandleUnreadable, RefuseResult,
       transactionVars, captureVars, ActiveKept
  <2>5. QED
    BY <1>2, <2>3, <2>4 DEF HandleMessage
<1>3. CASE ServicePass
  <2>1. CASE DrainEvent
    BY <1>1, <2>1 DEF DrainEvent, captureVars
  <2>2. CASE AdvanceWorkflow \/ SubmitMessage
    BY <2>2 DEF AdvanceWorkflow, SubmitMessage, transactionVars, captureVars, ActiveKept
  <2>3. CASE SerialFault \/ Processed \/ EventsDrained \/ MessagesDrained \/ NothingSubmitted
    BY <2>3 DEF SerialFault, Processed, EventsDrained, MessagesDrained, NothingSubmitted,
       dataVars, transactionVars, captureVars, ActiveKept
  <2>4. CASE ProcessFails \/ ResponseTimeout \/ SubmitRefused
    BY <2>4 DEF ProcessFails, ResponseTimeout, SubmitRefused, FailWorkflow, captureVars, ActiveKept
  <2>5. QED
    BY <1>3, <2>1, <2>2, <2>3, <2>4 DEF ServicePass
<1>4. CASE \E m \in Messages : DrainMessage(m)
  BY <1>2, <1>4 DEF DrainMessage
<1>5. CASE Caller
  BY <1>5 DEF Caller, Service, Start, Abort, ResetApplication, Request, Close, dataVars,
     transactionVars, captureVars, ActiveKept
<1>6. CASE Transport
  BY <1>6 DEF Transport, DeliveryConfirmed, TransportFailure, SessionReset, SessionEstablished,
     TransportRuns, transactionVars, captureVars, ActiveKept
<1>7. CASE Closed \/ UNCHANGED vars
  BY <1>7 DEF Closed, vars, dataVars, transactionVars, captureVars, ActiveKept
<1>8. QED
  BY <1>3, <1>4, <1>5, <1>6, <1>7 DEF AnyNext

LEMMA StoreCaptures ==
  ASSUME TypeInv, CapturesInv, BuilderMatchesUpload, NEW m \in Messages, m.type = "result",
         ResultIsNext(m), StoreResult(m)
  PROVE  CapturesInv'
<1>1. /\ activeUpload # None /\ m.tick = nextResultTick /\ m.test = activeUpload
      /\ nextResultTick' = nextResultTick + 1
      /\ UNCHANGED <<activeUpload, retired, builder>> /\ nextResultTick \in Nat
      /\ captured \in [Attempts -> Seq(Nat)]
  BY DEF ResultIsNext, StoreResult, TypeInv, Types, SessionTypes, CaptureTypes
<1>2. ASSUME builder = None, NEW a \in Attempts
      PROVE  captured[a] # <<>> => a # activeUpload
  BY <1>2, ConnectionAssumption DEF CapturesInv
<1>3. CASE builder = None
  <2>1. UNCHANGED captured
    BY <1>3 DEF StoreResult
  <2>2. QED
    BY <1>1, <1>2, <1>3, <2>1 DEF CapturesInv, LastTick
<1>4. CASE builder # None
  <2>1. builder = activeUpload /\ builder \in Attempts
    BY <1>4 DEF TypeInv, CaptureTypes, Tests, StoreResult, ResultIsNext
  <2>2. /\ captured' = [captured EXCEPT ![builder] = Append(captured[builder], m.tick)]
        /\ m.tick < ExpectedTickCount[builder]
    BY <1>4 DEF StoreResult
  <2>3. captured[builder] \in Seq(Nat) /\ m.tick \in Nat
    BY <1>1, <2>1
  <2>4. captured'[builder] = Append(captured[builder], m.tick)
        /\ \A a \in Attempts : a # builder => captured'[a] = captured[a]
    BY <1>1, <2>1, <2>2
  <2> DEFINE s == captured[builder]
             t == captured'[builder]
             L == Len(s)
  <2>5. /\ L \in Nat /\ Len(t) = L + 1 /\ t[L + 1] = m.tick /\ \A i \in 1..L : t[i] = s[i]
    BY <2>3, <2>4
  <2>6. ASSUME NEW a \in Attempts, a # builder
        PROVE  /\ \A i \in 1..Len(captured'[a]) - 1 : captured'[a][i + 1] = captured'[a][i] + 1
               /\ captured'[a] # <<>> =>
                    /\ a = activeUpload' \/ a \in retired'
                    /\ a = activeUpload' => builder' = a /\ LastTick(a)' = nextResultTick' - 1
                    /\ LastTick(a)' < ExpectedTickCount[a]
    <3>1. captured'[a] = captured[a] /\ a # activeUpload
      BY <2>1, <2>4, <2>6
    <3>2. QED
      BY <1>1, <3>1 DEF CapturesInv, LastTick
  <2>7. \A i \in 1..L : t[i + 1] = t[i] + 1
    <3> SUFFICES ASSUME NEW i \in 1..L PROVE t[i + 1] = t[i] + 1
      OBVIOUS
    <3>1. CASE i \in 1..L - 1
      <4>1. s[i + 1] = s[i] + 1
        BY <2>1, <3>1 DEF CapturesInv
      <4>2. i + 1 \in 1..L /\ i \in 1..L
        BY <2>5, <3>1
      <4>3. QED
        BY <2>5, <4>1, <4>2
    <3>2. CASE i = L
      <4>1. s # <<>>
        BY <2>5, <3>2
      <4>2. s[L] = nextResultTick - 1
        BY <2>1, <4>1 DEF CapturesInv, LastTick
      <4>3. s[L] \in Nat
        BY <2>3, <2>5, <3>2
      <4> HIDE DEF s, t, L
      <4>4. QED
        BY <1>1, <2>5, <3>2, <4>2, <4>3
    <3>3. QED
      BY <2>5, <3>1, <3>2
  <2>8. LastTick(builder)' = nextResultTick' - 1 /\ LastTick(builder)' < ExpectedTickCount[builder]
    <3>1. LastTick(builder)' = t[L + 1]
      BY <1>1, <2>5 DEF LastTick
    <3>2. QED
      BY <1>1, <2>2, <2>5, <3>1
  <2>9. /\ \A i \in 1..Len(t) - 1 : t[i + 1] = t[i] + 1
        /\ builder = activeUpload' /\ builder' = builder
    BY <1>1, <2>1, <2>5, <2>7
  <2>10. QED
    BY <1>1, <2>1, <2>6, <2>8, <2>9 DEF CapturesInv, LastTick
<1>5. QED
  BY <1>3, <1>4

LEMMA CapturesStep ==
  TypeInv /\ BuilderMatchesUpload /\ CapturesInv /\ [AnyNext]_vars => CapturesInv'
<1> SUFFICES ASSUME TypeInv, BuilderMatchesUpload, CapturesInv, [AnyNext]_vars PROVE CapturesInv'
  OBVIOUS
<1>1. CASE ActiveKept /\ UNCHANGED <<captured, builder>>
  BY <1>1 DEF ActiveKept, CapturesInv, LastTick
<1>2. CASE RetireActiveUpload /\ UNCHANGED <<captured, builder>>
  <2>1. activeUpload' = None /\ retired' = retired \union ({activeUpload} \ {None})
    BY <1>2 DEF RetireActiveUpload, RetireIntoSet
  <2>2. QED
    BY <1>2, <2>1, ConnectionAssumption DEF CapturesInv, LastTick
<1>3. ASSUME NEW a \in Attempts, QueueUpload(a)
      PROVE  CapturesInv'
  <2>1. /\ activeUpload = None /\ a \notin retired /\ activeUpload' = a
        /\ UNCHANGED <<retired, captured, builder>>
    BY <1>3 DEF QueueUpload, captureVars
  <2>2. captured[a] = <<>>
    BY <2>1, ConnectionAssumption DEF CapturesInv
  <2>3. ASSUME NEW b \in Attempts, captured'[b] # <<>>
        PROVE  b \in retired /\ b # activeUpload'
    BY <2>1, <2>2, <2>3, ConnectionAssumption DEF CapturesInv
  <2>4. QED
    BY <2>1, <2>3 DEF CapturesInv, LastTick
<1>4. ASSUME NEW a \in Attempts, NEW replace \in BOOLEAN, BindResultBuilder(a, replace)
      PROVE  CapturesInv'
  <2>1. /\ UNCHANGED <<captured, activeUpload, retired, nextResultTick>>
        /\ builder' = a
        /\ activeUpload # None => builder = None \/ builder = activeUpload
        /\ activeUpload # None => a = activeUpload
    BY <1>4 DEF BindResultBuilder, Bind, transactionVars, BuilderMatchesUpload
  <2>2. QED
    BY <2>1, ConnectionAssumption DEF CapturesInv, LastTick
<1>5. QED
  BY <1>1, <1>2, <1>3, <1>4, StoreCaptures, CaptureSteps

\* A capture holds consecutive ticks of its own attempt, up to the one the connection
\* expects next and below the expected count, whatever is refused, stale or repeated.
THEOREM CapturesAreInOrder == Spec => []CapturedInOrder
<1>1. Init => CapturesInv
  <2> SUFFICES ASSUME Init PROVE CapturesInv
    OBVIOUS
  <2>1. \A a \in Attempts : captured[a] = <<>>
    BY DEF Init
  <2>2. 1..Len(<<>>) - 1 = {}
    OBVIOUS
  <2>3. QED
    BY <2>1, <2>2 DEF CapturesInv
<1>2. CapturesInv => CapturedInOrder
  BY DEF CapturesInv, CapturedInOrder, LastTick
<1>3. QED
  BY NextIsAny, InitTypes, TypeStep, CapturesBelongToUploads, CapturesStep, <1>1, <1>2, PTL DEF Spec

-----------------------------------------------------------------------------
(* The connection implements the life of an upload *)

Phase ==
  IF started THEN "running"
  ELSE IF accepted THEN "accepted"
  ELSE IF Uploading \/ pending.kind = "complete_test" THEN "uploading"
  ELSE "broken"

Status == [a \in Attempts |-> LifeOf(a)]

\* What a phase of the active upload may become in a step that keeps it.
PhaseMoves ==
  \/ Phase' = Phase /\ (UNCHANGED nextResultTick
                        \/ (Phase = "running" /\ nextResultTick' = nextResultTick + 1))
  \/ /\ UNCHANGED nextResultTick
     /\ \/ Phase = "uploading" /\ Phase' = "accepted"
        \/ Phase = "accepted" /\ Phase' = "running"
        \/ Phase \in {"uploading", "accepted", "running"} /\ Phase' = "broken"

LifeInv == activeUpload = None => nextResultTick = 0

LEMMA ActiveLife ==
  ASSUME activeUpload \notin retired
  PROVE  /\ LifeOf(activeUpload) = Phase
         /\ \A a \in Attempts : a # activeUpload =>
              LifeOf(a) = IF a \in retired THEN "retired" ELSE "fresh"
         /\ Phase \in {"running", "accepted", "uploading", "broken"}
BY DEF LifeOf, Phase

LEMMA SamePhase ==
  ASSUME UNCHANGED <<started, accepted, nextResultTick>>,
         (Uploading \/ pending.kind = "complete_test") <=>
           (Uploading' \/ pending'.kind = "complete_test")
  PROVE  PhaseMoves
BY DEF PhaseMoves, Phase

LEMMA BrokenPhase ==
  ASSUME ~started', ~accepted', pending' = NoOperation, uploadOperations' = <<>>,
         UNCHANGED nextResultTick
  PROVE  PhaseMoves
<1>1. Phase' = "broken"
  BY NoOperationOwner DEF Phase, Uploading
<1>2. QED
  BY <1>1 DEF PhaseMoves, Phase

LEMMA UploadPhase ==
  ASSUME Grounds, Uploading \/ pending.kind = "complete_test"
  PROVE  Phase = "uploading" /\ ~accepted /\ ~started
BY DEF Phase, Uploading, Grounds, OwnerInv, PhasesAgree

LEMMA FinishPhase ==
  ASSUME Grounds, NEW op, NEW count, Noted(op, count), Finish(op, count)
  PROVE  PhaseMoves \/ RetireActiveUpload
<1>1. op.kind = pending.kind
  BY DEF Noted, Same
<1>2. CASE FinishUploadMessage(op, count)
  <2>1. Phase = "uploading" /\ ~accepted' /\ ~started' /\ UNCHANGED nextResultTick
    BY <1>1, <1>2, UploadPhase DEF FinishUploadMessage, UploadMessageFinished, Uploading
  <2>2. Uploading' \/ pending'.kind = "complete_test"
    <3>1. CASE uploadOperations # <<>>
      <4>1. Activate(Head(uploadOperations)) /\ uploadOperations \in Seq(PlannedMessages)
        BY <1>2, <3>1 DEF FinishUploadMessage, UploadMessageFinished, Grounds, TypeInv, Types,
           PlanIsFresh
      <4>2. pending'.kind \in UploadKinds
        BY <3>1, <4>1, SubsequenceTypes, PlannedFacts DEF Activate
      <4>3. QED
        BY <4>2 DEF Uploading
    <3>2. CASE uploadOperations = <<>>
      BY <1>2, <3>2 DEF FinishUploadMessage, UploadMessageFinished, Activate, NewOperation
    <3>3. QED
      BY <3>1, <3>2
  <2>3. QED
    BY <2>1, <2>2 DEF PhaseMoves, Phase
<1>3. CASE FinishCompleteTest(op)
  <2>1. Phase = "uploading" /\ ~started
    BY <1>1, <1>3, UploadPhase DEF FinishCompleteTest
  <2>2. Phase' = "accepted" /\ UNCHANGED nextResultTick
    BY <1>3, <2>1 DEF FinishCompleteTest, Phase
  <2>3. QED
    BY <2>1, <2>2 DEF PhaseMoves
<1>4. CASE FinishControl(op)
  <2>1. CASE op.kind = "discovery"
    <3>1. UNCHANGED transactionVars /\ pending' = NoOperation
      BY <1>4, <2>1 DEF FinishControl
    <3>2. QED
      BY <1>1, <2>1, <3>1, SamePhase, NoOperationOwner DEF Uploading, UploadKinds, transactionVars
  <2>2. CASE op.kind = "start"
    <3>1. Phase = "accepted"
      BY <1>1, <2>2 DEF Phase, Grounds, OwnerInv, PhasesAgree, ReadyToStart
    <3>2. Phase' = "running" /\ UNCHANGED nextResultTick
      BY <1>4, <2>2 DEF FinishControl, Phase
    <3>3. QED
      BY <3>1, <3>2 DEF PhaseMoves
  <2>3. QED
    BY <1>4, <2>1, <2>2 DEF FinishControl
<1>5. CASE FinishNegative(op)
  <2>1. CASE FailWorkflow
    BY <2>1, BrokenPhase DEF FailWorkflow
  <2>2. CASE /\ op.kind = "start" /\ accepted' /\ ~started'
             /\ UNCHANGED <<uploadOperations, activeUpload, delivered, nextResultTick, retired>>
    <3>1. Phase = "accepted" /\ Phase' = "accepted"
      BY <1>1, <2>2 DEF Phase, Grounds, OwnerInv, PhasesAgree, ReadyToStart
    <3>2. QED
      BY <2>2, <3>1 DEF PhaseMoves
  <2>3. CASE /\ op.kind \in {"abort", "reset"} /\ pending' = NoOperation
             /\ UNCHANGED transactionVars
    BY <1>1, <2>3, SamePhase, NoOperationOwner DEF Uploading, UploadKinds, transactionVars
  <2>4. QED
    BY <1>5, <2>1, <2>2, <2>3 DEF FinishNegative
<1>6. QED
  BY <1>2, <1>3, <1>4, <1>5 DEF Finish

LEMMA KeptPhase ==
  ASSUME Grounds, [AnyNext]_vars, UNCHANGED <<activeUpload, retired>>, ~RetireActiveUpload
  PROVE  PhaseMoves
<1>1. Shape
  BY StepShape DEF Grounds
<1>2. CASE Quiet
  BY <1>2 DEF Quiet, PhaseMoves, Phase, Uploading
<1>3. CASE HandleSessionEstablished
  BY <1>3, SamePhase DEF HandleSessionEstablished, Uploading, transactionVars
<1>4. CASE Fails
  BY <1>4, BrokenPhase DEF Fails, FailWorkflow
<1>5. ASSUME NEW op, NEW count, Noted(op, count), Finish(op, count)
      PROVE  PhaseMoves
  BY <1>5, FinishPhase
<1>6. ASSUME NEW op, NEW count, Noted(op, count), Updates(op, count)
      PROVE  PhaseMoves
  <2>1. /\ pending'.kind = pending.kind
        /\ UNCHANGED <<uploadOperations, started, accepted, nextResultTick>>
    BY <1>6 DEF Noted, Same, Updates
  <2>2. QED
    BY <2>1, SamePhase DEF Uploading
<1>7. CASE AdvanceWorkflow
  <2>1. AdvanceWith(uploadOperations) /\ UNCHANGED <<started, accepted, nextResultTick>>
    BY <1>7 DEF AdvanceWorkflow
  <2>2. CASE UNCHANGED <<pending, uploadOperations>>
    BY <2>1, <2>2, SamePhase DEF Uploading
  <2>3. CASE NothingPending /\ Activate(NewOperation("discovery", None, None))
             /\ UNCHANGED uploadOperations
    BY <2>1, <2>3, SamePhase, NothingPendingKind, DiscoveryKind DEF Uploading
  <2>4. CASE uploadOperations # <<>> /\ Activate(Head(uploadOperations))
    <3>1. pending'.kind \in UploadKinds
      BY <2>4, SubsequenceTypes, PlannedFacts DEF Activate, Grounds, TypeInv, Types, PlanIsFresh
    <3>2. QED
      BY <2>1, <2>4, <3>1, SamePhase DEF Uploading
  <2>5. QED
    BY <2>1, <2>2, <2>3, <2>4 DEF AdvanceWith
<1>8. CASE SubmitMessage
  <2> DEFINE op == [pending EXCEPT !.submitted = TRUE]
  <2>1. op.kind = pending.kind
    BY DEF Grounds, TypeInv, Types, SessionTypes, Operation
  <2>2. pending' = op /\ UNCHANGED transactionVars
    BY <1>8 DEF SubmitMessage
  <2> HIDE DEF op
  <2>3. QED
    BY <2>1, <2>2, SamePhase DEF Uploading, transactionVars
<1>9. ASSUME NEW a \in Attempts, QueueUpload(a)
      PROVE  FALSE
  BY <1>9, ConnectionAssumption DEF QueueUpload
<1>10. ASSUME NEW op, Requests(op)
       PROVE  PhaseMoves
  <2>1. /\ pending' = op /\ UNCHANGED transactionVars /\ op.kind \in {"start", "abort", "reset"}
        /\ NothingPending
    BY <1>10 DEF Requests, Request, Activate
  <2>2. QED
    BY <2>1, SamePhase, NothingPendingKind DEF Uploading, UploadKinds, transactionVars
<1>11. CASE Close
  <2>1. /\ pending' = NoOperation /\ uploadOperations' = <<>>
        /\ UNCHANGED <<accepted, started, nextResultTick>>
    BY <1>11 DEF Close
  <2>2. ~Uploading' /\ pending'.kind # "complete_test"
    BY <2>1, NoOperationOwner DEF Uploading
  <2>3. QED
    BY <2>1, <2>2 DEF PhaseMoves, Phase
<1>12. QED
  BY <1>1, <1>2, <1>3, <1>4, <1>5, <1>6, <1>7, <1>8, <1>9, <1>10, <1>11 DEF Shape, ServiceShape

LEMMA RetiredOrQueued ==
  ASSUME TypeInv, BuilderMatchesUpload, LifeInv, [AnyNext]_vars
  PROVE  LifeInv'
<1>1. CASE ActiveKept
  BY <1>1 DEF ActiveKept, LifeInv
<1>2. CASE RetireActiveUpload
  BY <1>2 DEF RetireActiveUpload, RetireIntoSet, LifeInv
<1>3. ASSUME NEW a \in Attempts, QueueUpload(a)
      PROVE  LifeInv'
  BY <1>3 DEF QueueUpload, LifeInv
<1>4. ASSUME NEW a \in Attempts, NEW replace \in BOOLEAN, BindResultBuilder(a, replace)
      PROVE  LifeInv'
  BY <1>4 DEF BindResultBuilder, Bind, transactionVars, LifeInv
<1>5. ASSUME NEW m \in Messages, ResultIsNext(m), StoreResult(m)
      PROVE  LifeInv'
  BY <1>5 DEF ResultIsNext, StoreResult, LifeInv
<1>6. QED
  BY <1>1, <1>2, <1>3, <1>4, <1>5, CaptureSteps

\* The status of one attempt changes; those of the others stay.
LEMMA StatusMove ==
  ASSUME NEW a \in Attempts, NEW to, LifeOf(a)' = to,
         \A b \in Attempts : b # a => LifeOf(b)' = LifeOf(b)
  PROVE  Status' = [Status EXCEPT ![a] = to]
BY DEF Status

LEMMA StatusSame ==
  ASSUME \A b \in Attempts : LifeOf(b)' = LifeOf(b)
  PROVE  UNCHANGED Status
BY DEF Status

LEMMA KeptSteps ==
  ASSUME Grounds, BuilderMatchesUpload, LifeInv, BuilderMatchesUpload', LifeInv', [AnyNext]_vars,
         UNCHANGED <<activeUpload, retired>>, ~RetireActiveUpload
  PROVE  [Lifecycle!Next]_<<Status, nextResultTick>>
<1>1. CASE activeUpload = None
  <2>1. \A b \in Attempts : LifeOf(b)' = LifeOf(b)
    BY <1>1, ConnectionAssumption DEF LifeOf
  <2>2. UNCHANGED nextResultTick
    BY <1>1 DEF LifeInv
  <2>3. QED
    BY <2>1, <2>2, StatusSame
<1>2. CASE activeUpload # None
  <2> DEFINE a == activeUpload
  <2>1. a \in Attempts /\ a \notin retired /\ a' = a
    BY <1>2, ActiveIsAttempt DEF BuilderMatchesUpload
  <2>2. LifeOf(a) = Phase /\ LifeOf(a)' = Phase'
    <3>1. LifeOf(activeUpload) = Phase
      BY <2>1, ActiveLife
    <3>2. (LifeOf(activeUpload) = Phase)'
      BY <2>1 DEF LifeOf, Phase
    <3>3. QED
      BY <2>1, <3>1, <3>2
  <2>3. \A b \in Attempts : b # a => LifeOf(b)' = LifeOf(b)
    BY <2>1 DEF LifeOf
  <2>4. Status[a] = Phase
    BY <2>1, <2>2 DEF Status
  <2>5. ASSUME Phase' = Phase PROVE UNCHANGED Status
    BY <2>2, <2>3, <2>5, StatusSame
  <2>6. Status' = [Status EXCEPT ![a] = Phase']
    BY <2>1, <2>2, <2>3, StatusMove
  <2>7. PhaseMoves
    BY KeptPhase
  <2>8. CASE Phase' = Phase /\ UNCHANGED nextResultTick
    BY <2>5, <2>8
  <2>9. CASE Phase' = Phase /\ Phase = "running" /\ nextResultTick' = nextResultTick + 1
    <3>1. Lifecycle!Result(a)
      BY <2>4, <2>5, <2>9 DEF Lifecycle!Result, Status
    <3>2. QED
      BY <2>1, <3>1 DEF Lifecycle!Next
  <2>10. CASE UNCHANGED nextResultTick /\ Phase = "uploading" /\ Phase' = "accepted"
    <3>1. Lifecycle!Accept(a)
      BY <2>4, <2>6, <2>10 DEF Lifecycle!Accept, Lifecycle!Move, Status
    <3>2. QED
      BY <2>1, <3>1 DEF Lifecycle!Next
  <2>11. CASE UNCHANGED nextResultTick /\ Phase = "accepted" /\ Phase' = "running"
    <3>1. Lifecycle!StartRun(a)
      BY <2>4, <2>6, <2>11 DEF Lifecycle!StartRun, Lifecycle!Move, Status
    <3>2. QED
      BY <2>1, <3>1 DEF Lifecycle!Next
  <2>12. CASE UNCHANGED nextResultTick /\ Phase \in {"uploading", "accepted", "running"}
              /\ Phase' = "broken"
    <3>1. Lifecycle!Break(a)
      BY <2>4, <2>6, <2>12 DEF Lifecycle!Break, Lifecycle!Move, Status
    <3>2. QED
      BY <2>1, <3>1 DEF Lifecycle!Next
  <2>13. QED
    BY <2>7, <2>8, <2>9, <2>10, <2>11, <2>12 DEF PhaseMoves
<1>3. QED
  BY <1>1, <1>2

LEMMA RetireSteps ==
  ASSUME Grounds, BuilderMatchesUpload, LifeInv, RetireActiveUpload
  PROVE  [Lifecycle!Next]_<<Status, nextResultTick>>
<1>1. /\ retired' = retired \union ({activeUpload} \ {None}) /\ activeUpload' = None
      /\ nextResultTick' = 0
  BY DEF RetireActiveUpload, RetireIntoSet
<1>2. CASE activeUpload = None
  <2>1. \A b \in Attempts : LifeOf(b)' = LifeOf(b)
    BY <1>1, <1>2, ConnectionAssumption DEF LifeOf
  <2>2. UNCHANGED nextResultTick
    BY <1>1, <1>2 DEF LifeInv
  <2>3. QED
    BY <2>1, <2>2, StatusSame
<1>3. CASE activeUpload # None
  <2> DEFINE a == activeUpload
  <2>1. a \in Attempts /\ a \notin retired
    BY <1>3, ActiveIsAttempt DEF BuilderMatchesUpload
  <2>2. \A b \in Attempts : b # a => LifeOf(b)' = LifeOf(b)
    BY <1>1, ConnectionAssumption DEF LifeOf
  <2>3. a \in retired'
    BY <1>1, <1>3
  <2>4. ASSUME NEW b \in Attempts, b \in retired' PROVE LifeOf(b)' = "retired"
    BY <2>4 DEF LifeOf
  <2>5. Status' = [Status EXCEPT ![a] = "retired"]
    <3>1. ASSUME NEW b \in Attempts, b = a PROVE Status'[b] = "retired"
      BY <2>3, <2>4, <3>1 DEF Status
    <3>2. ASSUME NEW b \in Attempts, b # a PROVE Status'[b] = Status[b]
      BY <2>2, <3>2 DEF Status
    <3> HIDE DEF a
    <3>3. QED
      BY <2>1, <3>1, <3>2 DEF Status
  <2>6. Status[a] \in {"uploading", "accepted", "running", "broken"}
    BY <2>1, ActiveLife DEF Status
  <2>7. Lifecycle!Retire(a)
    BY <1>1, <2>5, <2>6 DEF Lifecycle!Retire, Lifecycle!Move, Lifecycle!Live, Status
  <2>8. QED
    BY <2>1, <2>7 DEF Lifecycle!Next
<1>4. QED
  BY <1>2, <1>3

LEMMA QueueSteps ==
  ASSUME Grounds, BuilderMatchesUpload, NEW a \in Attempts, QueueUpload(a)
  PROVE  [Lifecycle!Next]_<<Status, nextResultTick>>
<1>1. /\ activeUpload = None /\ activeUpload' = a /\ a \notin retired /\ UNCHANGED retired
      /\ nextResultTick' = 0 /\ ~accepted' /\ ~started' /\ AdvanceWith(UploadPlan(a))
  BY DEF QueueUpload
<1>2. Uploading'
  <2>1. UploadPlan(a) \in Seq(PlannedMessages) /\ UploadPlan(a) # <<>>
    BY PlanTypes
  <2>2. uploadOperations' = UploadPlan(a) \/ Activate(Head(UploadPlan(a)))
    BY <1>1 DEF AdvanceWith
  <2>3. Activate(Head(UploadPlan(a))) => pending'.kind \in UploadKinds
    BY <2>1, SubsequenceTypes, PlannedFacts DEF Activate
  <2>4. QED
    BY <2>1, <2>2, <2>3 DEF Uploading
<1>3. LifeOf(a)' = "uploading"
  BY <1>1, <1>2 DEF LifeOf
<1>4. \A b \in Attempts : b # a => LifeOf(b)' = LifeOf(b)
  BY <1>1, ConnectionAssumption DEF LifeOf
<1>5. Status' = [Status EXCEPT ![a] = "uploading"]
  BY <1>3, <1>4, StatusMove
<1>6. \A b \in Attempts : Status[b] \in {"retired", "fresh"}
  BY <1>1, ConnectionAssumption DEF Status, LifeOf
<1>7. Status[a] = "fresh"
  BY <1>1, ConnectionAssumption DEF Status, LifeOf
<1>8. Lifecycle!Queue(a)
  BY <1>1, <1>5, <1>6, <1>7 DEF Lifecycle!Queue, Lifecycle!Move, Lifecycle!Live, Status
<1>9. QED
  BY <1>8 DEF Lifecycle!Next

LEMMA LifecycleStep ==
  Grounds /\ BuilderMatchesUpload /\ LifeInv /\ BuilderMatchesUpload' /\ LifeInv' /\ [AnyNext]_vars
    => [Lifecycle!Next]_<<Status, nextResultTick>>
<1> SUFFICES ASSUME Grounds, BuilderMatchesUpload, LifeInv, BuilderMatchesUpload', LifeInv',
                    [AnyNext]_vars
             PROVE  [Lifecycle!Next]_<<Status, nextResultTick>>
  OBVIOUS
<1>1. CASE UNCHANGED <<activeUpload, retired>> /\ ~RetireActiveUpload
  BY <1>1, KeptSteps
<1>2. CASE RetireActiveUpload
  BY <1>2, RetireSteps
<1>3. ASSUME NEW a \in Attempts, QueueUpload(a)
      PROVE  [Lifecycle!Next]_<<Status, nextResultTick>>
  BY <1>3, QueueSteps
<1>4. ASSUME NEW a \in Attempts, NEW replace \in BOOLEAN, BindResultBuilder(a, replace)
      PROVE  UNCHANGED <<activeUpload, retired>>
  BY <1>4 DEF BindResultBuilder, Bind, transactionVars
<1>5. QED
  BY <1>1, <1>2, <1>3, <1>4, OwnershipSteps

\* Under any Transport, rig and caller, every behaviour of the connection is a life of
\* uploads as UploadLifecycle promises it: uploaded once, one at a time, started only when
\* accepted, and abandoned for good once interrupted.
THEOREM ConnectionImplementsLifecycle == Spec => ImplementsLifecycle
<1>1. Init => Lifecycle!Init /\ LifeInv
  <2> SUFFICES ASSUME Init PROVE Lifecycle!Init /\ LifeInv
    OBVIOUS
  <2>1. \A a \in Attempts : LifeOf(a) = "fresh"
    BY ConnectionAssumption DEF Init, LifeOf
  <2>2. QED
    BY <2>1 DEF Init, Lifecycle!Init, LifeInv
<1>2. Grounds /\ BuilderMatchesUpload /\ LifeInv /\ [AnyNext]_vars => LifeInv'
  BY RetiredOrQueued DEF Grounds
<1>3. Grounds /\ BuilderMatchesUpload /\ LifeInv /\ BuilderMatchesUpload' /\ LifeInv' /\ [AnyNext]_vars
        => [Lifecycle!Next]_<<[a \in Attempts |-> LifeOf(a)], nextResultTick>>
  BY LifecycleStep DEF Status
<1>4. QED
  BY NextIsAny, GroundsStep, CapturesBelongToUploads, <1>1, <1>2, <1>3, PTL
     DEF Spec, ImplementsLifecycle, Lifecycle!Spec
=============================================================================
