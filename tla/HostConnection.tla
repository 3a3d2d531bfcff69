---------------------------- MODULE HostConnection ----------------------------
(***************************************************************************)
(* FixedIOProtocolConnection (src/hilrig/protocol/connection.py): the host *)
(* side of one Application session, driven by its caller on one thread.    *)
(*                                                                         *)
(* A service() pass is not atomic here: it is cut where it calls Transport *)
(* or the serial port, and at every event and message it drains, because   *)
(* each of these may raise and leave the rest of the pass undone.  `stage' *)
(* is the program counter of service(), "idle" between two calls of the    *)
(* public interface; `leg' is 1 before _service_output and 2 after it.     *)
(*                                                                         *)
(* Transport, the rig and the serial port are external.  They may do       *)
(* anything their interface allows: fail, reset and re-establish sessions, *)
(* and deliver any of PeerMessages at any time, stale or duplicated.       *)
(***************************************************************************)
EXTENDS Naturals, Sequences

CONSTANTS
  Attempts,           \* upload attempts, each with its Application Test ID and compiled test
  None,               \* Python's None
  SparseTicks,        \* [a -> the tick numbers of its sparse instructions, in order]
  StartMode,          \* [a -> its start mode]
  ExpectedTickCount,  \* [a -> configuration.expected_tick_count]
  PeerMessages,       \* the Application messages the peer may send
  MaxEvents           \* bound on Transport events waiting to be read

UploadKinds  == {"configuration", "tick"}
RequestKinds == UploadKinds \union {"complete_test", "start", "abort", "reset"}
Kinds        == RequestKinds \union {"discovery"}
Outcomes     == {"success", "rejected", "failed"}

\* Scope and control command of a response determine the kind of request it answers;
\* its outcome is relative to the one that kind expects (COMPLETED for controls,
\* ACCEPTED for the others).
Response(kind, test, tick, outcome) ==
  [type |-> "response", kind |-> kind, test |-> test, tick |-> tick, outcome |-> outcome]
TestResult(test, tick)       == [type |-> "result", test |-> test, tick |-> tick]
ApplicationError(test)       == [type |-> "error", test |-> test]
SystemInfo(compatible)       == [type |-> "system_info", compatible |-> compatible]
Unreadable(type)             == [type |-> type]   \* "undecodable" or "unexpected"

Tests == Attempts \union {None}
Ticks == Nat \union {None}

Messages ==
  [type : {"response"}, kind : RequestKinds, test : Tests, tick : Ticks, outcome : Outcomes]
  \union [type : {"result"}, test : Attempts, tick : Nat]
  \union [type : {"error"}, test : Tests]
  \union [type : {"system_info"}, compatible : BOOLEAN]
  \union [type : {"undecodable", "unexpected"}]

ASSUME ConnectionAssumption ==
  /\ None \notin Attempts
  /\ SparseTicks \in [Attempts -> Seq(Nat)]
  /\ StartMode \in [Attempts -> {"HOST_COMMAND", "IMMEDIATE", "EXTERNAL_TRIGGER"}]
  /\ ExpectedTickCount \in [Attempts -> Nat \ {0}]
  /\ MaxEvents \in Nat
  /\ PeerMessages \subseteq Messages

VARIABLES
  \* the connection's own state
  pending,            \* _pending_operation
  deliveryPending,    \* _transport_delivery_pending
  uploadOperations,   \* _upload_operations
  activeUpload,       \* _active_upload
  delivered,          \* _upload_messages_delivered
  accepted,           \* _upload_accepted
  started,            \* _execution_started
  nextResultTick,     \* _next_result_tick
  retired,            \* _retired_application_test_ids
  confirmed,          \* _session_confirmed
  workflow,           \* _workflow_state
  builder,            \* the attempt of result_adapter.builder
  closed,             \* _closed
  stage, leg,         \* where service() is
  \* what the connection's collaborators hold
  established,        \* Transport: session_state is ESTABLISHED
  inFlight,           \* Transport: a reliable message is neither confirmed nor failed
  events,             \* Transport: events not yet read
  wire,               \* Transport: [a -> ticks of the upload messages handed over; None is the configuration]
  captured,           \* builders: [a -> result ticks stored for a]
  diagnosed           \* builders: attempts with a stored Application Error

sessionVars     == <<pending, deliveryPending, confirmed, workflow>>
transactionVars == <<uploadOperations, activeUpload, delivered, accepted, started,
                     nextResultTick, retired>>
captureVars     == <<builder, captured, diagnosed>>
transportVars   == <<established, inFlight, events, wire>>
controlVars     == <<closed, stage, leg>>
dataVars == <<sessionVars, transactionVars, captureVars, transportVars>>
vars == <<dataVars, controlVars>>

-----------------------------------------------------------------------------
(* Operations *)

\* complete_test carries no message: it is submitted, and its deadline armed, at creation.
NewOperation(kind, test, tick) ==
  [kind |-> kind, test |-> test, tick |-> tick,
   submitted |-> kind = "complete_test", armed |-> kind = "complete_test",
   received |-> FALSE, outcome |-> "success", restore |-> "FAILED"]

NoOperation == [NewOperation("none", None, None) EXCEPT !.submitted = TRUE]

\* The stop-and-wait plan of an upload: its configuration, then its sparse ticks.
UploadTicks(a) == <<None>> \o SparseTicks[a]
UploadPlan(a) ==
  [i \in 1..Len(UploadTicks(a)) |->
     IF i = 1 THEN NewOperation("configuration", a, None)
              ELSE NewOperation("tick", a, UploadTicks(a)[i])]

ActiveState ==
  [discovery |-> "DISCOVERING", configuration |-> "CONFIGURING", tick |-> "UPLOADING",
   complete_test |-> "VALIDATING", start |-> "STARTING", abort |-> "ABORTING",
   reset |-> "RESETTING"]

SettledStates == {"CONNECTING", "READY", "READY_TO_START", "RUNNING", "RESULTS_COMPLETE",
                  "ABORTED", "FAILED"}
WorkflowStates == SettledStates \union {ActiveState[k] : k \in Kinds}

NothingPending == pending = NoOperation

Activate(operation) ==
  /\ pending' = operation
  /\ workflow' = ActiveState[operation.kind]

\* Plausible mistakes are defined beside what they would replace: here, a failure
\* that leaves the transaction's flags and queue behind, or the pending operation.
FailWorkflowKeepingTransaction ==
  /\ pending' = NoOperation
  /\ workflow' = "FAILED"
  /\ UNCHANGED <<deliveryPending, transactionVars>>

FailWorkflowKeepingOperation ==
  /\ deliveryPending' = FALSE /\ uploadOperations' = <<>>
  /\ accepted' = FALSE /\ started' = FALSE
  /\ workflow' = "FAILED"
  /\ UNCHANGED <<pending, activeUpload, delivered, nextResultTick, retired>>

FailWorkflow ==
  /\ pending' = NoOperation /\ deliveryPending' = FALSE /\ uploadOperations' = <<>>
  /\ accepted' = FALSE /\ started' = FALSE
  /\ workflow' = "FAILED"
  /\ UNCHANGED <<activeUpload, delivered, nextResultTick, retired>>

RetireIntoSet(ids) ==
  /\ retired' = ids
  /\ uploadOperations' = <<>> /\ activeUpload' = None /\ delivered' = 0
  /\ accepted' = FALSE /\ started' = FALSE /\ nextResultTick' = 0

\* Mistakes: the abandoned ID is forgotten, or None is retired when nothing is active.
ForgetActiveUpload == RetireIntoSet(retired)
RetireWhateverIsActive == RetireIntoSet(retired \union {activeUpload})

RetireActiveUpload == RetireIntoSet(retired \union ({activeUpload} \ {None}))

\* An exception leaves service() wherever it is.
Raise    == stage' = "idle" /\ leg' = 1 /\ UNCHANGED closed
Continue == UNCHANGED controlVars

\* _advance_workflow, from a state where the queue holds `queue'.
AdvanceWith(queue) ==
  IF ~NothingPending \/ ~established \/ (confirmed /\ queue = <<>>)
  THEN UNCHANGED <<pending, workflow>> /\ uploadOperations' = queue
  ELSE IF confirmed
  THEN Activate(Head(queue)) /\ uploadOperations' = Tail(queue)
  ELSE Activate(NewOperation("discovery", None, None)) /\ uploadOperations' = queue

-----------------------------------------------------------------------------
(* _finish_pending_operation_if_ready, for an operation that is ready:      *)
(* `count' is what _upload_messages_delivered has become.                   *)

FinishNegative(operation) ==
  /\ operation.outcome # "success"
  /\ Raise /\ deliveryPending' = FALSE /\ UNCHANGED confirmed
  /\ \/ /\ operation.kind \in UploadKinds \union {"complete_test"}
        /\ pending' = NoOperation /\ workflow' = "FAILED"
        /\ RetireActiveUpload
     \/ /\ operation.kind = "start" /\ operation.outcome = "rejected"
        /\ pending' = NoOperation /\ workflow' = "READY_TO_START"
        /\ started' = FALSE /\ accepted' = TRUE
        /\ UNCHANGED <<uploadOperations, activeUpload, delivered, nextResultTick, retired>>
     \/ /\ operation.kind \in {"abort", "reset"} /\ operation.outcome = "rejected"
        /\ pending' = NoOperation /\ workflow' = operation.restore
        /\ UNCHANGED transactionVars
     \/ /\ operation.kind \in {"start", "abort", "reset"} /\ operation.outcome = "failed"
        /\ FailWorkflow

UploadMessageFinished(operation, count, more) ==
  /\ operation.kind \in UploadKinds
  /\ delivered' = count
  /\ IF more
     THEN /\ Activate(Head(uploadOperations))
          /\ uploadOperations' = Tail(uploadOperations)
     ELSE /\ Activate(NewOperation("complete_test", operation.test, None))
          /\ UNCHANGED uploadOperations
  /\ UNCHANGED <<confirmed, activeUpload, accepted, started, nextResultTick, retired>>

\* Mistake: the last queued message is left unsent.
FinishUploadMessageEarly(operation, count) ==
  UploadMessageFinished(operation, count, Len(uploadOperations) > 1)

FinishUploadMessage(operation, count) ==
  UploadMessageFinished(operation, count, uploadOperations # <<>>)

FinishCompleteTest(operation) ==
  /\ operation.kind = "complete_test"
  /\ accepted' = TRUE
  /\ \/ /\ activeUpload # None
        /\ StartMode[activeUpload] = "IMMEDIATE"
        /\ Activate(NewOperation("start", activeUpload, None))
     \/ /\ activeUpload # None => StartMode[activeUpload] # "IMMEDIATE"
        /\ pending' = NoOperation
        /\ workflow' = "READY_TO_START"
  /\ UNCHANGED <<confirmed, uploadOperations, activeUpload, delivered, started,
                 nextResultTick, retired>>

FinishControl(operation) ==
  /\ pending' = NoOperation
  /\ \/ /\ operation.kind = "discovery"
        /\ confirmed' = TRUE
        /\ workflow' = "READY"
        /\ UNCHANGED transactionVars
     \/ /\ operation.kind = "start"
        /\ started' = TRUE
        /\ workflow' = "RUNNING"
        /\ UNCHANGED <<confirmed, uploadOperations, activeUpload, delivered, accepted,
                       nextResultTick, retired>>
     \/ /\ operation.kind \in {"abort", "reset"}
        /\ RetireActiveUpload
        /\ workflow' = IF operation.kind = "abort" THEN "ABORTED" ELSE "READY"
        /\ UNCHANGED confirmed

Finish(operation, count) ==
  \/ FinishNegative(operation)
  \/ /\ operation.outcome = "success"
     /\ deliveryPending' = FALSE
     /\ Continue
     /\ \/ FinishUploadMessage(operation, count)
        \/ FinishCompleteTest(operation)
        \/ FinishControl(operation)

-----------------------------------------------------------------------------
(* _drain: events *)

DeliveryConfirmedFor(operation) ==
  LET count == delivered + (IF pending.kind \in UploadKinds THEN 1 ELSE 0)
  IN  \/ /\ operation.received /\ operation.submitted
         /\ Finish(operation, count)
      \/ /\ ~(operation.received /\ operation.submitted)
         /\ pending' = operation
         /\ deliveryPending' = FALSE
         /\ delivered' = count
         /\ Continue
         /\ UNCHANGED <<confirmed, workflow, uploadOperations, activeUpload, accepted,
                        started, nextResultTick, retired>>

\* Mistake: no response deadline is set.
HandleDeliveryConfirmedUntimed ==
  IF NothingPending \/ ~deliveryPending
  THEN FailWorkflow /\ Raise /\ UNCHANGED confirmed
  ELSE DeliveryConfirmedFor(pending)

HandleDeliveryConfirmed ==
  IF NothingPending \/ ~deliveryPending
  THEN FailWorkflow /\ Raise /\ UNCHANGED confirmed
  ELSE DeliveryConfirmedFor([pending EXCEPT !.armed = @ \/ pending.submitted])

\* DELIVERY_FAILED and PROTOCOL_ERROR have the same handler.
HandleFailure == FailWorkflow /\ Raise /\ UNCHANGED confirmed

\* Mistake: the next session is taken for the one that was identified.
HandleSessionResetStillConfirmed == FailWorkflow /\ Raise /\ UNCHANGED confirmed

HandleSessionReset == FailWorkflow /\ Raise /\ confirmed' = FALSE

HandleSessionEstablished ==
  /\ confirmed' = FALSE
  /\ workflow' = "CONNECTING"
  /\ Continue
  /\ UNCHANGED <<pending, deliveryPending, transactionVars>>

HandleEvent(event) ==
  \/ event = "DELIVERY_CONFIRMED"  /\ HandleDeliveryConfirmed
  \/ event = "FAILURE"             /\ HandleFailure
  \/ event = "SESSION_RESET"       /\ HandleSessionReset
  \/ event = "SESSION_ESTABLISHED" /\ HandleSessionEstablished

-----------------------------------------------------------------------------
(* _drain: Application messages *)

\* The response is stored in the operation, which finishes unless Transport still owes
\* its delivery confirmation or it was never submitted.
ReceiveResponse(outcome) ==
  LET operation == [pending EXCEPT !.received = TRUE,
                      !.outcome = IF outcome = "success" THEN @ ELSE outcome]
  IN  \/ /\ operation.submitted /\ ~deliveryPending
         /\ Finish(operation, delivered)
      \/ /\ ~operation.submitted \/ deliveryPending
         /\ pending' = operation
         /\ Continue
         /\ UNCHANGED <<deliveryPending, confirmed, workflow, transactionVars>>

HandleSystemInfo(m) ==
  /\ m.type = "system_info"
  /\ UNCHANGED captureVars
  /\ IF pending.kind = "discovery" /\ m.compatible
     THEN ReceiveResponse("success")
     ELSE FailWorkflow /\ Raise /\ UNCHANGED confirmed

Correlates(m) ==
  /\ m.kind = pending.kind
  /\ m.test = pending.test
  /\ m.kind = "tick" => m.tick = pending.tick

HandleApplicationResponse(m) ==
  /\ m.type = "response"
  /\ UNCHANGED captureVars
  /\ IF Correlates(m)
     THEN ReceiveResponse(m.outcome)
     ELSE FailWorkflow /\ Raise /\ UNCHANGED confirmed

BelongsToActiveUpload(m) == activeUpload # None /\ m.test \in {None, activeUpload}

HandleApplicationError(m) ==
  /\ m.type = "error"
  /\ UNCHANGED <<sessionVars, transactionVars, builder, captured>>
  /\ \/ /\ builder # None /\ BelongsToActiveUpload(m)
        /\ \/ m.test \in {None, builder} /\ diagnosed' = diagnosed \union {builder} /\ Continue
           \/ UNCHANGED diagnosed /\ Raise      \* the adapter, builder or storage refuses it
     \/ /\ ~(builder # None /\ BelongsToActiveUpload(m))
        /\ UNCHANGED diagnosed /\ Continue

\* Mistake: ticks are not checked.
ResultIsForUpload(m) == activeUpload # None /\ started /\ m.test = activeUpload

ResultIsNext(m) ==
  activeUpload # None /\ started /\ m.test = activeUpload /\ m.tick = nextResultTick

\* A result the builder refuses (out of range, finalized, or storage failed) raises out of
\* _drain before the expected tick advances; the workflow does not fail.
RefuseResult(m) ==
  /\ builder # None
  /\ Raise
  /\ UNCHANGED <<sessionVars, transactionVars, captureVars>>

StoreResult(m) ==
  /\ \/ builder = None /\ UNCHANGED captured
     \/ /\ builder # None
        /\ builder = m.test
        /\ m.tick < ExpectedTickCount[builder]
        /\ captured' = [captured EXCEPT ![builder] = Append(@, m.tick)]
  /\ nextResultTick' = nextResultTick + 1
  /\ workflow' = IF nextResultTick + 1 = ExpectedTickCount[activeUpload]
                 THEN "RESULTS_COMPLETE" ELSE workflow
  /\ Continue
  /\ UNCHANGED <<pending, deliveryPending, confirmed, uploadOperations, activeUpload,
                 delivered, accepted, started, retired, builder, diagnosed>>

HandleTestResult(m) ==
  /\ m.type = "result"
  /\ \/ ResultIsNext(m) /\ (RefuseResult(m) \/ StoreResult(m))
     \/ /\ ~ResultIsNext(m)
        /\ FailWorkflow /\ Raise /\ UNCHANGED <<confirmed, captureVars>>

\* A message that does not decode raises before any handler; one of another type fails
\* the workflow first.
HandleUnreadable(m) ==
  /\ Raise
  /\ UNCHANGED captureVars
  /\ \/ m.type = "undecodable" /\ UNCHANGED <<sessionVars, transactionVars>>
     \/ m.type = "unexpected"  /\ FailWorkflow /\ UNCHANGED confirmed

HandleMessage(m) ==
  \/ HandleSystemInfo(m)
  \/ HandleApplicationResponse(m)
  \/ HandleApplicationError(m)
  \/ HandleTestResult(m)
  \/ HandleUnreadable(m)

-----------------------------------------------------------------------------
(* service() *)

Service ==
  /\ stage = "idle" /\ ~closed
  /\ stage' = "receive"
  /\ UNCHANGED <<leg, closed, dataVars>>

\* Reading the port, offering its bytes, writing the port or committing output raises.
SerialFault ==
  /\ stage \in {"receive", "output"}
  /\ Raise
  /\ UNCHANGED dataVars

\* Transport.process returns: DELIVERY_FAILED fails the workflow.
ProcessFails ==
  /\ stage \in {"receive", "process"}
  /\ FailWorkflow /\ Raise
  /\ UNCHANGED <<confirmed, captureVars, transportVars>>

Processed ==
  /\ \/ stage = "receive" /\ stage' = "events" /\ UNCHANGED leg
     \/ stage = "process" /\ stage' = "output" /\ UNCHANGED leg
     \/ stage = "output"  /\ stage' = "events" /\ leg' = 2
  /\ UNCHANGED <<closed, dataVars>>

DrainEvent ==
  /\ stage = "events"
  /\ events # <<>>
  /\ events' = Tail(events)
  /\ HandleEvent(Head(events))
  /\ UNCHANGED <<established, inFlight, wire, captureVars>>

EventsDrained ==
  /\ stage = "events"
  /\ events = <<>>
  /\ stage' = "messages"
  /\ UNCHANGED <<leg, closed, dataVars>>

DrainMessage(m) ==
  /\ stage = "messages"
  /\ HandleMessage(m)
  /\ UNCHANGED transportVars

MessagesDrained ==
  /\ stage = "messages"
  /\ stage' = "advance"
  /\ UNCHANGED <<leg, closed, dataVars>>

\* _advance_workflow then _check_response_timeout; an operation that is only now
\* activated has no deadline yet.
AdvanceWorkflow ==
  /\ stage = "advance"
  /\ AdvanceWith(uploadOperations)
  /\ stage' = IF leg = 1 THEN "submit" ELSE "idle"
  /\ leg' = 1
  /\ UNCHANGED <<closed, deliveryPending, confirmed, activeUpload, delivered, accepted, started,
                 nextResultTick, retired, captureVars, transportVars>>

ResponseTimeout ==
  /\ stage = "advance"
  /\ ~NothingPending
  /\ ~pending.received
  /\ pending.armed
  /\ FailWorkflow /\ Raise
  /\ UNCHANGED <<confirmed, captureVars, transportVars>>

CanSubmit ==
  /\ ~pending.submitted
  /\ ~deliveryPending
  /\ established
  /\ pending.kind = "discovery" \/ confirmed

SubmitMessage ==
  /\ stage = "submit"
  /\ CanSubmit
  /\ ~inFlight
  /\ pending' = [pending EXCEPT !.submitted = TRUE]
  /\ deliveryPending' = TRUE
  /\ inFlight' = TRUE
  /\ wire' = IF pending.kind \in UploadKinds
             THEN [wire EXCEPT ![pending.test] = Append(@, pending.tick)] ELSE wire
  /\ stage' = "process"
  /\ UNCHANGED <<leg, closed, confirmed, workflow, established, events, transactionVars,
                 captureVars>>

\* Nothing to submit, or Transport answers NOT_READY or CAPACITY_EXHAUSTED.
NothingSubmitted ==
  /\ stage = "submit"
  /\ stage' = "output"
  /\ UNCHANGED <<leg, closed, dataVars>>

SubmitRefused ==
  /\ stage = "submit"
  /\ CanSubmit
  /\ FailWorkflow /\ Raise
  /\ UNCHANGED <<confirmed, captureVars, transportVars>>

-----------------------------------------------------------------------------
(* The caller, between two passes *)

Bind(a) ==
  /\ stage = "idle" /\ ~closed
  /\ builder' = a
  /\ UNCHANGED <<captured, diagnosed, sessionVars, transactionVars, transportVars, controlVars>>

\* Mistake: a late bind is not compared with the active upload.
BindAnyBuilder(a, replace) ==
  /\ builder # None => replace /\ activeUpload = None
  /\ Bind(a)

BindResultBuilder(a, replace) ==
  /\ builder # None => replace /\ activeUpload = None
  /\ activeUpload # None => a = activeUpload
  /\ Bind(a)

QueueUpload(a) ==
  /\ stage = "idle" /\ ~closed
  /\ activeUpload = None /\ uploadOperations = <<>>
  /\ NothingPending \/ pending.kind = "discovery"
  /\ a \notin retired
  /\ builder # None => builder = a
  /\ AdvanceWith(UploadPlan(a))
  /\ activeUpload' = a /\ delivered' = 0
  /\ accepted' = FALSE /\ started' = FALSE /\ nextResultTick' = 0
  /\ UNCHANGED <<deliveryPending, confirmed, retired, captureVars, transportVars, controlVars>>

\* start, abort and reset_application first require that no operation is outstanding.
Request(operation) ==
  /\ stage = "idle" /\ ~closed
  /\ NothingPending /\ ~deliveryPending
  /\ Activate(operation)
  /\ UNCHANGED <<deliveryPending, confirmed, transactionVars, captureVars, transportVars,
                 controlVars>>

\* Mistake: an upload that already runs can be started again.
StartAgain ==
  /\ activeUpload # None
  /\ accepted
  /\ StartMode[activeUpload] # "EXTERNAL_TRIGGER"
  /\ Request(NewOperation("start", activeUpload, None))

Start ==
  /\ activeUpload # None
  /\ accepted
  /\ workflow = "READY_TO_START"
  /\ StartMode[activeUpload] # "EXTERNAL_TRIGGER"
  /\ Request(NewOperation("start", activeUpload, None))

Abort ==
  /\ activeUpload # None
  /\ Request([NewOperation("abort", activeUpload, None) EXCEPT !.restore = workflow])

ResetApplication ==
  /\ confirmed
  /\ Request([NewOperation("reset", None, None) EXCEPT !.restore = workflow])

\* A call whose transport.close() raises leaves the connection open and is not taken here:
\* the port of SerialStream closes with it (see Close there). This one is the call that
\* returned.
Close ==
  /\ stage = "idle" /\ ~closed
  /\ closed' = TRUE
  /\ uploadOperations' = <<>> /\ pending' = NoOperation /\ deliveryPending' = FALSE
  /\ established' = FALSE /\ inFlight' = FALSE /\ events' = <<>>
  /\ UNCHANGED <<confirmed, workflow, activeUpload, delivered, accepted, started, nextResultTick,
                 retired, captureVars, wire, stage, leg>>

-----------------------------------------------------------------------------
(* Transport, while one of its calls is running *)

TransportRuns(newEvents) ==
  /\ stage \in {"receive", "process", "output"}
  /\ Len(events) + Len(newEvents) <= MaxEvents
  /\ events' = events \o newEvents
  /\ UNCHANGED <<wire, sessionVars, transactionVars, captureVars, controlVars>>

DeliveryConfirmed ==
  /\ inFlight
  /\ inFlight' = FALSE
  /\ TransportRuns(<<"DELIVERY_CONFIRMED">>)
  /\ UNCHANGED established

\* A delivery failure, or a protocol error (which need not concern the message in flight).
TransportFailure ==
  /\ inFlight' \in {inFlight, FALSE}
  /\ TransportRuns(<<"FAILURE">>)
  /\ UNCHANGED established

SessionReset ==
  /\ established
  /\ established' = FALSE
  /\ inFlight' = FALSE
  /\ TransportRuns(<<"SESSION_RESET">>)

SessionEstablished ==
  /\ ~established
  /\ established' = TRUE
  /\ TransportRuns(<<"SESSION_ESTABLISHED">>)
  /\ UNCHANGED inFlight

-----------------------------------------------------------------------------
Init ==
  /\ pending = NoOperation /\ deliveryPending = FALSE /\ uploadOperations = <<>>
  /\ activeUpload = None /\ delivered = 0 /\ nextResultTick = 0 /\ retired = {}
  /\ accepted = FALSE /\ started = FALSE /\ confirmed = FALSE /\ closed = FALSE
  /\ workflow = "CONNECTING" /\ stage = "idle" /\ leg = 1
  /\ established = FALSE /\ inFlight = FALSE /\ events = <<>>
  /\ builder \in Tests
  /\ wire = [a \in Attempts |-> <<>>] /\ captured = wire /\ diagnosed = {}

ServicePass ==
  \/ SerialFault \/ ProcessFails \/ Processed
  \/ DrainEvent \/ EventsDrained \/ MessagesDrained
  \/ AdvanceWorkflow \/ ResponseTimeout
  \/ SubmitMessage \/ NothingSubmitted \/ SubmitRefused

Caller ==
  \/ Service
  \/ \E a \in Attempts, replace \in BOOLEAN : BindResultBuilder(a, replace)
  \/ \E a \in Attempts : QueueUpload(a)
  \/ Start \/ Abort \/ ResetApplication \/ Close

Closed == closed /\ UNCHANGED vars

Transport == DeliveryConfirmed \/ TransportFailure \/ SessionReset \/ SessionEstablished

Next ==
  \/ ServicePass
  \/ Caller
  \/ Transport
  \/ \E m \in PeerMessages : DrainMessage(m)
  \/ Closed

Spec == Init /\ [][Next]_vars
-----------------------------------------------------------------------------
(* Types and safety *)

Operation ==
  [kind : Kinds \union {"none"}, test : Tests, tick : Ticks, submitted : BOOLEAN,
   armed : BOOLEAN, received : BOOLEAN, outcome : Outcomes, restore : WorkflowStates]

EventTypes == {"DELIVERY_CONFIRMED", "FAILURE", "SESSION_RESET", "SESSION_ESTABLISHED"}

\* Every variable keeps the type its field has in FixedIOProtocolConnection.__init__.
TypeOK ==
  /\ pending \in Operation
  /\ uploadOperations \in Seq(Operation)
  /\ activeUpload \in Tests /\ builder \in Tests
  /\ retired \subseteq Attempts /\ diagnosed \subseteq Attempts
  /\ delivered \in Nat /\ nextResultTick \in Nat
  /\ deliveryPending \in BOOLEAN /\ accepted \in BOOLEAN /\ started \in BOOLEAN
  /\ confirmed \in BOOLEAN /\ closed \in BOOLEAN
  /\ established \in BOOLEAN /\ inFlight \in BOOLEAN
  /\ workflow \in WorkflowStates
  /\ stage \in {"idle", "receive", "events", "messages", "advance", "submit", "process", "output"}
  /\ leg \in {1, 2}
  /\ events \in Seq(EventTypes)
  /\ wire \in [Attempts -> Seq(Ticks)]
  /\ captured \in [Attempts -> Seq(Nat)]

Uploading == pending.kind \in UploadKinds \/ uploadOperations # <<>>
InFlightUpload == IF pending.kind \in UploadKinds THEN 1 ELSE 0

\* While an upload is being sent, its queue, its pending operation, the delivery count and
\* what Transport was handed are one and the same position in the upload's plan: no
\* message is skipped, sent twice or counted before it is confirmed.
UploadAccounting ==
  Uploading =>
    LET plan == UploadPlan(activeUpload)
        done == Len(plan) - Len(uploadOperations) - InFlightUpload
        confirmedNow == IF pending.kind \in UploadKinds /\ pending.armed THEN 1 ELSE 0
        handedNow    == IF pending.kind \in UploadKinds /\ pending.submitted THEN 1 ELSE 0
    IN  /\ activeUpload # None
        /\ done \in 0..Len(plan) - handedNow
        /\ uploadOperations = SubSeq(plan, Len(plan) - Len(uploadOperations) + 1, Len(plan))
        /\ delivered = done + confirmedNow
        /\ wire[activeUpload] = SubSeq(UploadTicks(activeUpload), 1, done + handedNow)

\* An upload is never blindly replayed: over the whole life of the connection, through
\* failures, resets and reconnections, Transport is handed at most once each message of
\* an Application Test ID, in plan order.
NeverReplayed ==
  \A a \in Attempts :
    \E n \in 0..Len(UploadTicks(a)) : wire[a] = SubSeq(UploadTicks(a), 1, n)

\* Complete Test validation is awaited, START is sent and results are accepted only for
\* the upload every message of which was confirmed by the peer's Transport.
AcceptedMeansDelivered ==
  accepted \/ started \/ pending.kind \in {"complete_test", "start"} =>
    /\ activeUpload # None
    /\ uploadOperations = <<>>
    /\ delivered = Len(UploadPlan(activeUpload))
    /\ wire[activeUpload] = UploadTicks(activeUpload)

\* A request for a test is always about the active upload, and START is requested only
\* when that upload is accepted, not started, and not left to an external trigger.
RequestsAreAboutTheUpload ==
  /\ pending.kind \in UploadKinds \union {"complete_test", "start", "abort"} =>
       /\ activeUpload # None
       /\ pending.test = activeUpload
  /\ pending.kind = "start" =>
       accepted /\ ~started /\ StartMode[activeUpload] # "EXTERNAL_TRIGGER"

\* Between operations the public workflow state and the phase of the upload and of the
\* session say the same, in both directions: no accepted or started upload is left behind
\* a state that denies it, also where a failure, a new session or the state put back by a
\* refused START, ABORT or RESET_APPLICATION sets it. RESULTS_COMPLETE is never early. The
\* converse of that, which a refused ABORT or RESET_APPLICATION breaks, is not claimed
\* here: see ResultsAreReported in RigSession.
WorkflowStateTellsThePhase ==
  ~closed =>
    /\ workflow = "RESULTS_COMPLETE" =>
         started /\ nextResultTick >= ExpectedTickCount[activeUpload]
    /\ NothingPending =>
         /\ workflow \in SettledStates
         /\ (workflow = "READY_TO_START") <=> (accepted /\ ~started)
         /\ (workflow \in {"RUNNING", "RESULTS_COMPLETE"}) <=> started
         /\ workflow \in {"READY", "ABORTED"} => confirmed
         /\ workflow = "CONNECTING" => ~confirmed

\* A capture holds consecutive result ticks of its own attempt, up to the one the
\* connection expects next: a refused, stale or repeated result leaves neither a hole nor
\* a duplicate, and nothing is added once the attempt is retired and another is active.
CapturedInOrder ==
  \A a \in Attempts :
    /\ \A i \in 1..Len(captured[a]) - 1 : captured[a][i + 1] = captured[a][i] + 1
    /\ captured[a] # <<>> =>
         /\ a = activeUpload \/ a \in retired
         /\ a = activeUpload => captured[a][Len(captured[a])] = nextResultTick - 1
         /\ captured[a][Len(captured[a])] < ExpectedTickCount[a]

\* Result and error storage, bound before or after queue_upload, always belongs to the
\* active upload, which is never one that was abandoned.
BuilderMatchesUpload ==
  activeUpload # None =>
    /\ builder \in {None, activeUpload}
    /\ activeUpload \notin retired

\* The host trusts a session's discovery only while that session is up, or until it reads
\* the reset that ended it.
ConfirmedSessionIsLive ==
  ~closed /\ confirmed =>
    established \/ \E i \in 1..Len(events) : events[i] = "SESSION_RESET"

\* While the connection waits for a delivery, Transport still owes it an answer: the
\* message is in flight, or an event that ends the wait has not been read.
DeliveryIsOwed ==
  deliveryPending =>
    /\ pending.submitted /\ ~pending.armed /\ ~NothingPending
    /\ inFlight \/ \E i \in 1..Len(events) : events[i] # "SESSION_ESTABLISHED"

\* Once a request is delivered, the wait for its response has a deadline.
ResponseWaitIsTimed ==
  ~NothingPending /\ pending.submitted /\ ~deliveryPending => pending.armed

(* Steps *)

\* An upload leaves the connection only by retiring its Application Test ID, and no other
\* upload takes its place in the same step.
AbandonedIdsAreRetired ==
  [][activeUpload # None /\ activeUpload' # activeUpload =>
       activeUpload' = None /\ retired' = retired \union {activeUpload}]_vars

(* The contract with the owner of an attempt *)

LifeOf(a) ==
  IF a \in retired THEN "retired"
  ELSE IF a # activeUpload THEN "fresh"
  ELSE IF started THEN "running"
  ELSE IF accepted THEN "accepted"
  ELSE IF Uploading \/ pending.kind = "complete_test" THEN "uploading"
  ELSE "broken"

Lifecycle == INSTANCE UploadLifecycle
  WITH status <- [a \in Attempts |-> LifeOf(a)], results <- nextResultTick

\* Every behaviour of the connection, under any Transport and rig, keeps the contract of
\* UploadLifecycle: uploaded once, started only after acceptance, interrupted means
\* abandoned, abandoned is for ever.
ImplementsLifecycle == Lifecycle!Spec
=============================================================================
