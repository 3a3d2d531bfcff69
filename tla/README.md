# Verification of the HIL-RIG Python API

This directory holds TLA+ specifications of the program under `src/`, the TLC configurations that
check them on small instances, and proofs that TLAPS checks for every value of the constants.
Line numbers are those of the sources; the map from every definition to its lines is in
`PROJECT.json`, which also lists the hazards each property is aimed at.

## 1. The system

A user defines a fixed-I/O test in Python, compiles it, uploads it to a rig over a serial port,
runs it, and stores the results in one SQLite file per run, over which assertions are evaluated
later. Everything on the host runs on the caller's threads except one writer thread per capture.

```
 Test ──compile──> CompiledTestIR ──FixedIOProtocolAdapter──> FixedIOUploadMessages
                                                                    │ queue_upload
 caller ── service(), start(), abort(), reset_application() ──> FixedIOProtocolConnection
                                                     │    ▲                  │ results, errors
                                         bytes, sends│    │events, messages  ▼
                                            serial   Transport        IncomingResultAdapter
                                              │          │                   │ add_*
                                              └── rig ───┘           CapturedRunBuilder
                                                                             │ bounded queue
                                                    evaluator <── SQLite <── writer thread
```

### Inventory

| Component (source under `src/src/hilrig/`) | State | Operations | Model |
|---|---|---|---|
| Application session, `protocol/connection.py` | pending operation, delivery wait, upload queue, active upload and its flags, expected result tick, retired IDs, session confirmed, workflow state | `service()`; `bind_result_builder`, `queue_upload`, `start`, `abort`, `reset_application`, `close` | `HostConnection`, `UploadLifecycle`, `RigSession` |
| Captured run builder, `results/builder.py` | accepting flag, worker error, bounded queue, the writer's batch and ordinals, events of the control requests | `add_*`, `flush`, `finalize`, `abort`; the writer loop | `CaptureWriter` |
| Capture database, `results/sqlite_store.py` | the file, its schema, rows, `run_metadata` counters and status | `write_batch`, `finalize`, creation, validation, queries | `CaptureWriter` (the writer's part), `CaptureStore` (creation and validation) |
| Result adapter, `results/adapter.py` | the bound builder | `ingest_application_message`, `ingest_application_error` | its refusals, in `HostConnection` |
| Fixed-I/O adapter, `protocol/application.py` | the output states while expanding | `build_upload`; control messages, codec calls | `TestDefinition` (`build_upload`) |
| Serial discovery and byte stream, `protocol/serial.py` and the serial half of `connection.py` | the port and its signals, unread input, output being written and its offset | discover, open, receive, write, commit, close | `SerialStream` |
| Assertion evaluation, `evaluation/*.py` | none kept (pure over the stored rows) | `evaluate`, one handler per kind of assertion | `Evaluation` |
| Test definition, `api.py`, `models/*.py` | frequency, configured channels, instructions, assertions, compiled or not | `configure`, the configuration of channels, stimuli, `expect`, `compile` | `TestDefinition` |
| Compiler and timing, `compiler.py`, `timing.py` | none | order instructions, bound the run, convert times | `TestDefinition` |
| Captured run reader, `results/ir.py` | the path of a validated file | open, query, export | opening in `CaptureStore`, the evaluator's queries in `Evaluation` |
| Evaluation report, exporters, identifiers | none of interest | format, generate IDs | not modelled: formatting, and IDs that are assumed distinct |
| Transport and Application codec (package `hil_rig_protocol`) | session, one reliable message in flight, events | external | its interface, in `HostConnection` |
| Rig firmware | upload accepted so far, the run | external | a rig that follows the protocol, in `RigSession` |

### How they interact, and what is hard

* **The connection and Transport.** `service()` receives bytes, lets Transport process them, drains
  events and then messages, advances the workflow, submits at most one message, writes output and
  drains again. Nearly every one of these calls can raise, and what follows is then not done until
  the next pass. A delivery confirmation, the answer of the rig, a failure, a session reset and a
  deadline race one another, and answers to operations that were given up may arrive later.
* **The connection and its owner.** `queue_upload`, `start`, `abort` and `reset_application` may be
  called between any two passes, in any state. An upload that was interrupted may never be replayed:
  a new attempt has a new Application Test ID.
* **The connection and the capture.** Results must be stored in the capture of their own attempt, in
  order, without gaps; storage may refuse a result in the middle of a drain.
* **The builder's threads.** Any thread may call the builder; the queue is bounded; the writer may
  fail at any transaction and must release every waiting caller; the process may stop at any point.
* **Finalization.** Three counters decide whether a run is `COMPLETE`.

What makes each component correct:

* the connection sends each upload in order, once, and knows what was delivered; asks only what
  concerns the active upload; never waits for ever; and its public state is true;
* the builder loses nothing it acknowledged, keeps order, honours its barriers, stops producers
  rather than growing, and every call returns;
* the database's metadata describes its rows, whatever was refused or interrupted;
* the adapter's sparse messages, held by the rig until the next, give the states the user asked for;
* the byte stream hands every byte to Transport once and every output byte to the port once;
* an assertion passes only on evidence that covers its window;
* a definition that was compiled no longer changes, and its ticks mean the times that were asked for.

## 2. The modules

| Module | Models | Checked by |
|---|---|---|
| `HostConnection` | `FixedIOProtocolConnection`, alone against every behaviour of its interface | `connection_safety` |
| `UploadLifecycle` | what a connection promises the owner of an upload attempt (abstract) | `connection_safety`: refined by `HostConnection` |
| `RigSession` | `HostConnection` with a rig that follows the protocol and a caller that loops | `rig_*` |
| `SerialStream` | opening the port, and its bytes on the way through `service()` and `close()` | `serial_stream` |
| `CaptureWriter` | `CapturedRunBuilder`, its writer thread and `SQLiteCaptureWriter` | `capture_safety`, `capture_late_*` |
| `CaptureStore` | `CaptureWriter` with the creation of its file by several makers, and a reader | `capture_one_thread` |
| `TestDefinition` | a `Test` from its definition to the messages of its upload | `test_definition` |
| `Evaluation` | one call of `evaluate()` on a capture that may still be written to | `evaluation` |
| `Ordering` | what `sorted()` and `ORDER BY` return, for `TestDefinition` and `Evaluation` | an `ASSUME` of `MCEvaluation`, `FoldTheory` |
| `HostConnectionProofs`, `PlanProofs` | theorems about `HostConnection`, and that it implements `UploadLifecycle` | TLAPS |
| `RigSessionProofs` | the theorem that a cooperative rig is enough, for `RigSession` | TLAPS |
| `CaptureProofs` | theorems about `CaptureWriter` and `CaptureStore` | TLAPS |
| `SerialStreamProofs`, `TestDefinitionProofs`, `EvaluationProofs` | theorems about these three | TLAPS |
| `FoldTheory` | lemmas: what `FoldLeft` and `InOrder` compute, for any sequence, set and operation | TLAPS |
| `MC...` | the values of the constants for TLC | |

### HostConnection

The variables are the fields of the class, under their names without the underscore. `pending` is a
record for `_ApplicationOperation`; `submitted` and `armed` stand for the message being submitted and
for `response_deadline` being set. The workflow states are those of `ProtocolWorkflowState`.

One pass of `service()` is several actions. `stage` says where the pass is: `receive` (reading the
port and the first `process`), `events`, `messages`, `advance`, `submit`, `process`, `output`, then
`events`, `messages` and `advance` again with `leg = 2`. The cuts are where the code calls something
that may raise, or drains one event or message: a handler that raises goes to `idle` and leaves the
rest of the pass undone, as an exception does. Each event or message handler is one action with all
the calls it makes: `_finish_pending_operation_if_ready` is part of the handler that reaches it
(`Finish`), including the operation it activates next.

The public calls are enabled at `stage = "idle"` only: the class is for one thread. Each is the
guard of the code's early raises with the assignments of the rest; a call that raises changes
nothing and is not an action. `AdvanceWith` is `_advance_workflow`, which `queue_upload` calls too.

Transport is external. It changes only while one of its calls runs (stages `receive`, `process`,
`output`), and may then confirm or fail the message in flight, report a protocol error, reset or
establish a session. At `messages` the peer may say anything in `PeerMessages`, at any time:
stale, repeated or unsolicited.

`wire`, `captured` and `diagnosed` are what the collaborators hold: the upload messages handed to
Transport, the results stored in each builder, the builders with an Application Error.

### UploadLifecycle

The life of an attempt: fresh, uploading, accepted, running, and from each of these broken or
retired. `HostConnection` maps to it by `LifeOf`, with `results` mapped to `nextResultTick`.

### RigSession

Extends `HostConnection` with `request` (what Transport carries), `inbox` (what arrived), `rig` (the
upload it holds and the run it executes) and `faults`. The host's actions are those of
`HostConnection`, restricted: a message is read because it arrived, a timeout happens when the rig
has nothing more to say (`TimesOut`) or as a fault, and errors of the serial port, of Transport and
of storage count as faults, at most `MaxFaults`. `ConfirmFirst` says whether Transport reports a
delivery before it hands over the answer to it.

### CaptureWriter

A step of a thread ends where another thread can see or change what it shares: when it releases
`_state_lock`, reads a flag without the lock, touches the queue or an event. So `add_*` is `Add` (the
locked look at the flags), `Check` (the look of `_put` without the lock), `Put` or `QueueFull`;
`flush()` and `finalize()` go the same way and then wait (`Return`, which also sees the writer's
error). The writer takes one item at a time, fills a batch, and commits when the batch is full, a
request arrives or the queue is empty (`FlushInterval`: with the interval over, `get` is called
with a zero timeout and still takes an item when there is one). `WriteBatch` and `MarkFinal` are one
transaction each: all or nothing, with the uniqueness constraints of the schema. `WriterFails` is
the exception handler and `DrainQueue` the loop that answers the requests left in the queue. `Crash`
leaves what SQLite committed.

### CaptureStore

`CaptureWriter` together with the file it writes to. Each maker runs `initialize_capture_database` on
the same path: `Touch` (the exclusive creation), `CreateTables` (`executescript` commits by itself),
`CommitCapture` (the one transaction with the version, the metadata and the assertions).
`CreationFails` may happen at any statement and removes the file, if it can; `MakerDies` leaves what
there is. A reader looks for the file (`Find`) and connects later (`OpenReader`): SQLite creates a
file that has gone in between, empty, and validation refuses it. `BuilderRuns` is any step of
`CaptureWriter`, once a capture is made.

### SerialStream

`connect()` goes through `Discover`, `CreatePort`, `SetSignals`, `OpenPort` and `Assemble`, each of
which may raise (`Release` is what the two exception handlers do). A pass of `service()` is
`ReadSerial`, then turns of `OfferReceived`, `ProcessTransport`, `Drain`, perhaps a second
`ProcessTransport` after a submitted message, one write and the last `Drain`; what events and
messages mean is left to `HostConnection`. `turn` only makes a turn of the loop that changes nothing
else a step, so that `PassesReturn` would see the loop spin.

A byte is the number it was sent with, or its output and place. The port may hand over any part of
what it has and take any part of what it is given; either may raise. What is assumed of the external
parties: Transport consumes no more than it is offered, and something when it answers OK to a buffer
that is not empty; a reset withdraws the offered output, and the commit of a withdrawn one is
answered NOT_READY, or raises; bytes of a `write()` that raises are not counted as taken; the port
is released once `close()` was called, even if that raises.

### TestDefinition

The user calls in any order: `Configure`, `ConfigureChannel`, `Schedule` (all stimuli of all kinds of
channel), `AddAssertion` (a window of ticks), `Compile`, and then `BuildUpload`. A call that raises
changes nothing and is not an action, so `Mutable` (`_ensure_mutable`) guards all of them; a
`compile()` that refuses a run that is too long leaves the test open. Instructions and assertions
carry `asked`, the moment as the user gave it, which the code does not keep: `TimesAreKept` compares
it with the tick. `SparseInstructions` is `_build_sparse_instructions` as a fold over the ticks that
have a message; `GroupOf` is what its `groupby` gives for a tick, also for instructions that are not
sorted. `Asked` is the reference: what the calls of the user ask of an output at a tick, with no
notion of messages; `Held` is what the rig holds from the messages it gets.

### Evaluation

`StoreRow`, `StoreError` and `Finalize` are the capture's side, in short (`CaptureWriter` has it in
full); `Begin` reads the metadata and refuses a run in progress, each `EvaluateNext` is one handler
that reads the database, `Return` reads the errors and gives the overall verdict. A tick is absent,
`Problem` (an EXECUTION_PROBLEM: no measurement of it is valid) or a measurement of all inputs; a
PARTIAL tick has valid fixed measurements and is one of the latter. `Holds` is the reference: what an
assertion means of a run in which every tick was measured. A verdict is judged by all the runs that
agree with the evidence (`PossibleRuns`).

## 3. The runs

| Run | Instance | What it shows |
|---|---|---|
| `connection_safety` | two attempts with different plans and start modes, every message of the peer, two unread events | the eleven invariants of `HostConnection`, `AbandonedIdsAreRetired`, and that it implements `UploadLifecycle` (`ImplementsLifecycle`) |
| `rig_cooperates` | no fault, two attempts | the workflow never fails by itself; every run that begins ends with its results captured |
| `rig_faults` | two faults of any kind, any rejection, all calls of the owner | every request ends; every session is identified |
| `rig_hasty_abort` | one session reset, `abort()` before discovery | violation, see 6 |
| `rig_rejects_abort` | a rig that rejects controls | violation, see 6 |
| `serial_stream` | three bytes in, outputs of three, one and two bytes, two resets or refused commits | no byte is lost, repeated or reordered; outputs are committed whole; the port is released; every pass returns |
| `capture_safety` | two threads, four records, any failure, any crash | metadata, `COMPLETE`, barriers, order, finality |
| `capture_one_thread` | two makers and a reader, then one thread, four records (a duplicate tick among them), any failure | partial files are refused, a capture is kept, nothing acknowledged is lost, every call returns |
| `test_definition` | four calls besides `configure` and `compile`, five channels of five kinds, two frequencies | times stay true, the run is long enough, upload ticks ascend, every output is as asked at every tick |
| `evaluation` | three ticks, four measurements, all fifteen kinds of assertion, every window, sets of up to two | verdicts are proven by the evidence, counts are true, results stand, the report is sound |
| `capture_late_record`, `capture_late_flush` | two threads, no failure | violations, see 6 |

### Bounds, and why they are enough

* **Two attempts**: one that was given up and the one after it; every property of the connection
  speaks of one attempt or of an attempt and its successor. One has a sparse tick and starts by
  itself, the other has none and waits, so the queue has both lengths that matter (empty after the
  configuration, and not). No attempt of a run is externally triggered; the theorems hold for every
  start mode, and `RequestsConcernTheUpload` is the one that tells them apart.
* **Two result ticks, and results up to one past the end**: first, last, early, repeated, too late.
* **`MaxEvents = 2`**: a confirmation and a failure, or a reset and the new session, unread together.
  The events of one Transport call are drained before the next call unless a handler raised, which
  leaves one behind.
* **Two faults**: a fault and another during recovery.
* **Queue of two, batch of two**: full, partly filled and empty queue; a batch closed by its size and
  one closed by a request or the interval. In `capture_safety` two threads share results for two ticks
  and two communication records, with an explicit and an assigned ordinal; in `capture_one_thread`
  a second result for one tick makes the constraint fail inside a batch or in a later one.
* **Two makers, one reader**: one maker that fails or dies at each statement and one that comes before,
  after or meanwhile; the theorems have any number of makers.
* **Bytes**: three to receive, so that a part is taken, offered again and another part arrives; an
  output written at once and outputs written in two and three parts; two faults, so that a reset and
  a refused commit, or two resets, meet one output.

* **`MaxCalls = 4`**: one channel with three instructions (the least that shows an order of calls that
  differs from the order of ticks, with two at one tick), two channels with two, or an assertion
  among them. Times are in half-seconds and the modes one and two ticks per second, so one moment
  is refused in one mode and a tick in the other. The limit on the run's length falls within reach.
* **Three ticks of evidence**: a gap at the start, in the middle and at the end of a window, windows of
  one, two and three; a set of two assertions shows that verdicts combine. The four measurements
  hold both digital levels, three voltages, and no, a fast and a slow waveform.

### Fairness

`HostConnection` has none: its properties are about safety. In `RigSession` the caller keeps calling
`service()` (the README of the repository prescribes that loop) and a pass goes on: weak
fairness. Transport, the rig and the clock act while `service()` is inside Transport, or at the
`advance` stage, so their actions are enabled again and again but not continuously: strong fairness.
It says that Transport retransmits until it confirms or gives up, that the rig answers and
produces results, that a session is established again, and that a deadline passes. Nothing
obliges the owner to call `start`, `abort` or `reset_application`. In `CaptureWriter` the
writer and a thread inside a call are scheduled: weak fairness; nothing obliges a thread to make a
call, and nothing is assumed fair about a crash or a failure. A thread that finds the queue full
tries again, as the polling loop does. `CaptureStore` keeps this fairness; no maker or reader is
obliged to do anything. In `SerialStream` a pass that began goes on (the program runs): weak fairness
of `Pass`; that Transport stops taking bytes follows from there being finitely many.

### What the rig's runs assume

`rig_cooperates` has `ConfirmFirst = TRUE`: Transport reports the delivery of a message before it
hands over the rig's answer to it. With the other order the workflow fails by itself: the Complete
Test Response is then read while the last upload message still counts as undelivered, and is taken
for a mismatch (`connection.py:633`). Nothing in the repository says which order Transport
guarantees, so this is an assumption of the run and not a finding. `rig_faults` has it FALSE: what
it checks holds either way.

## 4. The proofs

Each theorem is proved for every value of the constants, from the one assumption of its module:
`ConnectionAssumption` (any set of attempts, plans of any length, any messages of the declared types,
any `MaxEvents`), `CaptureAssumption` (any threads, records, queue and batch), `StreamAssumption`,
`DefinitionAssumption`, `EvaluationAssumption`. Three theorems have a further hypothesis, and state it:
`OneThreadLosesNothing`, `CooperationNeverFails` and `OnlyARefusalHidesCompletion` (see below).

### The connection

| Theorem | In | Says |
|---|---|---|
| `TypeCorrectness` | `HostConnectionProofs` | `Spec => []TypeOK` |
| `RequestsConcernTheUpload` | `HostConnectionProofs` | `Spec => []RequestsAreAboutTheUpload` |
| `CapturesBelongToUploads` | `HostConnectionProofs` | `Spec => []BuilderMatchesUpload` |
| `AbandonmentRetires` | `HostConnectionProofs` | `Spec => AbandonedIdsAreRetired` |
| `DeliveriesAreOwed` | `HostConnectionProofs` | `Spec => []DeliveryIsOwed` |
| `ResponseWaitsAreTimed` | `HostConnectionProofs` | `Spec => []ResponseWaitIsTimed` |
| `UploadsAreAccounted` | `PlanProofs` | `Spec => []UploadAccounting` |
| `NothingIsReplayed` | `PlanProofs` | `Spec => []NeverReplayed` |
| `AcceptanceFollowsDelivery` | `PlanProofs` | `Spec => []AcceptedMeansDelivered` |
| `TrustFollowsTheSession` | `PlanProofs` | `Spec => []ConfirmedSessionIsLive` |
| `CallersKnowThePhase` | `PlanProofs` | `Spec => []WorkflowStateTellsThePhase` |
| `CapturesAreInOrder` | `PlanProofs` | `Spec => []CapturedInOrder` |
| `ConnectionImplementsLifecycle` | `PlanProofs` | `Spec => ImplementsLifecycle` |

`TypeOK` is not inductive: a response is matched with the pending operation and the next operation is
taken from the queue, so the queue must hold operations of the upload's plan that were never
submitted (`PlanIsFresh`), and the pending operation must be sound (`PendingIsSound`). `TypeInv` is
`TypeOK` cut in four by the part of the state it speaks of, with these two; there is one lemma for
each action and the four parts are proved separately under it.

`RequestsAreAboutTheUpload` needs to know why a request can exist at all: `OwnerInv` says that an
operation which waits for an upload has one, of the same ID (`WaitsForUpload`), and that the flags
`accepted` and `started` agree with the kind of the pending operation and with the queue
(`PhasesAgree`). The step property `AbandonedIdsAreRetired` follows from the same invariant: an
upload is only ever queued when none is active, and only `RetireActiveUpload` clears it.

`DeliveryIsOwed` is the reason the host may wait for a delivery without a deadline of its own:
`DeliveryInv` adds that the awaited operation has been submitted and not yet confirmed, and that
Transport cannot forget a message in flight without leaving an event that ends the wait. Every such
event but `SESSION_ESTABLISHED` ends it, in whatever order they are read.

`UploadAccounting`, `NeverReplayed` and `AcceptedMeansDelivered` are consequences of one fact:
while an upload is sent, what is queued is the end of its plan, what is pending comes just before
it, and what was handed to Transport is the beginning (`Position`, in `PlanInv`; `SentIsPrefix` for
the attempts that are over). None of the three is inductive alone: accounting says nothing of the
order, and order nothing of the count of confirmations. `StepShape` first sorts the many handlers
into the few ways in which they move the position (`Quiet`, `Noted`, `Updates`, `Requests`), so that
the invariant is proved once for each way and not once for each handler.

`WorkflowStateTellsThePhase` is about the time between operations: there the public state is one of
the settled ones, it is `READY_TO_START` exactly when the upload is accepted and does not run,
`RUNNING` or `RESULTS_COMPLETE` exactly when it was started, and `CONNECTING`, `READY` and `ABORTED`
agree with the identification of the session. Since a refused control request puts an earlier state
back, `Tells` claims the same of the saved state (`Truth`), and `Identified` that an `ABORT` or
`RESET_APPLICATION` is only handed to Transport on an identified session. Between `RUNNING` and
`RESULTS_COMPLETE` it claims one direction: completion is never reported early. It is not always
reported: a refused `ABORT` or `RESET_APPLICATION` may put `RUNNING` back over complete results
(finding 2 in section 6), and `OnlyARefusalHidesCompletion` below says that nothing else does.

`ConfirmedSessionIsLive` needs the
order of unread events: a new session is never ahead of an unread reset of the one before
(`NewSessionsFollowResets`), so a session that is trusted is up or has its reset unread.

The refinement maps each attempt to a phase (`Phase`, by `accepted`, `started` and the pending
operation) and shows that a step keeps the phase, moves it along, breaks it, retires the upload or
queues a new one (`PhaseMoves`, `LifecycleStep`); each of these is a step of `UploadLifecycle` or a stutter.

The steps are proved for `AnyNext`, which is `Next` with every message of `Messages` in place of
`PeerMessages`: `NextIsAny` gives the theorems above, and the session below, whose messages come from
a rig, uses the same step lemmas.

### The session with a rig

`CooperationNeverFails`, in `RigSessionProofs`: under `NothingGoesWrong`,
`SessionSpec => []NeverFailsByItself`. The hypothesis says that no fault happens (`MaxFaults = 0`), that
the rig rejects nothing but `start`, `abort` and `reset`, and that `ConfirmFirst` holds. Everything
else is free: any attempts and plans of any length, any of the caller's controls in any order,
`early_abort` included, and any number of uploads. `rig_cooperates` is an instance of it,
with `start` as the only control and no rejection. Each part of the hypothesis is needed: a
rejected upload or validation ends in `FAILED`, as do most faults, and section 3 describes what the other
order of confirmation and answer does.

`NeverFailsByItself` says only that the workflow is not `FAILED`; what makes it so is that no message
ever meets a connection that does not expect it. `TalkInv` says what is underway, as a conversation:

* a request is on its way, with its delivery outstanding, and then it is the pending operation and
  nothing but results can be in the inbox (`OneDelivery`, `OnlyResults`);
* or the pending operation has been answered (`Answered`), and then some message `k` of the inbox is an
  answer to it (`AnsweredAt`), the ones before it are the results that are expected next, and what
  follows it is nothing, the report of the validation, or the results of the run that the answer
  leaves running (`FollowedBy`);
* or the rig owes nothing (`OnlyResults` again), and expects as many upload messages as the host has
  left (`TickIsExpected`).

`HostIsWell` and `RigFollows` add what each side must remember for this to go on. The timeout is
excluded because a deadline is set only once a request is delivered, and with the confirmation first it
has been answered by then (`NothingTimesOut`). `WhatHappens` then leaves eight kinds of step, with one
lemma each; `SessionStepIsStep` lifts them to steps of the connection, so that its invariants
(`Grounds`, `PlanInv`, `SessionInv`) may be used: that an answer is read only when no delivery is awaited
follows from `DeliveryInv` and from reading all the events first.

`OnlyARefusalHidesCompletion` is the positive side of the violation that `rig_rejects_abort` shows: under
`NothingGoesWrong`, and with `RigRejects` no more than `{"start"}`, `SessionSpec => []ResultsAreReported`.
`Reported` is the invariant: once the last result is read, the state says so or a request that ends
the run is outstanding (`Stopping`). Such a request can then only be granted, because `AnswersTo` has
no other answer to it, and granting it ends the run (`StoppingEndsTheRun`); every other step
either leaves the state alone, or is the one that reads the last result (`ReportedStep`).

### The capture

All in `CaptureProofs`; the first seven are about `Spec` of `CaptureWriter`, the others about
`StoreSpec`.

| Theorem | Says |
|---|---|
| `CaptureTypes` | `Spec => []TypeOK` |
| `MetadataIsTrue` | `Spec => []MetadataMatchesRows` |
| `CompleteCapturesAreWhole` | `Spec => []CompleteMeansAllTicks` |
| `FinalizedCapturesStay` | `Spec => FinalizedIsFinal` |
| `PrefixesAreCommitted` | `Spec => []CommittedInOrder` |
| `FlushMeansCommitted` | `Spec => []BarriersHold` |
| `OneThreadLosesNothing` | with one calling thread, `Spec => []NothingAcknowledgedIsLost` |
| `OneCapturePerFile` | `StoreSpec => []PartialFilesAreRefused` |
| `CapturesStay` | `StoreSpec => CapturesAreKept` |
| `StoreImplementsBuilder` | `StoreSpec => Init /\ [][Next]_vars` |

The metadata is kept by counters that are updated with each batch and never recomputed. That they
count the rows needs two more facts: a record is pending or stored and not both (`BatchIsSound`), and
a tick is stored once (`StoredOnce`, by the uniqueness constraint). `CompleteMeansAllTicks` then is
about numbers alone: `ExpectedTickCount` different ticks with the last one before it are all of them
(`AllTicksStored`).

`CommittedInOrder` needs to know where each record is: the soundness parts of `TypeInv` say that a
record is in at most one of the calls, the queue, the batch and the rows, `PlaceIsSound` what the
writer holds at each of its stages, and `OrderIsSound` that, while the writer lives, what a thread
submitted earlier is nearer to the rows. `BarriersHold` adds what is ahead of a request in the queue: everything
acknowledged before the call is (`Ahead`, `RequestsAreSound`), so it is committed when the request is
taken, and a reply says so (`RepliesAreSound`).

`NothingAcknowledgedIsLost` is false with two threads (6, item 3), and a theorem under `\A p, q \in Threads :
p = q`: nobody can submit while the thread asks to finalize, so all that was acknowledged was so
before (`OneThreadInv`). The docstring of the builder speaks of producers, and does not restrict
them to one thread.

The file: `StoreInv` ties the content of the file to its owner's progress; exclusive creation gives one
owner. `StoreImplementsBuilder` carries every theorem about `Spec` that does not need fairness over to
the composition.

### The others

| Theorem | In | Says |
|---|---|---|
| `PortsReleased` | `SerialStreamProofs` | `Spec => []PortsAreReleased` |
| `NothingReceivedIsLost` | `SerialStreamProofs` | `Spec => []ReceivedInOrder` |
| `CommittedOutputsAreWhole` | `SerialStreamProofs` | `Spec => OutputsAreWhole` |
| `TimesStayTrue` | `TestDefinitionProofs` | `Spec => []TimesAreKept` |
| `RunsCoverDefinitions` | `TestDefinitionProofs` | `Spec => []RunCoversDefinition` |
| `DefinitionsAreTyped` | `TestDefinitionProofs` | `Spec => []TypeOK` |
| `UploadsAreInOrder` | `TestDefinitionProofs` | `Spec => []UploadTicksAscend` |
| `EveryOutputIsAsAsked` | `TestDefinitionProofs` | `Spec => []OutputsAreAsAsked` |
| `FindingsStand` | `EvaluationProofs` | `Spec => []ResultsStand` |
| `EveryVerdictIsProven` | `EvaluationProofs` | `Spec => []VerdictsAreProven` |
| `EveryTickIsCounted` | `EvaluationProofs` | `Spec => []CountsAreTrue` |
| `EveryReportIsSound` | `EvaluationProofs` | `Spec => []ReportIsSound` |
| `PassesRestOnTheWhole` | `EvaluationProofs` | `Spec => []PassesAreWhole` |
| `VerdictsSpeakOfSomeRun` | `EvaluationProofs` | `Spec => []SomeRunIsPossible` |

`ReceivedInOrder` becomes inductive with the bytes numbered one by one (`InputInv`) and with the port
open in every stage of a pass after its read (`OpenWhileServing`). `OutputsAreWhole` needs that the
offset counts bytes at the end of what the port took, all of them of the output being written
(`OutputInv`); it survives a reset because pending output and offset are cleared together.

`TimesStayTrue` rests on the arithmetic of an exact conversion (`ResolvedTimesKeep`: a quotient
without remainder, times its divisor) and on the frequency changing only while nothing is stored
(`ConfigureKeeps`). `RunsCoverDefinitions` needs that a definition has a latest tick at all
(`CoverInv`): a definition grows by one call at a time, and its latest tick with it, so that is an
invariant of the calls and not of the compilation.

`UploadsAreInOrder` and `EveryOutputIsAsAsked` are about what two nested folds compute: the messages
are folded from the ticks, and the outputs of each message from the instructions of its tick.
`FoldTheory` shows once that `FoldLeft` over a sequence is the last of the values that its prefixes
have, and that `InOrder` lists a finite set without repetition; each is an induction over the set of
numbers for which the claim holds, which needs no operator as a parameter. `TestDefinitionProofs`
then says what a state is after a set of instructions without speaking of their order
(`StateAfter`: the initial state, changed by the latest instruction of each sort), shows that
one more instruction, later than the others, gives the next such state (`ApplyStep`), hence that
a group of the same tick does (`GroupIsApplied`) and that message `m` carries the state after all
instructions up to its tick (`SparseInstructionsAre`). That the rig, which keeps the last message,
and the user, who asks by instructions, then agree at a tick between two messages is a comparison of two
sets: no instruction lies between them (`HeldIs`, `AskedIs`). The invariant it rests on, `DefinedInv`,
is about the calls: instructions are of configured channels, of the actions their kind has, and
numbered as they were made; the compiled plan is the definition's and the upload is the plan's.

`FindingsStand` rests on two facts kept in `StandInv`: there are results only once a final status was
read, and nothing is written to a capture that has one. So the other theorems about results need not
follow the evaluation through its steps: they are about what `Evaluated` returns for a capture that
stands. For each handler a fold over the samples of the window is shown to be a set of ticks
(`Refused`), a pair of ticks (`Crossing`) or a count; `VerdictsAreProven` then compares these with every run that
agrees with what was measured, and `CountsAreTrue` is arithmetic on their cardinalities.
`EveryReportIsSound` adds that the verdicts behind the report are all the results (`HealthInv`).
`PassesRestOnTheWhole` says that a report which passes was given for a capture with all its ticks and no
unrecoverable error, with at least one assertion, each of which would pass again.
`VerdictsSpeakOfSomeRun` keeps the others from being empty: some run agrees with what was measured.

### Only model-checked

* All liveness: `RequestsEnd`, `SessionsAreIdentified`, `RunsComplete`, `CallsReturn`, `PassesReturn`.
  Temporal reasoning under fairness and `ENABLED` are beyond the prover.

## 5. What is left out of what is modelled

* Contents: pin states, payloads, diagnostic texts, codes. A response is the request it answers and
  its outcome relative to the one that is expected.
* Bytes: in `HostConnection` a read or write of the port succeeds or raises. The parts are in
  `SerialStream`, which in turn leaves out what the bytes mean; that the two agree on the stages of a
  pass is by reading, no refinement relates them.
* `Close` in `HostConnection` is the call that returned. A call whose `transport.close()` raises
  (`connection.py:489`) has dropped the queue and the pending operation but leaves the connection open; it is
  taken for the end of the connection here, and modelled as an open one with a closed port
  in `SerialStream`.
* Time: a deadline may pass whenever it is set and the code looks at it.
* An operation's message is encoded when it is queued; errors of the codec there are programming
  errors and not modelled.
* `wire` counts what Transport accepted; what happens on the line is Transport's.
* The writer's `close` failing after a failure, and a second process writing to the same capture.
* Directories, paths that resolve to the same file, and permissions: a statement of the creation fails
  or does not.
* The polling intervals of the builder, and which channel a communication record is for: ordinals
  are per channel, so one channel shows what can happen.
* In `TestDefinition`: the validation of arguments, names, voltages of logic levels, addresses and
  payloads; `start_mode`, which only travels with the plan; the cache of channel handles (a new
  handle of a compiled test is refused, as every other change is). The conversions of volts, duty
  cycles and frequencies are exact or refused in the code, and their results are the constants.
* In `Evaluation`: wording, observed summaries and warnings; floating-point rounding of frequencies
  and duty cycles, which are compared as exact rationals; more than one channel of a kind, since a
  handler only picks the column of its channel.

Not modelled at all: the text of evaluation reports, the JSON and workbook exporters, the CSV exports
and the row-by-row readers of `results/ir.py`. Each is one call without state over a frozen test or
a stored capture, and everything that could be wrong in it is wording, layout or a column; a model
would repeat the code. Control messages and codec calls of `protocol/application.py` are likewise
field-by-field conversions.

## 6. Where the code and its documents disagree

Each of these is a run in which TLC finds the behaviour, with the code as it is.

1. **`rig_hasty_abort`**. `docs/architecture.md:215` says "Every established Transport session begins
   with BASIC System Information discovery". After a reconnection the interrupted upload is still
   active and the session not identified. `abort()` (`connection.py:393`) does not ask whether it is:
   it makes ABORT the pending operation. `_advance_workflow` (750) does not start discovery while an
   operation is pending, `_submit_next_application_message` (806) does not submit ABORT while the
   session is not identified, and no deadline runs because nothing was submitted. Only the loss of
   the session or `close()` ends it. `reset_application()` does ask (`confirmed`).
2. **`rig_rejects_abort`**. `README.md:424` says result transfer is complete only after results
   `0..N-1`, and its example waits `while not connection.results_complete` (390). If the last result is
   read while ABORT or RESET_APPLICATION is outstanding, the state becomes RESULTS_COMPLETE, and the
   rejected request then puts back the RUNNING it saved (`connection.py:745`). No further result
   comes; the loop of the example never ends.
3. **`capture_late_record`**. `builder.py:48-49` says the queue "blocks rather than silently discarding
   test evidence". `_put` reads `_accepting` without the lock (284) and then puts: a record of another
   thread can land behind the finalize request. The writer has returned; `add_*` returns normally; the
   record is nowhere.
4. **`capture_late_flush`**. `docs/architecture.md:257` says `flush()` "waits for every older record to
   commit". A flush request that lands behind the finalize request is never answered, and
   `_wait_for` (293) looks only at its event and at `_worker_error`: the call never returns. Deadlock is
   not checked there: the waiting call is then all there is. (Nor in `test_definition` and
   `evaluation`, which end.)

The last two need a second thread; `capture_one_thread` shows that with one the builder has neither.

## 7. Plan

What the project set out to model and prove is done, as far as it is in reach. What would add most
from here, in order:

1. The order of confirmations and answers. If the documentation of `hil_rig_protocol` settles it,
   `rig_cooperates` should run with that order; if answers may come first, section 3's counterexample
   becomes a finding against `connection.py:633`.
2. A capture with a second writing process, and a reader that polls a capture while it is filled:
   `CaptureStore` has the file's creation only.
3. More than one channel of communication in `CaptureWriter`, if ordinals ever stop being per channel.

Keep each run below three minutes: `connection_safety` is the largest.
