----------------------------- MODULE CaptureWriter -----------------------------
(***************************************************************************)
(* CapturedRunBuilder (src/hilrig/results/builder.py) and the database it  *)
(* fills (src/hilrig/results/sqlite_store.py): threads hand records to a   *)
(* bounded queue, one writer thread commits them in batches, flush() and   *)
(* finalize() are requests sent through the same queue.                    *)
(*                                                                         *)
(* A step of a thread ends where another thread can see or change what it  *)
(* shares: when it releases _state_lock, reads a flag without it, touches  *)
(* the queue or an event.  A transaction of SQLite is one step; the whole  *)
(* process may stop between any two.                                       *)
(***************************************************************************)
EXTENDS Naturals, Sequences, FiniteSetsExt

CONSTANTS
  Threads,            \* threads that call the builder
  None,               \* Python's None
  Records,            \* the records they may submit, each once
  KindOf,             \* [r -> "tick", "communication" or "error"]
  TickOf,             \* [r -> its tick]
  OrdinalOf,          \* [r -> its ordinal, or None to have one assigned]
  CallsOf,            \* [p -> the operations thread p uses]
  RequestedStatuses,  \* what finalize() may be asked for
  ExpectedTickCount, QueueCapacity, BatchSize,
  DiskMayFail,        \* SQLite may refuse a transaction or fail to open
  MayCrash            \* the process may stop at any time

TerminalStatuses == {"COMPLETE", "INCOMPLETE", "SESSION_LOST", "PROTOCOL_ERROR", "ABORTED"}
Statuses == TerminalStatuses \union {"IN_PROGRESS"}

ASSUME CaptureAssumption ==
  /\ KindOf \in [Records -> {"tick", "communication", "error"}]
  /\ TickOf \in [Records -> Nat]
  /\ OrdinalOf \in [Records -> Nat \union {None}]
  /\ None \notin Nat /\ None \notin Threads /\ None \notin Statuses /\ None \notin Records
  /\ CallsOf \in [Threads -> SUBSET {"add", "flush", "finalize"}]
  /\ RequestedStatuses \subseteq Statuses \union {None}
  /\ ExpectedTickCount \in Nat \ {0} /\ QueueCapacity \in Nat \ {0} /\ BatchSize \in Nat \ {0}
  /\ DiskMayFail \in BOOLEAN /\ MayCrash \in BOOLEAN

VARIABLES
  accepting,     \* _accepting
  workerError,   \* _worker_error is set
  queue,         \* _queue
  call,          \* [p -> the call thread p is in, and where]
  reply,         \* [p -> what its control request's event and error say]
  writer,        \* where _writer_loop is
  request,       \* active_request
  batch,         \* pending_ticks, pending_communications and pending_errors
  ordinal,       \* [r -> the ordinal the writer gave r]
  nextOrdinal,   \* [tick -> next_ordinal of the one communication channel modelled]
  rows,          \* the records stored in the database
  received, firstTick, lastTick, status,   \* run_metadata
  acknowledged,  \* [p -> the records for which p's add_* call returned, in order]
  crashed

builderVars == <<accepting, queue, call, acknowledged>>
writerVars  == <<writer, request, batch, ordinal, nextOrdinal, workerError, reply>>
database    == <<rows, received, firstTick, lastTick, status>>
vars == <<builderVars, writerVars, database, crashed>>

Idle == [op |-> "idle", at |-> "idle", record |-> None, status |-> None, before |-> {}]
Acknowledged == UNION {Range(acknowledged[p]) : p \in Threads}
Unused(r) == r \notin Acknowledged /\ \A p \in Threads : call[p].record # r

-----------------------------------------------------------------------------
(* Calls *)

\* _submit and finalize first look at _worker_error and _accepting under _state_lock.
Enter(p, op, record, requested) ==
  /\ call[p] = Idle
  /\ op \in CallsOf[p]
  /\ ~workerError /\ accepting
  /\ accepting' = (op # "finalize")
  /\ call' = [call EXCEPT ![p] = [op |-> op, at |-> "checking", record |-> record,
                                  status |-> requested, before |-> Acknowledged]]
  /\ UNCHANGED <<queue, acknowledged, writerVars, database, crashed>>

Add(p, r) == TickOf[r] < ExpectedTickCount /\ Unused(r) /\ Enter(p, "add", r, None)
Flush(p) == Enter(p, "flush", None, None)
Finalize(p, requested) == Enter(p, "finalize", None, requested)

\* _put looks at both flags again, without the lock, before it waits for room.
Check(p) ==
  /\ call[p].at = "checking"
  /\ call' = [call EXCEPT ![p] =
                IF workerError \/ (call[p].op # "finalize" /\ ~accepting)
                THEN Idle ELSE [@ EXCEPT !.at = "putting"]]
  /\ UNCHANGED <<accepting, queue, acknowledged, writerVars, database, crashed>>

Put(p) ==
  /\ call[p].at = "putting"
  /\ Len(queue) < QueueCapacity
  /\ queue' = Append(queue, [op |-> call[p].op, by |-> p, record |-> call[p].record,
                             status |-> call[p].status])
  /\ IF call[p].op = "add"
     THEN /\ acknowledged' = [acknowledged EXCEPT ![p] = Append(@, call[p].record)]
          /\ call' = [call EXCEPT ![p] = Idle]
     ELSE /\ call' = [call EXCEPT ![p].at = "waiting"]
          /\ UNCHANGED acknowledged
  /\ UNCHANGED <<accepting, writerVars, database, crashed>>

QueueFull(p) ==
  /\ call[p].at = "putting"
  /\ Len(queue) = QueueCapacity
  /\ call' = [call EXCEPT ![p].at = "checking"]
  /\ UNCHANGED <<accepting, queue, acknowledged, writerVars, database, crashed>>

\* Mistake: _wait_for waits for the event alone.
ReturnWhenAnswered(p) ==
  /\ call[p].at = "waiting"
  /\ reply[p] # "none"
  /\ call[p].op = "finalize" /\ ~workerError => writer = "stopped"
  /\ call' = [call EXCEPT ![p] = Idle]
  /\ reply' = [reply EXCEPT ![p] = "none"]
  /\ UNCHANGED <<accepting, queue, acknowledged, writer, request, batch, ordinal, nextOrdinal,
                 workerError, database, crashed>>

\* _wait_for ends when the event is set, or a poll sees _worker_error; a successful
\* finalize() then joins the writer thread.
Return(p) ==
  /\ call[p].at = "waiting"
  /\ reply[p] # "none" \/ workerError
  /\ call[p].op = "finalize" /\ ~workerError => writer = "stopped"
  /\ call' = [call EXCEPT ![p] = Idle]
  /\ reply' = [reply EXCEPT ![p] = "none"]
  /\ UNCHANGED <<accepting, queue, acknowledged, writer, request, batch, ordinal, nextOrdinal,
                 workerError, database, crashed>>

-----------------------------------------------------------------------------
(* The writer thread *)

WriterUnchanged == UNCHANGED <<accepting, call, acknowledged, crashed>>

\* Mistake: a failed batch is dropped and the loop goes on.
WriterDropsBatch ==
  /\ writer' = "running"
  /\ reply' = IF request = None THEN reply ELSE [reply EXCEPT ![request.by] = "error"]
  /\ request' = None
  /\ batch' = {}
  /\ UNCHANGED <<workerError, ordinal, nextOrdinal, database, queue>>
  /\ WriterUnchanged

\* The exception handler of _writer_loop, up to the requests still in the queue.
WriterFails ==
  /\ writer' = "draining"
  /\ workerError' = TRUE
  /\ reply' = IF request = None THEN reply ELSE [reply EXCEPT ![request.by] = "error"]
  /\ request' = None
  /\ UNCHANGED <<batch, ordinal, nextOrdinal, database, queue>>
  /\ WriterUnchanged

Open ==
  /\ writer = "opening"
  /\ \/ DiskMayFail /\ WriterFails
     \/ /\ writer' = "running"
        /\ UNCHANGED <<request, batch, ordinal, nextOrdinal, workerError, reply, database, queue>>
        /\ WriterUnchanged

\* A communication record without an ordinal takes the next one of its tick.
Ordinal(r) == IF OrdinalOf[r] = None THEN nextOrdinal[TickOf[r]] ELSE OrdinalOf[r]

TakeRecord ==
  /\ writer = "running"
  /\ queue # <<>> /\ Head(queue).op = "add"
  /\ queue' = Tail(queue)
  /\ LET r == Head(queue).record IN
       /\ batch' = batch \union {r}
       /\ IF KindOf[r] = "communication"
          THEN /\ ordinal' = [ordinal EXCEPT ![r] = Ordinal(r)]
               /\ nextOrdinal' = [nextOrdinal EXCEPT ![TickOf[r]] = Max({@, Ordinal(r) + 1})]
          ELSE UNCHANGED <<ordinal, nextOrdinal>>
  /\ writer' = IF Cardinality(batch') >= BatchSize THEN "committing" ELSE "running"
  /\ UNCHANGED <<request, workerError, reply, database>>
  /\ WriterUnchanged

\* Mistake: requests overtake the records in front of them.
TakeRequestFirst ==
  /\ writer = "running"
  /\ \E i \in 1..Len(queue) :
       /\ queue[i].op # "add"
       /\ queue' = SubSeq(queue, 1, i - 1) \o SubSeq(queue, i + 1, Len(queue))
       /\ request' = queue[i]
  /\ writer' = "committing"
  /\ UNCHANGED <<batch, ordinal, nextOrdinal, workerError, reply, database>>
  /\ WriterUnchanged

TakeRequest ==
  /\ writer = "running"
  /\ queue # <<>> /\ Head(queue).op # "add"
  /\ queue' = Tail(queue)
  /\ request' = Head(queue)
  /\ writer' = "committing"
  /\ UNCHANGED <<batch, ordinal, nextOrdinal, workerError, reply, database>>
  /\ WriterUnchanged

\* The flush interval only counts when the queue is empty: get(timeout=0) still takes an item.
FlushInterval ==
  /\ writer = "running"
  /\ queue = <<>> /\ batch # {}
  /\ writer' = "committing"
  /\ UNCHANGED <<request, batch, ordinal, nextOrdinal, workerError, reply, queue, database>>
  /\ WriterUnchanged

Conflict(r, s) ==
  /\ r # s /\ KindOf[r] = KindOf[s] /\ TickOf[r] = TickOf[s]
  /\ \/ KindOf[r] = "tick"
     \/ KindOf[r] = "communication" /\ ordinal[r] = ordinal[s]

BatchIsStorable == \A r \in batch, s \in batch \union rows : ~Conflict(r, s)

BatchTicks == {TickOf[r] : r \in {s \in batch : KindOf[s] = "tick"}}

\* Mistake: the stored bounds become those of the last batch.
StoreBatchAlone ==
  /\ rows' = rows \union batch
  /\ IF BatchTicks = {} THEN UNCHANGED <<received, firstTick, lastTick>>
     ELSE /\ received' = received + Cardinality({r \in batch : KindOf[r] = "tick"})
          /\ firstTick' = Min(BatchTicks)
          /\ lastTick'  = Max(BatchTicks)
  /\ UNCHANGED status

StoreBatch ==
  /\ rows' = rows \union batch
  /\ IF BatchTicks = {} THEN UNCHANGED <<received, firstTick, lastTick>>
     ELSE /\ received' = received + Cardinality({r \in batch : KindOf[r] = "tick"})
          /\ firstTick' = IF firstTick = None THEN Min(BatchTicks) ELSE Min({firstTick, Min(BatchTicks)})
          /\ lastTick'  = IF lastTick = None THEN Max(BatchTicks) ELSE Max({lastTick, Max(BatchTicks)})
  /\ UNCHANGED status

\* flush_pending, then what the loop does with the request that asked for it, if any.
WriteBatch ==
  /\ writer = "committing"
  /\ \/ batch # {} /\ (DiskMayFail \/ ~BatchIsStorable) /\ WriterFails
     \/ /\ BatchIsStorable
        /\ StoreBatch
        /\ batch' = {}
        /\ writer' = IF request # None /\ request.op = "finalize" THEN "finalizing" ELSE "running"
        /\ request' = IF writer' = "finalizing" THEN request ELSE None
        /\ reply' = IF request # None /\ request' = None
                    THEN [reply EXCEPT ![request.by] = "ok"] ELSE reply
        /\ UNCHANGED <<ordinal, nextOrdinal, workerError, queue>>
        /\ WriterUnchanged

\* Mistake: the last tick stands for all of them.
LastTickArrived == lastTick = ExpectedTickCount - 1

TicksComplete == received = ExpectedTickCount /\ firstTick = 0 /\ lastTick = ExpectedTickCount - 1

\* Mistake: the default of None is stored as it is.
StatusAsAsked == request.status

\* SQLiteCaptureWriter.finalize: the status asked for, or what the stored ticks make it.
FinalStatus ==
  IF request.status # None THEN request.status
  ELSE IF TicksComplete THEN "COMPLETE" ELSE "INCOMPLETE"

\* Mistake: the writer goes on after finalize.
MarkFinalAndGoOn ==
  /\ writer = "finalizing"
  /\ FinalStatus # "IN_PROGRESS" /\ (FinalStatus = "COMPLETE" => TicksComplete)
  /\ status' = FinalStatus
  /\ reply' = [reply EXCEPT ![request.by] = "ok"]
  /\ request' = None
  /\ writer' = "running"
  /\ UNCHANGED <<rows, received, firstTick, lastTick, batch, ordinal, nextOrdinal,
                 workerError, queue>>
  /\ WriterUnchanged

MarkFinal ==
  /\ writer = "finalizing"
  /\ LET refused == FinalStatus = "IN_PROGRESS" \/ (FinalStatus = "COMPLETE" /\ ~TicksComplete)
     IN  \/ (DiskMayFail \/ refused) /\ WriterFails
         \/ /\ ~refused
            /\ status' = FinalStatus
            /\ reply' = [reply EXCEPT ![request.by] = "ok"]
            /\ request' = None
            /\ writer' = "stopped"
            /\ UNCHANGED <<rows, received, firstTick, lastTick, batch, ordinal, nextOrdinal,
                           workerError, queue>>
            /\ WriterUnchanged

\* _fail_queued_control_requests
DrainQueue ==
  /\ writer = "draining"
  /\ IF queue = <<>>
     THEN writer' = "stopped" /\ UNCHANGED <<queue, reply>>
     ELSE /\ queue' = Tail(queue)
          /\ reply' = IF Head(queue).op = "add" THEN reply
                      ELSE [reply EXCEPT ![Head(queue).by] = "error"]
          /\ UNCHANGED writer
  /\ UNCHANGED <<request, batch, ordinal, nextOrdinal, workerError, database>>
  /\ WriterUnchanged

-----------------------------------------------------------------------------
\* The process ends: all that is left is what SQLite committed.
Crash ==
  /\ MayCrash /\ ~crashed
  /\ crashed' = TRUE
  /\ writer' = "stopped" /\ queue' = <<>> /\ batch' = {} /\ request' = None
  /\ call' = [p \in Threads |-> Idle]
  /\ accepting' = FALSE
  /\ UNCHANGED <<acknowledged, ordinal, nextOrdinal, workerError, reply, database>>

Init ==
  /\ accepting = TRUE /\ workerError = FALSE /\ crashed = FALSE
  /\ queue = <<>> /\ batch = {} /\ rows = {}
  /\ call = [p \in Threads |-> Idle]
  /\ reply = [p \in Threads |-> "none"]
  /\ acknowledged = [p \in Threads |-> <<>>]
  /\ writer = "opening" /\ request = None
  /\ ordinal = [r \in Records |-> 0]
  /\ nextOrdinal = [t \in 0..ExpectedTickCount - 1 |-> 0]
  /\ received = 0 /\ firstTick = None /\ lastTick = None /\ status = "IN_PROGRESS"

Writer ==
  \/ Open \/ TakeRecord \/ TakeRequest \/ FlushInterval
  \/ WriteBatch \/ MarkFinal \/ DrainQueue

Progress(p) == Check(p) \/ Put(p) \/ QueueFull(p) \/ Return(p)

Caller(p) ==
  \/ \E r \in Records : Add(p, r)
  \/ Flush(p)
  \/ \E s \in RequestedStatuses : Finalize(p, s)
  \/ Progress(p)

\* Nothing is left to do: every call has returned and no new one can be made.
AllReturned ==
  /\ \A p \in Threads : call[p] = Idle
  /\ UNCHANGED vars

Next == Writer \/ (\E p \in Threads : Caller(p)) \/ Crash \/ AllReturned

\* Threads are scheduled: the writer runs, and a thread inside a call goes on with it.
Fairness ==
  /\ WF_vars(Writer)
  /\ \A p \in Threads : WF_vars(Progress(p))

Spec == Init /\ [][Next]_vars /\ Fairness

-----------------------------------------------------------------------------
(* Types and safety *)

Calls ==
  [op : {"idle", "add", "flush", "finalize"}, at : {"idle", "checking", "putting", "waiting"},
   record : Records \union {None}, status : Statuses \union {None}, before : SUBSET Records]
Items ==
  [op : {"add", "flush", "finalize"}, by : Threads, record : Records \union {None},
   status : Statuses \union {None}]

TypeOK ==
  /\ accepting \in BOOLEAN /\ workerError \in BOOLEAN /\ crashed \in BOOLEAN
  /\ queue \in Seq(Items)
  /\ call \in [Threads -> Calls]
  /\ reply \in [Threads -> {"none", "ok", "error"}]
  /\ writer \in {"opening", "running", "committing", "finalizing", "draining", "stopped"}
  /\ request \in Items \union {None}
  /\ batch \subseteq Records /\ rows \subseteq Records
  /\ ordinal \in [Records -> Nat]
  /\ nextOrdinal \in [0..ExpectedTickCount - 1 -> Nat]
  /\ received \in Nat
  /\ firstTick \in Nat \union {None} /\ lastTick \in Nat \union {None}
  /\ status \in Statuses
  /\ acknowledged \in [Threads -> Seq(Records)]

TickRows == {r \in rows : KindOf[r] = "tick"}

\* The counters finalization decides by describe the stored rows, after every batch, every
\* rollback and every crash.
MetadataMatchesRows ==
  /\ received = Cardinality(TickRows)
  /\ TickRows = {} => firstTick = None /\ lastTick = None
  /\ TickRows # {} =>
       /\ firstTick = Min({TickOf[r] : r \in TickRows})
       /\ lastTick = Max({TickOf[r] : r \in TickRows})

\* A capture is COMPLETE only when a fixed result is stored for every tick from zero through
\* expected_tick_count - 1, once: three counters are enough to know it.
CompleteMeansAllTicks ==
  status = "COMPLETE" =>
    /\ {TickOf[r] : r \in TickRows} = 0..ExpectedTickCount - 1
    /\ Cardinality(TickRows) = ExpectedTickCount

\* When flush() or finalize() succeeds, every record whose add_* call had returned, in any
\* thread, before that call began is committed.
BarriersHold ==
  \A p \in Threads :
    call[p].at = "waiting" /\ reply[p] = "ok" => call[p].before \subseteq rows

\* What is committed, also after a failed batch or a crash, is a prefix of what each thread
\* submitted: no record is stored when an older one of the same thread is not.
CommittedInOrder ==
  \A p \in Threads : \A i \in 1..Len(acknowledged[p]) : \A j \in 1..i :
    acknowledged[p][i] \in rows => acknowledged[p][j] \in rows

\* The status, once terminal, and everything stored with it never change again.
FinalizedIsFinal == [][status # "IN_PROGRESS" => UNCHANGED database]_vars

\* A finalized capture holds every record for which add_* returned: none is discarded.
NothingAcknowledgedIsLost == status \in TerminalStatuses => Acknowledged \subseteq rows

\* Every call of the builder returns or raises.
CallsReturn == \A p \in Threads : call[p] # Idle ~> call[p] = Idle
=============================================================================
