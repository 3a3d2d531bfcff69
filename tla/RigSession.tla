------------------------------ MODULE RigSession ------------------------------
(***************************************************************************)
(* A HostConnection in conversation with a rig that follows the protocol,  *)
(* and a caller that keeps calling service(): what must eventually happen. *)
(*                                                                         *)
(* HostConnection lets any message arrive at any time.  Here a message     *)
(* arrives because the rig sent it: an answer to a request, the Complete   *)
(* Test Response that follows the last accepted upload message, and the    *)
(* results of a run.  Faults happen at most MaxFaults times.               *)
(***************************************************************************)
EXTENDS HostConnection

CONSTANTS
  Faults,          \* among "serial", "failure", "reset", "timeout", "storage" and "silence"
  MaxFaults,       \* bound on how many faults happen
  RigRejects,      \* the request kinds the rig may reject
  ConfirmFirst,    \* Transport confirms a delivery before it hands over the answer
  CallerControls   \* the requests of its own the caller may make

ASSUME RigAssumption ==
  /\ Faults \subseteq {"serial", "failure", "reset", "timeout", "storage", "silence"}
  /\ MaxFaults \in Nat
  /\ RigRejects \subseteq RequestKinds
  /\ ConfirmFirst \in BOOLEAN
  /\ CallerControls \subseteq {"start", "abort", "early_abort", "reset"}

VARIABLES
  request,    \* the operation Transport carries to the rig, or NoOperation
  inbox,      \* the messages that have arrived and are not read
  rig,        \* [test, left: upload messages it still expects, sent: results, running]
  faults      \* faults that have happened

rigVars == <<request, inbox, rig, faults>>
sessionSpecVars == <<vars, rigVars>>

IdleRig == [test |-> None, left |-> 0, sent |-> 0, running |-> FALSE]

Fault(kind) ==
  /\ kind \in Faults
  /\ faults < MaxFaults
  /\ faults' = faults + 1

-----------------------------------------------------------------------------
(* The host *)

Submit == SubmitMessage /\ request' = pending' /\ UNCHANGED <<inbox, rig, faults>>

StorageRefuses(m) == m.type = "result" /\ ResultIsNext(m) /\ RefuseResult(m)

Read ==
  /\ inbox # <<>>
  /\ DrainMessage(Head(inbox))
  /\ inbox' = Tail(inbox)
  /\ IF StorageRefuses(Head(inbox)) THEN Fault("storage") ELSE UNCHANGED faults
  /\ UNCHANGED <<request, rig>>

\* Transport accepts a message whenever none is in flight.
Pass ==
  /\ \/ Processed \/ DrainEvent \/ EventsDrained \/ AdvanceWorkflow
     \/ inbox = <<>> /\ MessagesDrained
     \/ (~CanSubmit \/ inFlight) /\ NothingSubmitted
  /\ UNCHANGED rigVars

HostFault ==
  /\ \/ SerialFault /\ Fault("serial")
     \/ (ProcessFails \/ SubmitRefused) /\ Fault("failure")
     \/ ResponseTimeout /\ Fault("timeout")
  /\ UNCHANGED <<request, inbox, rig>>

\* A deadline passes for good when the rig has nothing more to say to the request.
TimesOut ==
  /\ request = NoOperation /\ inbox = <<>>
  /\ ResponseTimeout
  /\ UNCHANGED rigVars

Calls ==
  /\ \/ \E a \in Attempts, replace \in BOOLEAN : BindResultBuilder(a, replace)
     \/ \E a \in Attempts : QueueUpload(a)
     \/ "start" \in CallerControls /\ Start
     \/ "reset" \in CallerControls /\ ResetApplication
     \/ "abort" \in CallerControls /\ confirmed /\ Abort
     \/ "early_abort" \in CallerControls /\ ~confirmed /\ Abort
  /\ UNCHANGED rigVars

-----------------------------------------------------------------------------
(* The rig and the Transport between them *)

\* What the rig does with an accepted request, and with one it rejects.
Accepted(r) ==
  CASE r.kind = "configuration" ->
         [test |-> r.test, left |-> Len(SparseTicks[r.test]), sent |-> 0, running |-> FALSE]
    [] r.kind = "tick" -> [rig EXCEPT !.left = @ - 1]
    [] r.kind = "start" -> [rig EXCEPT !.running = TRUE]
    [] r.kind \in {"abort", "reset"} -> IdleRig
    [] OTHER -> rig

Rejected(r) == IF r.kind \in UploadKinds THEN IdleRig ELSE rig

Answer(r, outcome) == Response(r.kind, r.test, r.tick, outcome)

\* The whole upload has been accepted: its validation is reported without a request.
Validation(r, outcome) ==
  IF r.kind \in UploadKinds /\ Accepted(r).left = 0
  THEN <<Response("complete_test", r.test, None, outcome)>> ELSE <<>>

Replies(r) ==
  IF r.kind = "discovery" THEN {[say |-> <<SystemInfo(TRUE)>>, be |-> rig]}
  ELSE {[say |-> <<Answer(r, "success")>> \o Validation(r, "success"), be |-> Accepted(r)]}
       \union {[say |-> <<Answer(r, "success")>> \o Validation(r, o), be |-> IdleRig] :
                 o \in IF "complete_test" \in RigRejects /\ Validation(r, "success") # <<>>
                       THEN {"rejected"} ELSE {}}
       \union {[say |-> <<Answer(r, "rejected")>>, be |-> Rejected(r)] :
                 k \in {r.kind} \intersect RigRejects}

\* A message whose delivery the host was told had failed may still reach the rig.
Confirms ==
  IF ConfirmFirst /\ inFlight THEN DeliveryConfirmed
  ELSE TransportRuns(<<>>) /\ UNCHANGED <<inFlight, established>>

RigAnswers ==
  /\ request # NoOperation
  /\ request' = NoOperation
  /\ Confirms
  /\ \/ /\ \E reply \in Replies(request) :
             inbox' = inbox \o reply.say /\ rig' = reply.be
        /\ UNCHANGED faults
     \/ Fault("silence") /\ UNCHANGED <<inbox, rig>>

LateConfirmation ==
  /\ request = NoOperation
  /\ DeliveryConfirmed
  /\ UNCHANGED rigVars

RigSendsResult ==
  /\ established
  /\ rig.running
  /\ rig.sent < ExpectedTickCount[rig.test]
  /\ inbox' = Append(inbox, TestResult(rig.test, rig.sent))
  /\ rig' = [rig EXCEPT !.sent = @ + 1]
  /\ TransportRuns(<<>>)
  /\ UNCHANGED <<inFlight, established, request, faults>>

TransportFault ==
  \/ TransportFailure /\ request' \in {request, NoOperation} /\ Fault("failure")
     /\ (inFlight' => request' = request) /\ UNCHANGED <<inbox, rig>>
  \/ SessionReset /\ request' = NoOperation /\ inbox' = <<>> /\ Fault("reset") /\ UNCHANGED rig

NewSession == SessionEstablished /\ UNCHANGED rigVars

-----------------------------------------------------------------------------
SessionInit ==
  /\ Init
  /\ request = NoOperation
  /\ inbox = <<>>
  /\ rig = IdleRig
  /\ faults = 0

Serve == Service /\ UNCHANGED rigVars

SessionNext ==
  \/ Serve \/ Pass \/ Submit \/ Read \/ TimesOut \/ HostFault
  \/ Calls
  \/ RigAnswers \/ LateConfirmation \/ RigSendsResult \/ TransportFault \/ NewSession

\* The caller loops over service(); sessions are set up, Transport retransmits until a
\* message is confirmed, the rig answers and runs; time passes.  What Transport and the rig
\* do shows only while service() is inside Transport, again and again: strong fairness.
SessionFairness ==
  /\ WF_sessionSpecVars(Serve)
  /\ WF_sessionSpecVars(Pass \/ Submit \/ Read)
  /\ SF_sessionSpecVars(RigAnswers \/ LateConfirmation \/ RigSendsResult \/ NewSession)
  /\ SF_sessionSpecVars(TimesOut)

SessionSpec == SessionInit /\ [][SessionNext]_sessionSpecVars /\ SessionFairness

-----------------------------------------------------------------------------
(* Properties *)

\* Every request ends: by its answer, by its deadline or by the failure of the workflow.
\* The caller is never left in front of an operation that nothing can finish.
RequestsEnd == ~NothingPending ~> NothingPending

\* Every established Transport session begins with discovery: it is confirmed, its
\* discovery is under way, or it has ended.
SessionsAreIdentified ==
  established ~> (confirmed \/ pending.kind = "discovery" \/ ~established)

\* With a cooperative rig and no fault, a run that starts by itself or was started ends with
\* its results reported complete and, if its builder was bound before the first of them,
\* with every tick 0..N-1 captured.
RunsComplete ==
  \A a \in Attempts :
    LET runs == activeUpload = a /\ (started \/ StartMode[a] = "IMMEDIATE")
    IN  /\ runs ~> workflow = "RESULTS_COMPLETE"
        /\ runs /\ builder = a /\ nextResultTick = 0
             ~> captured[a] = [i \in 1..ExpectedTickCount[a] |-> i - 1]

\* The workflow never fails when nothing goes wrong.
NeverFailsByItself == workflow # "FAILED"

\* Once all the results of a run are there and no request is outstanding, the connection
\* says so: a caller that waits for results_complete is let go.
ResultsAreReported ==
  started /\ NothingPending /\ nextResultTick = ExpectedTickCount[activeUpload] =>
    workflow = "RESULTS_COMPLETE"
=============================================================================
