--------------------------- MODULE RigSessionProofs ---------------------------
(***************************************************************************)
(* A HostConnection in conversation with a cooperative rig never fails by  *)
(* itself: for every set of attempts, every plan and whatever the caller   *)
(* asks, as long as nothing goes wrong on the way.  Nor does the end of a  *)
(* run go unreported, unless the rig refuses to stop it.                   *)
(*                                                                         *)
(* The argument is about what is underway: a request with its delivery, or *)
(* the messages that have arrived and are not read, which are the results  *)
(* the host expects next and, somewhere among them, at most one answer.    *)
(***************************************************************************)
EXTENDS RigSession, PlanProofs

\* No fault happens, the rig rejects no more than a request that changes the run, and
\* Transport reports a delivery before it hands over the answer.
NothingGoesWrong ==
  /\ MaxFaults = 0
  /\ RigRejects \subseteq {"start", "abort", "reset"}
  /\ ConfirmFirst

-----------------------------------------------------------------------------
(* The conversation *)

\* What the rig may say to a request.
AnswersTo(r) ==
  IF r.kind = "discovery" THEN {SystemInfo(TRUE)}
  ELSE {Response(r.kind, r.test, r.tick, o) :
          o \in {"success"} \union (IF r.kind \in {"start", "abort", "reset"} \intersect RigRejects
                                   THEN {"rejected"} ELSE {})}

\* The result that is read after n others.
NextResult(n) == TestResult(activeUpload, nextResultTick + n)

\* The pending operation has been answered.
Answered == ~NothingPending /\ pending.submitted /\ request = NoOperation

Ends(m) == pending.kind \in {"abort", "reset"} /\ m.outcome = "success"

\* The rig runs when it has said m.
RunsAfter(m) ==
  \/ pending.kind = "start" /\ m.outcome = "success"
  \/ pending.kind \in {"abort", "reset"} /\ m.outcome = "rejected" /\ started

OnlyResults ==
  /\ \A i \in 1..Len(inbox) : inbox[i] = NextResult(i - 1)
  /\ inbox # <<>> \/ rig.running => started
  /\ rig.running => rig.sent = nextResultTick + Len(inbox)
  /\ accepted => rig.test = activeUpload

TickIsExpected ==
  pending.kind = "tick" => rig.left = Len(uploadOperations) + 1 /\ rig.test = activeUpload

\* The answer is followed by nothing, by the report of the validation, or by results.
FollowedBy(k) ==
  \/ Len(inbox) = k /\ (pending.kind \in UploadKinds => uploadOperations # <<>>)
  \/ /\ pending.kind \in UploadKinds /\ uploadOperations = <<>>
     /\ Len(inbox) = k + 1
     /\ inbox[k + 1] = Response("complete_test", pending.test, None, "success")
  \/ /\ RunsAfter(inbox[k])
     /\ \A i \in k + 1..Len(inbox) : inbox[i] = NextResult(i - 2)

AnsweredAt(k) ==
  /\ inbox[k] \in AnswersTo(pending)
  /\ \A i \in 1..k - 1 : inbox[i] = NextResult(i - 1)
  /\ k > 1 => started
  /\ FollowedBy(k)
  /\ rig.running => RunsAfter(inbox[k]) /\ rig.sent = nextResultTick + Len(inbox) - 1
  /\ Ends(inbox[k]) => rig = IdleRig
  /\ accepted => Ends(inbox[k]) \/ rig.test = activeUpload
  /\ pending.kind \in UploadKinds => rig.left = Len(uploadOperations)
  /\ pending.kind \in UploadKinds \union {"complete_test"} => rig.test = activeUpload

Conversation ==
  IF Answered THEN \E k \in 1..Len(inbox) : AnsweredAt(k) ELSE OnlyResults /\ TickIsExpected

\* A request on its way has not been confirmed; one that has been is confirmed by one event.
OneDelivery ==
  /\ \A i \in 1..Len(events) :
       \/ events[i] = "SESSION_ESTABLISHED"
       \/ events[i] = "DELIVERY_CONFIRMED" /\ deliveryPending /\ ~inFlight
  /\ \A i, j \in 1..Len(events) :
       events[i] = "DELIVERY_CONFIRMED" /\ events[j] = "DELIVERY_CONFIRMED" => i = j
  /\ IF request = NoOperation THEN ~inFlight
     ELSE inFlight /\ deliveryPending /\ request = pending /\ pending.kind # "complete_test"

\* A queue is what is left of a plan, the whole of it until its configuration is pending.
HostIsWell ==
  /\ ~closed
  /\ workflow # "FAILED"
  /\ pending.kind \in {"abort", "reset"} => pending.restore # "FAILED"
  /\ ~pending.received /\ pending.outcome = "success"
  /\ pending.kind = "complete_test" => pending.submitted
  /\ ~started => nextResultTick = 0
  /\ pending.kind = "configuration" => Len(uploadOperations) = Len(SparseTicks[activeUpload])
  /\ uploadOperations # <<>> /\ pending.kind \notin UploadKinds =>
       Len(uploadOperations) = Len(UploadTicks(activeUpload))

RigFollows ==
  /\ rig \in [test : {None, activeUpload}, left : Nat, sent : Nat, running : BOOLEAN]
  /\ rig.running => rig.test # None
  /\ ~rig.running => rig.sent = 0

TalkInv ==
  /\ faults = 0 /\ inbox \in Seq(Messages)
  /\ HostIsWell /\ RigFollows /\ OneDelivery /\ Conversation

\* What holds of the connection alone.
HostInv == Grounds /\ PlanInv /\ SessionInv

-----------------------------------------------------------------------------
(* Facts *)

LEMMA NoFaultHappens ==
  ASSUME NothingGoesWrong, TalkInv, NEW kind
  PROVE  ~Fault(kind)
BY DEF NothingGoesWrong, TalkInv, Fault

LEMMA PendingFacts ==
  ASSUME HostInv
  PROVE  /\ pending \in Operation
         /\ pending.kind = "none" <=> NothingPending
         /\ NothingPending => pending.submitted
         /\ deliveryPending => pending.submitted /\ ~pending.armed /\ ~NothingPending
         /\ pending.armed => pending.submitted
         /\ activeUpload \in Tests /\ nextResultTick \in Nat
         /\ uploadOperations \in Seq(PlannedMessages)
         /\ events \in Seq(EventTypes)
<1>1. TypeInv /\ DeliveryInv
  BY DEF HostInv, Grounds
<1>2. NothingPending => pending.submitted /\ pending.kind = "none"
  BY NoOperationTypes DEF NothingPending
<1>3. pending.kind = "none" => NothingPending
  BY <1>1 DEF NothingPending, TypeInv, Types, PendingIsSound
<1>4. QED
  BY <1>1, <1>2, <1>3 DEF TypeInv, Types, SessionTypes, PlanIsFresh, PendingIsSound,
     TransportTypes, DeliveryInv, Waits, DeliveryWait

\* An operation that was not handed to Transport has nothing on its way.
LEMMA NothingOnItsWay ==
  ASSUME HostInv, TalkInv, NothingPending \/ ~pending.submitted
  PROVE  /\ request = NoOperation /\ ~inFlight /\ ~deliveryPending
         /\ OnlyResults /\ TickIsExpected
<1>1. ~deliveryPending
  BY PendingFacts
<1>2. request = NoOperation /\ ~inFlight
  BY <1>1 DEF TalkInv, OneDelivery
<1>3. ~Answered
  BY DEF Answered
<1>4. QED
  BY <1>1, <1>2, <1>3 DEF TalkInv, Conversation

LEMMA ResultsNeedARun ==
  ASSUME HostInv, TalkInv, OnlyResults, ~started
  PROVE  inbox = <<>> /\ ~rig.running /\ rig.sent = 0 /\ nextResultTick = 0
BY DEF TalkInv, OnlyResults, RigFollows, HostIsWell

LEMMA TailFacts ==
  ASSUME NEW S, NEW s \in Seq(S), s # <<>>
  PROVE  /\ Len(s) \in Nat \ {0} /\ Head(s) = s[1] /\ Head(s) \in S
         /\ Tail(s) \in Seq(S) /\ Len(Tail(s)) = Len(s) - 1
         /\ \A i \in 1..Len(s) - 1 : Tail(s)[i] = s[i + 1]
OBVIOUS

LEMMA AtMostOne ==
  ASSUME NEW S, NEW v \in S, NEW s, s = <<>> \/ s = <<v>>
  PROVE  s \in Seq(S)
<1>1. <<>> \in Seq(S) /\ <<v>> \in Seq(S)
  OBVIOUS
<1>2. QED
  BY <1>1

-----------------------------------------------------------------------------
(* Steps that leave the conversation alone *)

LEMMA SameResults ==
  ASSUME OnlyResults, UNCHANGED <<inbox, rig, activeUpload, accepted, started, nextResultTick>>
  PROVE  OnlyResults'
BY DEF OnlyResults, NextResult

LEMMA SameTalk ==
  ASSUME HostIsWell, RigFollows, Conversation,
         pending'.kind = pending.kind, pending'.test = pending.test,
         pending'.tick = pending.tick, pending'.submitted = pending.submitted,
         pending'.received = pending.received, pending'.outcome = pending.outcome,
         pending'.restore = pending.restore, NothingPending' = NothingPending,
         UNCHANGED <<uploadOperations, activeUpload, accepted, started, nextResultTick, closed,
                     request, inbox, rig>>,
         workflow' # "FAILED"
  PROVE  HostIsWell' /\ RigFollows' /\ Conversation'
<1>1. HostIsWell' /\ RigFollows'
  BY DEF HostIsWell, RigFollows
<1>2. Answered' = Answered
  BY DEF Answered
<1>3. CASE Answered
  <2>1. PICK k \in 1..Len(inbox) : AnsweredAt(k)
    BY <1>3 DEF Conversation
  <2>2. AnswersTo(pending)' = AnswersTo(pending)
    BY DEF AnswersTo
  <2>3. AnsweredAt(k)'
    BY <2>1, <2>2 DEF AnsweredAt, FollowedBy, RunsAfter, Ends, NextResult
  <2>4. QED
    BY <1>1, <1>2, <1>3, <2>1, <2>3 DEF Conversation
<1>4. CASE ~Answered
  <2>1. OnlyResults' /\ TickIsExpected'
    BY <1>4, SameResults DEF Conversation, TickIsExpected
  <2>2. QED
    BY <1>1, <1>2, <1>4, <2>1 DEF Conversation
<1>5. QED
  BY <1>3, <1>4

\* Nothing that the conversation is about changes.
LEMMA StillTalk ==
  ASSUME TalkInv,
         UNCHANGED <<pending, deliveryPending, workflow, uploadOperations, activeUpload, accepted,
                     started, nextResultTick, closed, inFlight, events, rigVars>>
  PROVE  TalkInv'
<1>1. HostIsWell' /\ RigFollows' /\ Conversation'
  BY SameTalk DEF TalkInv, HostIsWell, NothingPending, rigVars
<1>2. OneDelivery'
  BY DEF TalkInv, OneDelivery, rigVars
<1>3. QED
  BY <1>1, <1>2 DEF TalkInv, rigVars

\* An operation takes its place that is not handed to Transport yet.
LEMMA NextOperationTalk ==
  ASSUME HostInv, TalkInv, NothingPending, ~pending'.submitted, HostIsWell', TickIsExpected',
         UNCHANGED <<deliveryPending, activeUpload, accepted, started, nextResultTick, inFlight,
                     events, rigVars>>
  PROVE  TalkInv'
<1>1. OnlyResults /\ request = NoOperation /\ ~inFlight
  BY NothingOnItsWay
<1>2. OnlyResults' /\ ~Answered'
  BY <1>1, SameResults DEF rigVars, Answered
<1>3. RigFollows'
  BY DEF TalkInv, RigFollows, rigVars
<1>4. OneDelivery'
  BY <1>1 DEF TalkInv, OneDelivery, rigVars
<1>5. QED
  BY <1>2, <1>3, <1>4 DEF TalkInv, Conversation, rigVars

-----------------------------------------------------------------------------
(* Where a plan is *)

LEMMA PlannedOperation ==
  ASSUME NEW a \in Attempts
  PROVE  /\ Len(SparseTicks[a]) \in Nat /\ Len(UploadTicks(a)) = Len(SparseTicks[a]) + 1
         /\ UploadPlan(a) \in Seq(PlannedMessages) /\ Len(UploadPlan(a)) = Len(UploadTicks(a))
         /\ \A i \in 1..Len(UploadTicks(a)) :
              /\ UploadPlan(a)[i].kind = IF i = 1 THEN "configuration" ELSE "tick"
              /\ ~UploadPlan(a)[i].submitted /\ ~UploadPlan(a)[i].received
              /\ UploadPlan(a)[i].outcome = "success"
<1>1. SparseTicks[a] \in Seq(Nat)
  BY ConnectionAssumption
<1>2. Len(UploadTicks(a)) = Len(SparseTicks[a]) + 1
  BY <1>1 DEF UploadTicks
<1>3. \A i \in 1..Len(UploadTicks(a)) :
        /\ UploadPlan(a)[i].kind = IF i = 1 THEN "configuration" ELSE "tick"
        /\ ~UploadPlan(a)[i].submitted /\ ~UploadPlan(a)[i].received
        /\ UploadPlan(a)[i].outcome = "success"
  BY DEF UploadPlan, NewOperation
<1>4. QED
  BY <1>1, <1>2, <1>3, PlanFacts

\* What is next in the queue is a message of the plan, and its configuration only if the
\* whole plan is queued.
LEMMA QueueHead ==
  ASSUME HostInv, uploadOperations # <<>>
  PROVE  /\ activeUpload \in Attempts
         /\ Len(uploadOperations) \in 1..Len(UploadTicks(activeUpload))
         /\ Head(uploadOperations).kind = IF Len(uploadOperations) = Len(UploadTicks(activeUpload))
                                          THEN "configuration" ELSE "tick"
         /\ ~Head(uploadOperations).submitted /\ ~Head(uploadOperations).received
         /\ Head(uploadOperations).outcome = "success"
         /\ Len(Tail(uploadOperations)) = Len(uploadOperations) - 1
<1>1. Uploading
  BY DEF Uploading
<1>2. activeUpload \in Attempts
  BY <1>1, UploadingIsActive DEF HostInv
<1>3. QueuedIsEnd(activeUpload, uploadOperations)
  BY <1>1 DEF HostInv, PlanInv, Position
<1> DEFINE N == Len(UploadTicks(activeUpload))
           L == Len(uploadOperations)
<1>4. L \in Nat \ {0} /\ Head(uploadOperations) = uploadOperations[1]
      /\ Len(Tail(uploadOperations)) = L - 1
  BY PendingFacts, TailFacts
<1>5. N \in Nat /\ L <= N
  BY <1>2, <1>3, PlannedOperation DEF QueuedIsEnd
<1>6. uploadOperations[1] = UploadPlan(activeUpload)[N - L + 1]
  BY <1>3, <1>4 DEF QueuedIsEnd
<1>7. N - L + 1 \in 1..N /\ (N - L + 1 = 1 <=> L = N)
  BY <1>4, <1>5
<1> HIDE DEF N, L
<1>8. /\ UploadPlan(activeUpload)[N - L + 1].kind = IF L = N THEN "configuration" ELSE "tick"
      /\ ~UploadPlan(activeUpload)[N - L + 1].submitted
      /\ ~UploadPlan(activeUpload)[N - L + 1].received
      /\ UploadPlan(activeUpload)[N - L + 1].outcome = "success"
  BY <1>2, <1>7, PlannedOperation DEF N
<1>9. QED
  BY <1>2, <1>4, <1>5, <1>6, <1>8 DEF N, L

LEMMA NotFailed ==
  ASSUME NEW op \in Operation, op.kind # "none", Activate(op)
  PROVE  pending' = op /\ workflow' # "FAILED"
BY ActivateWorkflow DEF SettledStates

LEMMA DiscoveryOperation ==
  LET op == NewOperation("discovery", None, None)
  IN  /\ op \in Operation /\ op.kind = "discovery"
      /\ ~op.submitted /\ ~op.received /\ op.outcome = "success"
<1>1. None \in Tests /\ None \in Ticks /\ "discovery" \in Kinds
  BY DEF Tests, Ticks, Kinds
<1>2. QED
  BY <1>1, NewOperationTypes DEF NewOperation

-----------------------------------------------------------------------------
(* The workflow advances, and the caller asks *)

LEMMA AdvanceTalk ==
  ASSUME HostInv, TalkInv, AdvanceWith(uploadOperations),
         UNCHANGED <<deliveryPending, activeUpload, accepted, started, nextResultTick, closed,
                     inFlight, events, rigVars>>
  PROVE  TalkInv'
<1>1. CASE UNCHANGED <<pending, workflow, uploadOperations>>
  BY <1>1, StillTalk
<1>2. CASE /\ NothingPending /\ uploadOperations # <<>>
           /\ Activate(Head(uploadOperations)) /\ uploadOperations' = Tail(uploadOperations)
  <2> DEFINE op == Head(uploadOperations)
  <2>1. op \in Operation /\ op.kind \in UploadKinds /\ op.kind # "none"
    BY <1>2, PendingFacts, SubsequenceTypes DEF PlannedMessages, UploadKinds
  <2>2. pending' = op /\ workflow' # "FAILED"
    BY <1>2, <2>1, NotFailed
  <2>3. pending.kind \notin UploadKinds
    BY <1>2, PendingFacts DEF UploadKinds
  <2>4. Len(uploadOperations) = Len(UploadTicks(activeUpload))
    BY <1>2, <2>3 DEF TalkInv, HostIsWell
  <2>5. /\ activeUpload \in Attempts
        /\ op.kind = "configuration" /\ ~op.submitted /\ ~op.received /\ op.outcome = "success"
        /\ Len(uploadOperations') = Len(SparseTicks[activeUpload])
    BY <1>2, <2>4, QueueHead, PlannedOperation
  <2> HIDE DEF op
  <2>6. HostIsWell' /\ TickIsExpected'
    BY <2>2, <2>5 DEF TalkInv, HostIsWell, TickIsExpected, UploadKinds
  <2>7. QED
    BY <1>2, <2>2, <2>5, <2>6, NextOperationTalk
<1>3. CASE /\ NothingPending /\ Activate(NewOperation("discovery", None, None))
           /\ uploadOperations' = uploadOperations
  <2> DEFINE op == NewOperation("discovery", None, None)
  <2>1. op \in Operation /\ op.kind = "discovery" /\ ~op.submitted /\ ~op.received
        /\ op.outcome = "success"
    BY DiscoveryOperation
  <2>2. pending' = op /\ workflow' # "FAILED"
    <3>1. Activate(op)
      BY <1>3
    <3> HIDE DEF op
    <3>2. QED
      BY <2>1, <3>1, NotFailed
  <2>3. pending.kind \notin UploadKinds
    BY <1>3, PendingFacts DEF UploadKinds
  <2> HIDE DEF op
  <2>4. HostIsWell' /\ TickIsExpected'
    BY <1>3, <2>1, <2>2, <2>3 DEF TalkInv, HostIsWell, TickIsExpected, UploadKinds
  <2>5. QED
    BY <1>3, <2>1, <2>2, <2>4, NextOperationTalk
<1>4. QED
  BY <1>1, <1>2, <1>3 DEF AdvanceWith

LEMMA RequestTalk ==
  ASSUME HostInv, TalkInv, NEW op, Requests(op), ~op.submitted, ~op.received,
         op.outcome = "success", UNCHANGED rigVars
  PROVE  TalkInv'
<1>1. /\ op \in Operation /\ op.kind \in {"start", "abort", "reset"} /\ NothingPending
      /\ op.kind \in {"abort", "reset"} => op.restore = workflow
      /\ Activate(op)
      /\ UNCHANGED <<deliveryPending, uploadOperations, activeUpload, accepted, started,
                     nextResultTick, inFlight, events, closed>>
  BY DEF Requests, Request, transactionVars, transportVars, controlVars
<1>2. pending' = op /\ workflow' # "FAILED"
  BY <1>1, NotFailed
<1>3. pending.kind \notin UploadKinds
  BY <1>1, PendingFacts DEF UploadKinds
<1>4. HostIsWell' /\ TickIsExpected'
  BY <1>1, <1>2, <1>3 DEF TalkInv, HostIsWell, TickIsExpected, UploadKinds
<1>5. QED
  BY <1>1, <1>2, <1>4, NextOperationTalk

LEMMA CallTalk ==
  ASSUME HostInv, TalkInv, Start \/ Abort \/ ResetApplication, UNCHANGED rigVars
  PROVE  TalkInv'
<1>1. PICK op : Requests(op)
  BY RequestShape DEF HostInv, Grounds
<1>2. pending' = op
  BY <1>1 DEF Requests, Request, Activate
<1>3. ~pending'.submitted /\ ~pending'.received /\ pending'.outcome = "success"
  <2>1. CASE Start
    BY <2>1 DEF Start, Request, Activate, NewOperation
  <2>2. CASE Abort
    BY <2>2 DEF Abort, Request, Activate, NewOperation
  <2>3. CASE ResetApplication
    BY <2>3 DEF ResetApplication, Request, Activate, NewOperation
  <2>4. QED
    BY <2>1, <2>2, <2>3
<1>4. QED
  BY <1>1, <1>2, <1>3, RequestTalk

LEMMA QueueTalk ==
  ASSUME HostInv, TalkInv, NEW a \in Attempts, QueueUpload(a), UNCHANGED rigVars
  PROVE  TalkInv'
<1>1. /\ activeUpload = None /\ uploadOperations = <<>>
      /\ NothingPending \/ pending.kind = "discovery"
      /\ AdvanceWith(UploadPlan(a))
      /\ activeUpload' = a /\ ~accepted' /\ ~started' /\ nextResultTick' = 0
      /\ UNCHANGED <<deliveryPending, inFlight, events, closed>>
  BY DEF QueueUpload, transportVars, controlVars
<1>2. ~accepted /\ ~started
  BY <1>1 DEF HostInv, Grounds, OwnerInv, PhasesAgree
<1>3. RigFollows' /\ ~rig.running /\ rig.test = None
  BY <1>1 DEF TalkInv, RigFollows, rigVars
<1>4. /\ Len(SparseTicks[a]) \in Nat /\ Len(UploadTicks(a)) = Len(SparseTicks[a]) + 1
      /\ UploadPlan(a) \in Seq(PlannedMessages)
      /\ Len(UploadPlan(a)) = Len(UploadTicks(a)) /\ UploadPlan(a) # <<>>
  BY PlannedOperation, PlanTypes
<1>5. OneDelivery' /\ (request # NoOperation => UNCHANGED pending)
  <2>1. request # NoOperation => ~NothingPending
    BY DEF TalkInv, OneDelivery, NothingPending
  <2>2. UNCHANGED pending \/ NothingPending
    BY <1>1 DEF AdvanceWith
  <2>3. QED
    BY <1>1, <2>1, <2>2 DEF TalkInv, OneDelivery, rigVars
<1>6. CASE NothingPending /\ pending' # pending
  <2>1. inbox = <<>> /\ request = NoOperation
    BY <1>2, <1>6, NothingOnItsWay, ResultsNeedARun
  <2>2. OnlyResults'
    BY <1>1, <1>3, <2>1, TailFacts DEF OnlyResults, rigVars
  <2>3. ~pending'.submitted /\ HostIsWell' /\ TickIsExpected'
    <3>1. CASE Activate(Head(UploadPlan(a))) /\ uploadOperations' = Tail(UploadPlan(a))
      <4> DEFINE op == Head(UploadPlan(a))
      <4>1. op = UploadPlan(a)[1] /\ 1 \in 1..Len(UploadTicks(a))
            /\ Len(Tail(UploadPlan(a))) = Len(SparseTicks[a])
        BY <1>4, TailFacts
      <4>2. op.kind = "configuration" /\ ~op.submitted /\ ~op.received /\ op.outcome = "success"
        BY <4>1, PlannedOperation
      <4>3. op \in Operation
        BY <1>4, SubsequenceTypes DEF PlannedMessages
      <4> HIDE DEF op
      <4>4. pending' = op /\ workflow' # "FAILED"
        <5>1. Activate(op)
          BY <3>1 DEF op
        <5>2. QED
          BY <4>2, <4>3, <5>1, NotFailed
      <4>5. QED
        BY <1>1, <3>1, <4>1, <4>2, <4>4 DEF TalkInv, HostIsWell, TickIsExpected, UploadKinds
    <3>2. CASE Activate(NewOperation("discovery", None, None))
               /\ uploadOperations' = UploadPlan(a)
      <4> DEFINE op == NewOperation("discovery", None, None)
      <4>1. op \in Operation /\ op.kind = "discovery" /\ ~op.submitted /\ ~op.received
            /\ op.outcome = "success"
        BY DiscoveryOperation
      <4>2. Activate(op)
        BY <3>2
      <4> HIDE DEF op
      <4>3. pending' = op /\ workflow' # "FAILED"
        BY <4>1, <4>2, NotFailed
      <4>4. QED
        BY <1>1, <1>4, <3>2, <4>1, <4>3 DEF TalkInv, HostIsWell, TickIsExpected, UploadKinds
    <3>3. QED
      BY <1>1, <1>6, <3>1, <3>2 DEF AdvanceWith
  <2>4. ~Answered'
    BY <2>3 DEF Answered, NothingPending, NoOperation, NewOperation
  <2>5. QED
    BY <1>3, <1>5, <2>2, <2>3, <2>4 DEF TalkInv, Conversation, rigVars
<1>7. CASE UNCHANGED <<pending, workflow>> /\ uploadOperations' = UploadPlan(a)
  <2>1. pending.kind \notin UploadKinds \union {"tick", "start", "abort", "reset", "complete_test"}
    BY <1>1, PendingFacts DEF UploadKinds
  <2>2. HostIsWell' /\ TickIsExpected'
    BY <1>1, <1>4, <1>7, <2>1 DEF TalkInv, HostIsWell, TickIsExpected, UploadKinds
  <2>3. Answered' = Answered
    BY <1>7 DEF Answered, NothingPending, rigVars
  <2>4. CASE ~Answered
    <3>1. inbox = <<>>
      BY <1>2, <2>4, ResultsNeedARun DEF TalkInv, Conversation
    <3>2. OnlyResults'
      BY <1>1, <1>3, <3>1, TailFacts DEF OnlyResults, rigVars
    <3>3. QED
      BY <1>3, <1>5, <2>2, <2>3, <2>4, <3>2 DEF TalkInv, Conversation, rigVars
  <2>5. CASE Answered
    <3>1. PICK k \in 1..Len(inbox) : AnsweredAt(k)
      BY <2>5 DEF TalkInv, Conversation
    <3>2. k = 1 /\ ~RunsAfter(inbox[k]) /\ ~Ends(inbox[k]) /\ Len(inbox) = 1
      <4>1. k \in Nat \ {0} /\ ~(k > 1)
        BY <1>2, <3>1 DEF AnsweredAt
      <4>2. ~RunsAfter(inbox[k]) /\ ~Ends(inbox[k])
        BY <2>1 DEF RunsAfter, Ends
      <4>3. Len(inbox) = k
        BY <2>1, <3>1, <4>2 DEF AnsweredAt, FollowedBy
      <4>4. QED
        BY <4>1, <4>2, <4>3
    <3>3. AnswersTo(pending)' = AnswersTo(pending)
      BY <1>7 DEF AnswersTo
    <3>4. AnsweredAt(1)'
      BY <1>1, <1>3, <1>7, <2>1, <3>1, <3>2, <3>3 DEF AnsweredAt, FollowedBy, Ends, rigVars
    <3>5. QED
      BY <1>3, <1>5, <2>2, <2>3, <2>5, <3>2, <3>4 DEF TalkInv, Conversation, rigVars
  <2>6. QED
    BY <2>4, <2>5
<1>8. \/ UNCHANGED <<pending, workflow>> /\ uploadOperations' = UploadPlan(a)
      \/ NothingPending /\ pending' # pending
  <2>1. /\ NewOperation("discovery", None, None).kind = "discovery"
        /\ Head(UploadPlan(a)).kind # "none"
    BY <1>4, SubsequenceTypes DEF NewOperation, PlannedMessages, UploadKinds
  <2>2. NothingPending => pending.kind = "none"
    BY PendingFacts
  <2>3. QED
    BY <1>1, <2>1, <2>2 DEF AdvanceWith, Activate
<1>9. QED
  BY <1>6, <1>7, <1>8

-----------------------------------------------------------------------------
(* Transport and the host *)

LEMMA SubmitTalk ==
  ASSUME HostInv, TalkInv, Submit
  PROVE  TalkInv'
<1>1. /\ ~pending.submitted /\ ~deliveryPending
      /\ pending' = [pending EXCEPT !.submitted = TRUE] /\ request' = pending'
      /\ deliveryPending' /\ inFlight'
      /\ UNCHANGED <<workflow, uploadOperations, activeUpload, accepted, started, nextResultTick,
                     closed, events, inbox, rig, faults>>
  BY DEF Submit, SubmitMessage, CanSubmit, transactionVars
<1>2. OnlyResults /\ TickIsExpected /\ ~NothingPending
  BY <1>1, NothingOnItsWay, PendingFacts
<1>3. /\ pending'.kind = pending.kind /\ pending'.received = pending.received
      /\ pending'.outcome = pending.outcome /\ pending'.restore = pending.restore
      /\ pending'.submitted /\ pending.kind # "none"
  BY <1>1, <1>2, PendingFacts DEF Operation
<1>4. request' # NoOperation
  BY <1>1, <1>3, NoOperationTypes
<1>5. OnlyResults'
  BY <1>1, <1>2, SameResults
<1>6. TickIsExpected' /\ ~Answered'
  BY <1>1, <1>2, <1>3, <1>4 DEF TickIsExpected, Answered
<1>7. HostIsWell' /\ RigFollows'
  BY <1>1, <1>3 DEF TalkInv, HostIsWell, RigFollows
<1>8. OneDelivery'
  BY <1>1, <1>3, <1>4 DEF TalkInv, OneDelivery, HostIsWell
<1>9. QED
  BY <1>1, <1>5, <1>6, <1>7, <1>8 DEF TalkInv, Conversation

LEMMA NewSessionTalk ==
  ASSUME HostInv, TalkInv, NewSession
  PROVE  TalkInv'
<1>1. /\ events' = events \o <<"SESSION_ESTABLISHED">>
      /\ UNCHANGED <<pending, deliveryPending, workflow, uploadOperations, activeUpload, accepted,
                     started, nextResultTick, closed, inFlight, rigVars>>
  BY DEF NewSession, SessionEstablished, TransportRuns, sessionVars, transactionVars, controlVars
<1>2. /\ Len(events) \in Nat /\ Len(events') = Len(events) + 1
      /\ \A i \in 1..Len(events) : events'[i] = events[i]
      /\ events'[Len(events) + 1] = "SESSION_ESTABLISHED"
  BY <1>1, PendingFacts
<1>3. OneDelivery'
  BY <1>1, <1>2 DEF TalkInv, OneDelivery, rigVars
<1>4. HostIsWell' /\ RigFollows' /\ Conversation'
  BY <1>1, SameTalk DEF TalkInv, HostIsWell, NothingPending, rigVars
<1>5. QED
  BY <1>1, <1>3, <1>4 DEF TalkInv, rigVars

LEMMA EventTalk ==
  ASSUME HostInv, TalkInv, DrainEvent, UNCHANGED rigVars
  PROVE  TalkInv'
<1>1. /\ events # <<>> /\ events' = Tail(events) /\ HandleEvent(Head(events))
      /\ UNCHANGED inFlight
  BY DEF DrainEvent
<1>2. /\ Len(events) \in Nat \ {0} /\ Head(events) = events[1] /\ Len(events') = Len(events) - 1
      /\ \A i \in 1..Len(events) - 1 : events'[i] = events[i + 1]
  BY <1>1, PendingFacts, TailFacts
<1>3. 1 \in 1..Len(events) /\ \A i \in 1..Len(events') : i + 1 \in 1..Len(events) /\ i + 1 # 1
  BY <1>2
<1>4. CASE events[1] = "SESSION_ESTABLISHED"
  <2>1. /\ workflow' = "CONNECTING"
        /\ UNCHANGED <<pending, deliveryPending, uploadOperations, activeUpload, accepted, started,
                       nextResultTick, closed>>
    BY <1>1, <1>2, <1>4 DEF HandleEvent, HandleSessionEstablished, Continue, transactionVars,
       controlVars
  <2>2. OneDelivery'
    BY <1>1, <1>2, <1>3, <2>1 DEF TalkInv, OneDelivery, rigVars
  <2>3. HostIsWell' /\ RigFollows' /\ Conversation'
    BY <2>1, SameTalk DEF TalkInv, HostIsWell, NothingPending, rigVars
  <2>4. QED
    BY <2>2, <2>3 DEF TalkInv, rigVars
<1>5. CASE events[1] = "DELIVERY_CONFIRMED" /\ deliveryPending /\ ~inFlight
  <2> DEFINE op == [pending EXCEPT !.armed = @ \/ pending.submitted]
  <2>1. /\ op.kind = pending.kind /\ op.test = pending.test /\ op.tick = pending.tick
        /\ op.submitted = pending.submitted /\ op.received = pending.received
        /\ op.outcome = pending.outcome /\ op.restore = pending.restore
    BY PendingFacts DEF Operation
  <2>2. ~NothingPending /\ ~op.received /\ pending.kind # "none"
    BY <1>5, <2>1, PendingFacts DEF TalkInv, HostIsWell
  <2>3. DeliveryConfirmedFor(op)
    BY <1>1, <1>2, <1>5, <2>2 DEF HandleEvent, HandleDeliveryConfirmed
  <2> HIDE DEF op
  <2>4. /\ pending' = op /\ ~deliveryPending'
        /\ UNCHANGED <<workflow, uploadOperations, activeUpload, accepted, started,
                       nextResultTick, closed>>
    BY <2>2, <2>3 DEF DeliveryConfirmedFor, Continue, controlVars
  <2>5. NothingPending' = NothingPending
    BY <2>1, <2>2, <2>4, NoOperationTypes DEF NothingPending
  <2>6. HostIsWell' /\ RigFollows' /\ Conversation'
    <3>1. /\ pending'.kind = pending.kind /\ pending'.test = pending.test
          /\ pending'.tick = pending.tick /\ pending'.submitted = pending.submitted
          /\ pending'.received = pending.received /\ pending'.outcome = pending.outcome
          /\ pending'.restore = pending.restore
      BY <2>1, <2>4
    <3>2. workflow' # "FAILED" /\ UNCHANGED <<request, inbox, rig>>
      BY <2>4 DEF TalkInv, HostIsWell, rigVars
    <3>3. QED
      BY <2>4, <2>5, <3>1, <3>2, SameTalk DEF TalkInv
  <2>7. \A i \in 1..Len(events') : events'[i] = "SESSION_ESTABLISHED"
    <3>1. ASSUME NEW i \in 1..Len(events') PROVE events'[i] = "SESSION_ESTABLISHED"
      <4>1. events'[i] = events[i + 1] /\ i + 1 \in 1..Len(events) /\ i + 1 # 1
        BY <1>2, <1>3
      <4>2. events[i + 1] # "DELIVERY_CONFIRMED"
        BY <1>3, <1>5, <4>1 DEF TalkInv, OneDelivery
      <4>3. QED
        BY <4>1, <4>2 DEF TalkInv, OneDelivery
    <3>2. QED
      BY <3>1
  <2>8. request = NoOperation
    BY <1>5 DEF TalkInv, OneDelivery
  <2>9. OneDelivery'
    BY <1>1, <1>5, <2>7, <2>8 DEF OneDelivery, rigVars
  <2>10. QED
    BY <2>6, <2>9 DEF TalkInv, rigVars
<1>6. QED
  BY <1>3, <1>4, <1>5 DEF TalkInv, OneDelivery

-----------------------------------------------------------------------------
(* The rig *)

LEMMA AppendFacts ==
  ASSUME NEW S, NEW s \in Seq(S), NEW t \in Seq(S)
  PROVE  /\ Len(s) \in Nat /\ s \o t \in Seq(S) /\ Len(s \o t) = Len(s) + Len(t)
         /\ \A i \in 1..Len(s) : (s \o t)[i] = s[i]
         /\ \A i \in 1..Len(t) : (s \o t)[Len(s) + i] = t[i]
OBVIOUS

LEMMA ResultTalk ==
  ASSUME HostInv, TalkInv, RigSendsResult
  PROVE  TalkInv'
<1> DEFINE n == Len(inbox)
           m == TestResult(rig.test, rig.sent)
<1>1. /\ rig.running
      /\ inbox' = Append(inbox, m)
      /\ rig' = [rig EXCEPT !.sent = @ + 1]
      /\ events' = events \o <<>>
      /\ UNCHANGED <<pending, deliveryPending, workflow, uploadOperations, activeUpload, accepted,
                     started, nextResultTick, closed, inFlight, request, faults>>
  BY DEF RigSendsResult, TransportRuns, sessionVars, transactionVars, controlVars
<1>2. events' = events
  BY <1>1, PendingFacts
<1>3. /\ rig.test = activeUpload /\ activeUpload \in Attempts
      /\ rig.sent \in Nat /\ nextResultTick \in Nat
  BY <1>1, PendingFacts DEF TalkInv, RigFollows, Tests
<1>4. m \in Messages
  BY <1>3 DEF TestResult, Messages
<1>5. /\ n \in Nat /\ inbox' \in Seq(Messages) /\ Len(inbox') = n + 1
      /\ \A i \in 1..n : inbox'[i] = inbox[i]
      /\ inbox'[n + 1] = m
  BY <1>1, <1>4 DEF TalkInv
<1>6. RigFollows' /\ rig'.running /\ rig'.test = rig.test /\ rig'.left = rig.left
      /\ rig'.sent = rig.sent + 1
  BY <1>1, <1>3 DEF TalkInv, RigFollows
<1>7. HostIsWell' /\ OneDelivery'
  BY <1>1, <1>2 DEF TalkInv, HostIsWell, OneDelivery
<1>8. Answered' = Answered
  BY <1>1 DEF Answered, NothingPending
<1> HIDE DEF n, m
<1>9. CASE ~Answered
  <2>1. OnlyResults /\ TickIsExpected
    BY <1>9 DEF TalkInv, Conversation
  <2>2. started /\ rig.sent = nextResultTick + n
    BY <1>1, <2>1 DEF OnlyResults, n
  <2>3. \A i \in 1..n : inbox[i] = NextResult(i - 1)
    BY <2>1 DEF OnlyResults, n
  <2>4. ASSUME NEW i \in 1..n + 1
        PROVE  inbox'[i] = NextResult(i - 1)
    <3>1. CASE i \in 1..n
      BY <1>5, <2>3, <3>1
    <3>2. CASE i = n + 1
      <4>1. i - 1 = n
        BY <1>5, <3>2
      <4>2. m = NextResult(n)
        BY <1>3, <2>2 DEF m, NextResult
      <4>3. QED
        BY <1>5, <3>2, <4>1, <4>2
    <3>3. QED
      BY <1>5, <3>1, <3>2
  <2>5. \A i \in 1..Len(inbox') : inbox'[i] = NextResult(i - 1)'
    BY <1>1, <1>5, <2>4 DEF NextResult
  <2>6. rig'.sent = nextResultTick' + Len(inbox')
    BY <1>1, <1>3, <1>5, <1>6, <2>2
  <2>7. accepted' => rig'.test = activeUpload'
    BY <1>1, <1>3, <1>6
  <2>8. OnlyResults'
    BY <1>1, <2>2, <2>5, <2>6, <2>7 DEF OnlyResults
  <2>9. TickIsExpected'
    BY <1>1, <1>6, <2>1 DEF TickIsExpected
  <2>10. QED
    BY <1>1, <1>5, <1>6, <1>7, <1>8, <1>9, <2>8, <2>9 DEF TalkInv, Conversation
<1>10. CASE Answered
  <2>1. PICK k \in 1..n : AnsweredAt(k)
    BY <1>10 DEF TalkInv, Conversation, n
  <2>2. RunsAfter(inbox[k]) /\ rig.sent = nextResultTick + n - 1
    BY <1>1, <2>1 DEF AnsweredAt, n
  <2>3. k \in Nat \ {0} /\ k <= n /\ k \in 1..Len(inbox') /\ inbox'[k] = inbox[k]
    BY <1>5, <2>1
  <2>4. /\ pending.kind \in {"start", "abort", "reset"}
        /\ pending.kind \notin UploadKinds \union {"complete_test"}
    BY <2>2 DEF RunsAfter, UploadKinds
  <2>5. RunsAfter(inbox[k])' /\ (Ends(inbox[k])' <=> Ends(inbox[k]))
    BY <1>1, <2>2, <2>3 DEF RunsAfter, Ends
  <2>6. ASSUME NEW i \in k + 1..n
        PROVE  inbox[i] = NextResult(i - 2)
    <3>1. CASE Len(inbox) = k
      BY <2>3, <2>6, <3>1 DEF n
    <3>2. CASE Len(inbox) # k
      BY <2>1, <2>4, <2>6, <3>2 DEF AnsweredAt, FollowedBy, n
    <3>3. QED
      BY <3>1, <3>2
  <2>7. ASSUME NEW i \in k + 1..n + 1
        PROVE  inbox'[i] = NextResult(i - 2)
    <3>1. CASE i \in k + 1..n
      <4>1. i \in 1..n
        BY <2>3, <3>1
      <4>2. QED
        BY <1>5, <2>6, <3>1, <4>1
    <3>2. CASE i = n + 1
      <4>1. nextResultTick + (i - 2) = rig.sent
        BY <1>3, <1>5, <2>2, <3>2
      <4>2. m = NextResult(i - 2)
        BY <1>3, <4>1 DEF m, NextResult
      <4>3. QED
        BY <1>5, <3>2, <4>2
    <3>3. QED
      BY <1>5, <2>3, <3>1, <3>2
  <2>8. \A i \in k + 1..Len(inbox') : inbox'[i] = NextResult(i - 2)'
    BY <1>1, <1>5, <2>7 DEF NextResult
  <2>9. FollowedBy(k)'
    BY <2>5, <2>8 DEF FollowedBy
  <2>10. \A i \in 1..k - 1 : inbox'[i] = NextResult(i - 1)'
    <3>1. ASSUME NEW i \in 1..k - 1 PROVE inbox'[i] = NextResult(i - 1)
      <4>1. i \in 1..n
        BY <1>5, <2>3
      <4>2. QED
        BY <1>5, <2>1, <4>1 DEF AnsweredAt
    <3>2. QED
      BY <1>1, <3>1 DEF NextResult
  <2>11. inbox'[k] \in AnswersTo(pending)' /\ (k > 1 => started')
    BY <1>1, <2>1, <2>3 DEF AnsweredAt, AnswersTo
  <2>12. rig'.sent = nextResultTick' + Len(inbox') - 1
    BY <1>1, <1>3, <1>5, <1>6, <2>2
  <2>13. ~Ends(inbox[k])'
    BY <2>2, <2>5 DEF RunsAfter, Ends
  <2>14. accepted' => rig'.test = activeUpload'
    BY <1>1, <1>3, <1>6
  <2>15. AnsweredAt(k)'
    BY <1>1, <2>4, <2>5, <2>9, <2>10, <2>11, <2>12, <2>13, <2>14 DEF AnsweredAt
  <2>16. QED
    BY <1>1, <1>5, <1>6, <1>7, <1>8, <1>10, <2>3, <2>15 DEF TalkInv, Conversation
<1>11. QED
  BY <1>9, <1>10

\* The rig has said m to the pending operation, and more.
LEMMA SpokenTalk ==
  ASSUME HostInv, TalkInv, request # NoOperation, request' = NoOperation, DeliveryConfirmed,
         UNCHANGED faults,
         NEW m \in Messages, m \in AnswersTo(pending), NEW more \in Seq(Messages),
         inbox' = inbox \o (<<m>> \o more),
         \/ more = <<>> /\ (pending.kind \in UploadKinds => uploadOperations # <<>>)
         \/ /\ pending.kind \in UploadKinds /\ uploadOperations = <<>>
            /\ more = <<Response("complete_test", pending.test, None, "success")>>,
         RigFollows',
         rig'.running => RunsAfter(m) /\ rig'.sent = nextResultTick + Len(inbox),
         Ends(m) => rig' = IdleRig,
         accepted => Ends(m) \/ rig'.test = activeUpload,
         pending.kind \in UploadKinds =>
           rig'.left = Len(uploadOperations) /\ rig'.test = activeUpload
  PROVE  TalkInv'
<1> DEFINE n == Len(inbox)
<1>0. PICK k : k = n + 1
  OBVIOUS
<1>1. /\ inFlight /\ deliveryPending /\ request = pending /\ pending.kind # "complete_test"
      /\ ~inFlight'
      /\ events' = events \o <<"DELIVERY_CONFIRMED">>
      /\ UNCHANGED <<pending, deliveryPending, workflow, uploadOperations, activeUpload, accepted,
                     started, nextResultTick, closed>>
  BY DEF TalkInv, OneDelivery, DeliveryConfirmed, TransportRuns, sessionVars, transactionVars,
     controlVars
<1>2. ~NothingPending /\ pending.submitted /\ nextResultTick \in Nat
  BY <1>1, PendingFacts
<1>3. OnlyResults
  BY DEF TalkInv, Conversation, Answered
<1>4. /\ n \in Nat /\ inbox' \in Seq(Messages) /\ Len(inbox') = n + 1 + Len(more)
      /\ \A i \in 1..n : inbox'[i] = inbox[i]
      /\ inbox'[n + 1] = m
      /\ Len(more) = 1 => inbox'[n + 2] = more[1]
  <2>1. inbox \in Seq(Messages) /\ <<m>> \in Seq(Messages)
    BY DEF TalkInv
  <2>2. /\ <<m>> \o more \in Seq(Messages) /\ Len(<<m>> \o more) = 1 + Len(more)
        /\ (<<m>> \o more)[1] = m
        /\ Len(more) = 1 => (<<m>> \o more)[2] = more[1]
    BY AppendFacts
  <2> DEFINE say == <<m>> \o more
  <2> HIDE DEF say
  <2>3. say \in Seq(Messages) /\ Len(say) = 1 + Len(more) /\ Len(more) \in Nat
        /\ inbox' = inbox \o say /\ say[1] = m /\ (Len(more) = 1 => say[2] = more[1])
    BY <2>2 DEF say
  <2>4. QED
    BY <2>1, <2>3, AppendFacts
<1>5. OneDelivery'
  <2>1. /\ Len(events) \in Nat /\ Len(events') = Len(events) + 1
        /\ \A i \in 1..Len(events) : events'[i] = events[i]
        /\ events'[Len(events) + 1] = "DELIVERY_CONFIRMED"
    BY <1>1, PendingFacts
  <2>2. \A i \in 1..Len(events) : events[i] = "SESSION_ESTABLISHED"
    BY <1>1 DEF TalkInv, OneDelivery
  <2>3. QED
    BY <1>1, <2>1, <2>2 DEF OneDelivery
<1>6. HostIsWell' /\ Answered'
  BY <1>1, <1>2 DEF TalkInv, HostIsWell, Answered, NothingPending
<1>7. k \in 1..Len(inbox') /\ inbox'[k] = m /\ k - 1 = n
  BY <1>0, <1>4
<1>8. \A i \in 1..k - 1 : inbox'[i] = NextResult(i - 1)'
  BY <1>1, <1>3, <1>4, <1>7 DEF OnlyResults, NextResult
<1>9. k > 1 => started'
  BY <1>0, <1>1, <1>3, <1>4 DEF OnlyResults, TalkInv
<1>10. FollowedBy(k)'
  <2>1. CASE more = <<>>
    BY <1>0, <1>1, <1>4, <2>1 DEF FollowedBy
  <2>2. CASE /\ pending.kind \in UploadKinds /\ uploadOperations = <<>>
             /\ more = <<Response("complete_test", pending.test, None, "success")>>
    <3>1. Len(more) = 1 /\ more[1] = Response("complete_test", pending.test, None, "success")
      BY <2>2
    <3>2. k + 1 = n + 2 /\ Len(inbox') = k + 1
      BY <1>0, <1>4, <3>1
    <3>3. QED
      BY <1>1, <1>4, <2>2, <3>1, <3>2 DEF FollowedBy
  <2>3. QED
    BY <2>1, <2>2
<1>11. rig'.running => RunsAfter(inbox[k])' /\ rig'.sent = nextResultTick' + Len(inbox') - 1
  <2> SUFFICES ASSUME rig'.running
               PROVE  RunsAfter(inbox[k])' /\ rig'.sent = nextResultTick' + Len(inbox') - 1
    OBVIOUS
  <2>1. RunsAfter(m) /\ rig'.sent = nextResultTick + n
    OBVIOUS
  <2>2. pending.kind \notin UploadKinds
    BY <2>1 DEF RunsAfter, UploadKinds
  <2>3. Len(inbox') = n + 1
    BY <1>4, <2>2
  <2>4. RunsAfter(inbox[k])'
    BY <1>1, <1>7, <2>1 DEF RunsAfter
  <2>5. nextResultTick + n = nextResultTick + (n + 1) - 1
    BY <1>2, <1>4
  <2>6. rig'.sent = nextResultTick' + Len(inbox') - 1
    BY <1>1, <2>1, <2>3, <2>5
  <2>7. QED
    BY <2>4, <2>6
<1>12. Ends(inbox[k])' = Ends(m)
  BY <1>1, <1>7 DEF Ends
<1>13. inbox'[k] \in AnswersTo(pending)'
  BY <1>1, <1>7 DEF AnswersTo
<1> HIDE DEF n
<1>14. AnsweredAt(k)'
  BY <1>1, <1>8, <1>9, <1>10, <1>11, <1>12, <1>13 DEF AnsweredAt
<1>15. QED
  BY <1>4, <1>5, <1>6, <1>7, <1>14 DEF TalkInv, Conversation

LEMMA RequestOnItsWay ==
  ASSUME HostInv, TalkInv, request # NoOperation
  PROVE  /\ request = pending /\ OnlyResults /\ TickIsExpected
         /\ pending \in Operation /\ pending.kind \in Kinds \ {"complete_test"}
         /\ pending.kind \in UploadKinds \union {"start", "abort"} => pending.test = activeUpload
         /\ pending.kind \in UploadKinds => activeUpload \in Attempts /\ ~accepted /\ ~started
         /\ pending.kind = "start" => accepted /\ ~started
<1>1. request = pending /\ pending.kind # "complete_test" /\ ~NothingPending
  BY DEF TalkInv, OneDelivery, NothingPending
<1>2. OnlyResults /\ TickIsExpected
  BY DEF TalkInv, Conversation, Answered
<1>3. pending \in Operation /\ pending.kind # "none"
  BY <1>1, PendingFacts
<1>4. OwnerInv /\ activeUpload \in Tests
  BY PendingFacts DEF HostInv, Grounds
<1>5. QED
  BY <1>1, <1>2, <1>3, <1>4 DEF Operation, OwnerInv, WaitsForUpload, PhasesAgree, ReadyToStart,
     Tests, UploadKinds

LEMMA AnswerIsMessage ==
  ASSUME NEW r \in Operation, r.kind \in Kinds, NEW m \in AnswersTo(r)
  PROVE  m \in Messages
<1>1. r.test \in Tests /\ r.tick \in Ticks
  BY DEF Operation
<1>2. CASE r.kind = "discovery"
  <2>1. m = SystemInfo(TRUE)
    BY <1>2 DEF AnswersTo
  <2>2. QED
    BY <2>1 DEF SystemInfo, Messages
<1>3. CASE r.kind # "discovery"
  <2>1. r.kind \in RequestKinds
    BY <1>3 DEF Kinds
  <2>2. PICK o \in {"success", "rejected"} : m = Response(r.kind, r.test, r.tick, o)
    BY <1>3 DEF AnswersTo
  <2>3. QED
    BY <1>1, <2>1, <2>2 DEF Response, Messages, Outcomes
<1>4. QED
  BY <1>2, <1>3

LEMMA ReplyIs ==
  ASSUME NothingGoesWrong, NEW r, r.kind # "complete_test", NEW reply \in Replies(r)
  PROVE  \/ r.kind = "discovery" /\ reply = [say |-> <<SystemInfo(TRUE)>>, be |-> rig]
         \/ /\ r.kind # "discovery"
            /\ reply = [say |-> <<Answer(r, "success")>> \o Validation(r, "success"),
                        be |-> Accepted(r)]
         \/ /\ r.kind \in {"start", "abort", "reset"} \intersect RigRejects
            /\ reply = [say |-> <<Answer(r, "rejected")>>, be |-> rig]
<1>1. "complete_test" \notin RigRejects
  BY DEF NothingGoesWrong
<1>2. r.kind \in RigRejects => r.kind \in {"start", "abort", "reset"} /\ Rejected(r) = rig
  BY DEF NothingGoesWrong, Rejected, UploadKinds
<1>3. CASE r.kind = "discovery"
  BY <1>3 DEF Replies
<1>4. CASE r.kind # "discovery"
  <2>1. \/ reply = [say |-> <<Answer(r, "success")>> \o Validation(r, "success"),
                    be |-> Accepted(r)]
        \/ \E k \in {r.kind} \intersect RigRejects :
             reply = [say |-> <<Answer(r, "rejected")>>, be |-> Rejected(r)]
    BY <1>1, <1>4, Zenon DEF Replies
  <2>2. QED
    BY <1>2, <1>4, <2>1
<1>5. QED
  BY <1>3, <1>4

\* What the rig is after it has accepted the pending operation.
LEMMA AcceptedIs ==
  ASSUME HostInv, TalkInv, request # NoOperation, pending.kind # "discovery"
  PROVE  /\ Accepted(pending) \in
              [test : {None, activeUpload}, left : Nat, sent : Nat, running : BOOLEAN]
         /\ pending.kind \in UploadKinds =>
              /\ Accepted(pending).left = Len(uploadOperations)
              /\ Accepted(pending).test = activeUpload
              /\ ~Accepted(pending).running /\ Accepted(pending).sent = 0
         /\ pending.kind = "start" =>
              /\ Accepted(pending).running /\ Accepted(pending).test = rig.test
              /\ Accepted(pending).sent = rig.sent
         /\ pending.kind \in {"abort", "reset"} => Accepted(pending) = IdleRig
<1>1. /\ TickIsExpected /\ OnlyResults
      /\ pending.kind \in {"configuration", "tick", "start", "abort", "reset"}
      /\ pending.kind \in UploadKinds \union {"start", "abort"} => pending.test = activeUpload
      /\ pending.kind \in UploadKinds => activeUpload \in Attempts /\ ~accepted /\ ~started
  BY RequestOnItsWay DEF Kinds, RequestKinds, UploadKinds
<1>2. rig \in [test : {None, activeUpload}, left : Nat, sent : Nat, running : BOOLEAN]
  BY DEF TalkInv, RigFollows
<1>3. Len(uploadOperations) \in Nat
  BY PendingFacts
<1>4. CASE pending.kind = "configuration"
  <2>1. Accepted(pending) = [test |-> activeUpload, left |-> Len(SparseTicks[activeUpload]),
                             sent |-> 0, running |-> FALSE]
    BY <1>1, <1>4 DEF Accepted, UploadKinds
  <2>2. Len(SparseTicks[activeUpload]) = Len(uploadOperations)
    BY <1>4 DEF TalkInv, HostIsWell
  <2>3. QED
    BY <1>3, <1>4, <2>1, <2>2
<1>5. CASE pending.kind = "tick"
  <2>1. Accepted(pending) = [rig EXCEPT !.left = @ - 1]
    BY <1>5 DEF Accepted
  <2>2. rig.left = Len(uploadOperations) + 1 /\ rig.test = activeUpload
    BY <1>1, <1>5 DEF TickIsExpected
  <2>3. ~rig.running /\ rig.sent = 0
    BY <1>1, <1>5, ResultsNeedARun DEF UploadKinds
  <2>4. QED
    BY <1>2, <1>3, <1>5, <2>1, <2>2, <2>3
<1>6. CASE pending.kind = "start"
  <2>1. Accepted(pending) = [rig EXCEPT !.running = TRUE]
    BY <1>6 DEF Accepted
  <2>2. QED
    BY <1>2, <1>6, <2>1 DEF UploadKinds
<1>7. CASE pending.kind \in {"abort", "reset"}
  <2>1. Accepted(pending) = IdleRig
    BY <1>7 DEF Accepted
  <2>2. QED
    BY <1>7, <2>1 DEF IdleRig, UploadKinds
<1>8. QED
  BY <1>1, <1>4, <1>5, <1>6, <1>7

LEMMA AnswerTalk ==
  ASSUME NothingGoesWrong, HostInv, TalkInv, RigAnswers
  PROVE  TalkInv'
<1>1. /\ request # NoOperation /\ request' = NoOperation /\ DeliveryConfirmed
      /\ UNCHANGED <<faults, activeUpload>>
  <2>1. request # NoOperation /\ request' = NoOperation /\ inFlight
    BY DEF RigAnswers, TalkInv, OneDelivery
  <2>2. DeliveryConfirmed
    BY <2>1 DEF RigAnswers, Confirms, NothingGoesWrong
  <2>3. UNCHANGED faults
    BY NoFaultHappens DEF RigAnswers
  <2>4. QED
    BY <2>1, <2>2, <2>3 DEF DeliveryConfirmed, TransportRuns, transactionVars
<1>2. /\ request = pending /\ OnlyResults /\ pending \in Operation
      /\ pending.kind \in Kinds /\ pending.kind # "complete_test"
  BY <1>1, RequestOnItsWay
<1>3. PICK reply \in Replies(pending) : inbox' = inbox \o reply.say /\ rig' = reply.be
  BY <1>1, <1>2, NoFaultHappens DEF RigAnswers
<1>4. /\ rig \in [test : {None, activeUpload}, left : Nat, sent : Nat, running : BOOLEAN]
      /\ RigFollows /\ nextResultTick \in Nat
  BY PendingFacts DEF TalkInv, RigFollows
<1>5. CASE pending.kind = "discovery" /\ reply = [say |-> <<SystemInfo(TRUE)>>, be |-> rig]
  <2> DEFINE m == SystemInfo(TRUE)
  <2>1. m \in AnswersTo(pending) /\ m \in Messages
    BY <1>2, <1>5, AnswerIsMessage DEF AnswersTo
  <2>2. rig' = rig /\ inbox' = inbox \o <<m>>
    BY <1>3, <1>5
  <2>3. ~started /\ ~accepted
    BY <1>5 DEF HostInv, SessionInv, ToldInv, Identified, TalkInv, HostIsWell
  <2>4. ~rig.running
    BY <1>2, <2>3, ResultsNeedARun
  <2>5. pending.kind \notin UploadKinds /\ ~Ends(m)
    BY <1>5 DEF UploadKinds, Ends
  <2>6. RigFollows'
    BY <1>1, <1>4, <2>2 DEF RigFollows
  <2> HIDE DEF m
  <2>7. <<m>> = <<m>> \o <<>> /\ <<>> \in Seq(Messages)
    BY <2>1
  <2>8. QED
    BY <1>1, <2>1, <2>2, <2>3, <2>4, <2>5, <2>6, <2>7, SpokenTalk
<1>6. CASE /\ pending.kind # "discovery"
           /\ reply = [say |-> <<Answer(pending, "success")>> \o Validation(pending, "success"),
                       be |-> Accepted(pending)]
  <2> DEFINE m == Answer(pending, "success")
             more == Validation(pending, "success")
  <2>1. m \in AnswersTo(pending) /\ m \in Messages /\ m.outcome = "success"
    BY <1>2, <1>6, AnswerIsMessage DEF AnswersTo, Answer, Response
  <2>2. rig' = Accepted(pending) /\ inbox' = inbox \o (<<m>> \o more)
    BY <1>3, <1>6
  <2>3. /\ rig' \in [test : {None, activeUpload}, left : Nat, sent : Nat, running : BOOLEAN]
        /\ pending.kind \in UploadKinds =>
             /\ rig'.left = Len(uploadOperations) /\ rig'.test = activeUpload
             /\ ~rig'.running /\ rig'.sent = 0
        /\ pending.kind = "start" =>
             rig'.running /\ rig'.test = rig.test /\ rig'.sent = rig.sent
        /\ pending.kind \in {"abort", "reset"} => rig' = IdleRig
    BY <1>1, <1>6, <2>2, AcceptedIs
  <2>4. more = IF pending.kind \in UploadKinds /\ uploadOperations = <<>>
               THEN <<Response("complete_test", pending.test, None, "success")>> ELSE <<>>
    <3>1. Len(uploadOperations) = 0 <=> uploadOperations = <<>>
      BY PendingFacts
    <3>2. pending.kind \in UploadKinds => Accepted(pending).left = Len(uploadOperations)
      BY <1>1, <1>6, AcceptedIs
    <3>3. QED
      BY <3>1, <3>2 DEF Validation
  <2>5. more \in Seq(Messages)
    <3>1. PICK v : v = Response("complete_test", pending.test, None, "success")
      OBVIOUS
    <3>2. v \in Messages
      BY <1>2, <3>1 DEF Operation, Response, Messages, RequestKinds, Outcomes, Ticks
    <3>3. more = <<>> \/ more = <<v>>
      BY <2>4, <3>1
    <3> HIDE DEF m, more
    <3>4. QED
      BY <3>2, <3>3, AtMostOne
  <2>6. \/ more = <<>> /\ (pending.kind \in UploadKinds => uploadOperations # <<>>)
        \/ /\ pending.kind \in UploadKinds /\ uploadOperations = <<>>
           /\ more = <<Response("complete_test", pending.test, None, "success")>>
    BY <2>4
  <2> HIDE DEF m, more
  <2>7. CASE pending.kind \in UploadKinds
    <3>1. RigFollows' /\ ~rig'.running /\ ~Ends(m)
      BY <1>1, <2>3, <2>7 DEF RigFollows, Ends, UploadKinds
    <3>2. QED
      BY <1>1, <2>1, <2>2, <2>3, <2>5, <2>6, <2>7, <3>1, SpokenTalk
  <2>8. CASE pending.kind = "start"
    <3>1. accepted /\ ~started
      BY <1>1, <2>8, RequestOnItsWay
    <3>2. inbox = <<>> /\ rig.sent = 0 /\ nextResultTick = 0
      BY <1>2, <3>1, ResultsNeedARun
    <3>3. rig.test = activeUpload /\ activeUpload # None
      BY <1>2, <3>1 DEF OnlyResults, HostInv, Grounds, OwnerInv, PhasesAgree
    <3>4. /\ RigFollows' /\ RunsAfter(m) /\ ~Ends(m)
          /\ rig'.sent = nextResultTick + Len(inbox) /\ rig'.test = activeUpload
      BY <1>1, <2>1, <2>3, <2>8, <3>2, <3>3 DEF RigFollows, RunsAfter, Ends
    <3>5. pending.kind \notin UploadKinds
      BY <2>8 DEF UploadKinds
    <3>6. QED
      BY <1>1, <2>1, <2>2, <2>5, <2>6, <3>4, <3>5, SpokenTalk
  <2>9. CASE pending.kind \in {"abort", "reset"}
    <3>1. rig' = IdleRig
      BY <2>3, <2>9
    <3>2. RigFollows' /\ ~rig'.running /\ Ends(m)
      BY <1>1, <2>1, <2>3, <2>9, <3>1 DEF RigFollows, Ends, IdleRig
    <3>3. pending.kind \notin UploadKinds
      BY <2>9 DEF UploadKinds
    <3>4. QED
      BY <1>1, <2>1, <2>2, <2>5, <2>6, <3>1, <3>2, <3>3, SpokenTalk
  <2>10. QED
    BY <1>2, <1>6, <2>7, <2>8, <2>9 DEF Kinds, RequestKinds
<1>7. CASE /\ pending.kind \in {"start", "abort", "reset"} \intersect RigRejects
           /\ reply = [say |-> <<Answer(pending, "rejected")>>, be |-> rig]
  <2> DEFINE m == Answer(pending, "rejected")
  <2>1. m \in AnswersTo(pending) /\ m.outcome = "rejected"
    BY <1>7 DEF AnswersTo, Answer, Response
  <2>2. m \in Messages
    BY <1>2, <2>1, AnswerIsMessage
  <2>3. rig' = rig /\ inbox' = inbox \o <<m>>
    BY <1>3, <1>7
  <2>4. RigFollows' /\ ~Ends(m) /\ pending.kind \notin UploadKinds
    BY <1>1, <1>4, <1>7, <2>1, <2>3 DEF RigFollows, Ends, UploadKinds
  <2>5. rig.running => started /\ rig.sent = nextResultTick + Len(inbox)
    BY <1>2 DEF OnlyResults
  <2>6. pending.kind = "start" => ~started
    BY <1>1, RequestOnItsWay
  <2>7. rig.running => RunsAfter(m)
    BY <1>7, <2>1, <2>5, <2>6 DEF RunsAfter
  <2>8. accepted => rig.test = activeUpload
    BY <1>2 DEF OnlyResults
  <2> HIDE DEF m
  <2>9. <<m>> = <<m>> \o <<>> /\ <<>> \in Seq(Messages)
    BY <2>2
  <2>10. QED
    BY <1>1, <2>1, <2>2, <2>3, <2>4, <2>5, <2>7, <2>8, <2>9, SpokenTalk
<1>8. QED
  BY <1>2, <1>3, <1>5, <1>6, <1>7, ReplyIs DEF NothingGoesWrong

-----------------------------------------------------------------------------
(* The host reads a result *)

LEMMA ReadFacts ==
  ASSUME NothingGoesWrong, HostInv, TalkInv, Read
  PROVE  /\ inbox[1] \in Messages /\ HandleMessage(inbox[1]) /\ ~StorageRefuses(inbox[1])
         /\ inbox' \in Seq(Messages) /\ Len(inbox) \in Nat \ {0} /\ Len(inbox') = Len(inbox) - 1
         /\ \A i \in 1..Len(inbox) - 1 : inbox'[i] = inbox[i + 1]
         /\ events = <<>>
         /\ UNCHANGED <<inFlight, events, request, rig, faults>>
<1>1. inbox \in Seq(Messages) /\ inbox # <<>> /\ inbox' = Tail(inbox)
  BY DEF TalkInv, Read
<1>2. /\ Len(inbox) \in Nat \ {0} /\ Head(inbox) = inbox[1] /\ inbox[1] \in Messages
      /\ inbox' \in Seq(Messages) /\ Len(inbox') = Len(inbox) - 1
      /\ \A i \in 1..Len(inbox) - 1 : inbox'[i] = inbox[i + 1]
  BY <1>1, TailFacts
<1>3. ~StorageRefuses(inbox[1]) /\ UNCHANGED faults
  BY <1>2, NoFaultHappens DEF Read
<1>4. /\ stage = "messages" /\ HandleMessage(inbox[1])
      /\ UNCHANGED <<inFlight, events, request, rig>>
  BY <1>2 DEF Read, DrainMessage, transportVars
<1>5. events = <<>>
  BY <1>4 DEF HostInv, SessionInv
<1>6. QED
  BY <1>2, <1>3, <1>4, <1>5

\* The next result is stored and the workflow goes on.
LEMMA ResultIsStored ==
  ASSUME HostInv, TalkInv, NEW m, m = NextResult(0), started, HandleMessage(m), ~StorageRefuses(m)
  PROVE  /\ nextResultTick' = nextResultTick + 1 /\ workflow' # "FAILED"
         /\ UNCHANGED <<pending, deliveryPending, uploadOperations, activeUpload, accepted, started,
                        closed>>
<1>1. m.type = "result" /\ m.test = activeUpload /\ m.tick = nextResultTick
  BY PendingFacts DEF NextResult, TestResult
<1>2. activeUpload # None
  BY DEF HostInv, Grounds, OwnerInv, PhasesAgree
<1>3. ResultIsNext(m)
  BY <1>1, <1>2 DEF ResultIsNext
<1>4. HandleTestResult(m)
  BY <1>1 DEF HandleMessage, HandleSystemInfo, HandleApplicationResponse, HandleApplicationError,
     HandleUnreadable
<1>5. StoreResult(m)
  BY <1>1, <1>3, <1>4 DEF HandleTestResult, StorageRefuses
<1>6. QED
  BY <1>5 DEF StoreResult, TalkInv, HostIsWell, Continue, controlVars

LEMMA ResultIsRead ==
  ASSUME NothingGoesWrong, HostInv, TalkInv, Read, inbox[1] = NextResult(0), started
  PROVE  TalkInv'
<1> DEFINE n == Len(inbox)
<1>1. /\ inbox' \in Seq(Messages) /\ n \in Nat \ {0} /\ Len(inbox') = n - 1
      /\ \A i \in 1..n - 1 : inbox'[i] = inbox[i + 1]
      /\ UNCHANGED <<inFlight, events, request, rig, faults>>
  BY ReadFacts
<1>2. /\ nextResultTick' = nextResultTick + 1 /\ workflow' # "FAILED"
      /\ UNCHANGED <<pending, deliveryPending, uploadOperations, activeUpload, accepted, started,
                     closed>>
  BY ReadFacts, ResultIsStored
<1>3. nextResultTick \in Nat
  BY PendingFacts
<1>4. HostIsWell' /\ RigFollows' /\ OneDelivery' /\ Answered' = Answered
  BY <1>1, <1>2 DEF TalkInv, HostIsWell, RigFollows, OneDelivery, Answered, NothingPending
<1>5. ASSUME NEW i \in Int
      PROVE  NextResult(i)' = NextResult(i + 1)
  <2>1. (nextResultTick + 1) + i = nextResultTick + (i + 1)
    BY <1>3
  <2>2. QED
    BY <1>2, <2>1 DEF NextResult
<1>6. ASSUME rig'.running, NEW d \in {0, 1}, rig.sent = nextResultTick + n - d
      PROVE  rig'.sent = nextResultTick' + Len(inbox') - d
  <2>1. nextResultTick + n - d = (nextResultTick + 1) + (n - 1) - d
    BY <1>1, <1>3
  <2>2. QED
    BY <1>1, <1>2, <1>6, <2>1
<1> HIDE DEF n
<1>7. CASE ~Answered
  <2>1. OnlyResults /\ TickIsExpected
    BY <1>7 DEF TalkInv, Conversation
  <2>2. ASSUME NEW i \in 1..n - 1
        PROVE  inbox'[i] = NextResult(i - 1)'
    <3>1. i + 1 \in 1..n /\ (i + 1) - 1 = (i - 1) + 1 /\ i - 1 \in Int
      BY <1>1
    <3>2. inbox'[i] = inbox[i + 1] /\ inbox[i + 1] = NextResult((i + 1) - 1)
      BY <1>1, <2>1, <3>1 DEF OnlyResults, n
    <3>3. QED
      BY <1>5, <3>1, <3>2
  <2>3. rig'.running => rig'.sent = nextResultTick' + Len(inbox')
    <3>1. ASSUME rig'.running PROVE rig'.sent = nextResultTick' + Len(inbox')
      <4>1. rig.sent = nextResultTick + n
        BY <1>1, <2>1, <3>1 DEF OnlyResults, n
      <4>2. nextResultTick + n = (nextResultTick + 1) + (n - 1)
        BY <1>1, <1>3
      <4>3. QED
        BY <1>1, <1>2, <4>1, <4>2
    <3>2. QED
      BY <3>1
  <2>4. OnlyResults' /\ TickIsExpected'
    BY <1>1, <1>2, <2>1, <2>2, <2>3 DEF OnlyResults, TickIsExpected
  <2>5. QED
    BY <1>1, <1>4, <1>7, <2>4 DEF TalkInv, Conversation
<1>8. CASE Answered
  <2>1. PICK k \in 1..n : AnsweredAt(k)
    BY <1>8 DEF TalkInv, Conversation, n
  <2>2. k # 1
    <3>1. ASSUME k = 1 PROVE FALSE
      <4>1. inbox[1] \in AnswersTo(pending)
        BY <2>1, <3>1 DEF AnsweredAt
      <4>2. inbox[1].type \in {"system_info", "response"}
        BY <4>1 DEF AnswersTo, SystemInfo, Response
      <4>3. QED
        BY <4>2 DEF NextResult, TestResult
    <3>2. QED
      BY <3>1
  <2>3. PICK j : j = k - 1
    OBVIOUS
  <2>4. j \in 1..n - 1 /\ k = j + 1 /\ j \in 1..Len(inbox') /\ inbox'[j] = inbox[k]
    BY <1>1, <2>2, <2>3
  <2>5. /\ RunsAfter(inbox[j])' = RunsAfter(inbox[k])
        /\ Ends(inbox[j])' = Ends(inbox[k])
    <3>1. RunsAfter(inbox[j])' <=> RunsAfter(inbox[k])
      BY <1>2, <2>4 DEF RunsAfter
    <3>2. Ends(inbox[j])' <=> Ends(inbox[k])
      BY <1>2, <2>4 DEF Ends
    <3>3. RunsAfter(inbox[j])' \in BOOLEAN /\ RunsAfter(inbox[k]) \in BOOLEAN
          /\ Ends(inbox[j])' \in BOOLEAN /\ Ends(inbox[k]) \in BOOLEAN
      BY DEF RunsAfter, Ends
    <3>4. QED
      BY <3>1, <3>2, <3>3
  <2>6. inbox'[j] \in AnswersTo(pending)'
    BY <1>2, <2>1, <2>4 DEF AnsweredAt, AnswersTo
  <2>7. ASSUME NEW i \in 1..j - 1
        PROVE  inbox'[i] = NextResult(i - 1)'
    <3>1. i + 1 \in 1..k - 1 /\ i \in 1..n - 1 /\ (i + 1) - 1 = (i - 1) + 1 /\ i - 1 \in Int
      BY <1>1, <2>4
    <3>2. inbox'[i] = inbox[i + 1] /\ inbox[i + 1] = NextResult((i + 1) - 1)
      BY <1>1, <2>1, <3>1 DEF AnsweredAt
    <3>3. QED
      BY <1>5, <3>1, <3>2
  <2>8. FollowedBy(j)'
    <3>1. CASE Len(inbox) = k /\ (pending.kind \in UploadKinds => uploadOperations # <<>>)
      <4>1. Len(inbox') = j
        BY <1>1, <2>4, <3>1 DEF n
      <4>2. QED
        BY <1>2, <3>1, <4>1 DEF FollowedBy
    <3>2. CASE /\ pending.kind \in UploadKinds /\ uploadOperations = <<>>
               /\ Len(inbox) = k + 1
               /\ inbox[k + 1] = Response("complete_test", pending.test, None, "success")
      <4>1. Len(inbox') = j + 1 /\ inbox'[j + 1] = inbox[k + 1]
        BY <1>1, <2>4, <3>2 DEF n
      <4>2. QED
        BY <1>2, <3>2, <4>1 DEF FollowedBy
    <3>3. CASE /\ RunsAfter(inbox[k])
               /\ \A i \in k + 1..Len(inbox) : inbox[i] = NextResult(i - 2)
      <4>1. ASSUME NEW i \in j + 1..Len(inbox')
            PROVE  inbox'[i] = NextResult(i - 2)'
        <5>1. /\ i + 1 \in k + 1..n /\ i \in 1..n - 1 /\ (i + 1) - 2 = (i - 2) + 1
              /\ i - 2 \in Int
          BY <1>1, <2>4
        <5>2. inbox'[i] = inbox[i + 1] /\ inbox[i + 1] = NextResult((i + 1) - 2)
          BY <1>1, <3>3, <5>1 DEF n
        <5>3. QED
          BY <1>5, <5>1, <5>2
      <4>2. QED
        BY <2>5, <3>3, <4>1 DEF FollowedBy
    <3>4. QED
      BY <2>1, <3>1, <3>2, <3>3 DEF AnsweredAt, FollowedBy
  <2>9. rig'.running =>
          RunsAfter(inbox[j])' /\ rig'.sent = nextResultTick' + Len(inbox') - 1
    <3>1. ASSUME rig'.running
          PROVE  RunsAfter(inbox[j])' /\ rig'.sent = nextResultTick' + Len(inbox') - 1
      <4>1. RunsAfter(inbox[k]) /\ rig.sent = nextResultTick + n - 1
        BY <1>1, <2>1, <3>1 DEF AnsweredAt, n
      <4>2. rig'.sent = nextResultTick' + Len(inbox') - 1
        BY <1>6, <3>1, <4>1
      <4>3. QED
        BY <2>5, <4>1, <4>2
    <3>2. QED
      BY <3>1
  <2>10. /\ Ends(inbox[j])' => rig' = IdleRig
         /\ accepted' => Ends(inbox[j])' \/ rig'.test = activeUpload'
         /\ pending'.kind \in UploadKinds => rig'.left = Len(uploadOperations')
         /\ pending'.kind \in UploadKinds \union {"complete_test"} => rig'.test = activeUpload'
    BY <1>1, <1>2, <2>1, <2>5 DEF AnsweredAt
  <2>11. AnsweredAt(j)'
    BY <1>2, <2>6, <2>7, <2>8, <2>9, <2>10 DEF AnsweredAt
  <2>12. QED
    BY <1>1, <1>4, <1>8, <2>4, <2>11 DEF TalkInv, Conversation
<1>9. QED
  BY <1>7, <1>8

-----------------------------------------------------------------------------
(* The host reads an answer *)

\* Nothing but the answer keeps the pending operation from ending.
LEMMA AnswerFinishes ==
  ASSUME HostInv, TalkInv, ~NothingPending, pending.submitted, ~deliveryPending,
         NEW m \in AnswersTo(pending), HandleMessage(m)
  PROVE  \E op : /\ Finish(op, delivered)
                 /\ op.kind = pending.kind /\ op.test = pending.test
                 /\ op.restore = pending.restore
                 /\ op.outcome = IF pending.kind = "discovery" THEN "success" ELSE m.outcome
<1>1. pending \in Operation /\ pending.outcome = "success"
  BY PendingFacts DEF TalkInv, HostIsWell
<1>2. ASSUME NEW outcome \in Outcomes, ReceiveResponse(outcome)
      PROVE  \E op : /\ Finish(op, delivered)
                     /\ op.kind = pending.kind /\ op.test = pending.test
                     /\ op.restore = pending.restore /\ op.outcome = outcome
  <2>1. PICK op : op = [pending EXCEPT !.received = TRUE,
                          !.outcome = IF outcome = "success" THEN @ ELSE outcome]
    OBVIOUS
  <2>2. /\ op.kind = pending.kind /\ op.test = pending.test /\ op.restore = pending.restore
        /\ op.outcome = outcome /\ op.submitted = pending.submitted
    BY <1>1, <2>1 DEF Operation
  <2>3. Finish(op, delivered)
    BY <1>2, <2>1, <2>2 DEF ReceiveResponse
  <2>4. QED
    BY <2>2, <2>3
<1>3. CASE pending.kind = "discovery"
  <2>1. m.type = "system_info" /\ m.compatible
    BY <1>3 DEF AnswersTo, SystemInfo
  <2>2. HandleSystemInfo(m)
    BY <2>1 DEF HandleMessage, HandleApplicationResponse, HandleApplicationError, HandleTestResult,
       HandleUnreadable
  <2>3. ReceiveResponse("success")
    BY <1>3, <2>1, <2>2 DEF HandleSystemInfo
  <2>4. QED
    BY <1>2, <1>3, <2>3 DEF Outcomes
<1>4. CASE pending.kind # "discovery"
  <2>1. PICK o \in {"success", "rejected"} :
               m = Response(pending.kind, pending.test, pending.tick, o)
    BY <1>4 DEF AnswersTo
  <2>2. m.type = "response" /\ m.outcome = o /\ Correlates(m)
    BY <2>1 DEF Response, Correlates
  <2>3. HandleApplicationResponse(m)
    BY <2>2 DEF HandleMessage, HandleSystemInfo, HandleApplicationError, HandleTestResult,
       HandleUnreadable
  <2>4. ReceiveResponse(o)
    BY <2>2, <2>3 DEF HandleApplicationResponse
  <2>5. QED
    BY <1>2, <1>4, <2>2, <2>4 DEF Outcomes
<1>5. QED
  BY <1>3, <1>4

\* The answer is read, no validation follows it, and what is pending now, if anything, is not
\* handed to Transport.
LEMMA EndTalk ==
  ASSUME NothingGoesWrong, HostInv, TalkInv, Read, request = NoOperation,
         Len(inbox) >= 1, AnsweredAt(1),
         ~(pending.kind \in UploadKinds /\ uploadOperations = <<>>),
         NothingPending' \/ ~pending'.submitted,
         HostIsWell', RigFollows', TickIsExpected',
         RunsAfter(inbox[1]) => started' /\ UNCHANGED <<nextResultTick, activeUpload>>,
         accepted' => rig.test = activeUpload'
  PROVE  TalkInv'
<1> DEFINE n == Len(inbox)
<1>1. /\ inbox' \in Seq(Messages) /\ n \in Nat \ {0} /\ Len(inbox') = n - 1
      /\ \A i \in 1..n - 1 : inbox'[i] = inbox[i + 1]
      /\ events = <<>> /\ UNCHANGED <<inFlight, events, request, rig, faults>>
  BY ReadFacts
<1>2. nextResultTick \in Nat
  BY PendingFacts
<1>3. OneDelivery'
  BY <1>1 DEF TalkInv, OneDelivery
<1>4. ~Answered'
  BY DEF Answered
<1> HIDE DEF n
<1>5. OnlyResults'
  <2>1. CASE ~RunsAfter(inbox[1])
    <3>1. n = 1 /\ ~rig'.running
      BY <1>1, <2>1 DEF AnsweredAt, FollowedBy, n
    <3>2. Len(inbox') = 0 /\ inbox' = <<>>
      BY <1>1, <3>1
    <3>3. QED
      BY <1>1, <3>1, <3>2 DEF OnlyResults
  <2>2. CASE RunsAfter(inbox[1])
    <3>1. pending.kind \notin UploadKinds
      BY <2>2 DEF RunsAfter, UploadKinds
    <3>2. ASSUME NEW i \in 1..n - 1
          PROVE  inbox'[i] = NextResult(i - 1)
      <4>1. n # 1 /\ i + 1 \in 1 + 1..n /\ (i + 1) - 2 = i - 1
        BY <1>1
      <4>2. inbox[i + 1] = NextResult((i + 1) - 2)
        BY <3>1, <4>1 DEF AnsweredAt, FollowedBy, n
      <4>3. QED
        BY <1>1, <4>1, <4>2
    <3>3. \A i \in 1..Len(inbox') : inbox'[i] = NextResult(i - 1)'
      BY <1>1, <2>2, <3>2 DEF NextResult
    <3>4. rig'.running => rig'.sent = nextResultTick' + Len(inbox')
      <4>1. rig.running => rig.sent = nextResultTick + n - 1
        BY DEF AnsweredAt, n
      <4>2. nextResultTick + n - 1 = nextResultTick + (n - 1)
        BY <1>1, <1>2
      <4>3. QED
        BY <1>1, <2>2, <4>1, <4>2
    <3>5. QED
      BY <1>1, <2>2, <3>3, <3>4 DEF OnlyResults
  <2>3. QED
    BY <2>1, <2>2
<1>6. QED
  BY <1>1, <1>3, <1>4, <1>5 DEF TalkInv, Conversation

LEMMA NoOperationIsWell ==
  /\ NoOperation.kind = "none" /\ ~NoOperation.received /\ NoOperation.outcome = "success"
  /\ NoOperation.kind \notin UploadKinds
BY DEF NoOperation, NewOperation, UploadKinds

\* An upload message is accepted.
LEMMA MessageIsAccepted ==
  ASSUME NothingGoesWrong, HostInv, TalkInv, Read, request = NoOperation, Len(inbox) >= 1,
         AnsweredAt(1), NEW op, op.kind = pending.kind, op.test = pending.test,
         FinishUploadMessage(op, delivered), ~deliveryPending', UNCHANGED closed
  PROVE  TalkInv'
<1>1. /\ pending.kind \in UploadKinds
      /\ UNCHANGED <<activeUpload, accepted, started, nextResultTick, closed>>
  BY DEF FinishUploadMessage, UploadMessageFinished
<1>2. /\ ~accepted /\ ~started /\ ~RunsAfter(inbox[1]) /\ ~Ends(inbox[1]) /\ ~rig.running
      /\ rig.left = Len(uploadOperations) /\ rig.test = activeUpload
  BY <1>1 DEF HostInv, Grounds, OwnerInv, PhasesAgree, RunsAfter, Ends, UploadKinds, AnsweredAt
<1>3. /\ inbox' \in Seq(Messages) /\ Len(inbox) \in Nat \ {0} /\ Len(inbox') = Len(inbox) - 1
      /\ \A i \in 1..Len(inbox) - 1 : inbox'[i] = inbox[i + 1]
      /\ events = <<>> /\ UNCHANGED <<inFlight, events, request, rig, faults>>
  BY ReadFacts
<1>4. RigFollows'
  BY <1>1, <1>3 DEF TalkInv, RigFollows
<1>5. CASE uploadOperations # <<>>
  <2>1. PICK next : next = Head(uploadOperations)
    OBVIOUS
  <2>2. /\ Activate(next)
        /\ uploadOperations' = Tail(uploadOperations)
    BY <1>5, <2>1 DEF FinishUploadMessage, UploadMessageFinished
  <2>3. next \in Operation /\ next.kind \in UploadKinds /\ next.kind # "none"
    BY <1>5, <2>1, PendingFacts, SubsequenceTypes DEF PlannedMessages, UploadKinds
  <2>4. pending' = next /\ workflow' # "FAILED"
    BY <2>2, <2>3, NotFailed
  <2>5. Len(uploadOperations) < Len(UploadTicks(activeUpload))
    BY <1>1 DEF HostInv, PlanInv, Uploading, Position, PendingIsNext
  <2>6. /\ next.kind = "tick" /\ ~next.submitted /\ ~next.received /\ next.outcome = "success"
        /\ Len(uploadOperations) \in Nat /\ Len(uploadOperations') = Len(uploadOperations) - 1
    <3>1. Len(uploadOperations) # Len(UploadTicks(activeUpload)) /\ Len(uploadOperations) \in Nat
      BY <2>5, PendingFacts
    <3>2. QED
      BY <1>5, <2>1, <2>2, <3>1, QueueHead
  <2>7. rig'.left = Len(uploadOperations') + 1
    BY <1>2, <1>3, <2>6
  <2>8. HostIsWell' /\ TickIsExpected'
    BY <1>1, <1>2, <1>3, <2>4, <2>6, <2>7 DEF TalkInv, HostIsWell, TickIsExpected, UploadKinds
  <2>9. QED
    BY <1>1, <1>2, <1>4, <1>5, <2>4, <2>6, <2>8, EndTalk
<1>6. CASE uploadOperations = <<>>
  <2>1. PICK next : next = NewOperation("complete_test", op.test, None)
    OBVIOUS
  <2>2. Activate(next) /\ uploadOperations' = <<>>
    BY <1>6, <2>1 DEF FinishUploadMessage, UploadMessageFinished
  <2>3. /\ next.kind = "complete_test" /\ next.test = pending.test /\ next.tick = None
        /\ next.submitted /\ ~next.received /\ next.outcome = "success"
    BY <2>1 DEF NewOperation
  <2>4. pending' = next /\ workflow' # "FAILED"
    BY <2>2, <2>3 DEF Activate, ActiveState, Kinds, RequestKinds
  <2>5. HostIsWell'
    BY <1>1, <2>2, <2>3, <2>4 DEF TalkInv, HostIsWell, UploadKinds
  <2>6. OneDelivery'
    BY <1>3 DEF TalkInv, OneDelivery
  <2>7. Answered'
    BY <1>3, <2>3, <2>4, NoOperationTypes DEF Answered, NothingPending
  <2>8. Len(inbox) = 2 /\ inbox[2] = Response("complete_test", pending.test, None, "success")
    BY <1>1, <1>2, <1>6 DEF AnsweredAt, FollowedBy
  <2>9. Len(inbox') = 1 /\ inbox'[1] = Response("complete_test", pending.test, None, "success")
    BY <1>3, <2>8
  <2>10. inbox'[1] \in AnswersTo(pending')
    BY <2>3, <2>4, <2>9 DEF AnswersTo
  <2>11. AnswersTo(pending)' = AnswersTo(pending')
    BY DEF AnswersTo
  <2>12. FollowedBy(1)'
    BY <2>3, <2>4, <2>9 DEF FollowedBy, UploadKinds
  <2>13. AnsweredAt(1)'
    BY <1>1, <1>2, <1>3, <2>3, <2>4, <2>9, <2>10, <2>11, <2>12 DEF AnsweredAt, Ends, UploadKinds
  <2>14. 1 \in 1..Len(inbox')
    BY <2>9
  <2>15. QED
    BY <1>3, <1>4, <2>5, <2>6, <2>7, <2>13, <2>14 DEF TalkInv, Conversation
<1>7. QED
  BY <1>5, <1>6

LEMMA ValidationIsAccepted ==
  ASSUME NothingGoesWrong, HostInv, TalkInv, Read, request = NoOperation, Len(inbox) >= 1,
         AnsweredAt(1), NEW op, op.kind = pending.kind, FinishCompleteTest(op), UNCHANGED closed
  PROVE  TalkInv'
<1>1. /\ pending.kind = "complete_test" /\ pending.kind \notin UploadKinds
      /\ UNCHANGED <<uploadOperations, activeUpload, started, nextResultTick, closed>>
  BY DEF FinishCompleteTest, UploadKinds
<1>2. uploadOperations = <<>> /\ ~RunsAfter(inbox[1]) /\ rig.test = activeUpload
  BY <1>1 DEF HostInv, Grounds, OwnerInv, PhasesAgree, RunsAfter, AnsweredAt
<1>3. RigFollows'
  BY <1>1, ReadFacts DEF TalkInv, RigFollows
<1>4. CASE Activate(NewOperation("start", activeUpload, None))
  <2>1. PICK next : next = NewOperation("start", activeUpload, None)
    OBVIOUS
  <2>2. next.kind = "start" /\ ~next.submitted /\ ~next.received /\ next.outcome = "success"
    BY <2>1 DEF NewOperation
  <2>3. pending' = next /\ workflow' # "FAILED"
    BY <1>4, <2>1, <2>2 DEF Activate, ActiveState, Kinds, RequestKinds
  <2>4. HostIsWell' /\ TickIsExpected'
    BY <1>1, <1>2, <2>2, <2>3 DEF TalkInv, HostIsWell, TickIsExpected
  <2>5. QED
    BY <1>1, <1>2, <1>3, <2>2, <2>3, <2>4, EndTalk
<1>5. CASE pending' = NoOperation /\ workflow' = "READY_TO_START"
  <2>1. HostIsWell' /\ TickIsExpected' /\ NothingPending'
    BY <1>1, <1>2, <1>5, NoOperationIsWell DEF TalkInv, HostIsWell, TickIsExpected, NothingPending
  <2>2. QED
    BY <1>1, <1>2, <1>3, <2>1, EndTalk
<1>6. QED
  BY <1>4, <1>5 DEF FinishCompleteTest

\* Discovery ends, a run starts, a run is given up.
LEMMA ControlIsDone ==
  ASSUME NothingGoesWrong, HostInv, TalkInv, Read, request = NoOperation, Len(inbox) >= 1,
         AnsweredAt(1), NEW op, op.kind = pending.kind, FinishControl(op), UNCHANGED closed,
         pending.kind # "discovery" => inbox[1].outcome = "success"
  PROVE  TalkInv'
<1>1. /\ pending' = NoOperation /\ NothingPending'
      /\ pending.kind \in {"discovery", "start", "abort", "reset"}
      /\ pending.kind \notin UploadKinds \union {"complete_test"}
  BY DEF FinishControl, NothingPending, UploadKinds
<1>2. UNCHANGED rig
  BY ReadFacts
<1>3. CASE pending.kind = "discovery" \/ pending.kind = "start"
  <2>1. /\ workflow' # "FAILED"
        /\ UNCHANGED <<uploadOperations, activeUpload, accepted, nextResultTick, closed>>
        /\ IF pending.kind = "discovery" THEN UNCHANGED started ELSE started'
    BY <1>3 DEF FinishControl, transactionVars
  <2>2. ~Ends(inbox[1]) /\ (RunsAfter(inbox[1]) => pending.kind = "start")
    BY <1>3 DEF Ends, RunsAfter
  <2>3. accepted' => rig.test = activeUpload'
    BY <2>1, <2>2 DEF AnsweredAt
  <2>4. HostIsWell' /\ TickIsExpected' /\ RigFollows'
    BY <1>1, <1>2, <2>1, NoOperationIsWell DEF TalkInv, HostIsWell, TickIsExpected, RigFollows
  <2>5. QED
    BY <1>1, <2>1, <2>2, <2>3, <2>4, EndTalk
<1>4. CASE pending.kind \in {"abort", "reset"}
  <2>1. /\ workflow' # "FAILED" /\ UNCHANGED closed
        /\ uploadOperations' = <<>> /\ activeUpload' = None
        /\ ~accepted' /\ ~started' /\ nextResultTick' = 0
    BY <1>4 DEF FinishControl, RetireActiveUpload, RetireIntoSet
  <2>2. rig' = IdleRig /\ ~RunsAfter(inbox[1])
    BY <1>2, <1>4 DEF AnsweredAt, Ends, RunsAfter
  <2>3. RigFollows'
    BY <2>1, <2>2 DEF RigFollows, IdleRig
  <2>4. HostIsWell' /\ TickIsExpected'
    BY <1>1, <2>1, NoOperationIsWell DEF TalkInv, HostIsWell, TickIsExpected
  <2>5. QED
    BY <1>1, <2>1, <2>2, <2>3, <2>4, EndTalk
<1>5. QED
  BY <1>1, <1>3, <1>4

\* What asked for a change of the run is rejected: the run is as it was.
LEMMA ControlIsRejected ==
  ASSUME NothingGoesWrong, HostInv, TalkInv, Read, request = NoOperation, Len(inbox) >= 1,
         AnsweredAt(1), NEW op, op.kind = pending.kind, op.restore = pending.restore,
         op.outcome = "rejected", inbox[1].outcome = "rejected",
         op.kind \in {"start", "abort", "reset"}, FinishNegative(op)
  PROVE  TalkInv'
<1>1. /\ pending.kind \in {"start", "abort", "reset"}
      /\ pending.kind \notin UploadKinds \union {"complete_test"}
  BY DEF UploadKinds
<1>2. UNCHANGED <<rig, closed>> /\ ~Ends(inbox[1])
  BY ReadFacts DEF FinishNegative, Raise, Ends
<1>3. accepted => rig.test = activeUpload
  BY <1>2 DEF AnsweredAt
<1>4. CASE pending.kind = "start"
  <2>1. /\ pending' = NoOperation /\ NothingPending' /\ workflow' # "FAILED"
        /\ ~started' /\ accepted'
        /\ UNCHANGED <<uploadOperations, activeUpload, nextResultTick>>
    BY <1>4 DEF FinishNegative, NothingPending, UploadKinds
  <2>2. accepted /\ ~started
    BY <1>4 DEF HostInv, Grounds, OwnerInv, PhasesAgree, ReadyToStart
  <2>3. ~RunsAfter(inbox[1])
    BY <1>4 DEF RunsAfter
  <2>4. HostIsWell' /\ TickIsExpected' /\ RigFollows'
    BY <1>1, <1>2, <2>1, <2>2, NoOperationIsWell DEF TalkInv, HostIsWell, TickIsExpected, RigFollows
  <2>5. QED
    BY <1>1, <1>3, <2>1, <2>2, <2>3, <2>4, EndTalk
<1>5. CASE pending.kind \in {"abort", "reset"}
  <2>1. /\ pending' = NoOperation /\ NothingPending' /\ workflow' = pending.restore
        /\ UNCHANGED transactionVars
    BY <1>5 DEF FinishNegative, NothingPending, UploadKinds
  <2>2. UNCHANGED <<uploadOperations, activeUpload, accepted, started, nextResultTick>>
    BY <2>1 DEF transactionVars
  <2>3. RunsAfter(inbox[1]) => started'
    BY <1>5, <2>2 DEF RunsAfter
  <2>4. workflow' # "FAILED"
    BY <1>5, <2>1 DEF TalkInv, HostIsWell
  <2>5. HostIsWell' /\ TickIsExpected' /\ RigFollows'
    BY <1>1, <1>2, <2>1, <2>2, <2>4, NoOperationIsWell
       DEF TalkInv, HostIsWell, TickIsExpected, RigFollows
  <2>6. QED
    BY <1>1, <1>3, <2>1, <2>2, <2>3, <2>5, EndTalk
<1>6. QED
  BY <1>1, <1>4, <1>5

LEMMA AnswerIsRead ==
  ASSUME NothingGoesWrong, HostInv, TalkInv, Read, Answered, Len(inbox) >= 1, AnsweredAt(1)
  PROVE  TalkInv'
<1>1. ~NothingPending /\ pending.submitted /\ request = NoOperation
  BY DEF Answered
<1>2. ~deliveryPending
  <2>1. events = <<>> /\ ~inFlight
    BY <1>1, ReadFacts DEF TalkInv, OneDelivery
  <2>2. 1..Len(<<>>) = {}
    OBVIOUS
  <2>3. ~Owed
    BY <2>1, <2>2 DEF Owed
  <2>4. QED
    BY <2>3 DEF HostInv, Grounds, DeliveryInv
<1>3. inbox[1] \in AnswersTo(pending) /\ HandleMessage(inbox[1])
  BY ReadFacts DEF AnsweredAt
<1>4. PICK op : /\ Finish(op, delivered)
                /\ op.kind = pending.kind /\ op.test = pending.test /\ op.restore = pending.restore
                /\ op.outcome = IF pending.kind = "discovery" THEN "success" ELSE inbox[1].outcome
  BY <1>1, <1>2, <1>3, AnswerFinishes
<1>5. CASE FinishNegative(op)
  <2>1. op.outcome # "success" /\ pending.kind # "discovery"
    BY <1>4, <1>5 DEF FinishNegative
  <2>2. /\ inbox[1].outcome = "rejected"
        /\ pending.kind \in {"start", "abort", "reset"}
    BY <1>3, <1>4, <2>1 DEF AnswersTo, Response
  <2>3. op.kind \in {"start", "abort", "reset"} /\ op.outcome = "rejected"
    BY <1>4, <2>1, <2>2
  <2>4. QED
    BY <1>1, <1>4, <1>5, <2>2, <2>3, ControlIsRejected
<1>6. CASE ~FinishNegative(op)
  <2>1. /\ op.outcome = "success" /\ ~deliveryPending' /\ UNCHANGED closed
        /\ FinishUploadMessage(op, delivered) \/ FinishCompleteTest(op) \/ FinishControl(op)
    BY <1>4, <1>6 DEF Finish, Continue, controlVars
  <2>2. pending.kind # "discovery" => inbox[1].outcome = "success"
    BY <1>4, <2>1
  <2>3. CASE FinishUploadMessage(op, delivered)
    BY <1>1, <1>4, <2>1, <2>3, MessageIsAccepted
  <2>4. CASE FinishCompleteTest(op)
    BY <1>1, <1>4, <2>1, <2>4, ValidationIsAccepted
  <2>5. CASE FinishControl(op)
    BY <1>1, <1>4, <2>1, <2>2, <2>5, ControlIsDone
  <2>6. QED
    BY <2>1, <2>3, <2>4, <2>5
<1>7. QED
  BY <1>5, <1>6

LEMMA ReadTalk ==
  ASSUME NothingGoesWrong, HostInv, TalkInv, Read
  PROVE  TalkInv'
<1>1. Len(inbox) \in Nat \ {0}
  BY ReadFacts
<1>2. CASE Answered
  <2>1. PICK k \in 1..Len(inbox) : AnsweredAt(k)
    BY <1>2 DEF TalkInv, Conversation
  <2>2. CASE k = 1
    BY <1>1, <1>2, <2>1, <2>2, AnswerIsRead
  <2>3. CASE k > 1
    <3>1. started /\ inbox[1] = NextResult(1 - 1)
      BY <2>1, <2>3 DEF AnsweredAt
    <3>2. QED
      BY <3>1, ResultIsRead
  <2>4. QED
    BY <2>1, <2>2, <2>3
<1>3. CASE ~Answered
  <2>1. OnlyResults
    BY <1>3 DEF TalkInv, Conversation
  <2>2. started /\ inbox[1] = NextResult(1 - 1)
    BY <1>1, <2>1 DEF OnlyResults
  <2>3. QED
    BY <2>2, ResultIsRead
<1>4. QED
  BY <1>2, <1>3

-----------------------------------------------------------------------------
(* Every step *)

LEMMA PassTalk ==
  ASSUME HostInv, TalkInv, Pass
  PROVE  TalkInv'
<1>1. UNCHANGED rigVars
  BY DEF Pass
<1>2. CASE UNCHANGED dataVars /\ UNCHANGED closed
  BY <1>1, <1>2, StillTalk DEF dataVars, sessionVars, transactionVars, transportVars
<1>3. CASE DrainEvent
  BY <1>1, <1>3, EventTalk
<1>4. CASE AdvanceWorkflow
  <2>1. /\ AdvanceWith(uploadOperations)
        /\ UNCHANGED <<deliveryPending, activeUpload, accepted, started, nextResultTick, closed,
                       inFlight, events>>
    BY <1>4 DEF AdvanceWorkflow, transportVars
  <2>2. QED
    BY <1>1, <2>1, AdvanceTalk
<1>5. QED
  BY <1>2, <1>3, <1>4 DEF Pass, Processed, EventsDrained, MessagesDrained, NothingSubmitted

\* A deadline is set once a request is delivered, and by then it has been answered.
LEMMA NothingTimesOut ==
  ASSUME HostInv, TalkInv
  PROVE  ~TimesOut
<1> SUFFICES ASSUME TimesOut PROVE FALSE
  OBVIOUS
<1>1. request = NoOperation /\ inbox = <<>> /\ ~NothingPending /\ pending.armed
  BY DEF TimesOut, ResponseTimeout
<1>2. Answered
  BY <1>1, PendingFacts DEF Answered
<1>3. 1..Len(<<>>) = {}
  OBVIOUS
<1>4. QED
  BY <1>1, <1>2, <1>3 DEF TalkInv, Conversation

\* So only these steps are left of SessionNext.
LEMMA WhatHappens ==
  ASSUME NothingGoesWrong, HostInv, TalkInv, [SessionNext]_sessionSpecVars
  PROVE  \/ Serve \/ Pass \/ Submit \/ Read \/ Calls
         \/ RigAnswers \/ RigSendsResult \/ NewSession
         \/ UNCHANGED sessionSpecVars
<1>1. ~TimesOut
  BY NothingTimesOut
<1>2. ~HostFault /\ ~TransportFault
  BY NoFaultHappens DEF HostFault, TransportFault
<1>3. ~LateConfirmation
  BY DEF TalkInv, OneDelivery, LateConfirmation, DeliveryConfirmed
<1>4. QED
  BY <1>1, <1>2, <1>3 DEF SessionNext

LEMMA TalkStep ==
  ASSUME NothingGoesWrong, HostInv, TalkInv, [SessionNext]_sessionSpecVars
  PROVE  TalkInv'
<1>1. CASE Serve \/ UNCHANGED sessionSpecVars
  BY <1>1, StillTalk DEF Serve, Service, sessionSpecVars, vars, dataVars, sessionVars,
     transactionVars, transportVars, controlVars
<1>2. CASE Calls
  <2>1. UNCHANGED rigVars
    BY <1>2 DEF Calls
  <2>2. ASSUME NEW a \in Attempts, NEW replace \in BOOLEAN, BindResultBuilder(a, replace)
        PROVE  TalkInv'
    BY <2>1, <2>2, StillTalk DEF BindResultBuilder, Bind, sessionVars, transactionVars,
       transportVars, controlVars
  <2>3. ASSUME NEW a \in Attempts, QueueUpload(a)
        PROVE  TalkInv'
    BY <2>1, <2>3, QueueTalk
  <2>4. CASE Start \/ Abort \/ ResetApplication
    BY <2>1, <2>4, CallTalk
  <2>5. QED
    BY <1>2, <2>2, <2>3, <2>4 DEF Calls
<1>3. QED
  BY <1>1, <1>2, PassTalk, SubmitTalk, ReadTalk, AnswerTalk, ResultTalk, NewSessionTalk, WhatHappens

\* The conversation is one of the things that can happen to a HostConnection.
LEMMA SessionStepIsStep ==
  ASSUME NothingGoesWrong, HostInv, TalkInv, [SessionNext]_sessionSpecVars
  PROVE  [AnyNext]_vars
<1>1. CASE Serve \/ Calls
  BY <1>1 DEF Serve, Calls, AnyNext, Caller
<1>2. CASE Pass \/ Submit
  BY <1>2 DEF Pass, Submit, AnyNext, ServicePass
<1>3. CASE Read
  <2>1. Head(inbox) \in Messages /\ DrainMessage(Head(inbox))
    BY <1>3, TailFacts DEF Read, TalkInv
  <2>2. QED
    BY <2>1 DEF AnyNext
<1>4. CASE RigAnswers
  <2>1. DeliveryConfirmed
    BY <1>4 DEF RigAnswers, Confirms, NothingGoesWrong, TalkInv, OneDelivery
  <2>2. QED
    BY <2>1 DEF AnyNext, Transport
<1>5. CASE RigSendsResult
  <2>1. TransportRuns(<<>>) /\ UNCHANGED <<inFlight, established>>
    BY <1>5 DEF RigSendsResult
  <2>2. UNCHANGED events
    BY <2>1, PendingFacts DEF TransportRuns
  <2>3. UNCHANGED vars
    BY <2>1, <2>2 DEF TransportRuns, vars, dataVars, transportVars
  <2>4. QED
    BY <2>3
<1>6. CASE NewSession
  BY <1>6 DEF NewSession, AnyNext, Transport
<1>7. CASE UNCHANGED sessionSpecVars
  BY <1>7 DEF sessionSpecVars
<1>8. QED
  BY <1>1, <1>2, <1>3, <1>4, <1>5, <1>6, <1>7, WhatHappens

LEMMA HostStep ==
  ASSUME HostInv, [AnyNext]_vars
  PROVE  HostInv'
<1>1. Grounds /\ PlanInv /\ SessionInv
  BY DEF HostInv
<1>2. QED
  BY <1>1, GroundsStep, PlanStep, SessionStep DEF HostInv

LEMMA SessionStarts ==
  ASSUME NothingGoesWrong, SessionInit
  PROVE  HostInv /\ TalkInv
<1>1. HostInv
  BY GroundsStep, InitPlan, InitSession DEF SessionInit, HostInv
<1>2. /\ inbox = <<>> /\ request = NoOperation /\ rig = IdleRig /\ faults = 0
      /\ pending = NoOperation /\ events = <<>> /\ ~inFlight /\ ~closed /\ workflow = "CONNECTING"
      /\ uploadOperations = <<>> /\ nextResultTick = 0 /\ ~accepted /\ activeUpload = None
  BY DEF SessionInit, Init
<1>3. Len(inbox) = 0 /\ Len(events) = 0 /\ inbox \in Seq(Messages)
  BY <1>2
<1>4. HostIsWell /\ RigFollows
  BY <1>2, NoOperationIsWell DEF HostIsWell, RigFollows, IdleRig
<1>5. OneDelivery
  BY <1>2, <1>3 DEF OneDelivery
<1>6. OnlyResults /\ TickIsExpected /\ ~Answered
  BY <1>2, <1>3, NoOperationIsWell DEF OnlyResults, TickIsExpected, Answered, NothingPending,
     IdleRig
<1>7. QED
  BY <1>1, <1>2, <1>3, <1>4, <1>5, <1>6 DEF TalkInv, Conversation

\* A connection whose rig cooperates and whose Transport works never ends up FAILED, whatever
\* the caller asks and whichever of its control requests the rig rejects: no answer and no
\* result ever meets a connection that does not expect it.
THEOREM CooperationNeverFails ==
  ASSUME NothingGoesWrong
  PROVE  SessionSpec => []NeverFailsByItself
<1>1. SessionInit => HostInv /\ TalkInv
  BY SessionStarts
<1>2. HostInv /\ TalkInv /\ [SessionNext]_sessionSpecVars => HostInv' /\ TalkInv'
  BY SessionStepIsStep, HostStep, TalkStep
<1>3. TalkInv => NeverFailsByItself
  BY DEF TalkInv, HostIsWell, NeverFailsByItself
<1>4. QED
  BY <1>1, <1>2, <1>3, PTL DEF SessionSpec

-----------------------------------------------------------------------------
(* The end of a run *)

\* A request that ends the run is outstanding.
Stopping == pending.kind \in {"abort", "reset"}

\* Once the last result has been read the state says so, unless the run is being stopped.
Reported ==
  started /\ nextResultTick = ExpectedTickCount[activeUpload] =>
    workflow = "RESULTS_COMPLETE" \/ Stopping

\* A rig that rejects neither ABORT nor RESET_APPLICATION answers the request only by granting it.
LEMMA StoppingIsGranted ==
  ASSUME NothingGoesWrong, RigRejects \subseteq {"start"}, HostInv, TalkInv, Stopping, Read,
         started'
  PROVE  Stopping'
<1>1. Len(inbox) \in Nat \ {0} /\ HandleMessage(inbox[1]) /\ ~StorageRefuses(inbox[1])
  BY ReadFacts
<1>2. CASE started /\ inbox[1] = NextResult(0)
  BY <1>1, <1>2, ResultIsStored DEF Stopping
<1>3. CASE Answered /\ AnsweredAt(1)
  <2>1. ~NothingPending /\ pending.submitted /\ request = NoOperation
    BY <1>3 DEF Answered
  <2>2. ~deliveryPending
    <3>1. events = <<>> /\ ~inFlight /\ 1..Len(<<>>) = {}
      BY <2>1, ReadFacts DEF TalkInv, OneDelivery
    <3>2. ~Owed
      BY <3>1 DEF Owed
    <3>3. QED
      BY <3>2 DEF HostInv, Grounds, DeliveryInv
  <2>3. inbox[1] \in AnswersTo(pending) /\ inbox[1].outcome = "success"
    BY <1>3 DEF AnsweredAt, AnswersTo, Response, Stopping
  <2>4. PICK op : Finish(op, delivered) /\ op.kind = pending.kind /\ op.outcome = "success"
    BY <1>1, <2>1, <2>2, <2>3, AnswerFinishes DEF Stopping
  <2>5. FinishControl(op)
    BY <2>4 DEF Finish, FinishNegative, FinishUploadMessage, UploadMessageFinished,
       FinishCompleteTest, Stopping, UploadKinds
  <2>6. RetireActiveUpload
    BY <2>4, <2>5 DEF FinishControl, Stopping
  <2>7. QED
    BY <2>6 DEF RetireActiveUpload, RetireIntoSet
<1>4. CASE Answered /\ ~AnsweredAt(1)
  <2>1. PICK k \in 1..Len(inbox) : AnsweredAt(k)
    BY <1>4 DEF TalkInv, Conversation
  <2>2. k > 1
    BY <1>1, <1>4, <2>1
  <2>3. started /\ inbox[1] = NextResult(1 - 1)
    BY <2>1, <2>2 DEF AnsweredAt
  <2>4. QED
    BY <1>2, <2>3
<1>5. CASE ~Answered
  <2>1. started /\ inbox[1] = NextResult(1 - 1)
    BY <1>1, <1>5 DEF TalkInv, Conversation, OnlyResults
  <2>2. QED
    BY <1>2, <2>1
<1>6. QED
  BY <1>3, <1>4, <1>5

LEMMA EventKeepsStopping ==
  ASSUME HostInv, TalkInv, Stopping, DrainEvent
  PROVE  Stopping'
<1>1. events # <<>> /\ HandleEvent(Head(events)) /\ 1 \in 1..Len(events) /\ Head(events) = events[1]
  BY PendingFacts, TailFacts DEF DrainEvent
<1>2. CASE events[1] = "SESSION_ESTABLISHED"
  BY <1>1, <1>2 DEF HandleEvent, HandleSessionEstablished, Stopping
<1>3. CASE events[1] = "DELIVERY_CONFIRMED" /\ deliveryPending
  <2> DEFINE op == [pending EXCEPT !.armed = @ \/ pending.submitted]
  <2>1. op.kind = pending.kind /\ op.received = pending.received
    BY PendingFacts DEF Operation
  <2>2. ~NothingPending /\ ~op.received
    BY <1>3, <2>1, PendingFacts DEF TalkInv, HostIsWell
  <2>3. DeliveryConfirmedFor(op)
    BY <1>1, <1>3, <2>2 DEF HandleEvent, HandleDeliveryConfirmed
  <2> HIDE DEF op
  <2>4. pending' = op
    BY <2>2, <2>3 DEF DeliveryConfirmedFor
  <2>5. QED
    BY <2>1, <2>4 DEF Stopping
<1>4. QED
  BY <1>1, <1>2, <1>3 DEF TalkInv, OneDelivery

\* The same for every step: no answer but a granting one ends the request.
LEMMA StoppingEndsTheRun ==
  ASSUME NothingGoesWrong, RigRejects \subseteq {"start"}, HostInv, TalkInv, Stopping,
         [SessionNext]_sessionSpecVars, started'
  PROVE  Stopping'
<1>1. ~NothingPending
  BY PendingFacts DEF Stopping
<1>2. CASE UNCHANGED pending
  BY <1>2 DEF Stopping
<1>3. CASE Calls
  <2>1. pending.kind # "discovery"
    BY DEF Stopping
  <2>2. ASSUME NEW a \in Attempts PROVE ~QueueUpload(a)
    BY <1>1, <2>1 DEF QueueUpload
  <2>3. ~Start /\ ~Abort /\ ~ResetApplication
    BY <1>1 DEF Start, Abort, ResetApplication, Request
  <2>4. UNCHANGED pending
    BY <1>3, <2>2, <2>3 DEF Calls, BindResultBuilder, Bind, sessionVars
  <2>5. QED
    BY <1>2, <2>4
<1>4. CASE Submit
  BY <1>4, PendingFacts DEF Submit, SubmitMessage, Stopping, Operation
<1>5. CASE Pass
  <2>1. CASE UNCHANGED dataVars
    BY <1>2, <2>1 DEF dataVars, sessionVars
  <2>2. CASE AdvanceWorkflow
    BY <1>1, <1>2, <2>2 DEF AdvanceWorkflow, AdvanceWith
  <2>3. CASE DrainEvent
    BY <1>1, <2>3, EventKeepsStopping
  <2>4. QED
    BY <1>5, <2>1, <2>2, <2>3 DEF Pass, Processed, EventsDrained, MessagesDrained,
       NothingSubmitted
<1>6. CASE Serve \/ RigAnswers \/ RigSendsResult \/ NewSession \/ UNCHANGED sessionSpecVars
  BY <1>2, <1>6
     DEF Serve, Service, RigAnswers, Confirms, DeliveryConfirmed, RigSendsResult, NewSession,
         SessionEstablished, TransportRuns, sessionVars, dataVars, sessionSpecVars, vars
<1>7. QED
  BY <1>3, <1>4, <1>5, <1>6, StoppingIsGranted, WhatHappens

LEMMA ReportedStep ==
  ASSUME NothingGoesWrong, RigRejects \subseteq {"start"}, HostInv, TalkInv, Reported,
         [SessionNext]_sessionSpecVars
  PROVE  Reported'
<1> SUFFICES ASSUME started', nextResultTick' = ExpectedTickCount[activeUpload]', ~Stopping'
             PROVE  workflow' = "RESULTS_COMPLETE"
  BY DEF Reported
<1>1. ~Stopping
  BY StoppingEndsTheRun
<1>2. HostInv' /\ TalkInv'
  BY SessionStepIsStep, HostStep, TalkStep
<1>3. activeUpload' \in Attempts /\ ExpectedTickCount[activeUpload'] \in Nat \ {0}
  <2>1. Grounds' /\ activeUpload' # None
    BY <1>2 DEF HostInv, Grounds, OwnerInv, PhasesAgree
  <2>2. activeUpload' \in Attempts
    BY <2>1 DEF Grounds, TypeInv, Types, SessionTypes, Tests
  <2>3. QED
    BY <2>2, ConnectionAssumption
<1>4. ~closed' /\ Tells' /\ Identified'
  BY <1>2 DEF HostInv, SessionInv, ToldInv, TalkInv, HostIsWell
<1>5. Shape
  BY SessionStepIsStep, StepShape DEF HostInv, Grounds
<1>6. CASE UNCHANGED <<workflow, activeUpload, started, nextResultTick>>
  BY <1>1, <1>6 DEF Reported
<1>7. CASE Quiet
  BY <1>6, <1>7 DEF Quiet
<1>8. ASSUME NEW op, NEW count, Noted(op, count), Finish(op, count)
      PROVE  FALSE
  <2>1. op.kind = pending.kind
    BY <1>8 DEF Noted, Same
  <2>2. CASE op.kind = "start" /\ FinishControl(op)
    <3>1. ~started
      BY <2>1, <2>2 DEF HostInv, Grounds, OwnerInv, PhasesAgree, ReadyToStart
    <3>2. nextResultTick' = 0
      BY <2>2, <3>1 DEF FinishControl, TalkInv, HostIsWell
    <3>3. QED
      BY <1>3, <3>2
  <2>3. CASE op.kind \in {"discovery"} \union UploadKinds \union {"complete_test"}
    <3>1. ~started
      BY <2>1, <2>3 DEF HostInv, Grounds, OwnerInv, PhasesAgree, SessionInv, ToldInv, Identified,
         TalkInv, HostIsWell
    <3>2. QED
      BY <1>8, <2>3, <3>1 DEF Finish, FinishNegative, FinishUploadMessage, UploadMessageFinished,
         FinishCompleteTest, FinishControl, RetireActiveUpload, RetireIntoSet, transactionVars,
         UploadKinds
  <2>4. QED
    BY <1>1, <1>8, <2>1, <2>2, <2>3 DEF Finish, FinishNegative, FailWorkflow, RetireActiveUpload,
       RetireIntoSet, FinishUploadMessage, UploadMessageFinished, FinishCompleteTest,
       FinishControl, Stopping, UploadKinds
<1>9. CASE ServiceShape
  BY <1>6, <1>7, <1>8, <1>9
     DEF ServiceShape, Fails, FailWorkflow, RetireActiveUpload, RetireIntoSet, Updates
<1>10. CASE HandleSessionEstablished
  BY <1>4, <1>10 DEF HandleSessionEstablished, Tells, Truth
<1>11. CASE AdvanceWorkflow
  <2>1. UNCHANGED <<activeUpload, started, nextResultTick>>
    BY <1>11 DEF AdvanceWorkflow
  <2>2. UNCHANGED workflow
    <3>1. started /\ confirmed /\ uploadOperations = <<>>
      BY <2>1 DEF HostInv, Grounds, OwnerInv, PhasesAgree, SessionInv, ToldInv, Identified,
         TalkInv, HostIsWell
    <3>2. QED
      BY <1>11, <3>1 DEF AdvanceWorkflow, AdvanceWith
  <2>3. QED
    BY <1>6, <2>1, <2>2
<1>12. CASE SubmitMessage
  BY <1>6, <1>12 DEF SubmitMessage, transactionVars
<1>13. ASSUME NEW a \in Attempts, QueueUpload(a)
       PROVE  FALSE
  BY <1>13 DEF QueueUpload
<1>14. ASSUME NEW op, Requests(op)
       PROVE  FALSE
  <2>1. pending' = op /\ UNCHANGED started
    BY <1>14 DEF Requests, Request, Activate, transactionVars
  <2>2. op.kind = "start"
    BY <1>14, <2>1 DEF Requests, Stopping
  <2>3. QED
    BY <1>2, <2>1, <2>2 DEF HostInv, Grounds, OwnerInv, PhasesAgree, ReadyToStart
<1>15. ~Close
  BY <1>4 DEF Close
<1>16. QED
  BY <1>5, <1>9, <1>10, <1>11, <1>12, <1>13, <1>14, <1>15 DEF Shape

\* When nothing goes wrong, only a refused ABORT or RESET_APPLICATION hides that a run is
\* complete: if the rig rejects no more than START, then once all the results are there and no
\* request is outstanding, workflow_state is RESULTS_COMPLETE.
THEOREM OnlyARefusalHidesCompletion ==
  ASSUME NothingGoesWrong, RigRejects \subseteq {"start"}
  PROVE  SessionSpec => []ResultsAreReported
<1>1. SessionInit => HostInv /\ TalkInv /\ Reported
  BY SessionStarts DEF SessionInit, Init, Reported
<1>2. HostInv /\ TalkInv /\ Reported /\ [SessionNext]_sessionSpecVars
        => HostInv' /\ TalkInv' /\ Reported'
  BY SessionStepIsStep, HostStep, TalkStep, ReportedStep
<1>3. HostInv /\ Reported => ResultsAreReported
  BY PendingFacts DEF Reported, Stopping, ResultsAreReported
<1>4. QED
  BY <1>1, <1>2, <1>3, PTL DEF SessionSpec
=============================================================================
