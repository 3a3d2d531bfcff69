------------------------------ MODULE CaptureProofs ------------------------------
(***************************************************************************)
(* Safety of a capture for any threads, records, capacity and batch size,  *)
(* under any failure and at any crash: types, what the metadata say of the *)
(* stored rows, what COMPLETE means, and who may make the file.            *)
(***************************************************************************)
EXTENDS CaptureStore, FiniteSetTheorems, SequenceTheorems, WellFoundedInduction, TLAPS

-----------------------------------------------------------------------------
(* Least and greatest numbers *)

LEMMA LeastOf ==
  ASSUME NEW S \in SUBSET Nat, S # {}
  PROVE  \E x \in S : \A y \in S : x <= y
<1> DEFINE R == OpToRel(<, Nat)
<1>1. IsWellFoundedOn(R, Nat)
  BY NatLessThanWellFounded
<1>2. \A x, y \in Nat : <<y, x>> \in R <=> y < x
  BY DEF OpToRel
<1> HIDE DEF R
<1>3. PICK x \in S : \A y \in S : ~(<<y, x>> \in R)
  BY <1>1, WFMin, Zenon
<1>4. ASSUME NEW y \in S PROVE x <= y
  <2>1. x \in Nat /\ y \in Nat /\ ~(y < x)
    BY <1>2, <1>3
  <2>2. QED
    BY <2>1
<1>5. QED
  BY <1>4

LEMMA MinOf ==
  ASSUME NEW S \in SUBSET Nat, S # {}
  PROVE  Min(S) \in S /\ \A y \in S : Min(S) <= y
BY LeastOf, Zenon DEF Min

LEMMA MaxOf ==
  ASSUME NEW S \in SUBSET Nat, S # {}, NEW n \in Nat, \A x \in S : x <= n
  PROVE  Max(S) \in S /\ \A y \in S : y <= Max(S)
<1> DEFINE T == {n - x : x \in S}
<1>1. T \in SUBSET Nat /\ T # {}
  <2>1. \A x \in S : n - x \in Nat
    OBVIOUS
  <2>2. QED
    BY <2>1
<1>2. PICK t \in T : \A u \in T : t <= u
  BY <1>1, LeastOf
<1>3. n - t \in S /\ \A y \in S : n - t >= y
  BY <1>1, <1>2
<1>4. QED
  BY <1>3 DEF Max

LEMMA MinIs ==
  ASSUME NEW S \in SUBSET Nat, NEW m \in S, \A y \in S : m <= y
  PROVE  Min(S) = m
<1>1. Min(S) \in S /\ \A y \in S : Min(S) <= y
  BY MinOf
<1>2. Min(S) \in Nat /\ m \in Nat /\ Min(S) <= m /\ m <= Min(S)
  BY <1>1
<1>3. QED
  BY <1>2

LEMMA MaxIs ==
  ASSUME NEW S \in SUBSET Nat, NEW m \in S, \A y \in S : y <= m
  PROVE  Max(S) = m
<1>1. m \in Nat /\ S # {}
  OBVIOUS
<1>2. Max(S) \in S /\ \A y \in S : y <= Max(S)
  BY <1>1, MaxOf
<1>3. Max(S) \in Nat /\ m <= Max(S) /\ Max(S) <= m
  BY <1>2
<1>4. QED
  BY <1>1, <1>3

-----------------------------------------------------------------------------
(* Where each record is *)

Position(r) == r \in Records /\ TickOf[r] < ExpectedTickCount

\* A record in a call was not acknowledged, and is in one call only.
CallsAreSound ==
  /\ \A p \in Threads : call[p].at # "idle" => call[p].op # "idle"
  /\ \A p \in Threads : call[p].op = "add" => Position(call[p].record) /\ call[p].record \notin Acknowledged
  /\ \A p, q \in Threads :
       p # q /\ call[p].op = "add" /\ call[q].op = "add" => call[p].record # call[q].record

\* A queued record was acknowledged, is queued once, and is neither pending nor stored.
QueueIsSound ==
  /\ \A i \in 1..Len(queue) :
       queue[i].op = "add" =>
         /\ Position(queue[i].record)
         /\ queue[i].record \in Acknowledged /\ queue[i].record \notin batch \union rows
  /\ \A i, j \in 1..Len(queue) :
       i # j /\ queue[i].op = "add" /\ queue[j].op = "add" => queue[i].record # queue[j].record

\* A record is pending or stored, not both.
BatchIsSound ==
  /\ batch \union rows \subseteq Acknowledged
  /\ batch \intersect rows = {}
  /\ IsFiniteSet(batch) /\ IsFiniteSet(rows)
  /\ \A r \in batch \union rows : Position(r)

RequestIsSound == writer = "finalizing" => request \in Items

CallTypes ==
  /\ accepting \in BOOLEAN /\ crashed \in BOOLEAN
  /\ queue \in Seq(Items)
  /\ call \in [Threads -> Calls]
  /\ acknowledged \in [Threads -> Seq(Records)]

WriterTypes ==
  /\ workerError \in BOOLEAN
  /\ reply \in [Threads -> {"none", "ok", "error"}]
  /\ writer \in {"opening", "running", "committing", "finalizing", "draining", "stopped"}
  /\ request \in Items \union {None}
  /\ batch \subseteq Records /\ rows \subseteq Records
  /\ ordinal \in [Records -> Nat]
  /\ nextOrdinal \in [0..ExpectedTickCount - 1 -> Nat]

DatabaseTypes ==
  /\ received \in Nat
  /\ firstTick \in Nat \union {None} /\ lastTick \in Nat \union {None}
  /\ status \in Statuses

TypeInv ==
  /\ CallTypes /\ WriterTypes /\ DatabaseTypes /\ RequestIsSound
  /\ CallsAreSound /\ QueueIsSound /\ BatchIsSound

LEMMA TypesAreOK == TypeInv => TypeOK
BY DEF TypeInv, CallTypes, WriterTypes, DatabaseTypes, TypeOK

LEMMA AcknowledgedMembers ==
  ASSUME NEW a \in [Threads -> Seq(Records)], NEW r
  PROVE  r \in UNION {Range(a[p]) : p \in Threads} <=>
           \E p \in Threads : \E i \in 1..Len(a[p]) : a[p][i] = r
<1>1. \A p \in Threads : DOMAIN a[p] = 1..Len(a[p])
  BY LenProperties
<1>2. QED
  BY <1>1 DEF Range

LEMMA AcknowledgeOne ==
  ASSUME CallTypes, NEW p \in Threads, NEW r \in Records,
         acknowledged' = [acknowledged EXCEPT ![p] = Append(@, r)]
  PROVE  /\ acknowledged' \in [Threads -> Seq(Records)]
         /\ Acknowledged' = Acknowledged \union {r}
<1> DEFINE a == acknowledged
           b == acknowledged'
<1>1. /\ a \in [Threads -> Seq(Records)] /\ b \in [Threads -> Seq(Records)]
      /\ b[p] = Append(a[p], r) /\ \A q \in Threads \ {p} : b[q] = a[q]
  BY DEF CallTypes
<1> HIDE DEF a, b
<1>2. /\ Len(b[p]) = Len(a[p]) + 1 /\ b[p][Len(a[p]) + 1] = r /\ Len(a[p]) \in Nat
      /\ \A i \in 1..Len(a[p]) : b[p][i] = a[p][i]
  BY <1>1
<1>3. ASSUME NEW x
      PROVE  (\E q \in Threads : \E i \in 1..Len(b[q]) : b[q][i] = x) <=>
               (\E q \in Threads : \E i \in 1..Len(a[q]) : a[q][i] = x) \/ x = r
  <2>1. ASSUME NEW q \in Threads, NEW i \in 1..Len(b[q]), b[q][i] = x
        PROVE  (\E z \in Threads : \E k \in 1..Len(a[z]) : a[z][k] = x) \/ x = r
    <3>1. CASE q # p
      BY <2>1, <3>1, <1>1
    <3>2. CASE q = p /\ i = Len(a[p]) + 1
      BY <2>1, <3>2, <1>2
    <3>3. CASE q = p /\ i # Len(a[p]) + 1
      <4>1. i \in 1..Len(a[p])
        BY <3>3, <1>2
      <4>2. QED
        BY <2>1, <3>3, <4>1, <1>2
    <3>4. QED
      BY <3>1, <3>2, <3>3
  <2>2. ASSUME NEW q \in Threads, NEW i \in 1..Len(a[q]), a[q][i] = x
        PROVE  \E z \in Threads : \E k \in 1..Len(b[z]) : b[z][k] = x
    <3>1. CASE q # p
      BY <2>2, <3>1, <1>1
    <3>2. CASE q = p
      <4>1. i \in 1..Len(b[p]) /\ b[p][i] = x
        BY <2>2, <3>2, <1>2
      <4>2. QED
        BY <4>1
    <3>3. QED
      BY <3>1, <3>2
  <2>3. Len(a[p]) + 1 \in 1..Len(b[p])
    BY <1>2
  <2>4. QED
    BY <2>1, <2>2, <2>3, <1>2
<1>4. \A x : x \in Acknowledged' <=> x \in Acknowledged \/ x = r
  BY <1>1, <1>3, AcknowledgedMembers DEF Acknowledged, a, b
<1>5. QED
  BY <1>1, <1>4 DEF b

-----------------------------------------------------------------------------
(* Every step preserves the types and the whereabouts of records *)

LEMMA AcknowledgedRecords == CallTypes => Acknowledged \subseteq Records
<1>1. SUFFICES ASSUME CallTypes, NEW r \in Acknowledged PROVE r \in Records
  OBVIOUS
<1>2. PICK p \in Threads : \E i \in 1..Len(acknowledged[p]) : acknowledged[p][i] = r
  BY <1>1, AcknowledgedMembers DEF CallTypes, Acknowledged
<1>3. QED
  BY <1>1, <1>2 DEF CallTypes

LEMMA InitTypes == Init => TypeInv
<1>1. SUFFICES ASSUME Init PROVE TypeInv
  OBVIOUS
<1>2. CallTypes /\ WriterTypes /\ DatabaseTypes /\ RequestIsSound
  <2>1. Idle \in Calls
    BY DEF Idle, Calls
  <2>2. CallTypes
    <3>1. <<>> \in Seq(Items) /\ <<>> \in Seq(Records)
      OBVIOUS
    <3>2. call \in [Threads -> Calls] /\ acknowledged \in [Threads -> Seq(Records)]
      BY <1>1, <2>1, <3>1, Zenon DEF Init
    <3>3. QED
      BY <1>1, <3>1, <3>2 DEF Init, CallTypes
  <2>3. WriterTypes /\ RequestIsSound
    BY <1>1 DEF Init, WriterTypes, RequestIsSound
  <2>4. DatabaseTypes
    BY <1>1 DEF Init, DatabaseTypes, Statuses
  <2>5. QED
    BY <2>2, <2>3, <2>4
<1>3. CallsAreSound
  BY <1>1 DEF Init, CallsAreSound, Idle
<1>4. QueueIsSound
  BY <1>1 DEF Init, QueueIsSound
<1>5. BatchIsSound
  BY <1>1, FS_EmptySet DEF Init, BatchIsSound
<1>6. QED
  BY <1>2, <1>3, <1>4, <1>5 DEF TypeInv

\* A step that lets a call go on or end, and touches nothing else it is about.
LEMMA CallGoesOn ==
  ASSUME TypeInv, NEW p \in Threads,
         \/ call' = [call EXCEPT ![p] = Idle]
         \/ \E place \in {"checking", "putting", "waiting"} : call' = [call EXCEPT ![p].at = place],
         call[p].at # "idle", acknowledged' = acknowledged
  PROVE  call' \in [Threads -> Calls] /\ CallsAreSound'
<1>1. call \in [Threads -> Calls] /\ CallsAreSound
  BY DEF TypeInv, CallTypes
<1>2. Idle \in Calls
  BY DEF Idle, Calls
<1>3. call' \in [Threads -> Calls]
  <2>1. CASE call' = [call EXCEPT ![p] = Idle]
    BY <2>1, <1>1, <1>2
  <2>2. ASSUME NEW place \in {"checking", "putting", "waiting"},
               call' = [call EXCEPT ![p].at = place]
        PROVE  call' \in [Threads -> Calls]
    <3>1. [call[p] EXCEPT !.at = place] \in Calls
      BY <1>1 DEF Calls
    <3>2. QED
      BY <2>2, <3>1, <1>1
  <2>3. QED
    BY <2>1, <2>2
<1>4. \A q \in Threads :
        /\ call'[q].op = "add" => call[q].op = "add" /\ call'[q].record = call[q].record
        /\ call'[q].at # "idle" => call[q].at # "idle" /\ call'[q].op = call[q].op
  <2>1. CASE call' = [call EXCEPT ![p] = Idle]
    BY <2>1, <1>1 DEF Idle
  <2>2. ASSUME NEW place \in {"checking", "putting", "waiting"},
               call' = [call EXCEPT ![p].at = place]
        PROVE  \A q \in Threads :
                 /\ call'[q].op = call[q].op /\ call'[q].record = call[q].record
                 /\ call'[q].at = call[q].at \/ call[q].at # "idle"
    BY <2>2, <1>1 DEF Calls
  <2>3. QED
    BY <2>1, <2>2
<1>5. Acknowledged' = Acknowledged
  BY DEF Acknowledged
<1>6. QED
  BY <1>1, <1>3, <1>4, <1>5 DEF CallsAreSound, Position

LEMMA EnterTypes ==
  ASSUME TypeInv, NEW p \in Threads, NEW op \in {"add", "flush", "finalize"},
         NEW record \in Records \union {None}, NEW requested \in Statuses \union {None},
         op = "add" => Position(record) /\ Unused(record),
         Enter(p, op, record, requested)
  PROVE  TypeInv'
<1> DEFINE new == [op |-> op, at |-> "checking", record |-> record,
                   status |-> requested, before |-> Acknowledged]
<1>1. call \in [Threads -> Calls] /\ CallTypes /\ CallsAreSound
  BY DEF TypeInv, CallTypes
<1>2. new \in Calls
  BY <1>1, AcknowledgedRecords DEF Calls
<1>3. call' = [call EXCEPT ![p] = new] /\ Acknowledged' = Acknowledged
  BY DEF Enter, builderVars, Acknowledged
<1>4. new.op = op /\ new.record = record
  OBVIOUS
<1> HIDE DEF new
<1>5. call'[p] = new /\ \A q \in Threads \ {p} : call'[q] = call[q]
  BY <1>1, <1>3
<1>6. CallTypes'
  <2>1. call' \in [Threads -> Calls]
    BY <1>1, <1>2, <1>3
  <2>2. accepting' \in BOOLEAN
    BY DEF Enter
  <2>3. QED
    BY <1>1, <2>1, <2>2 DEF CallTypes, Enter
<1>7. CallsAreSound'
  <2>1. \A q \in Threads : call'[q].op = "add" =>
          Position(call'[q].record) /\ call'[q].record \notin Acknowledged
    BY <1>1, <1>4, <1>5 DEF CallsAreSound, Unused
  <2>2. ASSUME NEW q1 \in Threads, NEW q2 \in Threads, q1 # q2,
               call'[q1].op = "add", call'[q2].op = "add"
        PROVE  call'[q1].record # call'[q2].record
    BY <2>2, <1>1, <1>4, <1>5 DEF CallsAreSound, Unused
  <2>3. \A q \in Threads : call'[q].at # "idle" => call'[q].op # "idle"
    BY <1>1, <1>4, <1>5 DEF CallsAreSound
  <2>4. QED
    BY <1>3, <2>1, <2>2, <2>3 DEF CallsAreSound, Position
<1>8. UNCHANGED <<queue, writerVars, database>> /\ TypeInv
  BY DEF Enter
<1>9. WriterTypes' /\ DatabaseTypes' /\ RequestIsSound' /\ QueueIsSound' /\ BatchIsSound'
  BY <1>8, <1>3 DEF TypeInv, WriterTypes, DatabaseTypes, RequestIsSound, QueueIsSound, BatchIsSound,
     writerVars, database, Position
<1>10. QED
  BY <1>6, <1>7, <1>9 DEF TypeInv

LEMMA CallStepTypes ==
  ASSUME TypeInv, NEW p \in Threads, Check(p) \/ QueueFull(p) \/ Return(p)
  PROVE  TypeInv'
<1>1. call' \in [Threads -> Calls] /\ CallsAreSound'
  <2>1. acknowledged' = acknowledged
    BY DEF Check, QueueFull, Return
  <2>2. \/ call' = [call EXCEPT ![p] = Idle]
        \/ \E place \in {"checking", "putting", "waiting"} : call' = [call EXCEPT ![p].at = place]
    <3>1. CASE Check(p)
      <4>1. CASE workerError \/ (call[p].op # "finalize" /\ ~accepting)
        BY <3>1, <4>1 DEF Check
      <4>2. CASE ~(workerError \/ (call[p].op # "finalize" /\ ~accepting))
        <5>1. call' = [call EXCEPT ![p].at = "putting"]
          BY <3>1, <4>2, Zenon DEF Check
        <5>2. QED
          BY <5>1
      <4>3. QED
        BY <4>1, <4>2
    <3>2. CASE QueueFull(p) \/ Return(p)
      BY <3>2 DEF QueueFull, Return
    <3>3. QED
      BY <3>1, <3>2
  <2>3. call[p].at # "idle"
    BY DEF Check, QueueFull, Return
  <2>4. QED
    BY <2>1, <2>2, <2>3, CallGoesOn
<1>2. Acknowledged' = Acknowledged
  BY DEF Check, QueueFull, Return, Acknowledged
<1>3. reply' \in [Threads -> {"none", "ok", "error"}]
  BY DEF TypeInv, WriterTypes, Check, QueueFull, Return, writerVars
<1>4. UNCHANGED <<accepting, queue, acknowledged, writer, request, batch, ordinal, nextOrdinal,
                  workerError, database, crashed>>
  BY DEF Check, QueueFull, Return, writerVars
<1>5. CallTypes' /\ WriterTypes'
  BY <1>1, <1>3, <1>4 DEF TypeInv, CallTypes, WriterTypes, database
<1>6. DatabaseTypes' /\ RequestIsSound' /\ QueueIsSound' /\ BatchIsSound'
  BY <1>2, <1>4 DEF TypeInv, DatabaseTypes, RequestIsSound, QueueIsSound, BatchIsSound, database, Position
<1>7. QED
  BY <1>1, <1>5, <1>6 DEF TypeInv
LEMMA QueueHead ==
  ASSUME TypeInv, queue # <<>>
  PROVE  /\ Head(queue) = queue[1] /\ Head(queue) \in Items /\ 1 \in 1..Len(queue)
         /\ Tail(queue) \in Seq(Items)
         /\ \A i \in 1..Len(Tail(queue)) : i + 1 \in 1..Len(queue) /\ Tail(queue)[i] = queue[i + 1]
<1>1. queue \in Seq(Items)
  BY DEF TypeInv, CallTypes
<1>2. QED
  BY <1>1

LEMMA PutTypes ==
  ASSUME TypeInv, NEW p \in Threads, Put(p)
  PROVE  TypeInv'
<1> DEFINE item == [op |-> call[p].op, by |-> p, record |-> call[p].record, status |-> call[p].status]
<1>1. /\ call \in [Threads -> Calls] /\ call[p] \in Calls /\ queue \in Seq(Items)
      /\ call[p].at = "putting"
  BY DEF TypeInv, CallTypes, Put
<1>2. item \in Items /\ item.op = call[p].op /\ item.record = call[p].record
  BY <1>1 DEF Items, Calls, TypeInv, CallsAreSound
<1>3. queue' = Append(queue, item)
  BY DEF Put
<1> HIDE DEF item
<1>4. /\ queue' \in Seq(Items) /\ Len(queue') = Len(queue) + 1 /\ Len(queue) \in Nat
      /\ queue'[Len(queue) + 1] = item /\ \A i \in 1..Len(queue) : queue'[i] = queue[i]
  BY <1>1, <1>2, <1>3
<1>5. UNCHANGED <<accepting, writerVars, database, crashed>>
  BY DEF Put
<1>6. WriterTypes' /\ DatabaseTypes' /\ RequestIsSound'
  BY <1>5 DEF TypeInv, WriterTypes, DatabaseTypes, RequestIsSound, writerVars, database
<1>7. batch' = batch /\ rows' = rows
  BY <1>5 DEF writerVars, database
<1>8. CASE call[p].op = "add"
  <2>1. call[p].record \in Records /\ Position(call[p].record) /\ call[p].record \notin Acknowledged
    BY <1>8 DEF TypeInv, CallsAreSound, Position
  <2>2. acknowledged' = [acknowledged EXCEPT ![p] = Append(@, call[p].record)]
    BY <1>8 DEF Put
  <2>3. acknowledged' \in [Threads -> Seq(Records)] /\ Acknowledged' = Acknowledged \union {call[p].record}
    BY <2>1, <2>2, AcknowledgeOne DEF TypeInv
  <2>4. call' = [call EXCEPT ![p] = Idle] /\ Idle \in Calls /\ Idle.op = "idle"
    BY <1>8 DEF Put, Idle, Calls
  <2>5. call' \in [Threads -> Calls] /\ call'[p] = Idle /\ \A q \in Threads \ {p} : call'[q] = call[q]
    BY <1>1, <2>4
  <2>6. CallTypes'
    BY <1>4, <1>5, <2>3, <2>5 DEF TypeInv, CallTypes
  <2>7. CallsAreSound'
    <3>1. \A q \in Threads : call'[q].op = "add" =>
            /\ Position(call'[q].record) /\ call'[q].record \notin Acknowledged
            /\ call'[q].record # call[p].record
      BY <1>8, <2>4, <2>5 DEF TypeInv, CallsAreSound
    <3>2. \A q1, q2 \in Threads :
            q1 # q2 /\ call'[q1].op = "add" /\ call'[q2].op = "add" => call'[q1].record # call'[q2].record
      BY <2>4, <2>5 DEF TypeInv, CallsAreSound
    <3>3. \A q \in Threads : call'[q].at # "idle" => call'[q].op # "idle"
      BY <2>5 DEF TypeInv, CallsAreSound, Idle
    <3>4. QED
      BY <2>3, <3>1, <3>2, <3>3 DEF CallsAreSound, Position
  <2>8. call[p].record \notin batch \union rows
    BY <2>1 DEF TypeInv, BatchIsSound
  <2>9. \A i \in 1..Len(queue) : queue[i].op = "add" => queue[i].record # call[p].record
    BY <2>1 DEF TypeInv, QueueIsSound
  <2>10. QueueIsSound'
    <3>1. ASSUME NEW i \in 1..Len(queue'), queue'[i].op = "add"
          PROVE  /\ Position(queue'[i].record)
                 /\ queue'[i].record \in Acknowledged' /\ queue'[i].record \notin batch \union rows
      <4>1. CASE i \in 1..Len(queue)
        BY <3>1, <4>1, <1>4, <2>3 DEF TypeInv, QueueIsSound
      <4>2. CASE i = Len(queue) + 1
        BY <3>1, <4>2, <1>4, <1>2, <2>1, <2>3, <2>8
      <4>3. QED
        BY <4>1, <4>2, <1>4
    <3>2. ASSUME NEW i \in 1..Len(queue'), NEW j \in 1..Len(queue'), i # j,
                 queue'[i].op = "add", queue'[j].op = "add"
          PROVE  queue'[i].record # queue'[j].record
      <4>1. CASE i \in 1..Len(queue) /\ j \in 1..Len(queue)
        BY <3>2, <4>1, <1>4 DEF TypeInv, QueueIsSound
      <4>2. CASE i = Len(queue) + 1 /\ j \in 1..Len(queue)
        BY <3>2, <4>2, <1>4, <1>2, <2>9
      <4>3. CASE j = Len(queue) + 1 /\ i \in 1..Len(queue)
        BY <3>2, <4>3, <1>4, <1>2, <2>9
      <4>4. QED
        BY <3>2, <4>1, <4>2, <4>3, <1>4
    <3>3. QED
      BY <3>1, <3>2, <1>7 DEF QueueIsSound, Position
  <2>11. BatchIsSound'
    BY <1>7, <2>3 DEF TypeInv, BatchIsSound, Position
  <2>12. QED
    BY <1>6, <2>6, <2>7, <2>10, <2>11 DEF TypeInv
<1>9. CASE call[p].op # "add"
  <2>1. acknowledged' = acknowledged /\ call' = [call EXCEPT ![p].at = "waiting"]
    BY <1>9 DEF Put
  <2>2. call' \in [Threads -> Calls] /\ CallsAreSound'
    <3>1. \E place \in {"checking", "putting", "waiting"} : call' = [call EXCEPT ![p].at = place]
      BY <2>1
    <3>2. QED
      BY <3>1, <2>1, <1>1, CallGoesOn
  <2>3. Acknowledged' = Acknowledged
    BY <2>1 DEF Acknowledged
  <2>4. CallTypes'
    BY <1>4, <1>5, <2>1, <2>2 DEF TypeInv, CallTypes
  <2>5. QueueIsSound'
    <3>1. \A i \in 1..Len(queue') : queue'[i].op = "add" => i \in 1..Len(queue) /\ queue'[i] = queue[i]
      BY <1>4, <1>2, <1>9
    <3>2. QED
      BY <3>1, <2>3, <1>7 DEF TypeInv, QueueIsSound, Position
  <2>6. BatchIsSound'
    BY <1>7, <2>3 DEF TypeInv, BatchIsSound, Position
  <2>7. QED
    BY <1>6, <2>2, <2>4, <2>5, <2>6 DEF TypeInv
<1>10. QED
  BY <1>8, <1>9

\* What a step of the writer leaves alone.
LEMMA WriterTouches ==
  ASSUME TypeInv, WriterUnchanged
  PROVE  /\ Acknowledged' = Acknowledged /\ CallsAreSound'
         /\ queue' \in Seq(Items) => CallTypes'
<1>1. UNCHANGED <<accepting, call, acknowledged, crashed>>
  BY DEF WriterUnchanged
<1>2. Acknowledged' = Acknowledged
  BY <1>1 DEF Acknowledged
<1>3. QED
  BY <1>1, <1>2 DEF TypeInv, CallsAreSound, CallTypes, Position

LEMMA WriterFailsTypes ==
  ASSUME TypeInv, WriterFails
  PROVE  TypeInv'
<1>1. WriterUnchanged /\ UNCHANGED <<batch, ordinal, nextOrdinal, database, queue>>
  BY DEF WriterFails
<1>2. Acknowledged' = Acknowledged /\ CallsAreSound' /\ CallTypes'
  BY <1>1, WriterTouches DEF TypeInv, CallTypes
<1>3. reply' \in [Threads -> {"none", "ok", "error"}]
  <2>1. CASE request = None
    BY <2>1 DEF WriterFails, TypeInv, WriterTypes
  <2>2. CASE request # None
    BY <2>2 DEF WriterFails, TypeInv, WriterTypes, Items
  <2>3. QED
    BY <2>1, <2>2
<1>4. WriterTypes' /\ RequestIsSound'
  BY <1>1, <1>3 DEF WriterFails, TypeInv, WriterTypes, RequestIsSound, database
<1>5. DatabaseTypes' /\ QueueIsSound' /\ BatchIsSound'
  BY <1>1, <1>2 DEF TypeInv, DatabaseTypes, QueueIsSound, BatchIsSound, database, Position
<1>6. QED
  BY <1>2, <1>4, <1>5 DEF TypeInv

LEMMA OpenTypes ==
  ASSUME TypeInv, Open
  PROVE  TypeInv'
<1>1. CASE WriterFails
  BY <1>1, WriterFailsTypes
<1>2. CASE ~WriterFails
  <2>1. /\ writer' = "running" /\ WriterUnchanged
        /\ UNCHANGED <<request, batch, ordinal, nextOrdinal, workerError, reply, database, queue>>
    BY <1>2 DEF Open
  <2>2. Acknowledged' = Acknowledged /\ CallsAreSound' /\ CallTypes'
    BY <2>1, WriterTouches DEF TypeInv, CallTypes
  <2>3. WriterTypes' /\ RequestIsSound' /\ DatabaseTypes' /\ QueueIsSound' /\ BatchIsSound'
    BY <2>1, <2>2 DEF TypeInv, WriterTypes, RequestIsSound, DatabaseTypes, QueueIsSound, BatchIsSound,
       database, Position
  <2>4. QED
    BY <2>2, <2>3 DEF TypeInv
<1>3. QED
  BY <1>1, <1>2
LEMMA MaxOfTwo ==
  ASSUME NEW a \in Nat, NEW b \in Nat
  PROVE  Max({a, b}) = IF a <= b THEN b ELSE a
<1>1. CASE a <= b
  BY <1>1, MaxIs
<1>2. CASE ~(a <= b)
  BY <1>2, MaxIs
<1>3. QED
  BY <1>1, <1>2

LEMMA MinOfTwo ==
  ASSUME NEW a \in Nat, NEW b \in Nat
  PROVE  Min({a, b}) = IF a <= b THEN a ELSE b
<1>1. CASE a <= b
  BY <1>1, MinIs
<1>2. CASE ~(a <= b)
  BY <1>2, MinIs
<1>3. QED
  BY <1>1, <1>2

\* The queue loses its head; what is left of it stays sound.
LEMMA TailIsSound ==
  ASSUME TypeInv, queue # <<>>, queue' = Tail(queue), Acknowledged' = Acknowledged,
         \A i \in 2..Len(queue) :
           queue[i].op = "add" => queue[i].record \notin batch' \union rows'
  PROVE  QueueIsSound'
<1>1. \A i \in 1..Len(queue') : i + 1 \in 1..Len(queue) /\ i + 1 \in 2..Len(queue) /\ queue'[i] = queue[i + 1]
  <2>1. \A i \in 1..Len(queue') : i + 1 \in 1..Len(queue) /\ queue'[i] = queue[i + 1]
    BY QueueHead
  <2>2. Len(queue) \in Nat
    BY DEF TypeInv, CallTypes
  <2>3. Len(queue') \in Nat
    BY QueueHead
  <2>4. QED
    BY <2>1, <2>2, <2>3
<1>2. \A i \in 1..Len(queue') : queue'[i].op = "add" =>
        /\ Position(queue'[i].record)
        /\ queue'[i].record \in Acknowledged /\ queue'[i].record \notin batch' \union rows'
  BY <1>1 DEF TypeInv, QueueIsSound
<1>3. ASSUME NEW i \in 1..Len(queue'), NEW j \in 1..Len(queue'), i # j,
             queue'[i].op = "add", queue'[j].op = "add"
      PROVE  queue'[i].record # queue'[j].record
  <2>1. Len(queue') \in Nat
    BY QueueHead
  <2>2. i + 1 # j + 1
    BY <1>3, <2>1
  <2>3. QED
    BY <1>1, <1>3, <2>2 DEF TypeInv, QueueIsSound
<1>4. QED
  BY <1>2, <1>3 DEF QueueIsSound, Position

LEMMA TakeRecordTypes ==
  ASSUME TypeInv, TakeRecord
  PROVE  TypeInv'
<1> DEFINE r == Head(queue).record
<1>1. /\ queue # <<>> /\ queue' = Tail(queue) /\ Head(queue).op = "add"
      /\ batch' = batch \union {r}
      /\ IF KindOf[r] = "communication"
         THEN /\ ordinal' = [ordinal EXCEPT ![r] = Ordinal(r)]
              /\ nextOrdinal' = [nextOrdinal EXCEPT ![TickOf[r]] = Max({@, Ordinal(r) + 1})]
         ELSE UNCHANGED <<ordinal, nextOrdinal>>
      /\ writer' \in {"committing", "running"}
      /\ UNCHANGED <<request, workerError, reply, database>> /\ WriterUnchanged
  BY DEF TakeRecord
<1>2. /\ queue[1].op = "add" /\ r = queue[1].record /\ 1 \in 1..Len(queue)
      /\ queue' \in Seq(Items) /\ Head(queue) \in Items
  BY <1>1, QueueHead
<1> HIDE DEF r
<1>3. r \in Records /\ Position(r) /\ r \in Acknowledged /\ r \notin batch \union rows
  BY <1>2 DEF TypeInv, QueueIsSound, Position
<1>4. Acknowledged' = Acknowledged /\ CallsAreSound' /\ CallTypes'
  BY <1>1, <1>2, WriterTouches
<1>5. ordinal' \in [Records -> Nat] /\ nextOrdinal' \in [0..ExpectedTickCount - 1 -> Nat]
  <2>1. TickOf[r] \in 0..ExpectedTickCount - 1
    BY <1>3, CaptureAssumption DEF Position
  <2>2. /\ ordinal \in [Records -> Nat] /\ nextOrdinal \in [0..ExpectedTickCount - 1 -> Nat]
        /\ nextOrdinal[TickOf[r]] \in Nat
    BY <2>1 DEF TypeInv, WriterTypes
  <2>3. Ordinal(r) \in Nat
    BY <1>3, <2>2, CaptureAssumption DEF Ordinal
  <2>4. Ordinal(r) + 1 \in Nat
    BY <2>3
  <2>5. Max({nextOrdinal[TickOf[r]], Ordinal(r) + 1}) \in Nat
    BY <2>2, <2>4, MaxOfTwo
  <2>6. QED
    BY <1>1, <2>2, <2>3, <2>5
<1>6. WriterTypes' /\ DatabaseTypes' /\ RequestIsSound'
  BY <1>1, <1>3, <1>5 DEF TypeInv, WriterTypes, DatabaseTypes, RequestIsSound, database
<1>7. rows' = rows
  BY <1>1 DEF database
<1>8. QueueIsSound'
  <2>1. Len(queue) \in Nat
    BY DEF TypeInv, CallTypes
  <2>2. ASSUME NEW i \in 2..Len(queue), queue[i].op = "add"
        PROVE  queue[i].record \notin batch' \union rows'
    <3>1. i \in 1..Len(queue) /\ i # 1
      BY <2>1
    <3>2. queue[i].record # r
      BY <3>1, <2>2, <1>2 DEF TypeInv, QueueIsSound
    <3>3. QED
      BY <3>1, <3>2, <2>2, <1>1, <1>7 DEF TypeInv, QueueIsSound
  <2>3. QED
    BY <1>1, <1>4, <2>2, TailIsSound
<1>9. BatchIsSound'
  <2>1. IsFiniteSet(batch')
    BY <1>1, FS_AddElement DEF TypeInv, BatchIsSound
  <2>2. QED
    BY <1>1, <1>3, <1>4, <1>7, <2>1 DEF TypeInv, BatchIsSound, Position
<1>10. QED
  BY <1>4, <1>6, <1>8, <1>9 DEF TypeInv

LEMMA TakeRequestTypes ==
  ASSUME TypeInv, TakeRequest
  PROVE  TypeInv'
<1>1. /\ queue # <<>> /\ queue' = Tail(queue) /\ request' = Head(queue) /\ writer' = "committing"
      /\ UNCHANGED <<batch, ordinal, nextOrdinal, workerError, reply, database>> /\ WriterUnchanged
  BY DEF TakeRequest
<1>2. Head(queue) \in Items /\ queue' \in Seq(Items) /\ Len(queue) \in Nat
  BY <1>1, QueueHead DEF TypeInv, CallTypes
<1>3. Acknowledged' = Acknowledged /\ CallsAreSound' /\ CallTypes'
  BY <1>1, <1>2, WriterTouches
<1>4. WriterTypes' /\ DatabaseTypes' /\ RequestIsSound'
  BY <1>1, <1>2 DEF TypeInv, WriterTypes, DatabaseTypes, RequestIsSound, database
<1>5. batch' = batch /\ rows' = rows
  BY <1>1 DEF database
<1>6. \A i \in 2..Len(queue) : queue[i].op = "add" => queue[i].record \notin batch' \union rows'
  BY <1>2, <1>5 DEF TypeInv, QueueIsSound
<1>7. QueueIsSound'
  BY <1>1, <1>3, <1>6, TailIsSound
<1>8. BatchIsSound'
  BY <1>3, <1>5 DEF TypeInv, BatchIsSound, Position
<1>9. QED
  BY <1>3, <1>4, <1>7, <1>8 DEF TypeInv

LEMMA FlushIntervalTypes ==
  ASSUME TypeInv, FlushInterval
  PROVE  TypeInv'
<1>1. /\ writer' = "committing" /\ WriterUnchanged
      /\ UNCHANGED <<request, batch, ordinal, nextOrdinal, workerError, reply, queue, database>>
  BY DEF FlushInterval
<1>2. Acknowledged' = Acknowledged /\ CallsAreSound' /\ CallTypes'
  BY <1>1, WriterTouches DEF TypeInv, CallTypes
<1>3. WriterTypes' /\ RequestIsSound' /\ DatabaseTypes' /\ QueueIsSound' /\ BatchIsSound'
  BY <1>1, <1>2 DEF TypeInv, WriterTypes, RequestIsSound, DatabaseTypes, QueueIsSound, BatchIsSound,
     database, Position
<1>4. QED
  BY <1>2, <1>3 DEF TypeInv

LEMMA DrainQueueTypes ==
  ASSUME TypeInv, DrainQueue
  PROVE  TypeInv'
<1>1. /\ WriterUnchanged /\ UNCHANGED <<request, batch, ordinal, nextOrdinal, workerError, database>>
      /\ writer = "draining"
  BY DEF DrainQueue
<1>2. batch' = batch /\ rows' = rows
  BY <1>1 DEF database
<1>3. /\ queue' \in Seq(Items) /\ QueueIsSound'
      /\ reply' \in [Threads -> {"none", "ok", "error"}]
      /\ writer' \in {"draining", "stopped"}
  <2>1. CASE queue = <<>>
    <3>1. writer' = "stopped" /\ UNCHANGED <<queue, reply>>
      BY <2>1 DEF DrainQueue
    <3>2. Acknowledged' = Acknowledged
      BY <1>1, WriterTouches
    <3>3. QED
      BY <3>1, <3>2, <1>2 DEF TypeInv, CallTypes, WriterTypes, QueueIsSound, Position
  <2>2. CASE queue # <<>>
    <3>1. /\ queue' = Tail(queue) /\ writer' = writer
          /\ reply' = IF Head(queue).op = "add" THEN reply
                      ELSE [reply EXCEPT ![Head(queue).by] = "error"]
      BY <2>2 DEF DrainQueue
    <3>2. Head(queue) \in Items /\ queue' \in Seq(Items) /\ Len(queue) \in Nat
      BY <2>2, <3>1, QueueHead DEF TypeInv, CallTypes
    <3>3. reply' \in [Threads -> {"none", "ok", "error"}]
      BY <3>1, <3>2 DEF TypeInv, WriterTypes, Items
    <3>4. \A i \in 2..Len(queue) : queue[i].op = "add" => queue[i].record \notin batch' \union rows'
      BY <3>2, <1>2 DEF TypeInv, QueueIsSound
    <3>5. QueueIsSound'
      BY <2>2, <3>1, <3>4, <1>1, WriterTouches, TailIsSound
    <3>6. QED
      BY <1>1, <3>1, <3>2, <3>3, <3>5
  <2>3. QED
    BY <2>1, <2>2
<1>4. Acknowledged' = Acknowledged /\ CallsAreSound' /\ CallTypes'
  BY <1>1, <1>3, WriterTouches
<1>5. WriterTypes' /\ DatabaseTypes' /\ RequestIsSound'
  BY <1>1, <1>3 DEF TypeInv, WriterTypes, DatabaseTypes, RequestIsSound, database
<1>6. BatchIsSound'
  BY <1>2, <1>4 DEF TypeInv, BatchIsSound, Position
<1>7. QED
  BY <1>3, <1>4, <1>5, <1>6 DEF TypeInv

-----------------------------------------------------------------------------
(* What the metadata say of the rows *)

LEMMA MinUnion ==
  ASSUME NEW S \in SUBSET Nat, NEW T \in SUBSET Nat, S # {}, T # {}
  PROVE  Min(S) \in Nat /\ Min(T) \in Nat /\ Min(S \union T) = Min({Min(S), Min(T)})
<1> DEFINE s == Min(S)
           t == Min(T)
<1>1. s \in S /\ t \in T /\ (\A y \in S : s <= y) /\ (\A y \in T : t <= y)
  BY MinOf
<1> HIDE DEF s, t
<1>2. s \in Nat /\ t \in Nat
  BY <1>1
<1>3. CASE s <= t
  <2>1. \A y \in S \union T : s <= y
    BY <1>1, <1>2, <1>3
  <2>2. Min(S \union T) = s
    BY <1>1, <2>1, MinIs
  <2>3. QED
    BY <1>2, <1>3, <2>2, MinOfTwo DEF s, t
<1>4. CASE ~(s <= t)
  <2>1. \A y \in S \union T : t <= y
    BY <1>1, <1>2, <1>4
  <2>2. Min(S \union T) = t
    BY <1>1, <2>1, MinIs
  <2>3. QED
    BY <1>2, <1>4, <2>2, MinOfTwo DEF s, t
<1>5. QED
  BY <1>3, <1>4

LEMMA MaxUnion ==
  ASSUME NEW S \in SUBSET Nat, NEW T \in SUBSET Nat, S # {}, T # {},
         NEW n \in Nat, \A x \in S \union T : x <= n
  PROVE  Max(S) \in Nat /\ Max(T) \in Nat /\ Max(S \union T) = Max({Max(S), Max(T)})
<1> DEFINE s == Max(S)
           t == Max(T)
<1>1. s \in S /\ t \in T /\ (\A y \in S : y <= s) /\ (\A y \in T : y <= t)
  <2>1. (\A x \in S : x <= n) /\ (\A x \in T : x <= n)
    OBVIOUS
  <2>2. QED
    BY <2>1, MaxOf
<1> HIDE DEF s, t
<1>2. s \in Nat /\ t \in Nat /\ S \union T \in SUBSET Nat
  BY <1>1
<1>3. CASE t <= s
  <2>1. \A y \in S \union T : y <= s
    BY <1>1, <1>2, <1>3
  <2>2. Max(S \union T) = s
    BY <1>1, <1>2, <2>1, MaxIs
  <2>3. CASE s = t
    BY <1>2, <2>2, <2>3, MaxOfTwo DEF s, t
  <2>4. CASE s # t
    BY <1>2, <1>3, <2>2, <2>4, MaxOfTwo DEF s, t
  <2>5. QED
    BY <2>3, <2>4
<1>4. CASE ~(t <= s)
  <2>1. \A y \in S \union T : y <= t
    BY <1>1, <1>2, <1>4
  <2>2. Max(S \union T) = t
    BY <1>1, <1>2, <2>1, MaxIs
  <2>3. QED
    BY <1>2, <1>4, <2>2, MaxOfTwo DEF s, t
<1>5. QED
  BY <1>3, <1>4

LEMMA LastTickOfUnion ==
  ASSUME NEW S \in SUBSET Nat, NEW T \in SUBSET Nat, S # {}, T # {},
         \A x \in S \union T : x < ExpectedTickCount
  PROVE  Max(S) \in Nat /\ Max(T) \in Nat /\ Max(S \union T) = Max({Max(S), Max(T)})
<1> DEFINE m == ExpectedTickCount
<1>1. m \in Nat /\ \A x \in S \union T : x <= m
  BY CaptureAssumption
<1> HIDE DEF m
<1>2. QED
  BY <1>1, MaxUnion

\* Two tick results stored have two ticks.
StoredOnce ==
  \A r, s \in TickRows : TickOf[r] = TickOf[s] => r = s

LEMMA StoreBatchSound ==
  ASSUME TypeInv, StoredOnce, MetadataMatchesRows, BatchIsStorable, StoreBatch
  PROVE  DatabaseTypes' /\ StoredOnce' /\ MetadataMatchesRows'
<1> DEFINE B == {r \in batch : KindOf[r] = "tick"}
           rowTicks == {TickOf[r] : r \in TickRows}
           n == ExpectedTickCount - 1
<1>1. rows' = rows \union batch /\ status' = status
  BY DEF StoreBatch
<1>2. TickRows' = TickRows \union B
  BY <1>1 DEF TickRows
<1>3. IsFiniteSet(B) /\ IsFiniteSet(TickRows) /\ TickRows \intersect B = {}
  <2>1. IsFiniteSet(batch) /\ IsFiniteSet(rows) /\ batch \intersect rows = {}
    BY DEF TypeInv, BatchIsSound
  <2>2. B \subseteq batch /\ TickRows \subseteq rows
    BY DEF TickRows
  <2>3. IsFiniteSet(B) /\ IsFiniteSet(TickRows)
    BY <2>1, <2>2, FS_Subset
  <2>4. QED
    BY <2>1, <2>2, <2>3
<1>4. /\ n \in Nat /\ BatchTicks = {TickOf[r] : r \in B}
      /\ \A r \in TickRows \union B : TickOf[r] \in 0..n
  BY CaptureAssumption DEF TypeInv, BatchIsSound, Position, BatchTicks, TickRows
<1>5. \A r \in B : \A s \in TickRows \union B : TickOf[r] = TickOf[s] => r = s
  BY DEF BatchIsStorable, Conflict, TickRows
<1>6. Cardinality(TickRows') = Cardinality(TickRows) + Cardinality(B)
      /\ Cardinality(B) \in Nat /\ Cardinality(TickRows) \in Nat
  <2>1. /\ Cardinality(TickRows \union B) =
             Cardinality(TickRows) + Cardinality(B) - Cardinality(TickRows \intersect B)
        /\ Cardinality(TickRows \intersect B) = 0
    BY <1>3, FS_Union, FS_EmptySet
  <2>2. Cardinality(B) \in Nat /\ Cardinality(TickRows) \in Nat
    BY <1>3, FS_CardinalityType
  <2>3. QED
    BY <1>2, <2>1, <2>2
<1>7. B = {} <=> BatchTicks = {}
  BY <1>4
<1>8. TickRows = {} <=> rowTicks = {}
  OBVIOUS
<1>9. {TickOf[r] : r \in TickRows'} = rowTicks \union BatchTicks
  BY <1>2, <1>4
<1>10. BatchTicks \in SUBSET (0..n) /\ rowTicks \in SUBSET (0..n)
  BY <1>4
<1>11. BatchTicks \in SUBSET Nat /\ rowTicks \in SUBSET Nat
  BY <1>4, <1>10
<1>12. StoredOnce'
  BY <1>2, <1>5 DEF StoredOnce
<1>13. /\ received = Cardinality(TickRows)
       /\ TickRows = {} => firstTick = None /\ lastTick = None
       /\ TickRows # {} => firstTick = Min(rowTicks) /\ lastTick = Max(rowTicks)
  BY DEF MetadataMatchesRows
<1>14. BatchTicks # {} =>
         /\ received' = received + Cardinality(B)
         /\ firstTick' = IF firstTick = None THEN Min(BatchTicks) ELSE Min({firstTick, Min(BatchTicks)})
         /\ lastTick' = IF lastTick = None THEN Max(BatchTicks) ELSE Max({lastTick, Max(BatchTicks)})
  BY DEF StoreBatch
<1>15. BatchTicks = {} => UNCHANGED <<received, firstTick, lastTick>>
  BY DEF StoreBatch
<1>16. None \notin Nat /\ received \in Nat /\ DatabaseTypes
  BY CaptureAssumption DEF TypeInv, DatabaseTypes
<1>17. ASSUME BatchTicks # {} PROVE Min(BatchTicks) \in Nat /\ Max(BatchTicks) \in Nat
  <2>1. \A x \in BatchTicks : x <= n
    BY <1>10
  <2>2. Min(BatchTicks) \in BatchTicks
    BY <1>17, <1>11, MinOf
  <2>3. Max(BatchTicks) \in BatchTicks
    <3> HIDE DEF n
    <3>1. QED
      BY <1>17, <1>4, <1>11, <2>1, MaxOf
  <2>4. QED
    BY <1>11, <2>2, <2>3
<1> DEFINE newTicks == {TickOf[r] : r \in TickRows'}
<1>18. CASE BatchTicks = {}
  <2>1. TickRows' = TickRows
    BY <1>2, <1>7, <1>18
  <2>2. UNCHANGED <<received, firstTick, lastTick>>
    BY <1>15, <1>18
  <2>3. DatabaseTypes' /\ MetadataMatchesRows'
    BY <2>1, <2>2, <1>1, <1>13, <1>16 DEF DatabaseTypes, MetadataMatchesRows
  <2>4. QED
    BY <2>3, <1>12
<1>19. CASE BatchTicks # {} /\ TickRows = {}
  <2>1. firstTick' = Min(BatchTicks) /\ lastTick' = Max(BatchTicks) /\ newTicks = BatchTicks
    BY <1>19, <1>13, <1>14, <1>9, <1>8
  <2>2. QED
    BY <2>1, <1>19, <1>17, <1>14, <1>6, <1>13, <1>16, <1>12, <1>1, <1>2, <1>7
    DEF MetadataMatchesRows, DatabaseTypes
<1>20. CASE BatchTicks # {} /\ TickRows # {}
  <2>1. firstTick = Min(rowTicks) /\ lastTick = Max(rowTicks) /\ rowTicks # {}
    BY <1>20, <1>13
  <2>2. /\ Min(rowTicks) \in Nat /\ Max(rowTicks) \in Nat
        /\ Min(rowTicks \union BatchTicks) = Min({Min(rowTicks), Min(BatchTicks)})
        /\ Max(rowTicks \union BatchTicks) = Max({Max(rowTicks), Max(BatchTicks)})
    <3>1. BatchTicks # {} /\ rowTicks # {} /\ n \in Nat
      BY <2>1, <1>20, <1>4
    <3>2. \A x \in rowTicks \union BatchTicks : x < ExpectedTickCount
      <4>1. ASSUME NEW x \in rowTicks \union BatchTicks PROVE x < ExpectedTickCount
        <5>1. x \in 0..n
          <6> HIDE DEF rowTicks, n
          <6>1. QED
            BY <1>10
        <5>2. QED
          BY <5>1, CaptureAssumption
      <4>2. QED
        BY <4>1
    <3> HIDE DEF rowTicks, n
    <3>3. Min(rowTicks) \in Nat /\ Min(rowTicks \union BatchTicks) = Min({Min(rowTicks), Min(BatchTicks)})
      BY <3>1, <1>11, MinUnion
    <3>4. Max(rowTicks) \in Nat /\ Max(rowTicks \union BatchTicks) = Max({Max(rowTicks), Max(BatchTicks)})
      BY <3>1, <3>2, <1>11, LastTickOfUnion
    <3>5. QED
      BY <3>3, <3>4
  <2>3. firstTick # None /\ lastTick # None
    BY <2>1, <2>2, <1>16
  <2>4. firstTick' = Min(newTicks) /\ lastTick' = Max(newTicks)
    BY <2>1, <2>2, <2>3, <1>14, <1>20, <1>9
  <2>5. firstTick' \in Nat /\ lastTick' \in Nat
    <3>1. Min(BatchTicks) \in Nat /\ Max(BatchTicks) \in Nat
      BY <1>17, <1>20
    <3>2. Min({firstTick, Min(BatchTicks)}) \in Nat /\ Max({lastTick, Max(BatchTicks)}) \in Nat
      BY <3>1, <2>1, <2>2, MinOfTwo, MaxOfTwo
    <3>3. QED
      BY <3>2, <2>3, <1>14, <1>20
  <2>6. QED
    BY <2>4, <2>5, <1>20, <1>14, <1>6, <1>13, <1>16, <1>12, <1>1, <1>2
    DEF MetadataMatchesRows, DatabaseTypes
<1>21. QED
  BY <1>18, <1>19, <1>20

\* A batch is stored: nothing pending is left, and every queued record is still outside the rows.
LEMMA CommitTypes ==
  ASSUME TypeInv, StoredOnce, MetadataMatchesRows, WriteBatch, ~WriterFails
  PROVE  TypeInv' /\ StoredOnce' /\ MetadataMatchesRows'
<1>1. /\ writer = "committing" /\ BatchIsStorable /\ StoreBatch /\ batch' = {}
      /\ writer' = IF request # None /\ request.op = "finalize" THEN "finalizing" ELSE "running"
      /\ request' = IF writer' = "finalizing" THEN request ELSE None
      /\ reply' = IF request # None /\ request' = None
                  THEN [reply EXCEPT ![request.by] = "ok"] ELSE reply
      /\ UNCHANGED <<ordinal, nextOrdinal, workerError, queue>> /\ WriterUnchanged
  BY DEF WriteBatch
<1>2. DatabaseTypes' /\ StoredOnce' /\ MetadataMatchesRows'
  BY <1>1, StoreBatchSound
<1>3. rows' = rows \union batch
  BY <1>1 DEF StoreBatch
<1>4. Acknowledged' = Acknowledged /\ CallsAreSound' /\ CallTypes'
  BY <1>1, WriterTouches DEF TypeInv, CallTypes
<1>5. reply' \in [Threads -> {"none", "ok", "error"}]
  <2>1. CASE request # None /\ request' = None
    <3>1. request.by \in Threads
      BY <2>1 DEF TypeInv, WriterTypes, Items
    <3>2. QED
      BY <2>1, <3>1, <1>1 DEF TypeInv, WriterTypes
  <2>2. CASE ~(request # None /\ request' = None)
    BY <2>2, <1>1 DEF TypeInv, WriterTypes
  <2>3. QED
    BY <2>1, <2>2
<1>6. request' \in Items \union {None} /\ (writer' = "finalizing" => request' \in Items)
  <2>1. CASE request # None /\ request.op = "finalize"
    BY <2>1, <1>1 DEF TypeInv, WriterTypes
  <2>2. CASE ~(request # None /\ request.op = "finalize")
    BY <2>2, <1>1
  <2>3. QED
    BY <2>1, <2>2
<1>7. WriterTypes' /\ RequestIsSound'
  BY <1>1, <1>3, <1>5, <1>6 DEF TypeInv, WriterTypes, RequestIsSound
<1>8. QueueIsSound'
  BY <1>1, <1>3, <1>4 DEF TypeInv, QueueIsSound, Position
<1>9. BatchIsSound'
  <2>1. IsFiniteSet(rows') /\ IsFiniteSet(batch')
    BY <1>1, <1>3, FS_Union, FS_EmptySet DEF TypeInv, BatchIsSound
  <2>2. QED
    BY <2>1, <1>1, <1>3, <1>4 DEF TypeInv, BatchIsSound, Position
<1>10. QED
  BY <1>2, <1>4, <1>7, <1>8, <1>9 DEF TypeInv

LEMMA FinalizeTypes ==
  ASSUME TypeInv, MarkFinal, ~WriterFails
  PROVE  TypeInv' /\ UNCHANGED <<rows, received, firstTick, lastTick>>
<1>1. /\ writer = "finalizing" /\ status' = FinalStatus
      /\ reply' = [reply EXCEPT ![request.by] = "ok"] /\ request' = None /\ writer' = "stopped"
      /\ UNCHANGED <<rows, received, firstTick, lastTick, batch, ordinal, nextOrdinal,
                     workerError, queue>>
      /\ WriterUnchanged
  BY DEF MarkFinal
<1>2. request \in Items
  BY <1>1 DEF TypeInv, RequestIsSound
<1>3. Acknowledged' = Acknowledged /\ CallsAreSound' /\ CallTypes'
  BY <1>1, WriterTouches DEF TypeInv, CallTypes
<1>4. DatabaseTypes'
  <2>1. FinalStatus \in Statuses
    BY <1>2 DEF FinalStatus, Items, Statuses, TerminalStatuses
  <2>2. QED
    BY <1>1, <2>1 DEF TypeInv, DatabaseTypes
<1>5. WriterTypes' /\ RequestIsSound'
  BY <1>1, <1>2 DEF TypeInv, WriterTypes, RequestIsSound, Items
<1>6. QueueIsSound' /\ BatchIsSound'
  BY <1>1, <1>3 DEF TypeInv, QueueIsSound, BatchIsSound, Position
<1>7. QED
  BY <1>1, <1>3, <1>4, <1>5, <1>6 DEF TypeInv

LEMMA CrashTypes ==
  ASSUME TypeInv, Crash
  PROVE  TypeInv'
<1>1. /\ writer' = "stopped" /\ queue' = <<>> /\ batch' = {} /\ request' = None /\ crashed' = TRUE
      /\ call' = [q \in Threads |-> Idle] /\ accepting' = FALSE
      /\ UNCHANGED <<acknowledged, ordinal, nextOrdinal, workerError, reply, database>>
  BY DEF Crash
<1>2. Idle \in Calls
  BY DEF Idle, Calls
<1>3. call' \in [Threads -> Calls] /\ \A q \in Threads : call'[q] = Idle
  BY <1>1, <1>2, Zenon
<1>4. queue' \in Seq(Items) /\ Len(queue') = 0
  BY <1>1
<1>5. CallTypes'
  BY <1>1, <1>3, <1>4 DEF TypeInv, CallTypes
<1>6. CallsAreSound' /\ QueueIsSound'
  BY <1>3, <1>4 DEF CallsAreSound, QueueIsSound, Idle
<1>7. BatchIsSound'
  <2>1. Acknowledged' = Acknowledged
    BY <1>1 DEF Acknowledged
  <2>2. QED
    BY <1>1, <2>1, FS_EmptySet DEF TypeInv, BatchIsSound, database, Position
<1>8. WriterTypes' /\ DatabaseTypes' /\ RequestIsSound'
  BY <1>1 DEF TypeInv, WriterTypes, DatabaseTypes, RequestIsSound, database
<1>9. QED
  BY <1>5, <1>6, <1>7, <1>8 DEF TypeInv

LEMMA StutterTypes ==
  ASSUME TypeInv, UNCHANGED vars
  PROVE  TypeInv'
BY DEF TypeInv, CallTypes, WriterTypes, DatabaseTypes, RequestIsSound, CallsAreSound, QueueIsSound,
   BatchIsSound, Position, Acknowledged, vars, builderVars, writerVars, database

LEMMA CallerTypes ==
  ASSUME TypeInv, NEW p \in Threads, Caller(p)
  PROVE  TypeInv' /\ UNCHANGED database /\ writer' = writer
<1>1. ASSUME NEW r \in Records, Add(p, r)
      PROVE  TypeInv' /\ UNCHANGED <<writerVars, database>>
  <2>1. Position(r) /\ Unused(r) /\ Enter(p, "add", r, None)
    BY <1>1 DEF Add, Position
  <2>2. QED
    BY <2>1, EnterTypes DEF Enter
<1>2. ASSUME Flush(p) PROVE TypeInv' /\ UNCHANGED <<writerVars, database>>
  BY <1>2, EnterTypes DEF Flush, Enter
<1>3. ASSUME NEW s \in RequestedStatuses, Finalize(p, s)
      PROVE  TypeInv' /\ UNCHANGED <<writerVars, database>>
  <2>1. s \in Statuses \union {None}
    BY CaptureAssumption
  <2>2. QED
    BY <1>3, <2>1, EnterTypes DEF Finalize, Enter
<1>4. CASE Check(p) \/ QueueFull(p) \/ Return(p)
  BY <1>4, CallStepTypes DEF Check, QueueFull, Return, writerVars
<1>5. CASE Put(p)
  BY <1>5, PutTypes DEF Put, writerVars
<1>6. QED
  BY <1>1, <1>2, <1>3, <1>4, <1>5 DEF Caller, Progress, writerVars

-----------------------------------------------------------------------------
(* The invariant *)

\* The writer has ended when a status is stored.
Closed == status # "IN_PROGRESS" => writer = "stopped"

CaptureInv == TypeInv /\ StoredOnce /\ MetadataMatchesRows /\ Closed /\ CompleteMeansAllTicks

LEMMA AllTicksStored ==
  ASSUME TypeInv, StoredOnce, Cardinality(TickRows) = ExpectedTickCount
  PROVE  {TickOf[r] : r \in TickRows} = 0..ExpectedTickCount - 1
<1> DEFINE f == [r \in TickRows |-> TickOf[r]]
           T == 0..ExpectedTickCount - 1
<1>1. ExpectedTickCount \in Nat \ {0} /\ TickOf \in [Records -> Nat]
  BY CaptureAssumption
<1>2. \A r \in TickRows : TickOf[r] \in T
  BY <1>1 DEF TypeInv, BatchIsSound, Position, TickRows
<1>3. IsFiniteSet(T) /\ Cardinality(T) = ExpectedTickCount
  <2>1. 0 \in Int /\ ExpectedTickCount - 1 \in Int
    BY <1>1
  <2>2. /\ IsFiniteSet(T)
        /\ Cardinality(T) = IF 0 > ExpectedTickCount - 1 THEN 0 ELSE (ExpectedTickCount - 1) - 0 + 1
    BY <2>1, FS_Interval
  <2>3. QED
    BY <2>2, <1>1
<1> HIDE DEF T
<1>4. f \in Injection(TickRows, T)
  BY <1>2 DEF Injection, IsInjective, StoredOnce
<1> HIDE DEF f
<1>5. f \in Surjection(TickRows, T)
  BY <1>3, <1>4, FS_Injection
<1>6. \A t \in T : \E r \in TickRows : f[r] = t
  BY <1>5 DEF Surjection
<1>7. \A t \in T : \E r \in TickRows : TickOf[r] = t
  BY <1>6 DEF f
<1>8. QED
  BY <1>2, <1>7 DEF T

LEMMA StatusKept ==
  ASSUME UNCHANGED database
  PROVE  /\ StoredOnce => StoredOnce'
         /\ MetadataMatchesRows => MetadataMatchesRows'
         /\ CompleteMeansAllTicks => CompleteMeansAllTicks'
         /\ status' = status
<1>1. TickRows' = TickRows /\ received' = received /\ firstTick' = firstTick
      /\ lastTick' = lastTick /\ status' = status
  BY DEF TickRows, database
<1>2. QED
  BY <1>1 DEF StoredOnce, MetadataMatchesRows, CompleteMeansAllTicks

LEMMA InitInv == Init => CaptureInv
<1>1. SUFFICES ASSUME Init PROVE CaptureInv
  OBVIOUS
<1>2. TickRows = {} /\ received = 0 /\ firstTick = None /\ lastTick = None /\ status = "IN_PROGRESS"
  BY <1>1 DEF Init, TickRows
<1>3. QED
  BY <1>1, <1>2, InitTypes, FS_EmptySet
  DEF CaptureInv, StoredOnce, MetadataMatchesRows, Closed, CompleteMeansAllTicks

\* A terminal status ends every change of the database: the writer has ended.
LEMMA WriterStep ==
  ASSUME CaptureInv, Writer
  PROVE  CaptureInv' /\ (status # "IN_PROGRESS" => UNCHANGED database)
<1> USE DEF CaptureInv
<1>1. writer # "stopped" /\ status = "IN_PROGRESS"
  BY DEF Writer, Open, TakeRecord, TakeRequest, FlushInterval, WriteBatch, MarkFinal, DrainQueue, Closed
<1>2. CASE WriterFails
  <2>1. UNCHANGED database
    BY <1>2 DEF WriterFails
  <2>2. QED
    BY <2>1, <1>1, <1>2, WriterFailsTypes, StatusKept DEF Closed
<1>3. CASE Open \/ TakeRecord \/ TakeRequest \/ FlushInterval \/ DrainQueue
  <2>1. TypeInv'
    BY <1>3, OpenTypes, TakeRecordTypes, TakeRequestTypes, FlushIntervalTypes, DrainQueueTypes
  <2>2. UNCHANGED database
    BY <1>3 DEF Open, WriterFails, TakeRecord, TakeRequest, FlushInterval, DrainQueue
  <2>3. QED
    BY <2>1, <2>2, <1>1, StatusKept DEF Closed
<1>4. CASE WriteBatch /\ ~WriterFails
  <2>1. TypeInv' /\ StoredOnce' /\ MetadataMatchesRows'
    BY <1>4, CommitTypes
  <2>2. status' = status
    BY <1>4 DEF WriteBatch, StoreBatch
  <2>3. QED
    BY <2>1, <2>2, <1>1 DEF Closed, CompleteMeansAllTicks
<1>5. CASE MarkFinal /\ ~WriterFails
  <2>1. TypeInv' /\ UNCHANGED <<rows, received, firstTick, lastTick>>
    BY <1>5, FinalizeTypes
  <2>2. /\ writer' = "stopped" /\ status' = FinalStatus
        /\ FinalStatus = "COMPLETE" => TicksComplete
    BY <1>5 DEF MarkFinal
  <2>3. TickRows' = TickRows /\ StoredOnce' /\ MetadataMatchesRows'
    BY <2>1 DEF TickRows, StoredOnce, MetadataMatchesRows
  <2>4. CompleteMeansAllTicks'
    <3>1. SUFFICES ASSUME status' = "COMPLETE"
                   PROVE  /\ {TickOf[r] : r \in TickRows} = 0..ExpectedTickCount - 1
                          /\ Cardinality(TickRows) = ExpectedTickCount
      BY <2>3 DEF CompleteMeansAllTicks
    <3>2. Cardinality(TickRows) = ExpectedTickCount
      BY <3>1, <2>2 DEF TicksComplete, MetadataMatchesRows
    <3>3. QED
      BY <3>2, AllTicksStored
  <2>5. QED
    BY <2>1, <2>2, <2>3, <2>4, <1>1 DEF Closed
<1>6. QED
  BY <1>2, <1>3, <1>4, <1>5 DEF Writer

LEMMA StepInv ==
  ASSUME CaptureInv, [Next]_vars
  PROVE  CaptureInv' /\ (status # "IN_PROGRESS" => UNCHANGED database)
<1> USE DEF CaptureInv
<1>1. CASE Writer
  BY <1>1, WriterStep
<1>2. ASSUME NEW p \in Threads, Caller(p)
      PROVE  CaptureInv' /\ UNCHANGED database
  BY <1>2, CallerTypes, StatusKept DEF Closed
<1>3. CASE Crash
  <2>1. UNCHANGED database /\ writer' = "stopped"
    BY <1>3 DEF Crash
  <2>2. QED
    BY <2>1, <1>3, CrashTypes, StatusKept DEF Closed
<1>4. CASE UNCHANGED vars
  <2>1. UNCHANGED database /\ writer' = writer
    BY <1>4 DEF vars, writerVars
  <2>2. QED
    BY <2>1, <1>4, StutterTypes, StatusKept DEF Closed
<1>5. QED
  BY <1>1, <1>2, <1>3, <1>4 DEF Next, AllReturned

LEMMA InvHolds == Spec => []CaptureInv
<1>1. Init => CaptureInv
  BY InitInv
<1>2. CaptureInv /\ [Next]_vars => CaptureInv'
  BY StepInv
<1>3. QED
  BY <1>1, <1>2, PTL DEF Spec

\* Type correctness of the builder, its writer and the database, for any threads and records.
THEOREM CaptureTypes == Spec => []TypeOK
<1>1. CaptureInv => TypeOK
  BY TypesAreOK DEF CaptureInv
<1>2. QED
  BY <1>1, InvHolds, PTL

\* What the metadata of a capture say of its rows is true, for any number of threads and records,
\* any capacity and batch size, any refusal of SQLite and any crash.
THEOREM MetadataIsTrue == Spec => []MetadataMatchesRows
<1>1. CaptureInv => MetadataMatchesRows
  BY DEF CaptureInv
<1>2. QED
  BY <1>1, InvHolds, PTL

\* Three counters are enough: a COMPLETE capture holds one result for every tick.
THEOREM CompleteCapturesAreWhole == Spec => []CompleteMeansAllTicks
<1>1. CaptureInv => CompleteMeansAllTicks
  BY DEF CaptureInv
<1>2. QED
  BY <1>1, InvHolds, PTL

\* Once a terminal status is stored, nothing in the database changes.
THEOREM FinalizedCapturesStay == Spec => FinalizedIsFinal
<1>1. CaptureInv /\ [Next]_vars => [status # "IN_PROGRESS" => UNCHANGED database]_vars
  BY StepInv
<1>2. Spec => [][Next]_vars
  BY PTL DEF Spec
<1>3. QED
  BY <1>1, <1>2, InvHolds, PTL DEF FinalizedIsFinal

-----------------------------------------------------------------------------
(* The order of records *)

\* The records that are stored, pending, or queued before position k.
Ahead(k) == rows \union batch \union
              {queue[l].record : l \in {x \in 1..Len(queue) : x < k /\ queue[x].op = "add"}}

Alive == ~workerError /\ ~crashed

\* Where the writer is says what it holds.
PlaceIsSound ==
  /\ workerError => writer \in {"draining", "stopped"}
  /\ writer = "draining" => workerError
  /\ crashed => writer = "stopped" /\ ~accepting /\ \A p \in Threads : call[p] = Idle
  /\ writer = "finalizing" => batch = {} /\ request # None /\ request.op = "finalize"
  /\ request # None /\ Alive => writer \in {"committing", "finalizing"}

\* No record is dropped, and none overtakes an older one of its thread.
OrderIsSound ==
  Alive =>
    /\ Acknowledged \subseteq Ahead(Len(queue) + 1)
    /\ \A p \in Threads : \A i \in 1..Len(acknowledged[p]) : \A j \in 1..i - 1 :
         /\ acknowledged[p][i] \in rows \union batch => acknowledged[p][j] \in rows \union batch
         /\ \A k \in 1..Len(queue) :
              queue[k].op = "add" /\ queue[k].record = acknowledged[p][i] =>
                acknowledged[p][j] \in Ahead(k)

OrderInv == PlaceIsSound /\ OrderIsSound /\ CommittedInOrder

LEMMA AheadMembers ==
  ASSUME NEW k, NEW r
  PROVE  r \in Ahead(k) <=>
           \/ r \in rows \union batch
           \/ \E x \in 1..Len(queue) : x < k /\ queue[x].op = "add" /\ queue[x].record = r
BY DEF Ahead

LEMMA AheadKept ==
  ASSUME queue' = queue, rows' \union batch' = rows \union batch
  PROVE  \A k : Ahead(k)' = Ahead(k)
BY DEF Ahead

LEMMA AheadAppend ==
  ASSUME TypeInv, NEW item \in Items, queue' = Append(queue, item), rows' = rows, batch' = batch
  PROVE  /\ \A k \in 1..Len(queue) + 1 : Ahead(k)' = Ahead(k)
         /\ Ahead(Len(queue) + 1)' = Ahead(Len(queue) + 1) \union
              (IF item.op = "add" THEN {item.record} ELSE {})
<1>1. /\ queue \in Seq(Items) /\ Len(queue) \in Nat /\ Len(queue') = Len(queue) + 1
      /\ queue'[Len(queue) + 1] = item /\ \A i \in 1..Len(queue) : queue'[i] = queue[i]
  BY DEF TypeInv, CallTypes
<1> DEFINE n == Len(queue)
           S(k) == {x \in 1..n : x < k /\ queue[x].op = "add"}
           T(k) == {x \in 1..Len(queue') : x < k /\ queue'[x].op = "add"}
<1>2. ASSUME NEW k \in 1..n + 1 PROVE Ahead(k)' = Ahead(k)
  <2>1. S(k) = T(k)
    BY <1>1
  <2>2. {queue[l].record : l \in S(k)} = {queue'[l].record : l \in T(k)}
    BY <2>1, <1>1
  <2>3. QED
    BY <2>2 DEF Ahead
<1>3. {queue'[l].record : l \in T(Len(queue') + 1)} =
        {queue[l].record : l \in S(n + 1)} \union (IF item.op = "add" THEN {item.record} ELSE {})
  <2>1. T(Len(queue') + 1) = S(n + 1) \union (IF item.op = "add" THEN {n + 1} ELSE {})
    BY <1>1
  <2>2. \A l \in S(n + 1) : queue'[l] = queue[l]
    BY <1>1
  <2> DEFINE before == S(n + 1)
             after == T(Len(queue') + 1)
  <2>3. /\ after = before \union (IF item.op = "add" THEN {n + 1} ELSE {})
        /\ \A l \in before : queue'[l] = queue[l]
    BY <2>1, <2>2
  <2> HIDE DEF before, after
  <2>4. {queue'[l].record : l \in after} =
          {queue[l].record : l \in before} \union (IF item.op = "add" THEN {item.record} ELSE {})
    BY <1>1, <2>3
  <2>5. QED
    BY <2>4 DEF before, after
<1>4. QED
  BY <1>2, <1>3 DEF Ahead

LEMMA AheadTail ==
  ASSUME TypeInv, queue # <<>>, queue' = Tail(queue),
         rows' \union batch' = rows \union batch \union
           (IF queue[1].op = "add" THEN {queue[1].record} ELSE {})
  PROVE  \A k \in Nat \ {0} : Ahead(k)' = Ahead(k + 1)
<1>1. /\ queue \in Seq(Items) /\ Len(queue) \in Nat \ {0} /\ Len(queue') = Len(queue) - 1
      /\ \A i \in 1..Len(queue') : queue'[i] = queue[i + 1]
  BY DEF TypeInv, CallTypes
<1>2. ASSUME NEW k \in Nat \ {0} PROVE Ahead(k)' = Ahead(k + 1)
  <2>1. ASSUME NEW r PROVE r \in Ahead(k)' <=> r \in Ahead(k + 1)
    <3>1. r \in Ahead(k)' <=>
            \/ r \in rows' \union batch'
            \/ \E x \in 1..Len(queue') : x < k /\ queue'[x].op = "add" /\ queue'[x].record = r
      BY DEF Ahead
    <3>2. ASSUME NEW x \in 1..Len(queue'), x < k, queue'[x].op = "add", queue'[x].record = r
          PROVE  \E y \in 1..Len(queue) : y < k + 1 /\ queue[y].op = "add" /\ queue[y].record = r
      <4>1. x + 1 \in 1..Len(queue) /\ x + 1 < k + 1 /\ queue'[x] = queue[x + 1]
        BY <3>2, <1>1
      <4>2. QED
        BY <3>2, <4>1
    <3>3. ASSUME NEW y \in 1..Len(queue), y < k + 1, queue[y].op = "add", queue[y].record = r
          PROVE  \/ r \in rows' \union batch'
                 \/ \E x \in 1..Len(queue') : x < k /\ queue'[x].op = "add" /\ queue'[x].record = r
      <4>1. CASE y = 1
        BY <3>3, <4>1
      <4>2. CASE y # 1
        <5>1. y - 1 \in 1..Len(queue') /\ y - 1 < k /\ queue'[y - 1] = queue[y]
          BY <3>3, <4>2, <1>1
        <5>2. QED
          BY <3>3, <5>1
      <4>3. QED
        BY <4>1, <4>2
    <3>4. r \in rows \union batch => r \in rows' \union batch'
      OBVIOUS
    <3>5. r \in rows' \union batch' =>
            \/ r \in rows \union batch
            \/ \E y \in 1..Len(queue) : y < k + 1 /\ queue[y].op = "add" /\ queue[y].record = r
      <4>1. CASE queue[1].op = "add"
        <5>1. 1 \in 1..Len(queue) /\ 1 < k + 1
          BY <1>1
        <5>2. QED
          BY <4>1, <5>1
      <4>2. CASE queue[1].op # "add"
        BY <4>2
      <4>3. QED
        BY <4>1, <4>2
    <3>6. QED
      BY <3>1, <3>2, <3>3, <3>4, <3>5, AheadMembers
  <2>2. QED
    BY <2>1
<1>3. QED
  BY <1>2

LEMMA InitOrder == Init => OrderInv
<1>1. SUFFICES ASSUME Init PROVE OrderInv
  OBVIOUS
<1>2. \A p \in Threads : Len(acknowledged[p]) = 0
  BY <1>1 DEF Init
<1>3. Acknowledged = {}
  <2>1. acknowledged \in [Threads -> Seq(Records)]
    BY <1>1, InitTypes DEF TypeInv, CallTypes
  <2>2. ASSUME NEW r \in Acknowledged PROVE FALSE
    <3>1. \E p \in Threads : \E i \in 1..Len(acknowledged[p]) : acknowledged[p][i] = r
      BY <2>1, <2>2, AcknowledgedMembers DEF Acknowledged
    <3>2. QED
      BY <3>1, <1>2
  <2>3. QED
    BY <2>2
<1>4. PlaceIsSound
  BY <1>1 DEF Init, PlaceIsSound
<1>5. QED
  BY <1>2, <1>3, <1>4 DEF OrderInv, OrderIsSound, CommittedInOrder

\* A step that moves no record, or moves them from the batch to the rows.
LEMMA OrderKept ==
  ASSUME OrderInv, Alive' => Alive, acknowledged' = acknowledged, queue' = queue,
         rows' \union batch' = rows \union batch
  PROVE  OrderIsSound'
<1>1. Acknowledged' = Acknowledged
  BY DEF Acknowledged
<1>2. \A k : Ahead(k)' = Ahead(k)
  BY AheadKept
<1>3. QED
  BY <1>1, <1>2 DEF OrderInv, OrderIsSound

LEMMA RowsKept ==
  ASSUME OrderInv, acknowledged' = acknowledged, rows' = rows
  PROVE  CommittedInOrder'
BY DEF OrderInv, CommittedInOrder

\* The writer takes the head of the queue, and keeps it if it is a record.
LEMMA OrderTaken ==
  ASSUME TypeInv, OrderInv, Alive' => Alive, acknowledged' = acknowledged,
         queue # <<>>, queue' = Tail(queue),
         rows' \union batch' = rows \union batch \union
           (IF queue[1].op = "add" THEN {queue[1].record} ELSE {})
  PROVE  OrderIsSound'
<1>1. \A k \in Nat \ {0} : Ahead(k)' = Ahead(k + 1)
  BY AheadTail
<1>2. /\ Len(queue) \in Nat \ {0} /\ Len(queue') = Len(queue) - 1
      /\ \A i \in 1..Len(queue') : i + 1 \in 1..Len(queue) /\ queue'[i] = queue[i + 1]
  BY DEF TypeInv, CallTypes
<1>3. Acknowledged' = Acknowledged
  BY DEF Acknowledged
<1>4. SUFFICES ASSUME Alive'
      PROVE  /\ Acknowledged \subseteq Ahead(Len(queue) + 1)'
             /\ \A p \in Threads : \A i \in 1..Len(acknowledged[p]) : \A j \in 1..i - 1 :
                  /\ acknowledged[p][i] \in rows' \union batch' =>
                       acknowledged[p][j] \in rows' \union batch'
                  /\ \A k \in 1..Len(queue') :
                       queue'[k].op = "add" /\ queue'[k].record = acknowledged[p][i] =>
                         acknowledged[p][j] \in Ahead(k)'
  BY <1>3 DEF OrderIsSound
<1>5. Ahead(Len(queue) + 1)' = Ahead(Len(queue) + 1)
  <2>1. ASSUME NEW n \in Nat \ {0}, n = Len(queue)
        PROVE  Ahead(Len(queue) + 1)' = Ahead(Len(queue) + 1)
    <3>1. Len(queue') + 1 = n /\ Ahead(n)' = Ahead(n + 1)
      BY <1>1, <1>2, <2>1
    <3>2. Ahead(Len(queue) + 1)' = Ahead(n)'
      BY <3>1 DEF Ahead
    <3>3. QED
      BY <2>1, <3>1, <3>2
  <2>2. QED
    BY <1>2, <2>1
<1>6. Acknowledged \subseteq Ahead(Len(queue) + 1)'
  BY <1>4, <1>5 DEF OrderInv, OrderIsSound
<1>7. ASSUME NEW p \in Threads, NEW i \in 1..Len(acknowledged[p]), NEW j \in 1..i - 1
      PROVE  /\ acknowledged[p][i] \in rows' \union batch' => acknowledged[p][j] \in rows' \union batch'
             /\ \A k \in 1..Len(queue') :
                  queue'[k].op = "add" /\ queue'[k].record = acknowledged[p][i] =>
                    acknowledged[p][j] \in Ahead(k)'
  <2>1. /\ acknowledged[p][i] \in rows \union batch => acknowledged[p][j] \in rows \union batch
        /\ \A k \in 1..Len(queue) :
             queue[k].op = "add" /\ queue[k].record = acknowledged[p][i] =>
               acknowledged[p][j] \in Ahead(k)
    BY <1>4 DEF OrderInv, OrderIsSound
  <2>2. ASSUME acknowledged[p][i] \in rows' \union batch'
        PROVE  acknowledged[p][j] \in rows' \union batch'
    <3>1. CASE acknowledged[p][i] \in rows \union batch
      BY <3>1, <2>1
    <3>2. CASE acknowledged[p][i] \notin rows \union batch
      <4>1. queue[1].op = "add" /\ queue[1].record = acknowledged[p][i]
        BY <2>2, <3>2
      <4>2. acknowledged[p][j] \in Ahead(1)
        BY <4>1, <2>1, <1>2
      <4>3. ~\E x \in 1..Len(queue) : x < 1
        BY <1>2
      <4>4. QED
        BY <4>2, <4>3, AheadMembers
    <3>3. QED
      BY <3>1, <3>2
  <2>3. ASSUME NEW k \in 1..Len(queue'), queue'[k].op = "add", queue'[k].record = acknowledged[p][i]
        PROVE  acknowledged[p][j] \in Ahead(k)'
    <3>1. k \in Nat \ {0} /\ k + 1 \in 1..Len(queue) /\ queue'[k] = queue[k + 1]
      BY <1>2
    <3>2. QED
      BY <3>1, <2>3, <2>1, <1>1
  <2>4. QED
    BY <2>2, <2>3
<1>8. QED
  BY <1>6, <1>7

LEMMA PutOrder ==
  ASSUME TypeInv, OrderInv, NEW p \in Threads, Put(p)
  PROVE  OrderInv'
<1> DEFINE item == [op |-> call[p].op, by |-> p, record |-> call[p].record, status |-> call[p].status]
<1>1. /\ call[p] \in Calls /\ queue \in Seq(Items) /\ call[p].at = "putting"
      /\ queue' = Append(queue, item) /\ item.op = call[p].op /\ item.record = call[p].record
      /\ UNCHANGED <<accepting, writerVars, database, crashed>>
  BY DEF TypeInv, CallTypes, Put
<1>2. item \in Items
  BY <1>1 DEF Items, Calls, TypeInv, CallsAreSound
<1> HIDE DEF item
<1>3. /\ rows' = rows /\ batch' = batch /\ Alive' = Alive
      /\ writer' = writer /\ request' = request /\ workerError' = workerError /\ accepting' = accepting
  BY <1>1 DEF writerVars, database, Alive
<1>4. /\ \A k \in 1..Len(queue) + 1 : Ahead(k)' = Ahead(k)
      /\ Ahead(Len(queue) + 1)' = Ahead(Len(queue) + 1) \union
           (IF item.op = "add" THEN {item.record} ELSE {})
  BY <1>1, <1>2, <1>3, AheadAppend
<1>5. /\ Len(queue) \in Nat /\ Len(queue') = Len(queue) + 1 /\ queue'[Len(queue) + 1] = item
      /\ \A i \in 1..Len(queue) : queue'[i] = queue[i]
  BY <1>1
<1>6. ~crashed
  BY <1>1 DEF OrderInv, PlaceIsSound, Idle
<1>7. PlaceIsSound'
  BY <1>1, <1>3, <1>6 DEF OrderInv, PlaceIsSound
<1>8. Ahead(Len(queue) + 1)' = Ahead(Len(queue) + 1) \union
        (IF item.op = "add" THEN {item.record} ELSE {})
  BY <1>4
<1>9. CASE call[p].op # "add"
  <2>1. acknowledged' = acknowledged /\ Acknowledged' = Acknowledged
    BY <1>9 DEF Put, Acknowledged
  <2>2. \A k \in 1..Len(queue') : queue'[k].op = "add" =>
          k \in 1..Len(queue) /\ queue'[k] = queue[k] /\ Ahead(k)' = Ahead(k)
    BY <1>1, <1>4, <1>5, <1>9
  <2>3. OrderIsSound'
    BY <2>1, <2>2, <1>1, <1>3, <1>8, <1>9 DEF OrderInv, OrderIsSound
  <2>4. QED
    BY <2>1, <2>3, <1>3, <1>7, RowsKept DEF OrderInv
<1>10. CASE call[p].op = "add"
  <2> DEFINE r == call[p].record
             a == acknowledged
             b == acknowledged'
  <2>1. r \in Records /\ r \notin Acknowledged /\ b = [a EXCEPT ![p] = Append(@, r)]
    BY <1>10 DEF Put, TypeInv, CallsAreSound, Position
  <2>2. Acknowledged' = Acknowledged \union {r}
    BY <2>1, AcknowledgeOne DEF TypeInv
  <2>3. a \in [Threads -> Seq(Records)]
    BY DEF TypeInv, CallTypes
  <2>4. r \notin rows \union batch
    BY <2>1 DEF TypeInv, BatchIsSound
  <2>5. \A k \in 1..Len(queue) : queue[k].op = "add" => queue[k].record # r
    BY <2>1 DEF TypeInv, QueueIsSound
  <2>6. \A q \in Threads : \A i \in 1..Len(a[q]) : a[q][i] \in Acknowledged
    BY <2>3, AcknowledgedMembers DEF Acknowledged
  <2> HIDE DEF a, b, r
  <2>7. /\ \A q \in Threads \ {p} : b[q] = a[q]
        /\ Len(b[p]) = Len(a[p]) + 1 /\ b[p][Len(a[p]) + 1] = r /\ Len(a[p]) \in Nat
        /\ \A i \in 1..Len(a[p]) : b[p][i] = a[p][i]
    <3>1. b[p] = Append(a[p], r) /\ \A q \in Threads \ {p} : b[q] = a[q]
      BY <2>1, <2>3
    <3>2. QED
      BY <3>1, <2>1, <2>3
  \* Every acknowledged record but the new one was there before, at the same index.
  <2>8. ASSUME NEW q \in Threads, NEW i \in 1..Len(b[q])
        PROVE  \/ /\ i \in 1..Len(a[q]) /\ b[q][i] = a[q][i] /\ b[q][i] # r
                  /\ \A j \in 1..i - 1 : b[q][j] = a[q][j]
               \/ /\ b[q][i] = r
                  /\ \A j \in 1..i - 1 : b[q][j] \in Acknowledged
    <3>0. Len(a[q]) \in Nat
      BY <2>3
    <3>1. CASE q # p
      <4>1. b[q] = a[q]
        BY <3>1, <2>7
      <4>2. i \in 1..Len(a[q])
        BY <4>1
      <4>3. b[q][i] # r
        BY <4>1, <4>2, <2>1, <2>6 DEF r
      <4>4. QED
        BY <4>1, <4>2, <4>3
    <3>2. CASE q = p /\ i = Len(a[p]) + 1
      <4>1. \A j \in 1..i - 1 : j \in 1..Len(a[p])
        BY <3>2, <3>0
      <4>2. QED
        BY <3>2, <4>1, <2>6, <2>7
    <3>3. CASE q = p /\ i # Len(a[p]) + 1
      <4>1. i \in 1..Len(a[p])
        BY <3>3, <2>7
      <4>2. \A j \in 1..i - 1 : j \in 1..Len(a[p])
        BY <4>1, <3>0
      <4>3. b[p][i] # r
        BY <4>1, <2>6, <2>7, <2>1 DEF r
      <4>4. QED
        BY <3>3, <4>1, <4>2, <4>3, <2>7
    <3>4. QED
      BY <3>1, <3>2, <3>3
  <2>9. CommittedInOrder'
    <3>1. SUFFICES ASSUME NEW q \in Threads, NEW i \in 1..Len(b[q]), NEW j \in 1..i, b[q][i] \in rows
                   PROVE  b[q][j] \in rows
      BY <1>3 DEF CommittedInOrder, b
    <3>2. i \in 1..Len(a[q]) /\ b[q][i] = a[q][i] /\ \A k \in 1..i - 1 : b[q][k] = a[q][k]
      BY <3>1, <2>4, <2>8
    <3>3. CASE j = i
      BY <3>1, <3>3
    <3>4. CASE j # i
      <4>1. Len(a[q]) \in Nat
        BY <2>3
      <4>2. j \in 1..i - 1
        BY <3>2, <3>4, <4>1
      <4>3. QED
        BY <3>1, <3>2, <4>2 DEF OrderInv, CommittedInOrder, a
    <3>5. QED
      BY <3>3, <3>4
  <2>10. OrderIsSound'
    <3>1. SUFFICES ASSUME Alive
                   PROVE  /\ Acknowledged' \subseteq Ahead(Len(queue) + 1)'
                          /\ \A q \in Threads : \A i \in 1..Len(b[q]) : \A j \in 1..i - 1 :
                               /\ b[q][i] \in rows \union batch => b[q][j] \in rows \union batch
                               /\ \A k \in 1..Len(queue') :
                                    queue'[k].op = "add" /\ queue'[k].record = b[q][i] =>
                                      b[q][j] \in Ahead(k)'
      BY <1>3 DEF OrderIsSound, b
    <3>2. Acknowledged \subseteq Ahead(Len(queue) + 1)
      BY <3>1 DEF OrderInv, OrderIsSound
    <3>3. Acknowledged' \subseteq Ahead(Len(queue) + 1)'
      BY <3>2, <2>2, <1>1, <1>8, <1>10 DEF r
    <3>4. ASSUME NEW q \in Threads, NEW i \in 1..Len(b[q]), NEW j \in 1..i - 1,
                 b[q][i] \in rows \union batch
          PROVE  b[q][j] \in rows \union batch
      <4>1. i \in 1..Len(a[q]) /\ b[q][i] = a[q][i] /\ b[q][j] = a[q][j]
        BY <3>4, <2>4, <2>8
      <4>2. QED
        BY <3>1, <3>4, <4>1 DEF OrderInv, OrderIsSound, a
    <3>5. ASSUME NEW q \in Threads, NEW i \in 1..Len(b[q]), NEW j \in 1..i - 1,
                 NEW k \in 1..Len(queue'), queue'[k].op = "add", queue'[k].record = b[q][i]
          PROVE  b[q][j] \in Ahead(k)'
      <4>1. CASE k \in 1..Len(queue)
        <5>1. queue[k].op = "add" /\ queue[k].record = b[q][i] /\ Ahead(k)' = Ahead(k)
          BY <3>5, <4>1, <1>4, <1>5
        <5>2. i \in 1..Len(a[q]) /\ b[q][i] = a[q][i] /\ b[q][j] = a[q][j]
          BY <5>1, <4>1, <2>5, <2>8
        <5>3. QED
          BY <3>1, <4>1, <5>1, <5>2 DEF OrderInv, OrderIsSound, a
      <4>2. CASE k \notin 1..Len(queue)
        <5>1. k = Len(queue) + 1 /\ k \in 1..Len(queue) + 1
          BY <4>2, <1>5
        <5>2. b[q][i] = r /\ Ahead(k)' = Ahead(Len(queue) + 1)
          BY <5>1, <3>5, <1>1, <1>4, <1>5 DEF r
        <5>3. b[q][j] \in Acknowledged
          BY <5>2, <2>8
        <5>4. QED
          BY <5>2, <5>3, <3>2
      <4>3. QED
        BY <4>1, <4>2
    <3>6. QED
      BY <3>3, <3>4, <3>5
  <2>11. QED
    BY <2>9, <2>10, <1>7 DEF OrderInv
<1>11. QED
  BY <1>9, <1>10

LEMMA CommitOrder ==
  ASSUME TypeInv, OrderInv, WriteBatch, ~WriterFails
  PROVE  OrderInv'
<1>1. /\ writer = "committing" /\ rows' = rows \union batch /\ batch' = {}
      /\ writer' = IF request # None /\ request.op = "finalize" THEN "finalizing" ELSE "running"
      /\ request' = IF writer' = "finalizing" THEN request ELSE None
      /\ UNCHANGED <<workerError, queue, accepting, call, acknowledged, crashed>>
  BY DEF WriteBatch, StoreBatch, WriterUnchanged
<1>2. Alive /\ Alive'
  BY <1>1 DEF OrderInv, PlaceIsSound, Alive
<1>3. PlaceIsSound'
  BY <1>1, <1>2 DEF OrderInv, PlaceIsSound, Alive
<1>4. OrderIsSound'
  BY <1>1, <1>2, OrderKept
<1>5. CommittedInOrder'
  <2>1. SUFFICES ASSUME NEW p \in Threads, NEW i \in 1..Len(acknowledged[p]), NEW j \in 1..i,
                        acknowledged[p][i] \in rows \union batch
                 PROVE  acknowledged[p][j] \in rows \union batch
    BY <1>1 DEF CommittedInOrder
  <2>2. CASE j = i
    BY <2>1, <2>2
  <2>3. CASE j # i
    <3>1. j \in 1..i - 1
      BY <2>3
    <3>2. QED
      BY <2>1, <3>1, <1>2 DEF OrderInv, OrderIsSound
  <2>4. QED
    BY <2>2, <2>3
<1>6. QED
  BY <1>3, <1>4, <1>5 DEF OrderInv

LEMMA WriterOrder ==
  ASSUME TypeInv, OrderInv, Writer
  PROVE  OrderInv'
<1> USE DEF OrderInv
<1>1. CASE WriterFails
  <2>1. /\ writer' = "draining" /\ workerError' = TRUE
        /\ UNCHANGED <<batch, rows, queue, accepting, call, acknowledged, crashed>>
    BY <1>1 DEF WriterFails, WriterUnchanged, database
  <2>2. ~Alive'
    BY <2>1 DEF Alive
  <2>3. ~crashed
    BY DEF Writer, Open, TakeRecord, TakeRequest, FlushInterval, WriteBatch, MarkFinal, DrainQueue,
       PlaceIsSound
  <2>4. PlaceIsSound'
    BY <2>1, <2>2, <2>3 DEF PlaceIsSound
  <2>5. OrderIsSound' /\ CommittedInOrder'
    BY <2>1, <2>2, RowsKept DEF OrderIsSound
  <2>6. QED
    BY <2>4, <2>5
<1>2. CASE (Open \/ FlushInterval) /\ ~WriterFails
  <2>1. /\ writer \in {"opening", "running"} /\ writer' \in {"running", "committing"}
        /\ UNCHANGED <<batch, rows, queue, request, workerError, accepting, call, acknowledged, crashed>>
    BY <1>2 DEF Open, FlushInterval, WriterUnchanged, database
  <2>2. PlaceIsSound'
    BY <2>1 DEF PlaceIsSound, Alive
  <2>3. Alive' = Alive
    BY <2>1 DEF Alive
  <2>4. OrderIsSound' /\ CommittedInOrder'
    BY <2>1, <2>3, OrderKept, RowsKept
  <2>5. QED
    BY <2>2, <2>4
<1>3. CASE TakeRecord
  <2>1. /\ writer = "running" /\ writer' \in {"running", "committing"}
        /\ queue # <<>> /\ queue' = Tail(queue) /\ queue[1].op = "add"
        /\ rows' = rows /\ batch' = batch \union {queue[1].record}
        /\ UNCHANGED <<request, workerError, accepting, call, acknowledged, crashed>>
    BY <1>3, QueueHead DEF TakeRecord, WriterUnchanged, database
  <2>2. PlaceIsSound'
    BY <2>1 DEF PlaceIsSound, Alive
  <2>3. Alive' = Alive
    BY <2>1 DEF Alive
  <2>4. rows' \union batch' = rows \union batch \union
          (IF queue[1].op = "add" THEN {queue[1].record} ELSE {})
    BY <2>1
  <2>5. OrderIsSound' /\ CommittedInOrder'
    BY <2>1, <2>3, <2>4, OrderTaken, RowsKept
  <2>6. QED
    BY <2>2, <2>5
<1>4. CASE TakeRequest
  <2>1. /\ writer = "running" /\ writer' = "committing" /\ request' = Head(queue)
        /\ queue # <<>> /\ queue' = Tail(queue) /\ queue[1].op # "add"
        /\ rows' = rows /\ batch' = batch
        /\ UNCHANGED <<workerError, accepting, call, acknowledged, crashed>>
    BY <1>4, QueueHead DEF TakeRequest, WriterUnchanged, database
  <2>2. PlaceIsSound'
    BY <2>1 DEF PlaceIsSound, Alive
  <2>3. Alive' = Alive
    BY <2>1 DEF Alive
  <2>4. rows' \union batch' = rows \union batch \union
          (IF queue[1].op = "add" THEN {queue[1].record} ELSE {})
    BY <2>1
  <2>5. OrderIsSound' /\ CommittedInOrder'
    BY <2>1, <2>3, <2>4, OrderTaken, RowsKept
  <2>6. QED
    BY <2>2, <2>5
<1>5. CASE WriteBatch /\ ~WriterFails
  BY <1>5, CommitOrder
<1>6. CASE MarkFinal /\ ~WriterFails
  <2>1. /\ writer = "finalizing" /\ writer' = "stopped" /\ request' = None
        /\ UNCHANGED <<batch, rows, queue, workerError, accepting, call, acknowledged, crashed>>
    BY <1>6 DEF MarkFinal, WriterUnchanged
  <2>2. PlaceIsSound'
    BY <2>1 DEF PlaceIsSound
  <2>3. Alive' = Alive
    BY <2>1 DEF Alive
  <2>4. OrderIsSound' /\ CommittedInOrder'
    BY <2>1, <2>3, OrderKept, RowsKept
  <2>5. QED
    BY <2>2, <2>4
<1>7. CASE DrainQueue
  <2>1. /\ writer = "draining" /\ writer' \in {"draining", "stopped"}
        /\ UNCHANGED <<batch, rows, request, workerError, accepting, call, acknowledged, crashed>>
    BY <1>7 DEF DrainQueue, WriterUnchanged, database
  <2>2. ~Alive' /\ PlaceIsSound'
    BY <2>1 DEF PlaceIsSound, Alive
  <2>3. QED
    BY <2>1, <2>2, RowsKept DEF OrderIsSound
<1>8. QED
  BY <1>1, <1>2, <1>3, <1>4, <1>5, <1>6, <1>7 DEF Writer

LEMMA OrderStep ==
  ASSUME TypeInv, OrderInv, [Next]_vars
  PROVE  OrderInv'
<1> USE DEF OrderInv
<1>1. CASE Writer
  BY <1>1, WriterOrder
<1>2. ASSUME NEW p \in Threads, Caller(p)
      PROVE  OrderInv'
  <2>1. CASE Put(p)
    BY <2>1, PutOrder
  <2>2. CASE ~Put(p)
    <3>1. /\ UNCHANGED <<acknowledged, queue, rows, batch, writer, request, workerError, crashed>>
          /\ accepting' = accepting \/ accepting
          /\ ~crashed
      <4>1. CASE Progress(p)
        <5>1. ~crashed
          BY <4>1 DEF Progress, Check, Put, QueueFull, Return, PlaceIsSound, Idle
        <5>2. QED
          BY <5>1, <4>1, <2>2 DEF Progress, Check, QueueFull, Return, writerVars, database
      <4>2. ASSUME ~Progress(p)
            PROVE  \E op, r, s : Enter(p, op, r, s)
        BY <4>2, <1>2 DEF Caller, Add, Flush, Finalize
      <4>3. CASE ~Progress(p)
        BY <4>2, <4>3 DEF Enter, writerVars, database, PlaceIsSound
      <4>4. QED
        BY <4>1, <4>3
    <3>2. Alive' = Alive
      BY <3>1 DEF Alive
    <3>3. PlaceIsSound'
      BY <3>1, <3>2 DEF PlaceIsSound
    <3>4. OrderIsSound' /\ CommittedInOrder'
      BY <3>1, <3>2, OrderKept, RowsKept
    <3>5. QED
      BY <3>3, <3>4
  <2>3. QED
    BY <2>1, <2>2
<1>3. CASE Crash
  <2>1. /\ crashed' = TRUE /\ writer' = "stopped" /\ accepting' = FALSE /\ request' = None
        /\ call' = [q \in Threads |-> Idle] /\ UNCHANGED <<acknowledged, rows>>
    BY <1>3 DEF Crash, database
  <2>2. PlaceIsSound'
    BY <2>1 DEF PlaceIsSound
  <2>3. OrderIsSound' /\ CommittedInOrder'
    BY <2>1, RowsKept DEF OrderIsSound, Alive
  <2>4. QED
    BY <2>2, <2>3
<1>4. CASE UNCHANGED vars
  <2>1. UNCHANGED <<acknowledged, queue, rows, batch, writer, request, workerError, crashed,
                    accepting, call>>
    BY <1>4 DEF vars, builderVars, writerVars, database
  <2>2. Alive' = Alive
    BY <2>1 DEF Alive
  <2>3. PlaceIsSound'
    BY <2>1, <2>2 DEF PlaceIsSound
  <2>4. OrderIsSound' /\ CommittedInOrder'
    BY <2>1, <2>2, OrderKept, RowsKept
  <2>5. QED
    BY <2>3, <2>4
<1>5. QED
  BY <1>1, <1>2, <1>3, <1>4 DEF Next, AllReturned

\* What is committed is a prefix of what each thread submitted, after any failure or crash and
\* for any number of threads.
THEOREM PrefixesAreCommitted == Spec => []CommittedInOrder
<1>1. Init => OrderInv
  BY InitOrder
<1>2. CaptureInv /\ OrderInv /\ [Next]_vars => OrderInv'
  BY OrderStep DEF CaptureInv
<1>3. OrderInv => CommittedInOrder
  BY DEF OrderInv
<1>4. QED
  BY <1>1, <1>2, <1>3, InvHolds, PTL DEF Spec

-----------------------------------------------------------------------------
(* What flush() and finalize() promise *)

\* The thread that sent a request waits for its answer, and everything acknowledged before it
\* asked is ahead of the request.
Asks(item) ==
  /\ call[item.by].at = "waiting" /\ call[item.by].op = item.op /\ reply[item.by] = "none"

RequestsAreSound ==
  Alive =>
    /\ \A k \in 1..Len(queue) : queue[k].op # "add" =>
         Asks(queue[k]) /\ call[queue[k].by].before \subseteq Ahead(k)
    /\ \A k, l \in 1..Len(queue) :
         k # l /\ queue[k].op # "add" /\ queue[l].op # "add" => queue[k].by # queue[l].by
    /\ request # None =>
         /\ request.op # "add" /\ Asks(request)
         /\ call[request.by].before \subseteq rows \union batch
         /\ \A k \in 1..Len(queue) : queue[k].op # "add" => queue[k].by # request.by

\* Nobody has an answer before asking, but for the errors of a failed writer.
RepliesAreSound ==
  ~crashed => \A p \in Threads : call[p].at # "waiting" =>
    reply[p] # "ok" /\ (~workerError => reply[p] = "none")

BarrierInv ==
  /\ \A p \in Threads : call[p].before \subseteq Acknowledged
  /\ RequestsAreSound /\ RepliesAreSound /\ BarriersHold

LEMMA InitBarrier == Init => BarrierInv
<1>1. SUFFICES ASSUME Init PROVE BarrierInv
  OBVIOUS
<1>2. (\A p \in Threads : call[p] = Idle /\ reply[p] = "none") /\ request = None /\ Len(queue) = 0
  BY <1>1 DEF Init
<1>3. \A p \in Threads : call[p].before = {} /\ call[p].at = "idle"
  BY <1>2 DEF Idle
<1>4. QED
  BY <1>2, <1>3 DEF BarrierInv, RequestsAreSound, RepliesAreSound, BarriersHold

\* A thread that sent no request does something that concerns it alone.
LEMMA CallBarrier ==
  ASSUME TypeInv, BarrierInv, NEW p \in Threads,
         UNCHANGED <<acknowledged, queue, rows, batch, request, workerError, crashed>>,
         \A q \in Threads \ {p} : call'[q] = call[q] /\ reply'[q] = reply[q],
         Alive => ~(call[p].at = "waiting" /\ reply[p] = "none"),
         call'[p].at # "waiting", call'[p].before \subseteq Acknowledged,
         ~crashed => reply'[p] # "ok" /\ (~workerError => reply'[p] = "none")
  PROVE  BarrierInv'
<1>1. /\ Acknowledged' = Acknowledged /\ Alive' = Alive /\ \A k : Ahead(k)' = Ahead(k)
  BY AheadKept DEF Acknowledged, Alive
<1>2. RequestsAreSound'
  <2>1. /\ \A k \in 1..Len(queue) : queue[k] \in Items
        /\ request # None => request \in Items
    BY DEF TypeInv, CallTypes, WriterTypes
  <2>2. ASSUME Alive, NEW item \in Items, Asks(item)
        PROVE  Asks(item)' /\ call'[item.by] = call[item.by]
    <3>1. item.by # p /\ item.by \in Threads
      BY <2>2 DEF Asks, Items
    <3>2. QED
      BY <2>2, <3>1 DEF Asks
  <2>3. SUFFICES ASSUME Alive
        PROVE  /\ \A k \in 1..Len(queue) : queue[k].op # "add" =>
                    Asks(queue[k])' /\ call'[queue[k].by].before \subseteq Ahead(k)
               /\ request # None =>
                    /\ Asks(request)'
                    /\ call'[request.by].before \subseteq rows \union batch
    BY <1>1, <2>3 DEF RequestsAreSound, BarrierInv, Asks
  <2>4. ASSUME NEW k \in 1..Len(queue), queue[k].op # "add"
        PROVE  Asks(queue[k])' /\ call'[queue[k].by].before \subseteq Ahead(k)
    <3>1. Asks(queue[k]) /\ call[queue[k].by].before \subseteq Ahead(k)
      BY <2>3, <2>4 DEF BarrierInv, RequestsAreSound
    <3>2. QED
      BY <2>1, <2>2, <2>3, <3>1 DEF Asks
  <2>5. ASSUME request # None
        PROVE  Asks(request)' /\ call'[request.by].before \subseteq rows \union batch
    <3>1. Asks(request) /\ call[request.by].before \subseteq rows \union batch
      BY <2>3, <2>5 DEF BarrierInv, RequestsAreSound
    <3>2. QED
      BY <2>1, <2>2, <2>3, <2>5, <3>1 DEF Asks
  <2>6. QED
    BY <2>4, <2>5
<1>3. RepliesAreSound' /\ BarriersHold' /\ \A q \in Threads : call'[q].before \subseteq Acknowledged'
  BY <1>1 DEF BarrierInv, RepliesAreSound, BarriersHold
<1>4. QED
  BY <1>2, <1>3 DEF BarrierInv

LEMMA CallerBarrier ==
  ASSUME TypeInv, OrderInv, BarrierInv, NEW p \in Threads, Caller(p), ~Put(p)
  PROVE  BarrierInv'
<1>1. call \in [Threads -> Calls] /\ call[p] \in Calls /\ reply \in [Threads -> {"none", "ok", "error"}]
  BY DEF TypeInv, CallTypes, WriterTypes
<1>2. ~crashed /\ call[p].at # "waiting" => reply[p] # "ok" /\ (~workerError => reply[p] = "none")
  BY DEF BarrierInv, RepliesAreSound
<1>3. CASE Check(p) \/ QueueFull(p)
  <2>1. /\ UNCHANGED <<acknowledged, queue, rows, batch, request, workerError, crashed, reply>>
        /\ \A q \in Threads \ {p} : call'[q] = call[q]
        /\ call[p].at # "waiting"
    BY <1>1, <1>3 DEF Check, QueueFull, writerVars, database
  <2>2. call'[p] = Idle \/ call'[p] = [call[p] EXCEPT !.at = "putting"]
        \/ call'[p] = [call[p] EXCEPT !.at = "checking"]
    BY <1>1, <1>3 DEF Check, QueueFull
  <2>3. call'[p].at # "waiting" /\ call'[p].before \subseteq Acknowledged
    BY <1>1, <2>2 DEF Idle, Calls, BarrierInv
  <2>4. QED
    BY <1>2, <2>1, <2>3, CallBarrier
<1>4. CASE Return(p)
  <2>1. /\ UNCHANGED <<acknowledged, queue, rows, batch, request, workerError, crashed>>
        /\ \A q \in Threads \ {p} : call'[q] = call[q] /\ reply'[q] = reply[q]
        /\ reply[p] # "none" \/ workerError
        /\ call'[p] = Idle /\ reply'[p] = "none"
    BY <1>1, <1>4 DEF Return, database
  <2>2. call'[p].at # "waiting" /\ call'[p].before \subseteq Acknowledged
    BY <2>1 DEF Idle
  <2>3. QED
    BY <2>1, <2>2, CallBarrier DEF Alive
<1>5. ASSUME NEW op, NEW r, NEW requested, Enter(p, op, r, requested)
      PROVE  BarrierInv'
  <2>1. /\ UNCHANGED <<acknowledged, queue, rows, batch, request, workerError, crashed, reply>>
        /\ \A q \in Threads \ {p} : call'[q] = call[q]
        /\ call[p] = Idle
    BY <1>1, <1>5 DEF Enter, writerVars, database
  <2>2. call'[p].at = "checking" /\ call'[p].before = Acknowledged
    BY <1>1, <1>5 DEF Enter
  <2>3. call[p].at # "waiting"
    BY <2>1 DEF Idle
  <2>4. QED
    BY <1>2, <2>1, <2>2, <2>3, CallBarrier
<1>6. QED
  BY <1>3, <1>4, <1>5 DEF Caller, Progress, Add, Flush, Finalize

LEMMA PutBarrier ==
  ASSUME TypeInv, OrderInv, BarrierInv, NEW p \in Threads, Put(p)
  PROVE  BarrierInv'
<1> DEFINE item == [op |-> call[p].op, by |-> p, record |-> call[p].record, status |-> call[p].status]
           n == Len(queue) + 1
<1>1. /\ call \in [Threads -> Calls] /\ call[p] \in Calls /\ queue \in Seq(Items)
      /\ call[p].at = "putting" /\ queue' = Append(queue, item)
      /\ item.op = call[p].op /\ item.by = p
      /\ UNCHANGED <<accepting, writerVars, database, crashed>>
  BY DEF TypeInv, CallTypes, Put
<1>2. item \in Items
  BY <1>1 DEF Items, Calls, TypeInv, CallsAreSound
<1> HIDE DEF item
<1>3. rows' = rows /\ batch' = batch /\ request' = request /\ reply' = reply /\ Alive' = Alive
      /\ crashed' = crashed /\ workerError' = workerError
  BY <1>1 DEF writerVars, database, Alive
<1>4. \A k \in 1..Len(queue) + 1 : Ahead(k)' = Ahead(k)
  BY <1>1, <1>2, <1>3, AheadAppend
<1>5. /\ Len(queue) \in Nat /\ Len(queue') = n /\ queue'[n] = item
      /\ \A i \in 1..Len(queue) : queue'[i] = queue[i] /\ queue[i] \in Items
      /\ \A i \in 1..n : i \in 1..Len(queue) \/ i = n
  BY <1>1
<1>6. ~crashed
  BY <1>1 DEF OrderInv, PlaceIsSound, Idle
<1>7. reply[p] # "ok" /\ (Alive => reply[p] = "none")
  BY <1>1, <1>6 DEF BarrierInv, RepliesAreSound, Alive
<1>8. /\ \A q \in Threads \ {p} : call'[q] = call[q]
      /\ \/ item.op = "add" /\ call'[p] = Idle
         \/ /\ item.op # "add" /\ call'[p] = [call[p] EXCEPT !.at = "waiting"]
            /\ acknowledged' = acknowledged
  BY <1>1 DEF Put
<1>9. call'[p].before \subseteq call[p].before
      /\ (item.op # "add" => call'[p].at = "waiting" /\ call'[p].op = item.op)
      /\ (item.op = "add" => call'[p].at # "waiting")
  BY <1>1, <1>8 DEF Idle, Calls
<1>10. Acknowledged \subseteq Acknowledged'
  <2>1. CASE item.op = "add"
    <3>1. call[p].record \in Records /\ acknowledged' = [acknowledged EXCEPT ![p] = Append(@, call[p].record)]
      BY <1>1, <2>1 DEF Put, TypeInv, CallsAreSound, Position
    <3>2. QED
      BY <3>1, AcknowledgeOne DEF TypeInv
  <2>2. CASE item.op # "add"
    BY <1>8, <2>2 DEF Acknowledged
  <2>3. QED
    BY <2>1, <2>2
<1>11. ASSUME Alive, NEW i \in Items, Asks(i)
       PROVE  i.by # p /\ i.by \in Threads /\ call'[i.by] = call[i.by]
  BY <1>1, <1>8, <1>11 DEF Asks, Items
<1>12. RequestsAreSound'
  <2>1. SUFFICES ASSUME Alive
        PROVE  /\ \A k \in 1..n : queue'[k].op # "add" =>
                    Asks(queue[k])' /\ call'[queue'[k].by].before \subseteq Ahead(k)
               /\ \A k, l \in 1..n :
                    k # l /\ queue'[k].op # "add" /\ queue'[l].op # "add" => queue'[k].by # queue'[l].by
               /\ request # None =>
                    /\ request.op # "add" /\ Asks(request)'
                    /\ call'[request.by].before \subseteq rows \union batch
                    /\ \A k \in 1..n : queue'[k].op # "add" => queue'[k].by # request.by
    BY <1>3, <1>4, <1>5 DEF RequestsAreSound, Asks
  <2>2. ASSUME NEW k \in 1..Len(queue), queue[k].op # "add"
        PROVE  /\ queue[k].by # p /\ call'[queue[k].by] = call[queue[k].by]
               /\ Asks(queue[k])  /\ call[queue[k].by].before \subseteq Ahead(k)
    <3>1. Asks(queue[k]) /\ call[queue[k].by].before \subseteq Ahead(k)
      BY <2>1, <2>2 DEF BarrierInv, RequestsAreSound
    <3>2. QED
      BY <2>1, <3>1, <1>5, <1>11
  <2>3. ASSUME request # None
        PROVE  /\ request.by # p /\ call'[request.by] = call[request.by] /\ request.op # "add"
               /\ Asks(request) /\ call[request.by].before \subseteq rows \union batch
               /\ \A k \in 1..Len(queue) : queue[k].op # "add" => queue[k].by # request.by
    <3>1. /\ Asks(request) /\ call[request.by].before \subseteq rows \union batch /\ request.op # "add"
          /\ \A k \in 1..Len(queue) : queue[k].op # "add" => queue[k].by # request.by
      BY <2>1, <2>3 DEF BarrierInv, RequestsAreSound
    <3>2. request \in Items
      BY <2>3 DEF TypeInv, WriterTypes
    <3>3. QED
      BY <2>1, <3>1, <3>2, <1>11
  <2>4. call'[p].before \subseteq Ahead(n)
    BY <1>9, <2>1 DEF BarrierInv, OrderInv, OrderIsSound
  <2>5. ASSUME NEW k \in 1..n, queue'[k].op # "add"
        PROVE  Asks(queue[k])' /\ call'[queue'[k].by].before \subseteq Ahead(k)
    <3>1. CASE k \in 1..Len(queue)
      BY <2>2, <2>5, <3>1, <1>3, <1>5 DEF Asks
    <3>2. CASE k = n
      BY <2>4, <2>5, <3>2, <1>1, <1>3, <1>5, <1>7, <1>9, <2>1 DEF Asks
    <3>3. QED
      BY <3>1, <3>2, <1>5
  <2>6. \A k, l \in 1..n :
          k # l /\ queue'[k].op # "add" /\ queue'[l].op # "add" => queue'[k].by # queue'[l].by
    <3>1. \A k, l \in 1..Len(queue) :
            k # l /\ queue[k].op # "add" /\ queue[l].op # "add" => queue[k].by # queue[l].by
      BY <2>1 DEF BarrierInv, RequestsAreSound
    <3>2. QED
      BY <3>1, <2>2, <1>1, <1>5
  <2>7. ASSUME request # None
        PROVE  /\ request.op # "add" /\ Asks(request)'
               /\ call'[request.by].before \subseteq rows \union batch
               /\ \A k \in 1..n : queue'[k].op # "add" => queue'[k].by # request.by
    BY <2>3, <2>7, <1>1, <1>3, <1>5 DEF Asks
  <2>8. QED
    BY <2>5, <2>6, <2>7
<1>13. RepliesAreSound' /\ BarriersHold'
  BY <1>3, <1>7, <1>8, <1>9 DEF BarrierInv, RepliesAreSound, BarriersHold, Alive
<1>14. \A q \in Threads : call'[q].before \subseteq Acknowledged'
  BY <1>8, <1>9, <1>10 DEF BarrierInv
<1>15. QED
  BY <1>12, <1>13, <1>14 DEF BarrierInv

\* A step of the writer leaves every call alone.
LEMMA WriterBarrier ==
  ASSUME TypeInv, BarrierInv, WriterUnchanged, RequestsAreSound', rows \subseteq rows',
         \A p \in Threads :
           \/ reply'[p] = reply[p]
           \/ reply'[p] = "error" /\ workerError'
           \/ call[p].at = "waiting" /\ reply'[p] = "ok" /\ call[p].before \subseteq rows',
         workerError => workerError'
  PROVE  BarrierInv'
<1>1. /\ call' = call /\ Acknowledged' = Acknowledged /\ crashed' = crashed
  BY DEF WriterUnchanged, Acknowledged
<1>2. QED
  BY <1>1 DEF BarrierInv, RepliesAreSound, BarriersHold

LEMMA TakeBarrier ==
  ASSUME TypeInv, OrderInv, BarrierInv, TakeRecord \/ TakeRequest
  PROVE  BarrierInv'
<1>1. /\ queue # <<>> /\ queue' = Tail(queue) /\ rows' = rows /\ WriterUnchanged
      /\ UNCHANGED <<workerError, reply>> /\ writer = "running"
      /\ \/ TakeRecord /\ queue[1].op = "add" /\ batch' = batch \union {queue[1].record}
            /\ request' = request
         \/ TakeRequest /\ queue[1].op # "add" /\ batch' = batch /\ request' = queue[1]
  BY QueueHead DEF TakeRecord, TakeRequest, database
<1>2. \A k \in Nat \ {0} : Ahead(k)' = Ahead(k + 1)
  BY <1>1, AheadTail
<1>3. /\ Len(queue) \in Nat \ {0} /\ Len(queue') = Len(queue) - 1 /\ 1 \in 1..Len(queue)
      /\ \A k \in 1..Len(queue') : k \in Nat \ {0} /\ k + 1 \in 1..Len(queue) /\ queue'[k] = queue[k + 1]
                                   /\ k + 1 # 1
  BY <1>1 DEF TypeInv, CallTypes
<1>4. /\ call' = call /\ reply' = reply /\ Alive' = Alive
      /\ \A item : Asks(item)' <=> Asks(item)
  BY <1>1 DEF WriterUnchanged, Alive, Asks
<1>5. RequestsAreSound'
  <2>1. SUFFICES ASSUME Alive
        PROVE  /\ \A k \in 1..Len(queue') : queue'[k].op # "add" =>
                    Asks(queue[k])' /\ call[queue'[k].by].before \subseteq Ahead(k)'
               /\ \A k, l \in 1..Len(queue') :
                    k # l /\ queue'[k].op # "add" /\ queue'[l].op # "add" => queue'[k].by # queue'[l].by
               /\ request' # None =>
                    /\ request'.op # "add" /\ Asks(request)'
                    /\ call[request'.by].before \subseteq rows' \union batch'
                    /\ \A k \in 1..Len(queue') : queue'[k].op # "add" => queue'[k].by # request'.by
    BY <1>4 DEF RequestsAreSound
  <2>2. \A k \in 1..Len(queue) : queue[k].op # "add" =>
          Asks(queue[k]) /\ call[queue[k].by].before \subseteq Ahead(k)
    BY <2>1 DEF BarrierInv, RequestsAreSound
  <2>3. \A k, l \in 1..Len(queue) :
          k # l /\ queue[k].op # "add" /\ queue[l].op # "add" => queue[k].by # queue[l].by
    BY <2>1 DEF BarrierInv, RequestsAreSound
  <2>4. request = None
    BY <2>1, <1>1 DEF OrderInv, PlaceIsSound
  <2>5. ASSUME NEW k \in 1..Len(queue'), queue'[k].op # "add"
        PROVE  Asks(queue[k])' /\ call[queue'[k].by].before \subseteq Ahead(k)'
    <3>1. Asks(queue[k + 1]) /\ call[queue[k + 1].by].before \subseteq Ahead(k + 1)
      BY <2>2, <2>5, <1>3
    <3>2. QED
      BY <3>1, <1>2, <1>3, <1>4 DEF Asks
  <2>6. \A k, l \in 1..Len(queue') :
          k # l /\ queue'[k].op # "add" /\ queue'[l].op # "add" => queue'[k].by # queue'[l].by
    BY <2>3, <1>3
  <2>7. ASSUME request' # None
        PROVE  /\ request'.op # "add" /\ Asks(request)'
               /\ call[request'.by].before \subseteq rows' \union batch'
               /\ \A k \in 1..Len(queue') : queue'[k].op # "add" => queue'[k].by # request'.by
    <3>1. queue[1].op # "add" /\ batch' = batch /\ request' = queue[1]
      BY <1>1, <2>4, <2>7
    <3>2. Asks(queue[1]) /\ call[queue[1].by].before \subseteq Ahead(1)
      BY <2>2, <3>1, <1>3
    <3>3. Ahead(1) = rows \union batch
      <4>1. \A x \in 1..Len(queue) : ~(x < 1)
        BY <1>3
      <4>2. QED
        BY <4>1, AheadMembers
    <3>4. Asks(request)'
      BY <3>1, <3>2, <1>4 DEF Asks
    <3>5. \A k \in 1..Len(queue') : queue'[k].op # "add" => queue'[k].by # request'.by
      BY <3>1, <2>3, <1>3
    <3>6. QED
      BY <3>1, <3>2, <3>3, <3>4, <3>5, <1>1
  <2>8. QED
    BY <2>5, <2>6, <2>7
<1>6. QED
  BY <1>1, <1>4, <1>5, WriterBarrier

\* A request is answered, or stays until its capture is finalized.
LEMMA AnswerBarrier ==
  ASSUME TypeInv, OrderInv, BarrierInv, WriterUnchanged,
         UNCHANGED <<queue, workerError>>, Alive, rows' \union batch' = rows \union batch, rows \subseteq rows',
         \/ request' \in {request, None} /\ reply' = reply
         \/ /\ request # None /\ request' = None /\ batch' = {}
            /\ reply' = [reply EXCEPT ![request.by] = "ok"]
  PROVE  BarrierInv'
<1>1. /\ call' = call /\ Alive' /\ \A k : Ahead(k)' = Ahead(k)
      /\ reply \in [Threads -> {"none", "ok", "error"}]
      /\ \A k \in 1..Len(queue) : queue[k] \in Items
      /\ request # None => request \in Items
  BY AheadKept DEF WriterUnchanged, Alive, TypeInv, CallTypes, WriterTypes
<1>2. /\ \A k \in 1..Len(queue) : queue[k].op # "add" =>
           Asks(queue[k]) /\ call[queue[k].by].before \subseteq Ahead(k)
      /\ \A k, l \in 1..Len(queue) :
           k # l /\ queue[k].op # "add" /\ queue[l].op # "add" => queue[k].by # queue[l].by
      /\ request # None =>
           /\ request.op # "add" /\ Asks(request)
           /\ call[request.by].before \subseteq rows \union batch
           /\ \A k \in 1..Len(queue) : queue[k].op # "add" => queue[k].by # request.by
  BY DEF BarrierInv, RequestsAreSound
<1>3. CASE request' \in {request, None} /\ reply' = reply
  <2>1. \A item : Asks(item)' <=> Asks(item)
    BY <1>1, <1>3 DEF Asks
  <2>2. RequestsAreSound'
    BY <1>1, <1>2, <1>3, <2>1 DEF RequestsAreSound, Asks
  <2>3. QED
    BY <2>2, <1>3, WriterBarrier
<1>4. CASE /\ request # None /\ request' = None /\ batch' = {}
           /\ reply' = [reply EXCEPT ![request.by] = "ok"]
  <2>1. request.by \in Threads /\ call[request.by].at = "waiting" /\ call[request.by].before \subseteq rows'
    BY <1>1, <1>2, <1>4 DEF Items, Asks
  <2>2. \A p \in Threads \ {request.by} : reply'[p] = reply[p]
    BY <1>1, <1>4, <2>1
  <2>3. reply'[request.by] = "ok"
    BY <1>1, <1>4, <2>1
  <2>4. \A k \in 1..Len(queue) : queue[k].op # "add" =>
          Asks(queue[k])' /\ call'[queue[k].by].before \subseteq Ahead(k)'
    BY <1>1, <1>2, <1>4, <2>2 DEF Asks, Items
  <2>5. RequestsAreSound'
    BY <1>1, <1>2, <1>4, <2>4 DEF RequestsAreSound, Asks
  <2>6. QED
    BY <2>1, <2>2, <2>3, <2>5, WriterBarrier
<1>5. QED
  BY <1>3, <1>4

LEMMA WriterStepBarrier ==
  ASSUME TypeInv, OrderInv, BarrierInv, Writer
  PROVE  BarrierInv'
<1>1. CASE WriterFails
  <2>1. /\ WriterUnchanged /\ workerError' /\ rows' = rows
        /\ reply' = IF request = None THEN reply ELSE [reply EXCEPT ![request.by] = "error"]
    BY <1>1 DEF WriterFails, database
  <2>2. RequestsAreSound'
    BY <2>1 DEF RequestsAreSound, Alive
  <2>3. \A p \in Threads : reply'[p] = reply[p] \/ reply'[p] = "error"
    BY <2>1 DEF TypeInv, WriterTypes
  <2>4. QED
    BY <2>1, <2>2, <2>3, WriterBarrier
<1>2. CASE TakeRecord \/ TakeRequest
  BY <1>2, TakeBarrier
<1>3. CASE DrainQueue
  <2>1. /\ WriterUnchanged /\ workerError /\ workerError' = workerError /\ rows' = rows
        /\ \/ reply' = reply
           \/ reply' = [reply EXCEPT ![Head(queue).by] = "error"]
    BY <1>3 DEF DrainQueue, database, OrderInv, PlaceIsSound
  <2>2. RequestsAreSound'
    BY <2>1 DEF RequestsAreSound, Alive
  <2>3. \A p \in Threads : reply'[p] = reply[p] \/ reply'[p] = "error"
    BY <2>1 DEF TypeInv, WriterTypes
  <2>4. QED
    BY <2>1, <2>2, <2>3, WriterBarrier
<1>4. CASE (Open \/ FlushInterval \/ WriteBatch \/ MarkFinal) /\ ~WriterFails
  <2>1. Alive
    BY <1>4 DEF Open, FlushInterval, WriteBatch, MarkFinal, OrderInv, PlaceIsSound, Alive
  <2>2. CASE (Open \/ FlushInterval) /\ ~WriterFails
    <3>1. WriterUnchanged /\ UNCHANGED <<queue, workerError, rows, batch, request, reply>>
      BY <2>2 DEF Open, FlushInterval, database
    <3>2. QED
      BY <2>1, <3>1, AnswerBarrier
  <2>3. CASE WriteBatch /\ ~WriterFails
    <3>1. /\ WriterUnchanged /\ UNCHANGED <<queue, workerError>>
          /\ rows' = rows \union batch /\ batch' = {}
          /\ request' \in {request, None}
          /\ reply' = IF request # None /\ request' = None
                      THEN [reply EXCEPT ![request.by] = "ok"] ELSE reply
      BY <2>3 DEF WriteBatch, StoreBatch
    <3>2. QED
      BY <2>1, <3>1, AnswerBarrier
  <2>4. CASE MarkFinal /\ ~WriterFails
    <3>1. /\ WriterUnchanged /\ UNCHANGED <<queue, workerError, rows, batch>>
          /\ request # None /\ request' = None /\ batch' = {}
          /\ reply' = [reply EXCEPT ![request.by] = "ok"]
      BY <2>4 DEF MarkFinal, OrderInv, PlaceIsSound
    <3>2. QED
      BY <2>1, <3>1, AnswerBarrier
  <2>5. QED
    BY <1>4, <2>2, <2>3, <2>4
<1>5. QED
  BY <1>1, <1>2, <1>3, <1>4 DEF Writer

LEMMA BarrierStep ==
  ASSUME TypeInv, OrderInv, BarrierInv, [Next]_vars
  PROVE  BarrierInv'
<1>1. CASE Writer
  BY <1>1, WriterStepBarrier
<1>2. ASSUME NEW p \in Threads, Caller(p)
      PROVE  BarrierInv'
  BY <1>2, CallerBarrier, PutBarrier
<1>3. CASE Crash
  <2>1. crashed' = TRUE /\ \A p \in Threads : call'[p] = Idle
    BY <1>3 DEF Crash
  <2>2. QED
    BY <2>1 DEF BarrierInv, RequestsAreSound, RepliesAreSound, BarriersHold, Alive, Idle
<1>4. CASE UNCHANGED vars
  <2>1. UNCHANGED <<call, reply, acknowledged, queue, rows, batch, request, workerError, crashed>>
    BY <1>4 DEF vars, builderVars, writerVars, database
  <2>2. /\ Acknowledged' = Acknowledged /\ Alive' = Alive /\ \A k : Ahead(k)' = Ahead(k)
        /\ \A item : Asks(item)' <=> Asks(item)
    BY <2>1, AheadKept DEF Acknowledged, Alive, Asks
  <2>3. RequestsAreSound'
    BY <2>1, <2>2 DEF BarrierInv, RequestsAreSound, Asks
  <2>4. QED
    BY <2>1, <2>2, <2>3 DEF BarrierInv, RepliesAreSound, BarriersHold
<1>5. QED
  BY <1>1, <1>2, <1>3, <1>4 DEF Next, AllReturned

LEMMA PromisesHold == Spec => [](OrderInv /\ BarrierInv)
<1>1. Init => OrderInv /\ BarrierInv
  BY InitOrder, InitBarrier
<1>2. CaptureInv /\ OrderInv /\ BarrierInv /\ [Next]_vars => OrderInv' /\ BarrierInv'
  BY OrderStep, BarrierStep DEF CaptureInv
<1>3. QED
  BY <1>1, <1>2, InvHolds, PTL DEF Spec

\* A flush() or finalize() that succeeds has committed everything acknowledged, in any thread,
\* before it was called, for any number of threads calling at once.
THEOREM FlushMeansCommitted == Spec => []BarriersHold
<1>1. BarrierInv => BarriersHold
  BY DEF BarrierInv
<1>2. QED
  BY <1>1, PromisesHold, PTL

-----------------------------------------------------------------------------
(* One calling thread *)

\* With one thread, nobody submits while it asks, and nobody can after it finalized.
OneThreadInv ==
  /\ \A p \in Threads :
       /\ call[p].op = "finalize" => ~accepting
       /\ call[p].op \in {"flush", "finalize"} => Acknowledged \subseteq call[p].before
  /\ status # "IN_PROGRESS" =>
       ~accepting /\ Acknowledged \subseteq rows /\ \A p \in Threads : call[p].op # "add"

LEMMA OneCallerStep ==
  ASSUME \A p, q \in Threads : p = q, TypeInv, OneThreadInv, NEW p \in Threads, Caller(p)
  PROVE  OneThreadInv'
<1>1. call \in [Threads -> Calls] /\ call[p] \in Calls /\ \A q \in Threads : q = p
  BY DEF TypeInv, CallTypes
<1>2. rows' = rows /\ status' = status
  BY DEF Caller, Progress, Add, Flush, Finalize, Enter, Check, Put, QueueFull, Return, database
<1>3. CASE Check(p) \/ QueueFull(p) \/ Return(p) \/ (Put(p) /\ call[p].op # "add")
  <2>1. Acknowledged' = Acknowledged /\ accepting' = accepting
    BY <1>3 DEF Check, QueueFull, Return, Put, Acknowledged
  <2>2. call'[p] = Idle \/ (call'[p].op = call[p].op /\ call'[p].before = call[p].before)
    BY <1>1, <1>3 DEF Check, QueueFull, Return, Put, Calls
  <2>3. QED
    BY <1>1, <1>2, <2>1, <2>2 DEF OneThreadInv, Idle
<1>4. CASE Put(p) /\ call[p].op = "add"
  <2>1. call'[p].op = "idle" /\ accepting' = accepting
    BY <1>1, <1>4 DEF Put, Idle
  <2>2. status = "IN_PROGRESS"
    BY <1>4 DEF OneThreadInv
  <2>3. QED
    BY <1>1, <1>2, <2>1, <2>2 DEF OneThreadInv
<1>5. ASSUME NEW op, NEW r, NEW requested, Enter(p, op, r, requested)
      PROVE  OneThreadInv'
  <2>1. /\ accepting /\ accepting' = (op # "finalize") /\ acknowledged' = acknowledged
        /\ call'[p].op = op /\ call'[p].before = Acknowledged
    BY <1>1, <1>5 DEF Enter
  <2>2. Acknowledged' = Acknowledged /\ status = "IN_PROGRESS"
    BY <2>1 DEF Acknowledged, OneThreadInv
  <2>3. QED
    BY <1>1, <1>2, <2>1, <2>2 DEF OneThreadInv
<1>6. QED
  BY <1>3, <1>4, <1>5 DEF Caller, Progress, Add, Flush, Finalize

LEMMA OneThreadStep ==
  ASSUME \A p, q \in Threads : p = q, TypeInv, OrderInv, BarrierInv, OneThreadInv, [Next]_vars
  PROVE  OneThreadInv'
<1>1. CASE Writer
  <2>1. /\ UNCHANGED <<accepting, call, acknowledged>> /\ Acknowledged' = Acknowledged
        /\ rows \subseteq rows'
    BY <1>1 DEF Writer, Open, TakeRecord, TakeRequest, FlushInterval, WriteBatch, StoreBatch, MarkFinal,
       DrainQueue, WriterFails, WriterUnchanged, database, Acknowledged
  <2>2. CASE status' = status
    BY <2>1, <2>2 DEF OneThreadInv
  <2>3. CASE status' # status
    <3>1. MarkFinal /\ ~WriterFails
      BY <1>1, <2>3 DEF Writer, Open, TakeRecord, TakeRequest, FlushInterval, WriteBatch, StoreBatch,
         DrainQueue, WriterFails, database
    <3>2. writer = "finalizing" /\ rows' = rows
      BY <3>1 DEF MarkFinal
    <3>3. Alive /\ batch = {} /\ request # None /\ request.op = "finalize" /\ request \in Items
      BY <3>2 DEF OrderInv, PlaceIsSound, Alive, TypeInv, WriterTypes
    <3>4. Asks(request) /\ call[request.by].before \subseteq rows
      BY <3>3 DEF BarrierInv, RequestsAreSound
    <3>5. request.by \in Threads /\ call[request.by].op = "finalize"
      BY <3>3, <3>4 DEF Items, Asks
    <3>6. ~accepting /\ Acknowledged \subseteq rows
      BY <3>4, <3>5 DEF OneThreadInv
    <3>7. \A p \in Threads : call[p].op # "add"
      BY <3>5
    <3>8. QED
      BY <2>1, <3>2, <3>6, <3>7 DEF OneThreadInv
  <2>4. QED
    BY <2>2, <2>3
<1>2. ASSUME NEW p \in Threads, Caller(p)
      PROVE  OneThreadInv'
  BY <1>2, OneCallerStep
<1>3. CASE Crash
  <2>1. /\ accepting' = FALSE /\ (\A p \in Threads : call'[p] = Idle)
        /\ rows' = rows /\ status' = status /\ acknowledged' = acknowledged
    BY <1>3 DEF Crash, database
  <2>2. QED
    BY <2>1 DEF OneThreadInv, Idle, Acknowledged
<1>4. CASE UNCHANGED vars
  BY <1>4 DEF OneThreadInv, Acknowledged, vars, builderVars, database
<1>5. QED
  BY <1>1, <1>2, <1>3, <1>4 DEF Next, AllReturned

\* A program that calls the builder from one thread loses nothing: its finalized capture holds
\* every record whose add_* returned, and no late one is accepted.
THEOREM OneThreadLosesNothing ==
  ASSUME \A p, q \in Threads : p = q
  PROVE  Spec => []NothingAcknowledgedIsLost
<1>1. Init => OneThreadInv
  <2>1. SUFFICES ASSUME Init PROVE OneThreadInv
    OBVIOUS
  <2>2. \A p \in Threads : call[p].op = "idle"
    BY <2>1 DEF Init, Idle
  <2>3. QED
    BY <2>1, <2>2 DEF Init, OneThreadInv
<1>2. CaptureInv /\ OrderInv /\ BarrierInv /\ OneThreadInv /\ [Next]_vars => OneThreadInv'
  BY OneThreadStep DEF CaptureInv
<1>3. OneThreadInv => NothingAcknowledgedIsLost
  BY DEF OneThreadInv, NothingAcknowledgedIsLost, TerminalStatuses
<1>4. QED
  BY <1>1, <1>2, <1>3, InvHolds, PromisesHold, PTL DEF Spec

-----------------------------------------------------------------------------
(* The file *)

\* A maker that is at work, or done, owns the file, and the file is as far as its maker is.
StoreInv ==
  /\ maker \in [Makers -> {"idle", "touched", "filling", "made", "dead"}]
  /\ \A m \in Makers :
       /\ maker[m] \in {"touched", "filling", "made"} => owner = m
       /\ maker[m] = "touched" => content = "empty"
       /\ maker[m] = "filling" => content = "tables"
       /\ maker[m] = "made" => content = "capture"
  /\ reader = "open" => content = "capture"

LEMMA MakeStep ==
  ASSUME StoreInv, NEW m \in Makers, Make(m)
  PROVE  StoreInv' /\ (content = "capture" => UNCHANGED <<content, owner>>)
<1>1. \A k \in Makers \ {m} : maker'[k] = maker[k]
  BY DEF StoreInv, Make, Touch, CreateTables, CommitCapture, CreationFails, MakerDies
<1>2. maker' \in [Makers -> {"idle", "touched", "filling", "made", "dead"}]
  BY DEF StoreInv, Make, Touch, CreateTables, CommitCapture, CreationFails, MakerDies
<1>3. CASE Touch(m)
  BY <1>1, <1>2, <1>3 DEF StoreInv, Touch
<1>4. CASE CreateTables(m)
  BY <1>1, <1>2, <1>4 DEF StoreInv, CreateTables
<1>5. CASE CommitCapture(m)
  BY <1>1, <1>2, <1>5 DEF StoreInv, CommitCapture
<1>6. CASE CreationFails(m)
  BY <1>1, <1>2, <1>6 DEF StoreInv, CreationFails
<1>7. CASE MakerDies(m)
  BY <1>1, <1>2, <1>7 DEF StoreInv, MakerDies
<1>8. QED
  BY <1>3, <1>4, <1>5, <1>6, <1>7 DEF Make

LEMMA StoreStep ==
  ASSUME StoreInv, [StoreNext]_<<storeVars, vars>>
  PROVE  StoreInv' /\ (content = "capture" => UNCHANGED <<content, owner>>)
<1>1. CASE \E m \in Makers : Make(m)
  BY <1>1, MakeStep
<1>2. CASE Find \/ OpenReader
  BY <1>2 DEF StoreInv, Find, OpenReader, Valid
<1>3. CASE UNCHANGED storeVars
  BY <1>3 DEF StoreInv, storeVars
<1>4. QED
  BY <1>1, <1>2, <1>3 DEF StoreNext, BuilderRuns

LEMMA StoreInvHolds == StoreSpec => []StoreInv
<1>1. StoreInit => StoreInv
  BY DEF StoreInit, StoreInv
<1>2. StoreInv /\ [StoreNext]_<<storeVars, vars>> => StoreInv'
  BY StoreStep
<1>3. QED
  BY <1>1, <1>2, PTL DEF StoreSpec

\* One maker gets the file, and nothing a failed or dead maker left is taken for a capture, for any
\* number of makers.
THEOREM OneCapturePerFile == StoreSpec => []PartialFilesAreRefused
<1>1. StoreInv => PartialFilesAreRefused
  BY DEF StoreInv, PartialFilesAreRefused
<1>2. QED
  BY <1>1, StoreInvHolds, PTL

\* A capture that was made is neither overwritten nor removed.
THEOREM CapturesStay == StoreSpec => CapturesAreKept
<1>1. StoreInv /\ [StoreNext]_<<storeVars, vars>> =>
        [content = "capture" => UNCHANGED <<content, owner>>]_storeVars
  BY StoreStep
<1>2. StoreSpec => [][StoreNext]_<<storeVars, vars>>
  BY PTL DEF StoreSpec
<1>3. QED
  BY <1>1, <1>2, StoreInvHolds, PTL DEF CapturesAreKept

\* Makers and readers do not disturb the builder: what holds of it alone holds beside them.
THEOREM StoreImplementsBuilder == StoreSpec => Init /\ [][Next]_vars
<1>1. StoreInit => Init
  BY DEF StoreInit
<1>2. [StoreNext]_<<storeVars, vars>> => [Next]_vars
  BY DEF StoreNext, Make, Touch, CreateTables, CommitCapture, CreationFails, MakerDies,
     Find, OpenReader, BuilderRuns
<1>3. QED
  BY <1>1, <1>2, PTL DEF StoreSpec
=============================================================================
