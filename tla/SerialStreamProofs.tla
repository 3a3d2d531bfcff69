--------------------------- MODULE SerialStreamProofs ---------------------------
(***************************************************************************)
(* Safety of the byte stream for any number of bytes, outputs of any       *)
(* length and any number of faults.  Input and output share nothing but    *)
(* the stage, so each has an invariant of its own.                         *)
(***************************************************************************)
EXTENDS SerialStream, SequenceTheorems, TLAPS

\* The bytes that are somewhere between the rig and Transport.
Flow == (given \o incoming) \o unread

InputInv ==
  /\ sent \in Nat
  /\ unread \in Seq(Nat) /\ incoming \in Seq(Nat) /\ given \in Seq(Nat)
  /\ port # "closed" => Flow = Received
  /\ Len(given) <= sent
  /\ \A i \in 1..Len(given) : given[i] = i

OutputBytes == Outputs \X Nat

\* What was written of the pending output is what the port took last.
OutputInv ==
  /\ offered \in Outputs \union {0} /\ pendingOutput \in Outputs \union {0}
  /\ produced \in 0..Len(OutputLength)
  /\ offset \in Nat
  /\ accepted \in Seq(OutputBytes) /\ committed \in Seq(Outputs)
  /\ pendingOutput # 0 =>
       /\ offset < OutputLength[pendingOutput] /\ offset <= Len(accepted)
       /\ \A i \in 1..offset : accepted[Len(accepted) - offset + i] = <<pendingOutput, i>>

PortInv ==
  /\ stage \in {"discovering", "creating", "configuring", "opening"} => port \in {"none", "made"}
  /\ stage = "opening" => signals = {}
  /\ PortsAreReleased

-----------------------------------------------------------------------------
(* The port *)

LEMMA InitPort == Init => PortInv
BY DEF Init, PortInv, PortsAreReleased

LEMMA PortStep == PortInv /\ [Next]_vars => PortInv'
<1> SUFFICES ASSUME PortInv, [Next]_vars PROVE PortInv'
  OBVIOUS
<1> USE DEF PortInv, PortsAreReleased
<1>1. CASE Connect
  BY <1>1 DEF Connect, Discover, CreatePort, SetSignals, OpenPort, Assemble, Release
<1>2. CASE Service \/ RigSends
  BY <1>2 DEF Service, RigSends, PortUnchanged
<1>3. CASE Pass
  <2>1. /\ stage \in Serving
        /\ stage' \in Serving \union {"idle"}
        /\ UNCHANGED <<port, signals>>
    BY <1>3 DEF Pass, ReadSerial, OfferReceived, AfterOffer, ProcessTransport, Drain, InvalidateSession,
       NothingToWrite, WriteFails, WritePart, WriteRest, CommitOutput, PortUnchanged, Serving
  <2>2. QED
    BY <2>1 DEF Serving
<1>4. CASE Close
  BY <1>4 DEF Close
<1>5. CASE Stopped \/ UNCHANGED vars
  BY <1>5 DEF Stopped, vars
<1>6. QED
  BY <1>1, <1>2, <1>3, <1>4, <1>5 DEF Next

\* No failure of connect() and no close() leaves the port open, and an open port never raised a
\* modem line.
THEOREM PortsReleased == Spec => []PortsAreReleased
<1>1. PortInv => PortsAreReleased
  BY DEF PortInv
<1>2. QED
  BY InitPort, PortStep, <1>1, PTL DEF Spec

-----------------------------------------------------------------------------
(* Input *)

LEMMA Concat ==
  \A s, t \in Seq(Nat) :
    /\ s \o t \in Seq(Nat) /\ Len(s \o t) = Len(s) + Len(t)
    /\ \A i \in 1..Len(s) : (s \o t)[i] = s[i]
<1> SUFFICES ASSUME NEW s \in Seq(Nat), NEW t \in Seq(Nat)
             PROVE  /\ s \o t \in Seq(Nat) /\ Len(s \o t) = Len(s) + Len(t)
                    /\ \A i \in 1..Len(s) : (s \o t)[i] = s[i]
  OBVIOUS
<1>1. s \o t \in Seq(Nat)
  BY ConcatProperties, Zenon
<1>2. QED
  BY <1>1

LEMMA Reassociate ==
  ASSUME NEW s \in Seq(Nat), NEW t \in Seq(Nat), NEW u \in Seq(Nat)
  PROVE  (s \o t) \o u = s \o (t \o u)
OBVIOUS

LEMMA CutSequence ==
  ASSUME NEW s \in Seq(Nat), NEW k \in 0..Len(s)
  PROVE  /\ SubSeq(s, 1, k) \in Seq(Nat) /\ SubSeq(s, k + 1, Len(s)) \in Seq(Nat)
         /\ SubSeq(s, 1, k) \o SubSeq(s, k + 1, Len(s)) = s
<1>1. /\ Len(s) \in Nat /\ 1 \in 1..Len(s) + 1
      /\ k \in (1 - 1)..Len(s) /\ Len(s) \in k..Len(s)
  BY LenProperties
<1>2. SubSeq(s, 1, k) \in Seq(Nat) /\ SubSeq(s, k + 1, Len(s)) \in Seq(Nat)
  BY <1>1
<1>3. SubSeq(s, 1, k) \o SubSeq(s, k + 1, Len(s)) = SubSeq(s, 1, Len(s))
  BY <1>1, ConcatAdjacentSubSeq, Zenon
<1>4. SubSeq(s, 1, Len(s)) = s
  BY SubSeqFull, Zenon
<1>5. QED
  BY <1>2, <1>3, <1>4

LEMMA FlowTypes ==
  ASSUME InputInv
  PROVE  Flow \in Seq(Nat) /\ given \o incoming \in Seq(Nat)
BY Concat DEF InputInv, Flow

\* What Transport was given is a prefix of the flow.
LEMMA GivenIsPrefix ==
  ASSUME NEW g \in Seq(Nat), NEW s \in Seq(Nat), NEW t \in Seq(Nat), NEW n \in Nat,
         (g \o s) \o t = [i \in 1..n |-> i]
  PROVE  Len(g) <= n /\ \A i \in 1..Len(g) : g[i] = i
<1> DEFINE gs  == g \o s
           all == gs \o t
<1>1. gs \in Seq(Nat) /\ Len(gs) = Len(g) + Len(s) /\ \A i \in 1..Len(g) : gs[i] = g[i]
  BY Concat
<1>2. all = [i \in 1..n |-> i]
  OBVIOUS
<1> HIDE DEF gs
<1>3. Len(all) = Len(gs) + Len(t) /\ \A i \in 1..Len(gs) : all[i] = gs[i]
  BY <1>1, Concat
<1>4. Len(all) = n /\ \A i \in 1..n : all[i] = i
  BY <1>2
<1> HIDE DEF all
<1>5. Len(g) \in Nat /\ Len(s) \in Nat /\ Len(t) \in Nat
  BY LenProperties
<1>6. QED
  BY <1>1, <1>3, <1>4, <1>5

LEMMA InitInput == Init => InputInv
<1>1. <<>> \in Seq(Nat) /\ (<<>> \o <<>>) \o <<>> = <<>> /\ Len(<<>>) = 0
  OBVIOUS
<1>2. <<>> = [i \in 1..0 |-> i]
  OBVIOUS
<1>3. QED
  BY <1>1, <1>2 DEF Init, InputInv, Flow, Received

LEMMA RigSendsInput ==
  ASSUME InputInv, RigSends
  PROVE  InputInv'
<1>1. /\ Flow = Received /\ port = "open"
      /\ sent' = sent + 1 /\ unread' = Append(unread, sent + 1)
      /\ UNCHANGED <<incoming, given, port>>
  BY DEF RigSends, InputInv, PortUnchanged
<1>2. unread' \in Seq(Nat) /\ unread' = unread \o <<sent + 1>>
  <2>1. unread \in Seq(Nat) /\ sent + 1 \in Nat
    BY DEF InputInv
  <2>2. Append(unread, sent + 1) \in Seq(Nat)
    BY <2>1
  <2>3. Append(unread, sent + 1) = unread \o <<sent + 1>>
    BY <2>1
  <2>4. QED
    BY <1>1, <2>2, <2>3
<1>3. Flow' = Flow \o <<sent + 1>>
  <2>1. <<sent + 1>> \in Seq(Nat)
    BY DEF InputInv
  <2>2. (given \o incoming) \o (unread \o <<sent + 1>>) = Flow \o <<sent + 1>>
    BY <2>1, FlowTypes, Reassociate DEF InputInv, Flow
  <2>3. QED
    BY <1>1, <1>2, <2>2 DEF Flow
<1>4. Received \o <<sent + 1>> = Received'
  BY <1>1 DEF Received, InputInv
<1>5. QED
  BY <1>1, <1>2, <1>3, <1>4 DEF InputInv

LEMMA ReadSerialInput ==
  ASSUME InputInv, ReadSerial
  PROVE  InputInv'
<1>1. CASE UNCHANGED inputVars
  BY <1>1 DEF ReadSerial, PortUnchanged, inputVars, InputInv, Flow, Received
<1>2. ASSUME NEW k \in 0..Len(unread),
             incoming' = incoming \o SubSeq(unread, 1, k),
             unread' = SubSeq(unread, k + 1, Len(unread)), UNCHANGED <<sent, given, port>>
      PROVE  InputInv'
  <2> DEFINE head == SubSeq(unread, 1, k)
             rest == SubSeq(unread, k + 1, Len(unread))
  <2>1. head \in Seq(Nat) /\ rest \in Seq(Nat) /\ head \o rest = unread
    BY CutSequence DEF InputInv
  <2>2. given \o (incoming \o head) = (given \o incoming) \o head
    BY <2>1, Reassociate DEF InputInv
  <2>3. ((given \o incoming) \o head) \o rest = (given \o incoming) \o unread
    <3> DEFINE before == given \o incoming
    <3>1. before \in Seq(Nat)
      BY FlowTypes
    <3> HIDE DEF before, head, rest
    <3>2. (before \o head) \o rest = before \o (head \o rest)
      BY <2>1, <3>1, Reassociate
    <3>3. QED
      BY <2>1, <3>2 DEF before
  <2>4. Flow' = Flow
    BY <1>2, <2>2, <2>3 DEF Flow
  <2>5. incoming' \in Seq(Nat) /\ unread' \in Seq(Nat)
    BY <1>2, <2>1, Concat DEF InputInv
  <2>6. QED
    BY <1>2, <2>4, <2>5 DEF InputInv, Received
<1>3. QED
  BY <1>1, <1>2 DEF ReadSerial, PortUnchanged

LEMMA OfferReceivedInput ==
  ASSUME InputInv, port = "open", OfferReceived
  PROVE  InputInv'
<1>1. PICK k \in 0..Len(incoming) :
        /\ given' = given \o SubSeq(incoming, 1, k)
        /\ incoming' = SubSeq(incoming, k + 1, Len(incoming))
        /\ UNCHANGED <<sent, unread, port>>
  BY DEF OfferReceived, PortUnchanged
<1> DEFINE head == SubSeq(incoming, 1, k)
           rest == SubSeq(incoming, k + 1, Len(incoming))
<1>2. head \in Seq(Nat) /\ rest \in Seq(Nat) /\ head \o rest = incoming
  BY CutSequence DEF InputInv
<1>3. (given \o head) \o rest = given \o incoming
  <2>1. given \in Seq(Nat)
    BY DEF InputInv
  <2> HIDE DEF head, rest
  <2>2. (given \o head) \o rest = given \o (head \o rest)
    BY <1>2, <2>1, Reassociate
  <2>3. QED
    BY <1>2, <2>2
<1>4. Flow' = Flow
  BY <1>1, <1>3 DEF Flow
<1>5. given' \in Seq(Nat) /\ incoming' \in Seq(Nat)
  BY <1>1, <1>2, Concat DEF InputInv
<1>6. (given' \o incoming') \o unread = [i \in 1..sent |-> i]
  BY <1>1, <1>4 DEF InputInv, Flow, Received
<1>7. Len(given') <= sent /\ \A i \in 1..Len(given') : given'[i] = i
  BY <1>5, <1>6, GivenIsPrefix DEF InputInv
<1>8. QED
  BY <1>1, <1>4, <1>5, <1>7 DEF InputInv, Received

\* A pass that got past its read has an open port, and so has a connection being assembled.
OpenWhileServing == stage \in (Serving \ {"reading"}) \union {"assembling"} => port = "open"

LEMMA OpenStep == OpenWhileServing /\ [Next]_vars => OpenWhileServing'
<1> SUFFICES ASSUME OpenWhileServing, [Next]_vars PROVE OpenWhileServing'
  OBVIOUS
<1> USE DEF OpenWhileServing, Serving
<1>1. CASE Connect
  BY <1>1 DEF Connect, Discover, CreatePort, SetSignals, OpenPort, Assemble, Release
<1>2. CASE Service \/ RigSends \/ Close \/ Stopped \/ UNCHANGED vars
  BY <1>2 DEF Service, RigSends, Close, Stopped, PortUnchanged, vars
<1>3. CASE Pass
  BY <1>3 DEF Pass, ReadSerial, OfferReceived, AfterOffer, ProcessTransport, Drain, InvalidateSession,
     NothingToWrite, WriteFails, WritePart, WriteRest, CommitOutput, PortUnchanged
<1>4. QED
  BY <1>1, <1>2, <1>3 DEF Next

LEMMA InputStep == PortInv /\ InputInv /\ OpenWhileServing /\ [Next]_vars => InputInv'
<1> SUFFICES ASSUME PortInv, InputInv, OpenWhileServing, [Next]_vars PROVE InputInv'
  OBVIOUS
<1>1. ASSUME UNCHANGED inputVars, port' # "closed" => port # "closed" PROVE InputInv'
  BY <1>1 DEF InputInv, Flow, Received, inputVars
<1>2. CASE Connect
  <2>1. UNCHANGED inputVars /\ (port' # "closed" => port # "closed")
    BY <1>2 DEF Connect, Discover, CreatePort, SetSignals, OpenPort, Assemble, Release, StreamUnchanged,
       PortInv, OpenWhileServing
  <2>2. QED
    BY <1>1, <2>1
<1>3. CASE Service \/ Stopped \/ UNCHANGED vars
  BY <1>1, <1>3 DEF Service, Stopped, StreamUnchanged, PortUnchanged, vars
<1>4. CASE RigSends
  BY <1>4, RigSendsInput
<1>5. CASE ReadSerial
  BY <1>5, ReadSerialInput
<1>6. CASE OfferReceived
  BY <1>6, OfferReceivedInput DEF OpenWhileServing, Serving, OfferReceived
<1>7. CASE ProcessTransport \/ Drain \/ NothingToWrite \/ WriteFails \/ WritePart \/ WriteRest
  BY <1>1, <1>7 DEF ProcessTransport, Drain, NothingToWrite, WriteFails, WritePart, WriteRest,
     PortUnchanged, StreamUnchanged
<1>8. CASE Close
  <2>1. <<>> \in Seq(Nat)
    OBVIOUS
  <2>2. /\ unread' \in {unread, <<>>} /\ incoming' = <<>> /\ port' = "closed"
        /\ UNCHANGED <<sent, given>>
    BY <1>8 DEF Close
  <2>3. QED
    BY <2>1, <2>2 DEF InputInv
<1>9. QED
  BY <1>2, <1>3, <1>4, <1>5, <1>6, <1>7, <1>8 DEF Next, Pass

\* Every byte the rig sent reaches Transport once and in order, or is still on its way while the
\* port is open.
THEOREM NothingReceivedIsLost == Spec => []ReceivedInOrder
<1>1. Init => OpenWhileServing
  BY DEF Init, OpenWhileServing, Serving
<1>2. InputInv => ReceivedInOrder
  <2> SUFFICES ASSUME InputInv PROVE ReceivedInOrder
    OBVIOUS
  <2>1. given = SubSeq(Received, 1, Len(given))
    BY DEF InputInv, Received
  <2>2. QED
    BY <2>1 DEF InputInv, ReceivedInOrder, Flow
<1>3. QED
  BY InitPort, PortStep, InitInput, InputStep, <1>1, OpenStep, <1>2, PTL DEF Spec

-----------------------------------------------------------------------------
(* Output *)

LEMMA InitOutput == Init => OutputInv
<1>1. <<>> \in Seq(OutputBytes) /\ <<>> \in Seq(Outputs) /\ Len(OutputLength) \in Nat
  BY StreamAssumption
<1>2. QED
  BY <1>1 DEF Init, OutputInv

LEMMA LengthTypes == \A output \in Outputs : OutputLength[output] \in Nat /\ OutputLength[output] > 0
BY StreamAssumption DEF Outputs

\* What a write that took k bytes leaves: the bytes taken of the output so far are the last ones.
LEMMA TookTypes ==
  ASSUME OutputInv, Current # 0, NEW k \in Nat, Done + k <= OutputLength[Current], Took(k)
  PROVE  /\ Current \in Outputs /\ Done \in Nat /\ Done < OutputLength[Current]
         /\ accepted' \in Seq(OutputBytes) /\ Done + k <= Len(accepted')
         /\ \A i \in 1..(Done + k) : accepted'[Len(accepted') - (Done + k) + i] = <<Current, i>>
<1>1. /\ Current \in Outputs /\ Done \in Nat /\ Done <= Len(accepted)
      /\ \A i \in 1..Done : accepted[Len(accepted) - Done + i] = <<Current, i>>
      /\ Done < OutputLength[Current]
  <2>1. CASE pendingOutput = 0
    BY <2>1, LengthTypes DEF OutputInv, Current, Done
  <2>2. CASE pendingOutput # 0
    BY <2>2 DEF OutputInv, Current, Done
  <2>3. QED
    BY <2>1, <2>2
<1> DEFINE c == Current
           d == Done
           a == accepted
           b == [i \in 1..k |-> <<c, d + i>>]
<1>2. a \in Seq(OutputBytes) /\ accepted' = a \o b
  BY DEF OutputInv, Took
<1>3. c \in Outputs /\ d \in Nat /\ d <= Len(a)
      /\ (\A i \in 1..d : a[Len(a) - d + i] = <<c, i>>) /\ d < OutputLength[c]
  BY <1>1
<1> HIDE DEF a, c, d
<1>4. b \in Seq(OutputBytes) /\ Len(b) = k /\ \A i \in 1..k : b[i] = <<c, d + i>>
  <2>1. \A i \in 1..k : <<c, d + i>> \in OutputBytes
    BY <1>3 DEF OutputBytes
  <2>2. QED
    BY <2>1
<1> HIDE DEF b
<1>5. /\ a \o b \in Seq(OutputBytes) /\ Len(a \o b) = Len(a) + k
      /\ \A i \in 1..(Len(a) + k) : (a \o b)[i] = IF i <= Len(a) THEN a[i] ELSE b[i - Len(a)]
  BY <1>2, <1>4
<1>6. Len(a) \in Nat
  BY <1>2, LenProperties
<1>7. ASSUME NEW i \in 1..(d + k) PROVE (a \o b)[Len(a \o b) - (d + k) + i] = <<c, i>>
  <2> DEFINE j == (Len(a) - d) + i
  <2>1. Len(a \o b) - (d + k) + i = j /\ j \in 1..(Len(a) + k) /\ j - Len(a) = i - d
    BY <1>3, <1>5, <1>6
  <2>2. CASE i <= d
    <3>1. j <= Len(a) /\ i \in 1..d
      BY <2>2, <1>3, <1>6
    <3>2. a[Len(a) - d + i] = <<c, i>>
      BY <3>1, <1>3
    <3>3. a[j] = <<c, i>>
      BY <3>2
    <3> HIDE DEF j
    <3>4. QED
      BY <2>1, <3>1, <3>3, <1>5
  <2>3. CASE ~(i <= d)
    <3>1. i - d \in 1..k /\ ~(j <= Len(a)) /\ d + (i - d) = i
      BY <2>3, <1>3, <1>6
    <3>2. b[i - d] = <<c, i>>
      BY <3>1, <1>4
    <3> HIDE DEF j
    <3>3. (a \o b)[j] = b[i - d]
      BY <2>1, <3>1, <1>5
    <3>4. QED
      BY <2>1, <3>2, <3>3
  <2>4. QED
    BY <2>2, <2>3
<1>8. d + k <= Len(a \o b)
  BY <1>3, <1>5, <1>6
<1>9. QED
  BY <1>2, <1>3, <1>5, <1>7, <1>8 DEF c, d

LEMMA WriteFailsOutput ==
  ASSUME OutputInv, WriteFails
  PROVE  OutputInv'
<1>1. CASE pendingOutput = 0
  BY <1>1, LengthTypes DEF WriteFails, Current, Done, OutputInv, transport
<1>2. CASE pendingOutput # 0
  BY <1>2 DEF WriteFails, Current, Done, OutputInv, transport
<1>3. QED
  BY <1>1, <1>2

LEMMA WritePartOutput ==
  ASSUME OutputInv, WritePart
  PROVE  OutputInv'
<1>1. PICK k \in 0..(OutputLength[Current] - Done - 1) : Took(k) /\ offset' = Done + k
  BY DEF WritePart
<1>2. /\ pendingOutput' = Current /\ Current # 0
      /\ UNCHANGED <<committed, offered, produced>>
  BY DEF WritePart, transport
<1>3. Current \in Outputs /\ Done \in Nat /\ OutputLength[Current] \in Nat
  BY <1>2, LengthTypes DEF OutputInv, Current, Done
<1>4. /\ k \in Nat /\ Done + k \in Nat /\ Done + k < OutputLength[Current]
      /\ Done + k <= OutputLength[Current]
  BY <1>1, <1>3
<1>5. /\ accepted' \in Seq(OutputBytes) /\ Done + k <= Len(accepted')
      /\ \A i \in 1..(Done + k) : accepted'[Len(accepted') - (Done + k) + i] = <<Current, i>>
  <2>1. Current # 0 /\ Took(k) /\ k \in Nat /\ Done + k <= OutputLength[Current]
    BY <1>1, <1>2, <1>4
  <2>2. QED
    BY <2>1, TookTypes, Zenon
<1> DEFINE c == Current
           d == Done
<1>6. /\ accepted' \in Seq(OutputBytes) /\ c \in Outputs /\ d + k \in Nat
      /\ d + k < OutputLength[c] /\ d + k <= Len(accepted')
      /\ \A i \in 1..(d + k) : accepted'[Len(accepted') - (d + k) + i] = <<c, i>>
      /\ pendingOutput' = c /\ offset' = d + k
  BY <1>1, <1>2, <1>3, <1>4, <1>5, Zenon
<1>7. /\ committed' \in Seq(Outputs) /\ offered' \in Outputs \union {0}
      /\ produced' \in 0..Len(OutputLength)
  BY <1>2 DEF OutputInv
<1> HIDE DEF c, d
<1>8. QED
  BY <1>6, <1>7 DEF OutputInv

LEMMA WriteRestOutput ==
  ASSUME OutputInv, WriteRest
  PROVE  /\ OutputInv'
         /\ \A output \in Outputs :
              committed' = Append(committed, output) =>
                LastAccepted(OutputLength[output])' = Frame(output, OutputLength[output])
<1>1. /\ Current # 0 /\ Took(OutputLength[Current] - Done) /\ CommitOutput
      /\ pendingOutput' = 0 /\ offset' = 0
  BY DEF WriteRest
<1>2. Current \in Outputs /\ Done \in Nat /\ OutputLength[Current] \in Nat /\ Done <= OutputLength[Current]
  BY <1>1, LengthTypes DEF OutputInv, Current, Done
<1> DEFINE n == OutputLength[Current]
<1>3. n - Done \in Nat /\ Done + (n - Done) = n
  BY <1>2
<1>4. /\ accepted' \in Seq(OutputBytes) /\ n <= Len(accepted')
      /\ \A i \in 1..n : accepted'[Len(accepted') - n + i] = <<Current, i>>
  <2>1. Done + (n - Done) <= n
    BY <1>2, <1>3
  <2>2. QED
    BY <1>1, <1>3, <2>1, TookTypes
<1>5. /\ committed' \in Seq(Outputs)
      /\ offered' \in Outputs \union {0} /\ produced' = produced
      /\ committed' \in {committed, Append(committed, Current)}
  <2>1. committed \in Seq(Outputs) /\ offered \in Outputs \union {0}
    BY DEF OutputInv
  <2>2. Append(committed, Current) \in Seq(Outputs)
    BY <1>2, <2>1
  <2>3. /\ committed' \in {committed, Append(committed, Current)}
        /\ offered' \in {0, offered} /\ produced' = produced
    BY <1>1 DEF CommitOutput, transport
  <2>4. QED
    BY <2>1, <2>2, <2>3
<1>6. OutputInv'
  BY <1>1, <1>4, <1>5 DEF OutputInv
<1>7. ASSUME NEW output \in Outputs, committed' = Append(committed, output)
      PROVE  LastAccepted(OutputLength[output])' = Frame(output, OutputLength[output])
  <2>1. output = Current
    <3>1. committed \in Seq(Outputs)
      BY DEF OutputInv
    <3>2. Append(committed, output) # committed
      BY <3>1
    <3>3. Append(committed, output) = Append(committed, Current) => output = Current
      BY <1>2, <3>1
    <3>4. QED
      BY <1>5, <1>7, <3>2, <3>3
  <2> DEFINE a == accepted'
  <2>2. /\ a \in Seq(OutputBytes) /\ n <= Len(a) /\ n \in Nat /\ Len(a) \in Nat
        /\ \A i \in 1..n : a[Len(a) - n + i] = <<Current, i>>
    BY <1>2, <1>4, LenProperties
  <2> HIDE DEF a, n
  <2>3. SubSeq(a, Len(a) - n + 1, Len(a)) = [i \in 1..n |-> <<Current, i>>]
    <3>1. SubSeq(a, Len(a) - n + 1, Len(a))
            = [i \in 1..(Len(a) - (Len(a) - n + 1) + 1) |-> a[i + (Len(a) - n + 1) - 1]]
      BY <2>2
    <3>2. Len(a) - (Len(a) - n + 1) + 1 = n
      BY <2>2
    <3>3. \A i \in 1..n : i + (Len(a) - n + 1) - 1 = Len(a) - n + i
      BY <2>2
    <3>4. QED
      BY <2>2, <3>1, <3>2, <3>3
  <2>4. QED
    BY <2>1, <2>3 DEF LastAccepted, Frame, a, n
<1>8. QED
  BY <1>6, <1>7

LEMMA OutputStep ==
  ASSUME OutputInv, [Next]_vars
  PROVE  /\ OutputInv'
         /\ \A output \in Outputs :
              committed' = Append(committed, output) =>
                LastAccepted(OutputLength[output])' = Frame(output, OutputLength[output])
<1>1. CASE WriteRest
  BY <1>1, WriteRestOutput
<1>2. CASE ~WriteRest /\ UNCHANGED committed /\ OutputInv'
  <2>1. \A output : Append(committed, output) # committed
    BY DEF OutputInv
  <2>2. QED
    BY <1>2, <2>1
<1>3. CASE WriteFails
  BY <1>2, <1>3, WriteFailsOutput DEF WriteFails, WriteRest
<1>4. CASE WritePart
  BY <1>2, <1>4, WritePartOutput DEF WritePart, WriteRest
<1>5. ASSUME UNCHANGED <<accepted, committed>>,
             UNCHANGED <<pendingOutput, offset>> \/ (pendingOutput' = 0 /\ offset' = 0),
             offered' \in Outputs \union {0}, produced' \in 0..Len(OutputLength)
      PROVE  OutputInv'
  BY <1>5 DEF OutputInv
<1>6. CASE ~WriteRest /\ ~WriteFails /\ ~WritePart
  <2>1. /\ UNCHANGED <<accepted, committed>>
        /\ UNCHANGED <<pendingOutput, offset>> \/ (pendingOutput' = 0 /\ offset' = 0)
        /\ offered' \in Outputs \union {0} /\ produced' \in 0..Len(OutputLength)
    <3>1. CASE ProcessTransport
      <4>1. UNCHANGED <<accepted, committed, pendingOutput, offset>> /\ Process
        BY <3>1 DEF ProcessTransport, outputVars
      <4>2. \/ offered' = 0 /\ produced' = produced
            \/ produced < Len(OutputLength) /\ produced' = produced + 1 /\ offered' = produced + 1
            \/ UNCHANGED <<offered, produced>>
        BY <4>1 DEF Process, Produce, ResetSession, transport
      <4>3. offered' \in Outputs \union {0} /\ produced' \in 0..Len(OutputLength)
        <5>1. /\ Len(OutputLength) \in Nat /\ produced \in 0..Len(OutputLength)
              /\ offered \in Outputs \union {0}
          BY StreamAssumption DEF OutputInv
        <5>2. QED
          BY <4>2, <5>1 DEF Outputs
      <4>4. QED
        BY <4>1, <4>3
    <3>2. CASE Drain
      <4>1. /\ UNCHANGED <<accepted, committed, offered, produced>>
            /\ UNCHANGED <<pendingOutput, offset>> \/ (pendingOutput' = 0 /\ offset' = 0)
        BY <3>2 DEF Drain, InvalidateSession, outputVars, transport
      <4>2. QED
        BY <4>1 DEF OutputInv
    <3>3. CASE Close
      <4>1. /\ UNCHANGED <<accepted, committed, offered, produced>>
            /\ pendingOutput' = 0 /\ offset' = 0
        BY <3>3 DEF Close, transport
      <4>2. QED
        BY <4>1 DEF OutputInv
    <3>4. CASE ~ProcessTransport /\ ~Drain /\ ~Close
      <4>1. UNCHANGED <<outputVars, transport>>
        BY <1>6, <3>4 DEF Next, Connect, Discover, CreatePort, SetSignals, OpenPort, Assemble, Service,
           RigSends, Pass, ReadSerial, OfferReceived, NothingToWrite, Stopped, StreamUnchanged, vars
      <4>2. UNCHANGED <<accepted, committed, offered, produced, pendingOutput, offset>>
        BY <4>1 DEF outputVars, transport
      <4>3. QED
        BY <4>2 DEF OutputInv
    <3>5. QED
      BY <3>1, <3>2, <3>3, <3>4
  <2>2. QED
    BY <1>2, <1>5, <1>6, <2>1
<1>7. QED
  BY <1>1, <1>3, <1>4, <1>6

\* Transport commits an output only when the port has just taken the whole of it.
THEOREM CommittedOutputsAreWhole == Spec => OutputsAreWhole
<1>1. OutputInv /\ [Next]_vars => OutputInv'
  BY OutputStep
<1>2. OutputInv /\ [Next]_vars =>
        [\A output \in Outputs :
           committed' = Append(committed, output) =>
             LastAccepted(OutputLength[output])' = Frame(output, OutputLength[output])]_vars
  BY OutputStep
<1>3. QED
  BY InitOutput, <1>1, <1>2, PTL DEF Spec, OutputsAreWhole
=============================================================================
