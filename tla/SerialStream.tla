------------------------------ MODULE SerialStream ------------------------------
(***************************************************************************)
(* The serial port of a FixedIOProtocolConnection: how connect() opens it  *)
(* (src/hilrig/protocol/serial.py) and what service() and close() do with  *)
(* its bytes (src/hilrig/protocol/connection.py).  Input goes from the     *)
(* port through _incoming to Transport, which may take a part of it; an    *)
(* output of Transport goes to the port, which may also take a part, and   *)
(* is committed when all of it was taken.  Every call may raise.           *)
(*                                                                         *)
(* A byte from the rig is its number; a byte of an output is the number of *)
(* the output and its place in it.  HostConnection has what the drained    *)
(* events and messages mean.                                               *)
(***************************************************************************)
EXTENDS Naturals, Sequences

CONSTANTS
  MaxSent,       \* bound: bytes the rig sends
  OutputLength,  \* the lengths of the outputs Transport produces, in order
  MaxFaults      \* bound: session resets and refused commits

ASSUME StreamAssumption ==
  /\ MaxSent \in Nat /\ MaxFaults \in Nat
  /\ OutputLength \in Seq(Nat \ {0})

VARIABLES
  stage,          \* where connect() or the pass of service() is; "idle" between passes
  port,           \* "none", "made", "open" or "closed"
  signals,        \* the modem lines the port is set to raise
  sent,           \* bytes the rig has sent
  unread,         \* what the operating system holds of them
  incoming,       \* _incoming
  given,          \* the bytes Transport consumed
  turn,           \* parity of the loop that offers bytes: a turn without effect is a step
  offered,        \* the output Transport offers, 0 for none
  produced,       \* outputs Transport has made so far
  pendingOutput,  \* _pending_output, 0 for None
  offset,         \* _pending_output_offset
  accepted,       \* the output bytes the port took, in order
  committed,      \* the outputs Transport accepted the commit of
  resetUnread,    \* an unread SESSION_RESET event
  faults

inputVars  == <<sent, unread, incoming, given, turn>>
outputVars == <<pendingOutput, offset, accepted, committed>>
transport  == <<offered, produced, resetUnread, faults>>
vars == <<stage, port, signals, inputVars, outputVars, transport>>

Outputs == 1..Len(OutputLength)
Opening == {"discovering", "creating", "configuring", "opening", "assembling"}
Serving == {"reading", "offering", "processing", "draining", "submitting", "writing", "finishing"}

\* The first n bytes of an output.
Frame(output, n) == [i \in 1..n |-> <<output, i>>]

-----------------------------------------------------------------------------
(* connect() *)

StreamUnchanged == UNCHANGED <<inputVars, outputVars, transport>>

\* The device list is read: no exact match, or a match without a device, raises.
Discover ==
  /\ stage = "discovering"
  /\ stage' \in {"creating", "failed"}
  /\ UNCHANGED <<port, signals>> /\ StreamUnchanged

\* pySerial raises both lines unless it is told otherwise before open().
CreatePort ==
  /\ stage = "creating"
  /\ \/ stage' = "failed" /\ UNCHANGED <<port, signals>>
     \/ stage' = "configuring" /\ port' = "made" /\ signals' = {"dtr", "rts"}
  /\ StreamUnchanged

\* Mistake: the port is left to whoever catches the exception.
ReportOnly == stage' = "failed" /\ UNCHANGED <<port, signals>>

\* A failure releases the port, whether close() raises or not, and is reported.
Release == stage' = "failed" /\ port' = "closed" /\ UNCHANGED signals

SetSignals ==
  /\ stage = "configuring"
  /\ \/ stage' = "opening" /\ signals' = {} /\ UNCHANGED port
     \/ Release
  /\ StreamUnchanged

OpenPort ==
  /\ stage = "opening"
  /\ \/ stage' = "assembling" /\ port' = "open" /\ UNCHANGED signals
     \/ Release
  /\ StreamUnchanged

\* Transport, the result adapter and the connection are made, the link is reported.
Assemble ==
  /\ stage = "assembling"
  /\ \/ stage' = "idle" /\ UNCHANGED <<port, signals>>
     \/ Release
  /\ StreamUnchanged

-----------------------------------------------------------------------------
(* Input *)

PortUnchanged == UNCHANGED <<port, signals>>

RigSends ==
  /\ port = "open" /\ sent < MaxSent
  /\ sent' = sent + 1
  /\ unread' = Append(unread, sent + 1)
  /\ UNCHANGED <<stage, incoming, given, turn, outputVars, transport>> /\ PortUnchanged

Service ==
  /\ stage = "idle"
  /\ stage' = "reading"
  /\ PortUnchanged /\ StreamUnchanged

\* _read_serial: in_waiting and read() may raise, and do when the port is closed.
ReadSerial ==
  /\ stage = "reading"
  /\ \/ stage' = "idle" /\ UNCHANGED inputVars
     \/ /\ port = "open"
        /\ \E k \in 0..Len(unread) :
             /\ incoming' = incoming \o SubSeq(unread, 1, k)
             /\ unread' = SubSeq(unread, k + 1, Len(unread))
        /\ stage' = "offering"
        /\ UNCHANGED <<sent, given, turn>>
  /\ UNCHANGED <<outputVars, transport>> /\ PortUnchanged

ReceiveStatuses == {"OK", "NOT_READY", "CAPACITY_EXHAUSTED", "UNEXPECTED"}

\* External: Transport consumes k bytes of what it is offered; OK means progress.
ReceiveBytes(k, status) ==
  /\ k \in 0..Len(incoming)
  /\ status \in ReceiveStatuses
  /\ status = "OK" /\ incoming # <<>> => k > 0

\* Mistake: only a full buffer ends the loop.
AfterOfferPatiently(status) ==
  CASE status = "UNEXPECTED" -> "idle"
    [] status # "CAPACITY_EXHAUSTED" /\ incoming' # <<>> -> "offering"
    [] OTHER -> "processing"

AfterOffer(status) ==
  CASE status = "UNEXPECTED" -> "idle"
    [] status = "OK" /\ incoming' # <<>> -> "offering"
    [] OTHER -> "processing"

\* Mistake: the consumed bytes are deleted after the status was looked at.
OfferThenDelete ==
  /\ stage = "offering"
  /\ \E k \in 0..Len(incoming), status \in ReceiveStatuses :
       /\ ReceiveBytes(k, status)
       /\ given' = given \o SubSeq(incoming, 1, k)
       /\ incoming' = IF status = "OK" THEN SubSeq(incoming, k + 1, Len(incoming)) ELSE incoming
       /\ stage' = AfterOffer(status)
       /\ turn' = IF stage' = "offering" THEN 1 - turn ELSE 0
  /\ UNCHANGED <<sent, unread, outputVars, transport>> /\ PortUnchanged

\* One turn of the loop of _offer_received; an empty buffer is offered once.
OfferReceived ==
  /\ stage = "offering"
  /\ \E k \in 0..Len(incoming), status \in ReceiveStatuses :
       /\ ReceiveBytes(k, status)
       /\ given' = given \o SubSeq(incoming, 1, k)
       /\ incoming' = SubSeq(incoming, k + 1, Len(incoming))
       /\ stage' = AfterOffer(status)
       /\ turn' = IF stage' = "offering" THEN 1 - turn ELSE 0
  /\ UNCHANGED <<sent, unread, outputVars, transport>> /\ PortUnchanged

-----------------------------------------------------------------------------
(* Transport, drains and output *)

\* External: process() may make the next output, or reset the session: what was offered
\* is withdrawn, and the new session may have an output of its own.
Produce ==
  /\ offered = 0 /\ produced < Len(OutputLength)
  /\ produced' = produced + 1 /\ offered' = produced'
  /\ UNCHANGED <<resetUnread, faults>>

ResetSession ==
  /\ faults < MaxFaults
  /\ faults' = faults + 1
  /\ resetUnread' = TRUE
  /\ \/ offered' = 0 /\ UNCHANGED produced
     \/ produced < Len(OutputLength) /\ produced' = produced + 1 /\ offered' = produced'

Process == Produce \/ ResetSession \/ UNCHANGED transport

\* The two calls of _process_transport; the second only follows a submitted message.
ProcessTransport ==
  /\ \/ stage = "processing" /\ Process /\ stage' \in {"draining", "idle"}
     \/ stage = "submitting" /\ Process /\ stage' \in {"writing", "idle"}
  /\ UNCHANGED <<inputVars, outputVars>> /\ PortUnchanged

\* _invalidate_session discards what was being written; bytes received are kept.
InvalidateSession ==
  /\ resetUnread
  /\ resetUnread' = FALSE
  /\ pendingOutput' = 0 /\ offset' = 0
  /\ stage' = "idle"
  /\ UNCHANGED <<accepted, committed, offered, produced, faults>>

\* _drain, after either process(): another event or message may raise before the reset is read.
Drain ==
  /\ stage \in {"draining", "finishing"}
  /\ \/ InvalidateSession
     \/ stage' = "idle" /\ UNCHANGED <<outputVars, transport>>
     \/ /\ stage = "draining" /\ ~resetUnread
        /\ stage' = "submitting"
        /\ UNCHANGED <<outputVars, transport>>
  /\ UNCHANGED inputVars /\ PortUnchanged

\* The output to go on with: the one being written, or what peek_output gives.
Current == IF pendingOutput = 0 THEN offered ELSE pendingOutput
Done    == IF pendingOutput = 0 THEN 0 ELSE offset

NothingToWrite ==
  /\ stage = "writing" /\ Current = 0
  /\ stage' = "finishing"
  /\ PortUnchanged /\ StreamUnchanged

\* write() raises, or reports a count it cannot have taken: the place is kept.
WriteFails ==
  /\ stage = "writing" /\ Current # 0
  /\ pendingOutput' = Current /\ offset' = Done
  /\ stage' = "idle"
  /\ UNCHANGED <<inputVars, accepted, committed, transport>> /\ PortUnchanged

\* Mistake: the write starts again at the first byte.
TookFromTheStart(k) == accepted' = accepted \o Frame(Current, k)

Took(k) == accepted' = accepted \o [i \in 1..k |-> <<Current, Done + i>>]

WritePart ==
  /\ stage = "writing" /\ Current # 0
  /\ \E k \in 0..(OutputLength[Current] - Done - 1) :
       /\ Took(k)
       /\ offset' = Done + k
  /\ pendingOutput' = Current
  /\ stage' = "finishing"
  /\ UNCHANGED <<inputVars, committed, transport>> /\ PortUnchanged

\* commit_output: an output that was withdrawn meanwhile is answered NOT_READY.
CommitOutput ==
  \/ /\ offered = Current
     /\ committed' = Append(committed, Current) /\ offered' = 0
     /\ stage' = "finishing"
     /\ UNCHANGED <<produced, resetUnread, faults>>
  \/ /\ offered # Current
     /\ stage' = "finishing"
     /\ UNCHANGED <<committed, transport>>
  \/ /\ faults < MaxFaults
     /\ faults' = faults + 1
     /\ stage' = "idle"
     /\ UNCHANGED <<committed, offered, produced, resetUnread>>

WriteRest ==
  /\ stage = "writing" /\ Current # 0
  /\ Took(OutputLength[Current] - Done)
  /\ CommitOutput
  /\ pendingOutput' = 0 /\ offset' = 0
  /\ UNCHANGED inputVars /\ PortUnchanged

\* close(): the calls that may fail are suppressed but the last, Transport's own; without
\* it the connection does not count as closed, and close() may be called again.
Close ==
  /\ stage = "idle"
  /\ unread' \in {unread, <<>>}
  /\ port' = "closed"
  /\ incoming' = <<>>
  /\ pendingOutput' = 0 /\ offset' = 0
  /\ stage' \in {"closed", "idle"}
  /\ UNCHANGED <<signals, sent, given, turn, accepted, committed, transport>>

-----------------------------------------------------------------------------
Init ==
  /\ stage = "discovering" /\ port = "none" /\ signals = {}
  /\ sent = 0 /\ unread = <<>> /\ incoming = <<>> /\ given = <<>> /\ turn = 0
  /\ offered = 0 /\ produced = 0 /\ resetUnread = FALSE /\ faults = 0
  /\ pendingOutput = 0 /\ offset = 0 /\ accepted = <<>> /\ committed = <<>>

Connect == Discover \/ CreatePort \/ SetSignals \/ OpenPort \/ Assemble

Pass ==
  \/ ReadSerial \/ OfferReceived \/ ProcessTransport \/ Drain
  \/ NothingToWrite \/ WriteFails \/ WritePart \/ WriteRest

Stopped == stage \in {"failed", "closed"} /\ UNCHANGED vars

Next == Connect \/ Service \/ Pass \/ Close \/ RigSends \/ Stopped

\* A pass that began goes on; nothing obliges the caller, the rig or Transport.
Spec == Init /\ [][Next]_vars /\ WF_vars(Pass)

-----------------------------------------------------------------------------
(* Properties *)

Received == [i \in 1..sent |-> i]

\* While the port is open, every byte the rig sent is with Transport, in _incoming or with the
\* operating system: once, in order, whatever part of a read Transport took, whatever raised
\* and however often the session was reset.
ReceivedInOrder ==
  /\ port = "open" => given \o incoming \o unread = Received
  /\ given = SubSeq(Received, 1, Len(given))

\* The last n bytes the port took.
LastAccepted(n) == SubSeq(accepted, Len(accepted) - n + 1, Len(accepted))

\* A Transport output is committed only when the port has just taken all of its bytes, in order
\* and with none of another output in between, over any number of passes that wrote a part,
\* raised, or were cut short by a reset of the session.
OutputsAreWhole ==
  [][\A output \in Outputs :
       committed' = Append(committed, output) =>
         LastAccepted(OutputLength[output])' = Frame(output, OutputLength[output])]_vars

\* No failure of connect() leaves the port open, nor does close(), and an open port never
\* raised DTR or RTS.
PortsAreReleased ==
  /\ stage \in {"failed", "closed"} => port # "open"
  /\ port = "open" => signals = {}

\* Every pass of service() returns or raises.
PassesReturn == stage \in Serving ~> stage = "idle"
=============================================================================
