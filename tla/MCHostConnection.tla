--------------------------- MODULE MCHostConnection ---------------------------
(***************************************************************************)
(* Two upload attempts for TLC: `first' starts by itself and `second'      *)
(* waits for start().  The peer may answer any request the host can make,  *)
(* in any order and with any outcome, and send results past the last one.  *)
(***************************************************************************)
EXTENDS HostConnection, TLC

CONSTANTS first, second

MCAttempts    == {first, second}
MCSparseTicks == (first :> <<0>>) @@ (second :> <<>>)
MCStartMode   == (first :> "IMMEDIATE") @@ (second :> "HOST_COMMAND")
MCExpectedTickCount == (first :> 2) @@ (second :> 1)

AnswersTo(a) ==
  {Response(k, a, None, o) : k \in {"configuration", "complete_test", "start", "abort"},
                             o \in Outcomes}
  \union {Response("tick", a, t, o) :
            t \in {SparseTicks[a][i] : i \in 1..Len(SparseTicks[a])}, o \in Outcomes}
MCPeerMessages ==
  UNION {AnswersTo(a) : a \in Attempts}
  \union {Response("reset", None, None, o) : o \in Outcomes}
  \union {TestResult(a, t) : a \in Attempts, t \in 0..2}
  \union {ApplicationError(a) : a \in Tests}
  \union {SystemInfo(c) : c \in BOOLEAN}
  \union {Unreadable("undecodable"), Unreadable("unexpected")}
=============================================================================
