----------------------------- MODULE MCRigSession -----------------------------
(* One self-starting attempt, with one sparse tick and two result ticks, and  *)
(* one that waits for start(), for the runs of RigSession.                    *)
EXTENDS RigSession, TLC

CONSTANTS first, second

MCSparseTicks == [a \in Attempts |-> IF a = first THEN <<0>> ELSE <<>>]
MCStartMode   == [a \in Attempts |-> IF a = first THEN "IMMEDIATE" ELSE "HOST_COMMAND"]
MCExpectedTickCount == [a \in Attempts |-> IF a = first THEN 2 ELSE 1]

Nothing   == {}
AnyFault  == {"serial", "failure", "reset", "timeout", "storage", "silence"}
JustReset == {"reset"}
Controls  == {"start", "abort", "reset"}
JustStart == {"start"}
JustAbort == {"abort"}
HastyAbort == {"abort", "early_abort"}
=============================================================================
