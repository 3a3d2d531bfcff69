----------------------------- MODULE MCCaptureStore -----------------------------
(***************************************************************************)
(* One calling thread, and records for TLC: results for two ticks, a       *)
(* second result for tick 1, and a communication record of tick 0.         *)
(***************************************************************************)
EXTENDS CaptureStore, TLC

CONSTANTS main, tick0, tick1, again1, unnumbered

MCKindOf == [r \in Records |-> IF r = unnumbered THEN "communication" ELSE "tick"]
MCTickOf == [r \in Records |-> IF r \in {tick1, again1} THEN 1 ELSE 0]
MCOrdinalOf == [r \in Records |-> None]
MCCallsOf == [p \in Threads |-> {"add", "flush", "finalize"}]
AnyStatus == {None, "COMPLETE", "ABORTED", "IN_PROGRESS"}
=============================================================================
