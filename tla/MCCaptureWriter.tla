---------------------------- MODULE MCCaptureWriter ----------------------------
(***************************************************************************)
(* Records for TLC: results for two ticks, a second result for tick 1, and *)
(* two communication records of tick 0, one with an explicit ordinal.      *)
(***************************************************************************)
EXTENDS CaptureWriter, TLC

CONSTANTS main, feeder, tick0, tick1, again1, numbered, unnumbered

MCKindOf ==
  [r \in Records |-> IF r \in {numbered, unnumbered} THEN "communication" ELSE "tick"]
MCTickOf == [r \in Records |-> IF r \in {tick1, again1} THEN 1 ELSE 0]
MCOrdinalOf == [r \in Records |-> IF r = numbered THEN 0 ELSE None]

OneFinalizes == [p \in Threads |-> IF p = main THEN {"add", "flush", "finalize"} ELSE {"add"}]
EveryoneFlushes == [p \in Threads |-> {"add", "flush"} \union {c \in {"finalize"} : p = main}]
AnyStatus == {None, "COMPLETE", "ABORTED", "IN_PROGRESS"}
NoStatus  == {None}
=============================================================================
