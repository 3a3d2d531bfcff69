SPECIFICATION Spec
CONSTANTS
  None = None
  Problem = Problem
  ExpectedTickCount = 3
  FinalStatuses = {"complete", "incomplete", "session_lost"}
  Rows <- MCRows
  AssertionSets <- MCAssertionSets
  NanosecondsPerSecond = 12
INVARIANTS
  VerdictsAreProven
  CountsAreTrue
  ResultsStand
  ReportIsSound
\* an evaluation ends
CHECK_DEADLOCK FALSE
