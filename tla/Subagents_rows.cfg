SPECIFICATION FairSpec
CONSTANTS
  MaxTurn = 3
  MaxLeave = 1
  MaxSub = 3
  c1 = c1
  c2 = c2
  Calls = {c1, c2}
INVARIANTS
  RowsAgree
  RunsWhileJobsRun
PROPERTIES
  FinishIsFinal
  GivenUpEnds
CHECK_DEADLOCK FALSE
