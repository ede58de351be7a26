SPECIFICATION CleanUpSpec
CONSTANTS
  Items = 3
  InLog <- MCInLog
INVARIANT LeavesEverything
PROPERTY CleanUpEnds
CHECK_DEADLOCK FALSE
