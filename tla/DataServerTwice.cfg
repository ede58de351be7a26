SPECIFICATION Spec

CONSTANTS
  Thread = {t1, t2}
  Key <- TwoKeys
  Value = {v1, v2}
  NULL = NULL
  NoFile = NoFile
  Garbage = Garbage
  CrashPoints <- ServingTwice
  Room = 2
  MaxRequests = 2
  MaxStarts = 3

INVARIANT
  AnsweredSurviveIntact

CHECK_DEADLOCK FALSE
SYMMETRY Symmetry
