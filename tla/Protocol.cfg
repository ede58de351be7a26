SPECIFICATION Spec
CONSTANTS
  Byte = {"a", "b", "c", "d"}
  Values <- MCValues
  Key = 7
  Room = 2
  MaxCalls = 3
INVARIANT Framing
INVARIANT WholeItems
INVARIANT ReadsWhole
INVARIANT ChangesTold
PROPERTY CallsReturn
CHECK_DEADLOCK FALSE
