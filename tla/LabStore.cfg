SPECIFICATION Spec
CONSTANTS
  Clients = {"c1", "c2"}
  Keys = {0, 2}
  Values = {"a"}
  Garbage = "garbage"
  None = None
  Size = 2
  MaxFds = 2
  MaxCalls = 4
PROPERTY ImplementsKVStore
PROPERTY ServedReturns
CHECK_DEADLOCK FALSE
