SPECIFICATION Spec
CONSTANTS
  Threads = {"t1", "t2"}
  Keys = {1, 11}
  Size = 2
  Values = {"a"}
  MaxKills = 1
  MaxRequests = 3
  MaxLives = 3
 
 
INVARIANT HandlerWaitsForNobody
CHECK_DEADLOCK FALSE
