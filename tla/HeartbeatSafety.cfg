SPECIFICATION Spec
CONSTANTS
  FirstPort = 3
  LastPort = 5
  Crashes = {"seen", "unseen", "unborn", "ports", "terminal", "eintr"}
  MaxCrashes = 2
INVARIANT Lockstep
INVARIANT NoMutualWait
INVARIANT OneListener
INVARIANT PortPassedOn
PROPERTY WakesOnlyTheDead
PROPERTY Relaunches
CHECK_DEADLOCK FALSE
