SPECIFICATION Spec
CONSTANTS
  FirstPort = 3
  LastPort = 5
  Crashes = {"unseen"}
  MaxCrashes = 1
PROPERTY EndsOnlyWhenTold
