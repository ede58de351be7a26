SPECIFICATION Spec
CONSTANTS
  Entries <- MCEntries
  Records <- MCRecords
  BackupBuf = 10
  LogBuf = 9
  MaxItems = 4
  MaxDamaged = 3
INVARIANT RecoversReached
INVARIANT InStep
INVARIANT Returns
INVARIANT CutCostsOneKey
CHECK_DEADLOCK FALSE
