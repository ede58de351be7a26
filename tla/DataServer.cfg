\* Killed at any step, then at any step again, with clients that go on after
\* EXIT.
SPECIFICATION Spec
CONSTANTS
  Thread = {t1, t2}
  Key <- TwoKeys
  Value = {v1, v2}
  NULL = NULL
  NoFile = NoFile
  Garbage = Garbage
  Room = 1
  CrashPoints <- AnywhereTwice
  MaxRequests = 2
  MaxStarts = 4
INVARIANT OnlyExposedAreLost
INVARIANT NewBackupReady
INVARIANT ReplayIdempotent
INVARIANT OrderlyExitLeavesBackup
PROPERTY ExitEnds
CHECK_DEADLOCK FALSE
