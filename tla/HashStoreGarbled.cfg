\* The log record of an insert, under a concurrent change of the same key.
SPECIFICATION Spec
CONSTANTS
  Thread = {t1, t2}
  Key <- OneKey
  Value = {v1}
  Item = {a1, a2}
  Size = 2
  NULL = NULL
  Garbage = Garbage
  MaxRequests = 2
PROPERTY LogRecordsWhatWasWritten
CHECK_DEADLOCK FALSE
