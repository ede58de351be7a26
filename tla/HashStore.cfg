\* Two threads, two keys in one bucket: every invariant, linearizability and
\* progress.
SPECIFICATION Spec
CONSTANTS
  Thread = {t1, t2}
  Key <- TwoKeys
  Value = {v1}
  Item = {a1, a2, a3}
  Size = 2
  NULL = NULL
  Garbage = Garbage
  MaxRequests = 3
INVARIANT ChainsWellFormed
INVARIANT NoDanglingItem
INVARIANT NoSharedItem
INVARIANT OnlyFailuresLeak
INVARIANT LogFollowsTable
INVARIANT IInv
PROPERTY ImplementsKVStore
PROPERTY EveryRequestAnswered
CHECK_DEADLOCK FALSE
