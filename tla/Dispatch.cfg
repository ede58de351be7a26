SPECIFICATION Spec
CONSTANTS
  c1 = c1
  c2 = c2
  c3 = c3
  Conns <- MCConns
  Fds <- MCFds
  Nobody = Nobody
INVARIANT DescriptorsClosed
PROPERTY EveryoneAnswered
CHECK_DEADLOCK FALSE
