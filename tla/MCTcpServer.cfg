SPECIFICATION FairSpec
INVARIANT MapsSafe
PROPERTY HangUpFrees
CONSTANTS
  a = a
  b = b
  f1 = f1
  w1 = w1
  None = None
  Null = Null
  MaxRequests = 1
  Conns <- MCConns
  Fds <- MCFds
  Workers <- MCWorkers
\* The process may fail, and clients may stay away.
CHECK_DEADLOCK FALSE
