SPECIFICATION FairSpec
INVARIANT InStep
PROPERTIES ImplementsDelivery FilesAreDelivered
CONSTANTS
  f1 = f1
  f2 = f2
  None = None
  LastChunk = 2
  MaxSessions = 3
  MaxFaults = 1
  Window = 1
  Files <- MCFiles
\* When the sessions are used up, everything may stop.
CHECK_DEADLOCK FALSE
