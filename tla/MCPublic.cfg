\* Two slots that two dead processes fill; two threads of two lines each, a file
\* that is rotated when it holds more than one line; a queue of three places;
\* two sessions, a change, results of two rows; pieces of three of up to seven
\* bytes.  Programs and copies end.
CONSTANTS
  a = a
  b = b
  p1 = p1
  p2 = p2
  p3 = p3
  Programs <- MCPrograms
  Pids <- MCPids
  Slots <- MCSlots
  None = None
  MaxFaults = 2
  t1 = t1
  t2 = t2
  NoOne = NoOne
  EXIT = EXIT
  Threads <- MCThreads
  LinesEach = 2
  LastSecond = 1
  MaxSize = 2
  Zero = Zero
  Values <- MCValues
  MaxLength = 3
  c1 = c1
  s1 = s1
  s2 = s2
  Connections <- MCConnections
  Statements <- MCStatements
  LastSession = 2
  LastChange = 1
  MaxRows = 2
  LOBMAXBUFLEN = 3
  MaxBytes = 7
SPECIFICATION PublicSpec
CHECK_DEADLOCK FALSE
INVARIANTS SlotsOwned OnlyLateAreKilled LinesKept HandlesAgree CopyIsExact
PROPERTIES Reclaimed WritesReturn ImplementsQueue
