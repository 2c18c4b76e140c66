CONSTANTS
  c1 = c1
  c2 = c2
  t1 = t1
  t2 = t2
  t3 = t3
  None = None
  Callers <- MCCallers
  Tasks <- MCTasks
  w1 = w1
  w2 = w2
  Workers <- MCWorkers
  Business <- MCBusiness
  Size <- MCSize
  HeadUnits = 2
  Window = 1
  Junk = Junk
SPECIFICATION LoopFairSpec
INVARIANTS NoLostWakeup StreamsFramed OneAtATimeInOrder
PROPERTIES ImplementsTaskQueue QueuedTasksRun Answered
