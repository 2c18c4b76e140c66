\* Pool: two workers, two callers, three tasks.  Reverse proxy: two clients of two
\* ports, up to four links, one exit, failed connection or delayed command.  A pool
\* whose tasks are done or that was stopped does nothing.
CONSTANTS
  w1 = w1
  w2 = w2
  p1 = p1
  p2 = p2
  t1 = t1
  t2 = t2
  t3 = t3
  c1 = c1
  c2 = c2
  None = None
  Workers <- MCWorkers
  Producers <- MCProducers
  Tasks <- MCTasks
  Client <- MCClient
  Target <- MCTarget
  Link <- MCLink
  MaxMishaps = 1
  Nil = Nil
SPECIFICATION ServicesSpec
CHECK_DEADLOCK FALSE
INVARIANT OwnTarget
PROPERTIES ImplementsTaskQueue QueuedTasksRun StopReturnsWithoutRace ReverseRecovers
