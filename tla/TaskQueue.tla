------------------------------ MODULE TaskQueue ------------------------------
(***************************************************************************)
(* What the reactor's two task queues promise: the worker queue of         *)
(* reactor/ThreadPool.cpp and the wakeup queue of reactor/EventLoop.cpp.   *)
(* A submitted task waits its turn, is started in submission order, runs   *)
(* once, and no more than Limit tasks run at a time.  Nothing is said of   *)
(* mutexes, condition variables or the eventfd: they are how the modules   *)
(* that implement this specification keep the promise.                     *)
(***************************************************************************)
EXTENDS Naturals, Sequences, FiniteSets, Functions

CONSTANTS Tasks,     \* the tasks submitted, each a distinct std::function
          Limit      \* how many tasks may run at the same time

VARIABLES waiting,   \* submitted and not started, oldest first
          running,   \* started and not finished
          finished   \* the tasks whose call returned

tqVars == <<waiting, running, finished>>

TQInit == /\ waiting = <<>>
          /\ running = {}
          /\ finished = {}

\* A task is submitted once, behind every task still waiting.
Submit(t) == /\ t \notin Range(waiting) \cup running \cup finished
             /\ waiting' = Append(waiting, t)
             /\ UNCHANGED <<running, finished>>

\* The oldest waiting task starts, and it has not run before.
Start == /\ waiting # <<>>
         /\ Cardinality(running) < Limit
         /\ Head(waiting) \notin running \cup finished
         /\ running' = running \cup {Head(waiting)}
         /\ waiting' = Tail(waiting)
         /\ UNCHANGED finished

Finish(t) == /\ t \in running
             /\ running' = running \ {t}
             /\ finished' = finished \cup {t}
             /\ UNCHANGED waiting

TQNext == \/ \E t \in Tasks : Submit(t) \/ Finish(t)
          \/ Start

TQSpec == TQInit /\ [][TQNext]_tqVars

=============================================================================
