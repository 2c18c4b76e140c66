----------------------------- MODULE ThreadPool -----------------------------
(***************************************************************************)
(* The worker pool of reactor/ThreadPool.cpp, one action per step between  *)
(* two points at which another thread can run: the worker loop of the      *)
(* constructor, addtask() and stop().                                      *)
(*                                                                         *)
(* stop_ is an atomic that stop() writes without holding mutex_, so the    *)
(* evaluation of the wait predicate (CheckEmpty) and the moment the worker *)
(* releases mutex_ and sleeps (Sleep) are two steps.  std::condition_      *)
(* variable lets a waiter wake without a notification (SpuriousWakeup).    *)
(***************************************************************************)
EXTENDS Naturals, Sequences, FiniteSets, Functions

CONSTANTS Workers,    \* the threads of threads_
          Producers,  \* the threads that call addtask()
          Tasks,      \* the tasks they add, each added once
          None        \* no worker, no task

ASSUME PoolAssumption == /\ IsFiniteSet(Workers)
                         /\ IsFiniteSet(Producers)
                         /\ Workers \cap Producers = {}
                         /\ None \notin Workers \cup Tasks

VARIABLES taskqueue_,    \* the queue of tasks not yet popped
          mutex_,        \* the worker that holds mutex_, or None
          stop_,
          worker,        \* where each worker is in its loop
          task,          \* the local `task` of each worker
          producer,      \* where each caller of addtask() is
          stopper,       \* where the caller of stop() is
          finished,      \* the tasks whose call returned (history)
          queuedAtStop   \* the tasks in the queue when stop_ was set (history)

queueVars == <<taskqueue_, task, finished>>
stopVars  == <<stop_, stopper, queuedAtStop>>
vars      == <<queueVars, stopVars, mutex_, worker, producer>>

-----------------------------------------------------------------------------
(* Control states, with the lines of ThreadPool.cpp at which the thread    *)
(* stands.  A worker in "check" or "block" holds mutex_.                   *)

WorkerStates == {"test",     \* 13: while (stop_==false)
                 "lock",     \* 18, 21: acquiring mutex_
                 "check",    \* 23, 27: the predicate and the test after it
                 "block",    \* 21: the predicate was false, about to sleep
                 "asleep",   \* 21: in the wait set of condition_
                 "run",      \* 35: task()
                 "exited"}

\* 61: "join" ; 63: "stopped".
StopperStates == {"idle", "notify", "join", "stopped"}

Running   == {w \in Workers : worker[w] = "run"}
Asleep    == {w \in Workers : worker[w] = "asleep"}
Submitted == Range(taskqueue_) \cup {task[w] : w \in Running} \cup finished

Init == /\ taskqueue_ = <<>>
        /\ mutex_ = None
        /\ stop_ = FALSE
        /\ worker = [w \in Workers |-> "test"]
        /\ task = [w \in Workers |-> None]
        /\ producer = [p \in Producers |-> "idle"]
        /\ stopper = "idle"
        /\ finished = {}
        /\ queuedAtStop = {}

-----------------------------------------------------------------------------
(* The worker loop, lines 13-36.                                           *)

TestStop(w) ==
  /\ worker[w] = "test"
  /\ worker' = [worker EXCEPT ![w] = IF stop_ THEN "exited" ELSE "lock"]
  /\ UNCHANGED <<queueVars, stopVars, mutex_, producer>>

Lock(w) ==
  /\ worker[w] = "lock"
  /\ mutex_ = None
  /\ mutex_' = w
  /\ worker' = [worker EXCEPT ![w] = "check"]
  /\ UNCHANGED <<queueVars, stopVars, producer>>

\* Mutant: the predicate at 23 looks at the queue only.
CheckEmptyIgnoringStop(w) ==
  /\ worker[w] = "check"
  /\ taskqueue_ = <<>>
  /\ worker' = [worker EXCEPT ![w] = "block"]
  /\ UNCHANGED <<queueVars, stopVars, mutex_, producer>>

\* The predicate is false: nothing queued and stop_ not seen.
CheckEmpty(w) ==
  /\ worker[w] = "check"
  /\ taskqueue_ = <<>>
  /\ ~stop_
  /\ worker' = [worker EXCEPT ![w] = "block"]
  /\ UNCHANGED <<queueVars, stopVars, mutex_, producer>>

\* condition_.wait() releases the mutex and joins the wait set in one step.
Sleep(w) ==
  /\ worker[w] = "block"
  /\ mutex_' = None
  /\ worker' = [worker EXCEPT ![w] = "asleep"]
  /\ UNCHANGED <<queueVars, stopVars, producer>>

SpuriousWakeup(w) ==
  /\ worker[w] = "asleep"
  /\ worker' = [worker EXCEPT ![w] = "lock"]
  /\ UNCHANGED <<queueVars, stopVars, mutex_, producer>>

\* Line 27: stopped and nothing left; the return unlocks.
CheckStopped(w) ==
  /\ worker[w] = "check"
  /\ taskqueue_ = <<>>
  /\ stop_
  /\ mutex_' = None
  /\ worker' = [worker EXCEPT ![w] = "exited"]
  /\ UNCHANGED <<queueVars, stopVars, producer>>

\* Mutant: a stack instead of the queue of ThreadPool.h:20.
PopNewest(w) ==
  LET n == Len(taskqueue_) IN
  /\ worker[w] = "check"
  /\ n > 0
  /\ task' = [task EXCEPT ![w] = taskqueue_[n]]
  /\ taskqueue_' = SubSeq(taskqueue_, 1, n - 1)
  /\ mutex_' = None
  /\ worker' = [worker EXCEPT ![w] = "run"]
  /\ UNCHANGED <<stopVars, producer, finished>>

Pop(w) ==
  /\ worker[w] = "check"
  /\ taskqueue_ # <<>>
  /\ task' = [task EXCEPT ![w] = Head(taskqueue_)]
  /\ taskqueue_' = Tail(taskqueue_)
  /\ mutex_' = None
  /\ worker' = [worker EXCEPT ![w] = "run"]
  /\ UNCHANGED <<stopVars, producer, finished>>

RunTask(w) ==
  /\ worker[w] = "run"
  /\ finished' = finished \cup {task[w]}
  /\ task' = [task EXCEPT ![w] = None]
  /\ worker' = [worker EXCEPT ![w] = "test"]
  /\ UNCHANGED <<taskqueue_, stopVars, mutex_, producer>>

-----------------------------------------------------------------------------
(* addtask(), lines 41-49.  It never looks at stop_.                       *)

\* Mutant: line 48 is missing.
PushSilently(p, t) ==
  /\ producer[p] = "idle"
  /\ mutex_ = None
  /\ t \notin Submitted
  /\ taskqueue_' = Append(taskqueue_, t)
  /\ UNCHANGED <<stopVars, mutex_, worker, task, finished, producer>>

\* The push, under mutex_: no other step can fall between 44 and 46 that
\* reads the queue.
Push(p, t) ==
  /\ producer[p] = "idle"
  /\ mutex_ = None
  /\ t \notin Submitted
  /\ taskqueue_' = Append(taskqueue_, t)
  /\ producer' = [producer EXCEPT ![p] = "notify"]
  /\ UNCHANGED <<stopVars, mutex_, worker, task, finished>>

\* notify_one(), after the unlock: wakes one sleeper, or nobody.
NotifyOne(p) ==
  /\ producer[p] = "notify"
  /\ producer' = [producer EXCEPT ![p] = "idle"]
  /\ \/ \E w \in Asleep : worker' = [worker EXCEPT ![w] = "lock"]
     \/ Asleep = {} /\ UNCHANGED worker
  /\ UNCHANGED <<queueVars, stopVars, mutex_>>

-----------------------------------------------------------------------------
(* stop(), lines 52-63.  A second call returns at line 54 and changes      *)
(* nothing: the destructor's call after an explicit stop() is a stutter.   *)

SetStop ==
  /\ stopper = "idle"
  /\ ~stop_
  /\ stop_' = TRUE
  /\ queuedAtStop' = Range(taskqueue_)
  /\ stopper' = "notify"
  /\ UNCHANGED <<queueVars, mutex_, worker, producer>>

NotifyAll ==
  /\ stopper = "notify"
  /\ worker' = [w \in Workers |-> IF w \in Asleep THEN "lock" ELSE worker[w]]
  /\ stopper' = "join"
  /\ UNCHANGED <<queueVars, stop_, queuedAtStop, mutex_, producer>>

JoinAll ==
  /\ stopper = "join"
  /\ \A w \in Workers : worker[w] = "exited"
  /\ stopper' = "stopped"
  /\ UNCHANGED <<queueVars, stop_, queuedAtStop, mutex_, worker, producer>>

-----------------------------------------------------------------------------

WorkerStep(w) == \/ TestStop(w) \/ Lock(w) \/ CheckEmpty(w) \/ Sleep(w)
                 \/ CheckStopped(w) \/ Pop(w) \/ RunTask(w)

StopperStep == NotifyAll \/ JoinAll

Next == \/ \E w \in Workers : WorkerStep(w) \/ SpuriousWakeup(w)
        \/ \E p \in Producers : NotifyOne(p) \/ \E t \in Tasks : Push(p, t)
        \/ SetStop
        \/ StopperStep

Spec == Init /\ [][Next]_vars

(* Every thread that can take a step is scheduled; a task that was started *)
(* returns.  Nobody has to add a task, call stop() or wake spuriously.     *)
Fairness == /\ \A w \in Workers : WF_vars(WorkerStep(w))
            /\ \A p \in Producers : WF_vars(NotifyOne(p))
            /\ WF_vars(StopperStep)

FairSpec == Spec /\ Fairness

-----------------------------------------------------------------------------
(* Properties                                                              *)

(* Types; a worker's local task is set exactly while it runs one, and      *)
(* mutex_ is held exactly by the worker between its lock and its unlock.   *)
TypeOK ==
  /\ taskqueue_ \in Seq(Tasks)
  /\ mutex_ \in Workers \cup {None}
  /\ stop_ \in BOOLEAN
  /\ worker \in [Workers -> WorkerStates]
  /\ task \in [Workers -> Tasks \cup {None}]
  /\ \A w \in Workers : task[w] = None <=> worker[w] # "run"
  /\ producer \in [Producers -> {"idle", "notify"}]
  /\ stopper \in StopperStates
  /\ finished \subseteq Tasks
  /\ queuedAtStop \subseteq Tasks

(* Two threads never hold mutex_ together (18, 44): the front()/pop() pair *)
(* at 30-31 is one step for everybody else.                                *)
MutexHeld ==
  \A w \in Workers : mutex_ = w <=> worker[w] \in {"check", "block"}

(* front() and pop() at 30-31 hand a task to one worker: no task is queued *)
(* twice, held by two workers, or queued or run again once it was taken.   *)
NoTaskDuplicated ==
  /\ IsInjective(taskqueue_)
  /\ \A v, w \in Running : task[v] = task[w] => v = w
  /\ \A w \in Running : task[w] \notin Range(taskqueue_) \cup finished
  /\ finished \cap Range(taskqueue_) = {}

(* A worker blocks (21) only with nothing queued.                          *)
BlocksOnEmpty ==
  \A w \in Workers : worker[w] = "block" => taskqueue_ = <<>>

(* The threads that owe the queue a look: a caller that has pushed and not *)
(* yet notified (48), and a worker on its way to the predicate.            *)
Lookers == {p \in Producers : producer[p] = "notify"}
           \cup {w \in Workers : worker[w] \in {"test", "lock", "check"}}

(* No lost wakeup in normal operation: while a worker sleeps, each queued  *)
(* task has a thread of its own that will look at the queue.  notify_one() *)
(* after the unlock (48) and the predicate (23) are enough for it, however *)
(* pushes, pops, notifications and spurious wakeups interleave.            *)
WakeupsSuffice ==
  ~stop_ /\ Asleep # {} => Len(taskqueue_) <= Cardinality(Lookers)

(* What line 26 says: a pool that is being stopped runs the tasks that are *)
(* still in the queue before its workers leave.                            *)
StopEmptiesQueue == stopper = "stopped" => queuedAtStop \subseteq finished

(* What the code does instead: line 13 looks at stop_ first, so once it is *)
(* set each worker takes at most one more task, and of those that waited   *)
(* at most one for each worker still runs.                                 *)
StopBoundsWork ==
  stop_ => Cardinality(queuedAtStop \ Range(taskqueue_)) <= Cardinality(Workers)

(* The pool keeps the promise of TaskQueue, with one server per worker.    *)
Abstract == INSTANCE TaskQueue WITH
              waiting <- taskqueue_,
              running <- {task[w] : w \in Running},
              Limit   <- Cardinality(Workers)

ImplementsTaskQueue == Abstract!TQSpec

(* A task that was added runs, unless the pool is stopped first: in the    *)
(* end there is none that was added and has not returned.                  *)
QueuedTasksRun == <>[](stop_ \/ finished = Submitted)

(* stop() returns when its notify_all() found no worker between the        *)
(* predicate and the wait set: that gap is the only one that can hang it.  *)
StopReturnsWithoutRace ==
  (stopper = "join" /\ \A w \in Workers : worker[w] \notin {"block", "asleep"})
     ~> stopper = "stopped"

=============================================================================
