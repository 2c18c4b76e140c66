------------------------------ MODULE EventLoop ------------------------------
(***************************************************************************)
(* One event loop of reactor/EventLoop.cpp seen from its task queue: the   *)
(* loop of run(), the eventfd that wakes it, queueinloop() called by other *)
(* threads, handlewakeup(), the timer that shares the loop, and stop().    *)
(* The connections the loop serves are in module TcpServer.                *)
(*                                                                         *)
(* epoll_wait() reports the eventfd while its counter is not zero: both it *)
(* and the timerfd are level-triggered (EventLoop.cpp:21-25 never calls    *)
(* useet()).  The counter's value is read and dropped, so the model keeps  *)
(* whether it is zero.                                                     *)
(***************************************************************************)
EXTENDS Naturals, Sequences, FiniteSets, Functions

CONSTANTS Callers,   \* the threads that call queueinloop()
          Tasks,     \* the tasks they queue, each queued once
          None       \* no task

ASSUME LoopAssumption == None \notin Tasks

VARIABLES taskqueue_,
          mutex_,      \* held by handlewakeup(); a push holds it for one step
          wakeupfd_,   \* the eventfd's counter is not zero
          timerfd_,    \* the timer has expired and was not re-armed
          stop_,
          loop,        \* where the loop's thread is
          channels,    \* the events of this turn not yet handled
          fn,          \* the task handlewakeup() is running
          finished,    \* the tasks whose call returned (history)
          caller,      \* where each caller of queueinloop() is
          stopper      \* where the caller of stop() is

queueVars  == <<taskqueue_, fn, finished>>
threadVars == <<caller, stopper>>
vars == <<queueVars, threadVars, mutex_, wakeupfd_, timerfd_, stop_, loop, channels>>

Events == {"wakeup", "timer"}

LoopStates == {"test",      \* 37: while (stop_==false)
               "poll",      \* 39: epoll_wait()
               "dispatch",  \* 48: the channels of this turn
               "lock",      \* 113: the eventfd is read, mutex_ is not held
               "drain",     \* 116: running the queue, mutex_ held
               "exited"}

Readable  == [wakeup |-> wakeupfd_, timer |-> timerfd_]
Ready     == {e \in Events : Readable[e]}
Held      == {fn} \ {None}
Submitted == Range(taskqueue_) \cup Held \cup finished

Init == /\ taskqueue_ = <<>>
        /\ mutex_ = FALSE
        /\ wakeupfd_ = FALSE
        /\ timerfd_ = FALSE
        /\ stop_ = FALSE
        /\ loop = "test"
        /\ channels = <<>>
        /\ fn = None
        /\ finished = {}
        /\ caller = [c \in Callers |-> "idle"]
        /\ stopper = "idle"

-----------------------------------------------------------------------------
(* The loop's thread.                                                      *)

TestStop ==
  /\ loop = "test"
  /\ loop' = IF stop_ THEN "exited" ELSE "poll"
  /\ UNCHANGED <<queueVars, threadVars, mutex_, wakeupfd_, timerfd_, stop_, channels>>

\* Every ready channel is returned, in an order epoll chooses.
Poll ==
  /\ loop = "poll"
  /\ Ready # {}
  /\ \E order \in [1..Cardinality(Ready) -> Ready] :
       /\ Range(order) = Ready
       /\ channels' = order
  /\ loop' = "dispatch"
  /\ UNCHANGED <<queueVars, threadVars, mutex_, wakeupfd_, timerfd_, stop_>>

\* Ten seconds without an event: the callback, which changes nothing here.
PollTimeout ==
  /\ loop = "poll"
  /\ Ready = {}
  /\ loop' = "test"
  /\ UNCHANGED <<queueVars, threadVars, mutex_, wakeupfd_, timerfd_, stop_, channels>>

\* handletimer() re-arms the timer; its sweep is in module TcpServer.
HandleTimer ==
  /\ loop = "dispatch" /\ channels # <<>> /\ Head(channels) = "timer"
  /\ timerfd_' = FALSE
  /\ channels' = Tail(channels)
  /\ UNCHANGED <<queueVars, threadVars, mutex_, wakeupfd_, stop_, loop>>

ReadWakeup ==
  /\ loop = "dispatch" /\ channels # <<>> /\ Head(channels) = "wakeup"
  /\ wakeupfd_' = FALSE
  /\ channels' = Tail(channels)
  /\ loop' = "lock"
  /\ UNCHANGED <<queueVars, threadVars, mutex_, timerfd_, stop_>>

LockQueue ==
  /\ loop = "lock"
  /\ ~mutex_
  /\ mutex_' = TRUE
  /\ loop' = "drain"
  /\ UNCHANGED <<queueVars, threadVars, wakeupfd_, timerfd_, stop_, channels>>

\* Mutant: front() without the pop() of line 119.
PopTaskKeepingFront ==
  /\ loop = "drain" /\ fn = None /\ taskqueue_ # <<>>
  /\ fn' = Head(taskqueue_)
  /\ UNCHANGED <<taskqueue_, finished, threadVars, mutex_, wakeupfd_, timerfd_,
                 stop_, loop, channels>>

PopTask ==
  /\ loop = "drain" /\ fn = None /\ taskqueue_ # <<>>
  /\ fn' = Head(taskqueue_)
  /\ taskqueue_' = Tail(taskqueue_)
  /\ UNCHANGED <<finished, threadVars, mutex_, wakeupfd_, timerfd_, stop_, loop,
                 channels>>

RunTask ==
  /\ loop = "drain" /\ fn # None
  /\ finished' = finished \cup {fn}
  /\ fn' = None
  /\ UNCHANGED <<taskqueue_, threadVars, mutex_, wakeupfd_, timerfd_, stop_, loop,
                 channels>>

\* Mutant: `if` instead of the `while` of line 116: one task for each event.
UnlockAfterOneTask ==
  /\ loop = "drain" /\ fn = None
  /\ mutex_' = FALSE
  /\ loop' = "dispatch"
  /\ UNCHANGED <<queueVars, threadVars, wakeupfd_, timerfd_, stop_, channels>>

UnlockQueue ==
  /\ loop = "drain" /\ fn = None /\ taskqueue_ = <<>>
  /\ mutex_' = FALSE
  /\ loop' = "dispatch"
  /\ UNCHANGED <<queueVars, threadVars, wakeupfd_, timerfd_, stop_, channels>>

EndOfTurn ==
  /\ loop = "dispatch" /\ channels = <<>>
  /\ loop' = "test"
  /\ UNCHANGED <<queueVars, threadVars, mutex_, wakeupfd_, timerfd_, stop_, channels>>

-----------------------------------------------------------------------------
(* The other threads, and the clock.                                       *)

\* Mutant: line 95 is missing.
PushSilently(c, t) ==
  /\ caller[c] = "idle"
  /\ ~mutex_
  /\ t \notin Submitted
  /\ taskqueue_' = Append(taskqueue_, t)
  /\ UNCHANGED <<fn, finished, caller, stopper, mutex_, wakeupfd_, timerfd_, stop_,
                 loop, channels>>

\* queueinloop(): the push, under mutex_ (90-93).
Push(c, t) ==
  /\ caller[c] = "idle"
  /\ ~mutex_
  /\ t \notin Submitted
  /\ taskqueue_' = Append(taskqueue_, t)
  /\ caller' = [caller EXCEPT ![c] = "wakeup"]
  /\ UNCHANGED <<fn, finished, stopper, mutex_, wakeupfd_, timerfd_, stop_, loop,
                 channels>>

\* queueinloop(): the write of wakeup(), after the unlock (95).
Wakeup(c) ==
  /\ caller[c] = "wakeup"
  /\ wakeupfd_' = TRUE
  /\ caller' = [caller EXCEPT ![c] = "idle"]
  /\ UNCHANGED <<queueVars, stopper, mutex_, timerfd_, stop_, loop, channels>>

SetStop ==
  /\ stopper = "idle"
  /\ stop_' = TRUE
  /\ stopper' = "wakeup"
  /\ UNCHANGED <<queueVars, caller, mutex_, wakeupfd_, timerfd_, loop, channels>>

StopWakeup ==
  /\ stopper = "wakeup"
  /\ wakeupfd_' = TRUE
  /\ stopper' = "done"
  /\ UNCHANGED <<queueVars, caller, mutex_, timerfd_, stop_, loop, channels>>

TimerExpires ==
  /\ ~timerfd_
  /\ timerfd_' = TRUE
  /\ UNCHANGED <<queueVars, threadVars, mutex_, wakeupfd_, stop_, loop, channels>>

-----------------------------------------------------------------------------

LoopStep == \/ TestStop \/ Poll \/ PollTimeout \/ HandleTimer \/ ReadWakeup
            \/ LockQueue \/ PopTask \/ RunTask \/ UnlockQueue \/ EndOfTurn

Next == \/ LoopStep
        \/ \E c \in Callers : Wakeup(c) \/ \E t \in Tasks : Push(c, t)
        \/ SetStop
        \/ StopWakeup
        \/ TimerExpires

Spec == Init /\ [][Next]_vars

(* The loop's thread runs, and a thread inside queueinloop() or stop()     *)
(* comes to its write.  Nobody has to queue a task or stop the loop, and   *)
(* the timer need not expire.  A LockQueue that waits is never overtaken   *)
(* for ever: a push holds mutex_ for one step.                             *)
Fairness == /\ WF_vars(LoopStep)
            /\ \A c \in Callers : WF_vars(Wakeup(c))
            /\ WF_vars(StopWakeup)

FairSpec == Spec /\ Fairness

-----------------------------------------------------------------------------
(* Properties                                                              *)

(* Types; mutex_ is held by the loop exactly while it drains (113-121),    *)
(* and a task is in fn only then.                                          *)
TypeOK ==
  /\ taskqueue_ \in Seq(Tasks)
  /\ mutex_ \in BOOLEAN
  /\ wakeupfd_ \in BOOLEAN
  /\ timerfd_ \in BOOLEAN
  /\ stop_ \in BOOLEAN
  /\ loop \in LoopStates
  /\ channels \in Seq(Events)
  /\ fn \in Tasks \cup {None}
  /\ finished \subseteq Tasks
  /\ caller \in [Callers -> {"idle", "wakeup"}]
  /\ stopper \in {"idle", "wakeup", "done"}
  /\ mutex_ <=> loop = "drain"
  /\ fn # None => loop = "drain"

(* A task is queued, running or done, and never two of them.               *)
NoTaskDuplicated ==
  /\ IsInjective(taskqueue_)
  /\ fn \notin Range(taskqueue_) \cup finished
  /\ finished \cap Range(taskqueue_) = {}

(* No lost wakeup: whatever is queued, the eventfd is readable, or its     *)
(* writer is between the push and the write, or the loop has read it and   *)
(* has not emptied the queue yet.  It rests on the order of 109 and 113    *)
(* (read, then lock) and of 92 and 95 (push, then write).                  *)
NoLostWakeup ==
  taskqueue_ # <<>> => \/ wakeupfd_
                       \/ loop \in {"lock", "drain"}
                       \/ \E c \in Callers : caller[c] = "wakeup"

(* EventLoop.cpp:60: stop() wakes the loop, which does not stay in         *)
(* epoll_wait() until the timer or the timeout.  A handlewakeup() that     *)
(* consumes the event of stop() is followed by a test of stop_.            *)
StopWakesLoop ==
  stop_ /\ loop = "poll" => wakeupfd_ \/ stopper = "wakeup"

(* The loop keeps the promise of TaskQueue with one server.                *)
Abstract == INSTANCE TaskQueue WITH
              waiting <- taskqueue_,
              running <- Held,
              Limit   <- 1

ImplementsTaskQueue == Abstract!TQSpec

(* A queued task runs, unless the loop is stopped.  Neither the timer nor  *)
(* the ten-second timeout of epoll_wait() looks at the queue: only the     *)
(* eventfd brings the loop to it.                                          *)
QueuedTasksRun ==
  \A t \in Tasks : t \in Range(taskqueue_) ~> t \in finished \/ stop_

=============================================================================
