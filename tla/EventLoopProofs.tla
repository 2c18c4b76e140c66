-------------------------- MODULE EventLoopProofs ---------------------------
(***************************************************************************)
(* The safety properties of EventLoop, for any set of callers and of tasks,*)
(* and of Dataflow, for any requests of the client, sizes of their content *)
(* and of the window, and any threads of the bank.                         *)
(***************************************************************************)
EXTENDS EventLoop, Dataflow, TLAPS, FiniteSetTheorems, WellFoundedInduction, SequenceTheorems

-----------------------------------------------------------------------------
(* What a queue holds after a push and after a pop.                        *)

\* A push adds its element to what the queue holds.
LEMMA RangeOfAppend ==
  ASSUME NEW S, NEW q \in Seq(S), NEW e
  PROVE  Range(Append(q, e)) = Range(q) \cup {e}
<1>1. \A i \in 1..Len(q) : Append(q, e)[i] = q[i]
  OBVIOUS
<1>2. /\ DOMAIN Append(q, e) = 1..(Len(q) + 1)
      /\ Append(q, e)[Len(q) + 1] = e
      /\ DOMAIN q = 1..Len(q)
      /\ Len(q) \in Nat
  OBVIOUS
<1>3. 1..(Len(q) + 1) = (1..Len(q)) \cup {Len(q) + 1}
  BY <1>2
<1>. QED
  BY <1>1, <1>2, <1>3 DEF Range

\* A queue holds its head and what it holds after a pop.
LEMMA RangeOfTail ==
  ASSUME NEW S, NEW q \in Seq(S), q # <<>>
  PROVE  Range(q) = Range(Tail(q)) \cup {Head(q)}
<1>1. /\ DOMAIN q = 1..Len(q)
      /\ DOMAIN Tail(q) = 1..(Len(q) - 1)
      /\ Len(q) \in Nat \ {0}
      /\ Head(q) = q[1]
      /\ \A i \in 1..(Len(q) - 1) : Tail(q)[i] = q[i + 1]
  OBVIOUS
<1>2. \A i \in 1..Len(q) : i = 1 \/ (i - 1 \in 1..(Len(q) - 1) /\ (i - 1) + 1 = i)
  BY <1>1
<1>3. \A i \in 1..(Len(q) - 1) : i + 1 \in 1..Len(q)
  BY <1>1
<1>4. 1 \in 1..Len(q)
  BY <1>1
<1>5. ASSUME NEW x \in Range(q) PROVE x \in Range(Tail(q)) \cup {Head(q)}
  <2>1. PICK i \in 1..Len(q) : x = q[i]
    BY <1>1 DEF Range
  <2>2. CASE i = 1
    BY <2>1, <2>2, <1>1
  <2>3. CASE i - 1 \in 1..(Len(q) - 1) /\ (i - 1) + 1 = i
    <3>1. x = Tail(q)[i - 1]
      BY <2>1, <2>3, <1>1
    <3>. QED
      BY <3>1, <2>3, <1>1 DEF Range
  <2>. QED
    BY <1>2, <2>1, <2>2, <2>3
<1>6. ASSUME NEW x \in Range(Tail(q)) \cup {Head(q)} PROVE x \in Range(q)
  <2>1. CASE x = Head(q)
    BY <2>1, <1>1, <1>4 DEF Range
  <2>2. CASE x \in Range(Tail(q))
    <3>1. PICK i \in 1..(Len(q) - 1) : x = Tail(q)[i]
      BY <2>2, <1>1 DEF Range
    <3>. QED
      BY <3>1, <1>1, <1>3 DEF Range
  <2>. QED
    BY <1>6, <2>1, <2>2
<1>. QED
  BY <1>5, <1>6

\* A push of an element that is not in the queue duplicates nothing.
LEMMA InjectiveAppend ==
  ASSUME NEW S, NEW q \in Seq(S), IsInjective(q), NEW e, e \notin Range(q)
  PROVE  IsInjective(Append(q, e))
<1>1. /\ DOMAIN q = 1..Len(q)
      /\ DOMAIN Append(q, e) = 1..(Len(q) + 1)
      /\ Len(q) \in Nat
      /\ \A i \in 1..Len(q) : Append(q, e)[i] = q[i]
      /\ Append(q, e)[Len(q) + 1] = e
  OBVIOUS
<1>2. \A i \in 1..Len(q) : q[i] # e
  BY <1>1 DEF Range
<1>3. \A i \in 1..(Len(q) + 1) : i \in 1..Len(q) \/ i = Len(q) + 1
  BY <1>1
<1>. QED
  BY <1>1, <1>2, <1>3 DEF IsInjective

\* Popping leaves a queue without repetitions, and without what was popped.
LEMMA InjectiveTail ==
  ASSUME NEW S, NEW q \in Seq(S), IsInjective(q), q # <<>>
  PROVE  IsInjective(Tail(q)) /\ Head(q) \notin Range(Tail(q))
<1>1. /\ DOMAIN q = 1..Len(q)
      /\ DOMAIN Tail(q) = 1..(Len(q) - 1)
      /\ Len(q) \in Nat \ {0}
      /\ Head(q) = q[1]
      /\ \A i \in 1..(Len(q) - 1) : Tail(q)[i] = q[i + 1]
  OBVIOUS
<1>2. \A i \in 1..(Len(q) - 1) : i + 1 \in 1..Len(q) /\ i + 1 # 1
  BY <1>1
<1>3. 1 \in 1..Len(q)
  BY <1>1
<1>4. IsInjective(Tail(q))
  BY <1>1, <1>2 DEF IsInjective
<1>5. Head(q) \notin Range(Tail(q))
  BY <1>1, <1>2, <1>3 DEF IsInjective, Range
<1>. QED
  BY <1>4, <1>5

-----------------------------------------------------------------------------
(* Types, and who holds the mutex.                                         *)

\* Types, of the loop, its callers and its queue, eventfd and mutex.
THEOREM TypeCorrect == Spec => []TypeOK
<1>. USE DEF LoopStates, queueVars, threadVars
<1>1. Init => TypeOK
  <2>. SUFFICES ASSUME Init PROVE TypeOK
    OBVIOUS
  <2>1. taskqueue_ \in Seq(Tasks) /\ channels \in Seq(Events)
    BY DEF Init
  <2>2. mutex_ \in BOOLEAN /\ wakeupfd_ \in BOOLEAN /\ timerfd_ \in BOOLEAN
    BY DEF Init
  <2>3. stop_ \in BOOLEAN /\ (mutex_ <=> loop = "drain")
    BY DEF Init
  <2>. QED
    BY <2>1, <2>2, <2>3 DEF Init, TypeOK
<1>2. TypeOK /\ [Next]_vars => TypeOK'
  <2>. SUFFICES ASSUME TypeOK, [Next]_vars PROVE TypeOK'
    OBVIOUS
  <2>. USE LoopAssumption
  <2>1. CASE TestStop
    BY <2>1 DEF TestStop, TypeOK
  <2>2. CASE Poll
    <3>1. PICK order \in [1..Cardinality(Ready) -> Ready] :
             Range(order) = Ready /\ channels' = order
      BY <2>2 DEF Poll
    <3>2. IsFiniteSet(Ready)
      <4>1. IsFiniteSet({"wakeup", "timer"})
        <5>1. IsFiniteSet({"wakeup"})
          BY FS_Singleton
        <5>2. IsFiniteSet({"wakeup"} \cup {"timer"})
          BY <5>1, FS_AddElement
        <5>3. {"wakeup", "timer"} = {"wakeup"} \cup {"timer"}
          OBVIOUS
        <5>. QED
          BY <5>2, <5>3
      <4>2. Ready \in SUBSET {"wakeup", "timer"}
        BY DEF Ready, Events
      <4>. QED
        BY <4>1, <4>2, FS_Subset
    <3>3. Cardinality(Ready) \in Nat
      BY <3>2, FS_CardinalityType
    <3>4. channels' \in [1..Cardinality(Ready) -> Events]
      BY <3>1 DEF Ready
    <3>5. channels' \in Seq(Events)
      BY <3>3, <3>4
    <3>6. mutex_' = mutex_ /\ loop' = "dispatch" /\ loop = "poll" /\ fn' = fn
      BY <2>2 DEF Poll
    <3>. QED
      BY <2>2, <3>5, <3>6 DEF Poll, TypeOK
  <2>3. CASE PollTimeout
    BY <2>3 DEF PollTimeout, TypeOK
  <2>4. CASE HandleTimer
    <3>1. channels' \in Seq(Events)
      BY <2>4 DEF HandleTimer, TypeOK
    <3>2. mutex_' \in BOOLEAN /\ wakeupfd_' \in BOOLEAN /\ timerfd_' \in BOOLEAN
      BY <2>4 DEF HandleTimer, TypeOK
    <3>3. (mutex_ <=> loop = "drain")' /\ (fn # None => loop = "drain")'
      BY <2>4 DEF HandleTimer, TypeOK
    <3>. QED
      BY <2>4, <3>1, <3>2, <3>3 DEF HandleTimer, TypeOK
  <2>5. CASE ReadWakeup
    <3>1. channels' \in Seq(Events)
      BY <2>5 DEF ReadWakeup, TypeOK
    <3>2. mutex_' \in BOOLEAN /\ wakeupfd_' \in BOOLEAN /\ timerfd_' \in BOOLEAN
      BY <2>5 DEF ReadWakeup, TypeOK
    <3>3. (mutex_ <=> loop = "drain")' /\ (fn # None => loop = "drain")'
      BY <2>5 DEF ReadWakeup, TypeOK
    <3>. QED
      BY <2>5, <3>1, <3>2, <3>3 DEF ReadWakeup, TypeOK
  <2>6. CASE LockQueue
    BY <2>6 DEF LockQueue, TypeOK
  <2>7. CASE PopTask
    <3>1. Head(taskqueue_) \in Tasks /\ Tail(taskqueue_) \in Seq(Tasks)
      BY <2>7 DEF PopTask, TypeOK
    <3>. QED
      BY <2>7, <3>1 DEF PopTask, TypeOK
  <2>8. CASE RunTask
    BY <2>8 DEF RunTask, TypeOK
  <2>9. CASE UnlockQueue
    BY <2>9 DEF UnlockQueue, TypeOK
  <2>10. CASE EndOfTurn
    BY <2>10 DEF EndOfTurn, TypeOK
  <2>11. ASSUME NEW c \in Callers, NEW t \in Tasks, Push(c, t) PROVE TypeOK'
    BY <2>11 DEF Push, TypeOK
  <2>12. ASSUME NEW c \in Callers, Wakeup(c) PROVE TypeOK'
    BY <2>12 DEF Wakeup, TypeOK
  <2>13. CASE SetStop \/ StopWakeup \/ TimerExpires
    <3>1. stop_' \in BOOLEAN /\ wakeupfd_' \in BOOLEAN /\ timerfd_' \in BOOLEAN
      BY <2>13 DEF SetStop, StopWakeup, TimerExpires, TypeOK
    <3>2. stopper' \in {"idle", "wakeup", "done"}
      BY <2>13 DEF SetStop, StopWakeup, TimerExpires, TypeOK
    <3>3. UNCHANGED <<queueVars, caller, mutex_, loop, channels>>
      BY <2>13 DEF SetStop, StopWakeup, TimerExpires
    <3>. QED
      BY <3>1, <3>2, <3>3 DEF TypeOK
  <2>14. CASE UNCHANGED vars
    BY <2>14 DEF vars, TypeOK
  <2>. QED
    BY <2>1, <2>2, <2>3, <2>4, <2>5, <2>6, <2>7, <2>8, <2>9, <2>10, <2>11,
       <2>12, <2>13, <2>14 DEF Next, LoopStep
<1>. QED
  BY <1>1, <1>2, PTL DEF Spec

-----------------------------------------------------------------------------
(* No lost wakeup.                                                         *)

\* A task that queueinloop() has put in taskqueue_ is followed by a wakeup that
\* the loop has not yet consumed, so it never waits in epoll with work to do.
THEOREM WakeupsAreNotLost == Spec => []NoLostWakeup
<1>1. Init => NoLostWakeup
  BY DEF Init, NoLostWakeup
<1>2. TypeOK /\ NoLostWakeup /\ [Next]_vars => NoLostWakeup'
  <2>. SUFFICES ASSUME TypeOK, NoLostWakeup, [Next]_vars PROVE NoLostWakeup'
    OBVIOUS
  <2>. USE DEF NoLostWakeup, queueVars, threadVars
  <2>1. CASE TestStop \/ Poll \/ PollTimeout \/ HandleTimer \/ EndOfTurn
    BY <2>1 DEF TestStop, Poll, PollTimeout, HandleTimer, EndOfTurn
  \* The event is consumed, and the loop is bound for the queue.
  <2>2. CASE ReadWakeup
    BY <2>2 DEF ReadWakeup
  <2>3. CASE LockQueue \/ PopTask \/ RunTask
    BY <2>3 DEF LockQueue, PopTask, RunTask
  \* The loop leaves the queue only when it is empty.
  <2>4. CASE UnlockQueue
    BY <2>4 DEF UnlockQueue
  <2>5. ASSUME NEW c \in Callers, NEW t \in Tasks, Push(c, t) PROVE NoLostWakeup'
    BY <2>5 DEF Push, TypeOK
  <2>6. ASSUME NEW c \in Callers, Wakeup(c) PROVE NoLostWakeup'
    BY <2>6 DEF Wakeup
  <2>7. CASE SetStop \/ StopWakeup \/ TimerExpires
    BY <2>7 DEF SetStop, StopWakeup, TimerExpires
  <2>8. CASE UNCHANGED vars
    BY <2>8 DEF vars
  <2>. QED
    BY <2>1, <2>2, <2>3, <2>4, <2>5, <2>6, <2>7, <2>8 DEF Next, LoopStep
<1>. QED
  BY <1>1, <1>2, TypeCorrect, PTL DEF Spec

\* Once stop() has set the flag, a loop in epoll_wait() has the event of the
\* wakeup, or stop() is about to write it.
THEOREM StopAlwaysWakesLoop == Spec => []StopWakesLoop
<1>1. Init => StopWakesLoop
  BY DEF Init, StopWakesLoop
<1>2. StopWakesLoop /\ [Next]_vars => StopWakesLoop'
  BY DEF StopWakesLoop, Next, LoopStep, vars, queueVars, threadVars, TestStop, Poll,
         PollTimeout, HandleTimer, ReadWakeup, LockQueue, PopTask, RunTask,
         UnlockQueue, EndOfTurn, Push, Wakeup, SetStop, StopWakeup, TimerExpires
<1>. QED
  BY <1>1, <1>2, PTL DEF Spec

-----------------------------------------------------------------------------
(* A task is queued, running or done, and never two of them.               *)

\* No task of queueinloop() is run twice, whichever threads queue them.
THEOREM TasksAreNotDuplicated == Spec => []NoTaskDuplicated
<1>1. Init => NoTaskDuplicated
  BY DEF Init, NoTaskDuplicated, Range, IsInjective
<1>2. TypeOK /\ NoTaskDuplicated /\ [Next]_vars => NoTaskDuplicated'
  <2>. SUFFICES ASSUME TypeOK, NoTaskDuplicated, [Next]_vars
                PROVE  NoTaskDuplicated'
    OBVIOUS
  <2>1. CASE PopTask
    <3>1. /\ IsInjective(Tail(taskqueue_))
          /\ Head(taskqueue_) \notin Range(Tail(taskqueue_))
      BY <2>1, InjectiveTail DEF PopTask, TypeOK, NoTaskDuplicated
    <3>2. Range(taskqueue_) = Range(Tail(taskqueue_)) \cup {Head(taskqueue_)}
      BY <2>1, RangeOfTail DEF PopTask, TypeOK
    <3>. QED
      BY <2>1, <3>1, <3>2 DEF PopTask, NoTaskDuplicated
  <2>2. CASE RunTask
    <3>1. None \notin Range(taskqueue_) \cup finished
      BY LoopAssumption DEF TypeOK, Range
    <3>2. fn # None
      BY <2>2 DEF RunTask
    <3>. QED
      BY <2>2, <3>1, <3>2, LoopAssumption DEF RunTask, NoTaskDuplicated, TypeOK
  <2>3. ASSUME NEW c \in Callers, NEW t \in Tasks, Push(c, t)
        PROVE  NoTaskDuplicated'
    <3>1. t \notin Range(taskqueue_) \cup finished /\ fn # t
      BY <2>3, LoopAssumption DEF Push, Submitted, Held
    <3>2. /\ IsInjective(taskqueue_')
          /\ Range(taskqueue_') = Range(taskqueue_) \cup {t}
      BY <2>3, <3>1, InjectiveAppend, RangeOfAppend
         DEF Push, TypeOK, NoTaskDuplicated
    <3>. QED
      BY <2>3, <3>1, <3>2 DEF Push, NoTaskDuplicated
  \* The other steps move no task.
  <2>4. ASSUME UNCHANGED queueVars PROVE NoTaskDuplicated'
    BY <2>4 DEF queueVars, NoTaskDuplicated
  <2>5. CASE TestStop \/ Poll \/ PollTimeout \/ HandleTimer \/ ReadWakeup \/ LockQueue
             \/ UnlockQueue \/ EndOfTurn
    BY <2>4, <2>5 DEF TestStop, Poll, PollTimeout, HandleTimer, ReadWakeup, LockQueue,
                      UnlockQueue, EndOfTurn
  <2>6. ASSUME NEW c \in Callers, Wakeup(c) PROVE NoTaskDuplicated'
    BY <2>4, <2>6 DEF Wakeup
  <2>7. CASE SetStop \/ StopWakeup \/ TimerExpires \/ UNCHANGED vars
    BY <2>4, <2>7 DEF SetStop, StopWakeup, TimerExpires, vars
  <2>. QED
    BY <2>1, <2>2, <2>3, <2>5, <2>6, <2>7 DEF Next, LoopStep
<1>. QED
  BY <1>1, <1>2, TypeCorrect, PTL DEF Spec

-----------------------------------------------------------------------------
(* Refinement: a push submits, PopTask starts, RunTask finishes, and every *)
(* other step is a stutter of TaskQueue.                                   *)

\* The mutex, the eventfd and the queue of EventLoop implement the abstract
\* queue: first in, first out, each task once.
THEOREM ImplementsTaskQueueCorrect == Spec => ImplementsTaskQueue
<1>0. \A S : Abstract!Cardinality(S) = Cardinality(S)
  BY DEF Cardinality, Abstract!Cardinality
<1>1. Init => Abstract!TQInit
  BY DEF Init, Abstract!TQInit, Held
<1>2. TypeOK /\ NoTaskDuplicated /\ [Next]_vars => [Abstract!TQNext]_Abstract!tqVars
  <2>. SUFFICES ASSUME TypeOK, NoTaskDuplicated, [Next]_vars
                PROVE  [Abstract!TQNext]_Abstract!tqVars
    OBVIOUS
  <2>1. CASE PopTask
    <3>1. Held = {} /\ Cardinality(Held) = 0
      BY <2>1, FS_EmptySet DEF PopTask, Held
    <3>2. /\ taskqueue_ # <<>>
          /\ Head(taskqueue_) \in Range(taskqueue_)
          /\ Head(taskqueue_) \in Tasks
      BY <2>1, RangeOfTail DEF PopTask, TypeOK
    <3>3. Held' = Held \cup {Head(taskqueue_)}
      BY <2>1, <3>2, LoopAssumption DEF PopTask, Held
    <3>4. Head(taskqueue_) \notin Held \cup finished
      BY <3>1, <3>2 DEF NoTaskDuplicated
    <3>5. Abstract!Start
      BY <2>1, <3>1, <3>2, <3>3, <3>4, <1>0 DEF PopTask, Abstract!Start
    <3>. QED
      BY <3>5 DEF Abstract!TQNext
  <2>2. CASE RunTask
    <3>1. \E t \in Tasks : Abstract!Finish(t)
      BY <2>2 DEF RunTask, Abstract!Finish, Held, TypeOK
    <3>. QED
      BY <3>1 DEF Abstract!TQNext
  <2>3. ASSUME NEW c \in Callers, NEW t \in Tasks, Push(c, t)
        PROVE  [Abstract!TQNext]_Abstract!tqVars
    <3>1. Abstract!Submit(t)
      BY <2>3 DEF Push, Abstract!Submit, Submitted, Held, Range, Abstract!Range
    <3>. QED
      BY <3>1 DEF Abstract!TQNext
  <2>4. ASSUME UNCHANGED queueVars PROVE UNCHANGED Abstract!tqVars
    BY <2>4 DEF queueVars, Abstract!tqVars, Held
  <2>5. CASE TestStop \/ Poll \/ PollTimeout \/ HandleTimer \/ ReadWakeup \/ LockQueue
             \/ UnlockQueue \/ EndOfTurn
    BY <2>4, <2>5 DEF TestStop, Poll, PollTimeout, HandleTimer, ReadWakeup, LockQueue,
                      UnlockQueue, EndOfTurn
  <2>6. ASSUME NEW c \in Callers, Wakeup(c) PROVE UNCHANGED Abstract!tqVars
    BY <2>4, <2>6 DEF Wakeup
  <2>7. CASE SetStop \/ StopWakeup \/ TimerExpires \/ UNCHANGED vars
    BY <2>4, <2>7 DEF SetStop, StopWakeup, TimerExpires, vars
  <2>. QED
    BY <2>1, <2>2, <2>3, <2>5, <2>6, <2>7 DEF Next, LoopStep
<1>. QED
  BY <1>1, <1>2, TypeCorrect, TasksAreNotDuplicated, PTL
     DEF Spec, ImplementsTaskQueue, Abstract!TQSpec

-----------------------------------------------------------------------------
(* The dataflow of one connection.  The messages picked are the client's   *)
(* requests because each pick starts where a request ends (FlowTypes and   *)
(* PickedIsNext).  The replies stay framed because only handlewakeup()     *)
(* makes units, in pairs, and all else moves them.  The replies of a       *)
(* client that waits are in order because a request handed over is in one  *)
(* place (Counted), so that the one request past the replies written is    *)
(* the only one with the bank (OnlyNext).                                  *)

\* Induction, for a set of numbers.
LEMMA AllNumbers ==
  ASSUME NEW S, 0 \in S, \A n \in Nat : n \in S => n + 1 \in S
  PROVE  \A n \in Nat : n \in S
<1> DEFINE T == Nat \ S
<1>. SUFFICES ASSUME T # {} PROVE FALSE
  OBVIOUS
<1>1. T \subseteq Nat /\ T # {}
  OBVIOUS
<1>2. PICK m \in T : \A y \in T : ~(<<y, m>> \in OpToRel(<, Nat))
  BY <1>1, NatLessThanWellFounded, WFMin
<1>3. m # 0 /\ m - 1 \in Nat /\ (m - 1) + 1 = m
  <2>1. m \in Nat /\ m # 0
    OBVIOUS
  <2> QED  BY <2>1
<1>4. m - 1 \notin S
  BY <1>2, <1>3
<1>5. <<m - 1, m>> \in OpToRel(<, Nat)
  BY <1>2, <1>3 DEF OpToRel
<1> QED  BY <1>2, <1>3, <1>4, <1>5

\* The requests are numbered from 1.
LEMMA BusinessSeq == Len(Business) \in Nat /\ Requests = 1..Len(Business)
BY FlowAssumption DEF Requests

\* The recursion of EndOf has a solution.
LEMMA EndOfExists ==
  EndOf = [i \in 0..Len(Business) |-> IF i = 0 THEN 0 ELSE EndOf[i - 1] + HeadUnits + Size[i]]
<1> DEFINE Good(n, f) == f = [i \in 0..n |-> IF i = 0 THEN 0 ELSE f[i - 1] + HeadUnits + Size[i]]
           G == {n \in Nat : \E f : Good(n, f)}
<1>1. 0 \in G
  <2>1. Good(0, [i \in 0..0 |-> 0])
    OBVIOUS
  <2> QED  BY <2>1
<1>2. ASSUME NEW n \in Nat, n \in G PROVE n + 1 \in G
  <2>1. PICK f : Good(n, f)
    BY <1>2
  <2> DEFINE g == [i \in 0..n + 1 |-> IF i = 0 THEN 0 ELSE f[i - 1] + HeadUnits + Size[i]]
  <2>2. \A i \in 0..n : g[i] = f[i]
    BY <2>1
  <2>3. \A i \in 0..n + 1 : i # 0 => i - 1 \in 0..n
    OBVIOUS
  <2>4. g = [i \in 0..n + 1 |-> IF i = 0 THEN 0 ELSE g[i - 1] + HeadUnits + Size[i]]
    <3>1. \A i \in 0..n + 1 : i # 0 => g[i - 1] = f[i - 1]
      BY <2>2, <2>3
    <3> HIDE DEF g
    <3>2. \A i \in 0..n + 1 : (IF i = 0 THEN 0 ELSE f[i - 1] + HeadUnits + Size[i])
                                = (IF i = 0 THEN 0 ELSE g[i - 1] + HeadUnits + Size[i])
      BY <3>1
    <3> QED  BY <3>2 DEF g
  <2> HIDE DEF g
  <2>5. Good(n + 1, g)
    BY <2>4
  <2> QED  BY <2>5
<1> HIDE DEF G
<1>3. Len(Business) \in G
  BY <1>1, <1>2, AllNumbers, BusinessSeq
<1>4. \E f : Good(Len(Business), f)
  BY <1>3 DEF G
<1> QED  BY <1>4 DEF EndOf

\* Where each request ends follows from where the one before it ends.
LEMMA EndOfSteps ==
  /\ EndOf[0] = 0
  /\ \A i \in 1..Len(Business) : EndOf[i] = EndOf[i - 1] + HeadUnits + Size[i]
<1>1. 0 \in 0..Len(Business) /\ \A i \in 1..Len(Business) : i \in 0..Len(Business) /\ i # 0
  BY BusinessSeq
<1> DEFINE body(i) == IF i = 0 THEN 0 ELSE EndOf[i - 1] + HeadUnits + Size[i]
<1>2. \A i \in 0..Len(Business) : EndOf[i] = body(i)
  BY EndOfExists
<1> QED  BY <1>1, <1>2

\* The places of the stream are numbers.
LEMMA EndOfNat == \A i \in 0..Len(Business) : EndOf[i] \in Nat
<1> DEFINE S == {n \in Nat : n <= Len(Business) => EndOf[n] \in Nat}
<1>1. 0 \in S
  BY EndOfSteps
<1>2. ASSUME NEW n \in Nat, n \in S PROVE n + 1 \in S
  <2>1. SUFFICES ASSUME n + 1 <= Len(Business) PROVE EndOf[n + 1] \in Nat
    OBVIOUS
  <2>2. n + 1 \in 1..Len(Business) /\ (n + 1) - 1 = n /\ n <= Len(Business)
    BY <2>1, BusinessSeq
  <2>3. Size[n + 1] \in Nat /\ HeadUnits \in Nat
    BY <2>2, FlowAssumption, BusinessSeq
  <2>4. EndOf[n + 1] = EndOf[n] + HeadUnits + Size[n + 1]
    BY <2>2, EndOfSteps
  <2> QED  BY <2>2, <2>3, <2>4, <1>2
<1> HIDE DEF S
<1>3. \A n \in Nat : n \in S
  BY <1>1, <1>2, AllNumbers
<1> QED  BY <1>3, BusinessSeq DEF S

\* A later request ends later, by a header at least.
LEMMA EndOfGrows ==
  \A i, j \in 0..Len(Business) : i < j => EndOf[i] + HeadUnits <= EndOf[j]
<1> SUFFICES ASSUME NEW i \in 0..Len(Business)
             PROVE  \A j \in 0..Len(Business) : i < j => EndOf[i] + HeadUnits <= EndOf[j]
  OBVIOUS
<1> DEFINE S == {n \in Nat : n <= Len(Business) /\ i < n => EndOf[i] + HeadUnits <= EndOf[n]}
<1>1. 0 \in S
  BY BusinessSeq
<1>2. ASSUME NEW n \in Nat, n \in S PROVE n + 1 \in S
  <2>1. SUFFICES ASSUME n + 1 <= Len(Business), i < n + 1 PROVE EndOf[i] + HeadUnits <= EndOf[n + 1]
    OBVIOUS
  <2>2. n + 1 \in 1..Len(Business) /\ (n + 1) - 1 = n /\ n <= Len(Business) /\ n \in 0..Len(Business)
    BY <2>1, BusinessSeq
  <2>3. Size[n + 1] \in Nat /\ HeadUnits \in Nat
    BY <2>2, FlowAssumption, BusinessSeq
  <2>4. EndOf[n + 1] = EndOf[n] + HeadUnits + Size[n + 1]
    BY <2>2, EndOfSteps
  <2>5. EndOf[n] \in Nat /\ EndOf[i] \in Nat
    BY <2>2, EndOfNat
  <2>6. CASE i = n
    BY <2>6, <2>3, <2>4, <2>5
  <2>7. CASE i # n
    <3>1. i < n
      BY <2>7, <2>1, BusinessSeq
    <3>2. EndOf[i] + HeadUnits <= EndOf[n]
      BY <3>1, <2>2, <1>2
    <3> QED  BY <3>2, <2>3, <2>4, <2>5
  <2> QED  BY <2>6, <2>7
<1> HIDE DEF S
<1>3. \A n \in Nat : n \in S
  BY <1>1, <1>2, AllNumbers
<1> QED  BY <1>3, BusinessSeq DEF S

\* The stream, unit by unit.
LEMMA StreamLen == Len(Stream) = EndOf[Len(Business)] /\ DOMAIN Stream = 1..EndOf[Len(Business)]
<1>1. EndOf[Len(Business)] \in Nat
  BY EndOfNat, BusinessSeq
<1> QED  BY <1>1 DEF Stream

\* The unit at each place of the stream is of the request that spans the place, and
\* tells its length when it is of the header.
LEMMA StreamAt ==
  ASSUME NEW i \in 1..Len(Business), NEW p \in EndOf[i - 1] + 1..EndOf[i]
  PROVE  /\ p \in DOMAIN Stream
         /\ Stream[p] = [of |-> i, len |-> IF p <= EndOf[i - 1] + HeadUnits THEN Size[i] ELSE 0]
<1>1. /\ i - 1 \in 0..Len(Business) /\ i \in 0..Len(Business) /\ i \in Requests
      /\ Len(Business) \in 0..Len(Business)
  BY BusinessSeq
<1>2. EndOf[i - 1] \in Nat /\ EndOf[i] \in Nat /\ EndOf[Len(Business)] \in Nat /\ HeadUnits \in Nat
  BY <1>1, EndOfNat, FlowAssumption
<1>3. EndOf[i] <= EndOf[Len(Business)]
  BY <1>1, <1>2, EndOfGrows
<1>4. p \in Nat /\ EndOf[i - 1] < p /\ p <= EndOf[i] /\ p \in 1..EndOf[Len(Business)]
  BY <1>2, <1>3
<1>5. ASSUME NEW j \in Requests, EndOf[j - 1] < p, p <= EndOf[j] PROVE j = i
  <2>1. j \in 1..Len(Business) /\ j - 1 \in 0..Len(Business) /\ j \in 0..Len(Business)
    BY BusinessSeq
  <2>2. EndOf[j - 1] \in Nat /\ EndOf[j] \in Nat
    BY <2>1, EndOfNat
  <2>3. ~ j < i
    <3>1. SUFFICES ASSUME j < i PROVE FALSE
      OBVIOUS
    <3>2. j = i - 1 \/ j < i - 1
      BY <3>1, <2>1
    <3>3. EndOf[j] <= EndOf[i - 1]
      <4>1. CASE j = i - 1
        BY <4>1, <2>2
      <4>2. CASE j < i - 1
        <5>1. EndOf[j] + HeadUnits <= EndOf[i - 1]
          BY <4>2, <1>1, <2>1, EndOfGrows
        <5> QED  BY <5>1, <1>2, <2>2
      <4> QED  BY <3>2, <4>1, <4>2
    <3> QED  BY <3>3, <1>4, <1>5, <1>2, <2>2
  <2>4. ~ i < j
    <3>1. SUFFICES ASSUME i < j PROVE FALSE
      OBVIOUS
    <3>2. i = j - 1 \/ i < j - 1
      BY <3>1, <2>1
    <3>3. EndOf[i] <= EndOf[j - 1]
      <4>1. CASE i = j - 1
        BY <4>1, <1>2
      <4>2. CASE i < j - 1
        <5>1. EndOf[i] + HeadUnits <= EndOf[j - 1]
          BY <4>2, <1>1, <2>1, EndOfGrows
        <5> QED  BY <5>1, <1>2, <2>2
      <4> QED  BY <3>2, <4>1, <4>2
    <3> QED  BY <3>3, <1>4, <1>5, <1>2, <2>2
  <2> QED  BY <2>1, <2>3, <2>4
<1>6. (CHOOSE j \in Requests : EndOf[j - 1] < p /\ p <= EndOf[j]) = i
  BY <1>1, <1>4, <1>5
<1>. DEFINE c(q) == CHOOSE j \in Requests : EndOf[j - 1] < q /\ q <= EndOf[j]
            At(q) == [of |-> c(q), len |-> IF q <= EndOf[c(q) - 1] + HeadUnits THEN Size[c(q)] ELSE 0]
<1>7. Stream = [q \in 1..EndOf[Len(Business)] |-> At(q)]
  BY DEF Stream
<1>8. c(p) = i
  BY <1>6
<1>. HIDE DEF c
<1>9. Stream[p] = At(p)
  BY <1>4, <1>7
<1> QED  BY <1>4, <1>8, <1>9, StreamLen

\* What the bank says, the units of its replies, and every unit written so far.
Spoken == {"ok", "balance", "not logged in"}
Unit == [of : Requests, text : Spoken \cup {"header", Junk}]
All == Sent \o outputbuffer_

\* The types, and how far each stage of the stream has come.
FlowTypes ==
  /\ pipelines \in BOOLEAN /\ login \in BOOLEAN
  /\ written \in 0..Len(Business)
  /\ arrived \in 0..EndOf[written] /\ readto \in 0..arrived
  /\ passed \in Seq({Message(EndOf[k - 1], EndOf[k]) : k \in Requests})
  /\ Len(passed) <= Len(Business)
  /\ taken = EndOf[Len(passed)] /\ taken <= readto
  /\ tasks \in Seq(Requests)
  /\ worker \in [Workers -> [at : {"idle", "message", "reply", "sent"},
                             of : 0..Len(Business), text : Spoken \cup {"none"}]]
  /\ \A w \in Workers : /\ worker[w].at # "idle" => worker[w].of # 0
                        /\ worker[w].at = "idle" => worker[w].of = 0
                        /\ worker[w].at \in {"reply", "sent"} => worker[w].text \in Spoken
  /\ sends \in Seq([of : Requests, text : Spoken, by : Workers])
  /\ Len(wire) <= Window
  /\ got \in Seq(Unit) /\ wire \in Seq(Unit) /\ outputbuffer_ \in Seq(Unit)

\* The replies are pairs of a header and its content.
Framed == /\ \E m \in Nat : Len(All) = 2 * m
          /\ \A k \in DOMAIN All : IF k % 2 = 1 THEN All[k].text = "header"
                                   ELSE All[k].text # "header" /\ All[k].of = All[k - 1].of
\* A request handed over is in one place, and no other request is in any.
Counted == \A i \in Nat \ {0} : InTasks(i) + InWorkers(i) + InSends(i) + InReplies(i)
                         = IF i <= Len(passed) THEN 1 ELSE 0
\* The reply under way has been computed.
Computed == sends # <<>> \/ \E w \in Workers : worker[w].at = "reply"
\* With m replies written, those to the first m requests: what the client has
\* asked, what it was answered, the login state it has made, the reply under way.
InTurnOf(m, asked, all, in, computed, at, out) ==
  /\ asked <= m + 1
  /\ \A k \in DOMAIN all : 2 * all[k].of \in {k, k + 1} /\ all[k].text \in {"header", InOrder(all[k].of), Junk}
  /\ in = LoggedInBefore(IF computed THEN m + 2 ELSE m + 1)
  /\ \A w \in Workers : at[w].at = "reply" => at[w].text = InOrder(at[w].of)
  /\ \A k \in DOMAIN out : out[k].text = InOrder(out[k].of)
InTurn(m) == InTurnOf(m, written, All, login, Computed, worker, sends)
Ordered == ~pipelines => \A m \in Nat : Len(All) = 2 * m => InTurn(m)

\* How many places of q hold a member of S.
Count(q, S) == Cardinality({k \in DOMAIN q : q[k] \in S})

\* A one-to-one correspondence keeps the count.
LEMMA SameCount ==
  ASSUME NEW S, NEW T, IsFiniteSet(S), NEW f \in [S -> T],
         \A x, y \in S : f[x] = f[y] => x = y, \A y \in T : \E x \in S : f[x] = y
  PROVE  IsFiniteSet(T) /\ Cardinality(T) = Cardinality(S)
<1>1. f \in Injection(S, T)
  BY DEF Injection, IsInjective
<1>2. f \in Surjection(S, T)
  BY DEF Surjection, Range
<1>3. ExistsBijection(S, T)
  BY <1>1, <1>2 DEF ExistsBijection, Bijection
<1> QED  BY <1>3, FS_Bijection

\* The places of a sequence are finitely many.
LEMMA PlacesFinite ==
  ASSUME NEW T, NEW q \in Seq(T), NEW K \in SUBSET DOMAIN q
  PROVE  IsFiniteSet(K) /\ Cardinality(K) \in Nat
<1>1. Len(q) \in Nat /\ DOMAIN q = 1..Len(q)
  OBVIOUS
<1>2. IsFiniteSet(DOMAIN q)
  BY <1>1, FS_Interval
<1> QED  BY <1>2, FS_Subset, FS_CardinalityType

\* How many elements of a queue are in a set is a number.
LEMMA CountNat ==
  ASSUME NEW T, NEW q \in Seq(T), NEW S
  PROVE  Count(q, S) \in Nat
BY PlacesFinite DEF Count

\* A push adds its own element to the count.
LEMMA CountAppend ==
  ASSUME NEW T, NEW q \in Seq(T), NEW e \in T, NEW S
  PROVE  Count(Append(q, e), S) = Count(q, S) + IF e \in S THEN 1 ELSE 0
<1>. DEFINE K == {k \in DOMAIN q : q[k] \in S}
            L == {k \in DOMAIN Append(q, e) : Append(q, e)[k] \in S}
<1>1. /\ Len(q) \in Nat /\ DOMAIN q = 1..Len(q) /\ DOMAIN Append(q, e) = 1..Len(q) + 1
      /\ \A k \in 1..Len(q) : Append(q, e)[k] = q[k]
      /\ Append(q, e)[Len(q) + 1] = e
  OBVIOUS
<1>2. IsFiniteSet(K) /\ Cardinality(K) \in Nat
  BY PlacesFinite
<1>3. Len(q) + 1 \notin K
  BY <1>1
<1>3a. Count(q, S) = Cardinality(K) /\ Count(Append(q, e), S) = Cardinality(L)
  BY DEF Count
<1>4. CASE e \in S
  <2>1. L = K \cup {Len(q) + 1}
    BY <1>1, <1>4
  <2> HIDE DEF K, L
  <2> QED  BY <2>1, <1>2, <1>3, <1>3a, <1>4, FS_AddElement
<1>5. CASE e \notin S
  <2>1. L = K
    BY <1>1, <1>5
  <2> HIDE DEF K, L
  <2> QED  BY <2>1, <1>2, <1>3a, <1>5
<1> QED  BY <1>4, <1>5

\* A pop takes its own element from the count.
LEMMA CountTail ==
  ASSUME NEW T, NEW q \in Seq(T), q # <<>>, NEW S
  PROVE  Count(q, S) = Count(Tail(q), S) + IF Head(q) \in S THEN 1 ELSE 0
<1>. DEFINE K == {k \in DOMAIN Tail(q) : Tail(q)[k] \in S}
            L == {k \in DOMAIN q : q[k] \in S}
            f == [k \in K |-> k + 1]
<1>1. /\ Len(q) \in Nat \ {0} /\ DOMAIN q = 1..Len(q) /\ DOMAIN Tail(q) = 1..Len(q) - 1
      /\ Tail(q) \in Seq(T) /\ Head(q) = q[1]
      /\ \A k \in 1..Len(q) - 1 : Tail(q)[k] = q[k + 1]
  OBVIOUS
<1>2. IsFiniteSet(K) /\ Cardinality(K) \in Nat
  BY <1>1, PlacesFinite
<1>3. f \in [K -> L \ {1}]
  BY <1>1
<1>4. \A x, y \in K : f[x] = f[y] => x = y
  BY <1>1
<1>5. \A y \in L \ {1} : \E x \in K : f[x] = y
  <2>1. SUFFICES ASSUME NEW y \in L \ {1} PROVE y - 1 \in K /\ f[y - 1] = y
    OBVIOUS
  <2>2. y - 1 \in 1..Len(q) - 1 /\ (y - 1) + 1 = y /\ q[y] \in S
    BY <1>1
  <2>3. y - 1 \in K
    BY <1>1, <2>2
  <2> QED  BY <2>2, <2>3
<1>6. IsFiniteSet(L \ {1}) /\ Cardinality(L \ {1}) = Cardinality(K)
  <2> HIDE DEF K, L, f
  <2> QED  BY <1>2, <1>3, <1>4, <1>5, SameCount
<1>6a. Count(q, S) = Cardinality(L) /\ Count(Tail(q), S) = Cardinality(K)
  BY DEF Count
<1>7. CASE Head(q) \in S
  <2>1. L = (L \ {1}) \cup {1} /\ 1 \notin L \ {1}
    BY <1>1, <1>7
  <2>2. Cardinality(L) = Cardinality(L \ {1}) + 1
    <3> HIDE DEF L
    <3> QED  BY <2>1, <1>6, FS_AddElement
  <2> HIDE DEF K, L
  <2> QED  BY <2>2, <1>2, <1>6, <1>6a, <1>7
<1>8. CASE Head(q) \notin S
  <2>1. L \ {1} = L
    BY <1>1, <1>8
  <2> HIDE DEF K, L
  <2>2. Cardinality(L) = Cardinality(K)
    BY <2>1, <1>6
  <2> QED  BY <2>2, <1>2, <1>6a, <1>8
<1> QED  BY <1>7, <1>8

\* A set of numbers with a bound has a greatest one.
LEMMA GreatestExists ==
  ASSUME NEW n \in Nat, NEW S \in SUBSET (1..n), S # {}
  PROVE  \E g \in S : \A k \in S : k <= g
<1>. DEFINE G == {m \in Nat : \A Q \in SUBSET (1..m) : Q # {} => \E g \in Q : \A k \in Q : k <= g}
<1>1. 0 \in G
  <2>1. 1..0 = {}
    OBVIOUS
  <2>2. \A Q \in SUBSET (1..0) : Q = {}
    BY <2>1
  <2> QED  BY <2>2
<1>2. ASSUME NEW m \in Nat, m \in G PROVE m + 1 \in G
  <2>1. SUFFICES ASSUME NEW Q \in SUBSET (1..m + 1), Q # {}
                 PROVE  \E g \in Q : \A k \in Q : k <= g
    OBVIOUS
  <2>2. CASE m + 1 \in Q
    BY <2>2
  <2>3. CASE m + 1 \notin Q
    <3>1. Q \in SUBSET (1..m)
      BY <2>3
    <3> QED  BY <3>1, <1>2, <2>1
  <2> QED  BY <2>2, <2>3
<1> HIDE DEF G
<1>3. n \in G
  BY <1>1, <1>2, AllNumbers
<1> QED  BY <1>3 DEF G

\* What HandleMessage() answers, given the login state that the earlier requests made,
\* is the reply of a server with one thread, and the state it leaves is the next one
\* (BankServer.cpp:78-125).
LEMMA InOrderIsAnswer ==
  ASSUME NEW i \in Requests
  PROVE  Answer(i, LoggedInBefore(i)) = <<InOrder(i), LoggedInBefore(i + 1)>>
<1>. DEFINE before(j) == {k \in 1..(j - 1) : Business[k] \in {"login", "logout"}}
            last(j) == CHOOSE k \in before(j) : \A l \in before(j) : l <= k
<1>1. i \in 1..Len(Business) /\ Len(Business) \in Nat /\ Business[i] \in {"login", "query", "logout"}
  BY FlowAssumption, BusinessSeq
<1>2. \A j : LoggedInBefore(j) <=> before(j) # {} /\ Business[last(j)] = "login"
  BY DEF LoggedInBefore
<1>3. \A j : LoggedInBefore(j) \in BOOLEAN
  BY DEF LoggedInBefore
<1>4. CASE Business[i] = "query"
  <2>1. before(i + 1) = before(i)
    BY <1>1, <1>4
  <2>2. LoggedInBefore(i + 1) = LoggedInBefore(i)
    <3> HIDE DEF before
    <3> QED  BY <2>1, <1>2, <1>3
  <2> QED  BY <2>2, <1>3, <1>4 DEF Answer, InOrder
<1>5. CASE Business[i] \in {"login", "logout"}
  <2>1. i \in before(i + 1) /\ \A l \in before(i + 1) : l <= i /\ l \in Nat
    BY <1>1, <1>5
  <2>2. last(i + 1) = i
    <3>1. \A k \in before(i + 1) : (\A l \in before(i + 1) : l <= k) => k = i
      BY <2>1, <1>1
    <3> HIDE DEF before
    <3> QED  BY <2>1, <3>1
  <2>3. LoggedInBefore(i + 1) <=> Business[i] = "login"
    <3> HIDE DEF before, last
    <3> QED  BY <2>1, <2>2, <1>2
  <2>4. CASE Business[i] = "login"
    BY <2>3, <2>4, <1>3 DEF Answer, InOrder
  <2>5. CASE Business[i] = "logout"
    BY <2>3, <2>5, <1>3 DEF Answer, InOrder
  <2> QED  BY <1>5, <2>4, <2>5
<1> QED  BY <1>1, <1>4, <1>5

\* Before its first request a user is not logged in.
LEMMA NotLoggedInAtFirst == LoggedInBefore(1) = FALSE
BY DEF LoggedInBefore

\* pickmessage() at the end of a request finds the next one and nothing else: a
\* header that is not whole never passes its test of the size (Buffer.cpp:66-79).
LEMMA PickedIsNext ==
  ASSUME NEW p \in 0..Len(Business), NEW to \in Nat, EndOf[p] <= to, to <= EndOf[Len(Business)],
         NEW next \in PickMessage(EndOf[p], to)
  PROVE  p + 1 \in Requests /\ next = EndOf[p + 1] /\ next <= to
<1>1. EndOf[p] \in Nat /\ EndOf[Len(Business)] \in Nat /\ HeadUnits \in Nat \ {0} /\ Len(Business) \in Nat
  BY EndOfNat, BusinessSeq, FlowAssumption
<1>2. PICK len \in HeaderLen(EndOf[p], to) : /\ to > EndOf[p] /\ to - EndOf[p] >= len + HeadUnits
                                            /\ next = EndOf[p] + HeadUnits + len
  BY DEF PickMessage, Whole
<1>3. p + 1 \in 1..Len(Business) /\ (p + 1) - 1 = p
  BY <1>1, <1>2
<1>4. Size[p + 1] \in Nat /\ EndOf[p + 1] = EndOf[p] + HeadUnits + Size[p + 1]
  BY <1>3, EndOfSteps, FlowAssumption, BusinessSeq
<1>5. to - EndOf[p] >= HeadUnits
  <2>1. SUFFICES ASSUME ~ (to - EndOf[p] >= HeadUnits) PROVE FALSE
    OBVIOUS
  <2>2. len \in 0..Len(Stream)
    BY <2>1 DEF HeaderLen
  <2>3. len \in Nat
    BY <2>2, <1>1, StreamLen
  <2> QED  BY <2>1, <2>3, <1>1, <1>2
<1>6. len = Stream[EndOf[p] + 1].len
  BY <1>5 DEF HeaderLen
<1>7. EndOf[p] + 1 \in EndOf[(p + 1) - 1] + 1..EndOf[p + 1] /\ EndOf[p] + 1 <= EndOf[(p + 1) - 1] + HeadUnits
  BY <1>1, <1>3, <1>4
<1>8. Stream[EndOf[p] + 1] = [of |-> p + 1, len |-> Size[p + 1]]
  BY <1>7, <1>3, StreamAt
<1>9. len = Size[p + 1]
  BY <1>6, <1>8
<1> QED  BY <1>1, <1>2, <1>3, <1>4, <1>9, BusinessSeq

\* The types hold at first.
LEMMA FlowInitTypes == FlowInit => FlowTypes
<1> SUFFICES ASSUME FlowInit PROVE FlowTypes
  OBVIOUS
<1>1. EndOf[0] = 0 /\ Len(Business) \in Nat /\ Window \in Nat
  BY EndOfSteps, BusinessSeq, FlowAssumption
<1>2. \A T : <<>> \in Seq(T)
  OBVIOUS
<1>3. Len(<<>>) = 0
  OBVIOUS
<1>4. /\ pipelines \in BOOLEAN /\ login \in BOOLEAN
      /\ written \in 0..Len(Business) /\ arrived \in 0..EndOf[written] /\ readto \in 0..arrived
  <2>1. written = 0 /\ arrived = 0 /\ readto = 0 /\ pipelines \in BOOLEAN /\ login = FALSE
    BY DEF FlowInit
  <2>2. written \in 0..Len(Business) /\ arrived \in 0..EndOf[written] /\ readto \in 0..arrived
    BY <2>1, <1>1
  <2> QED  BY <2>1, <2>2
<1>5. /\ passed \in Seq({Message(EndOf[k - 1], EndOf[k]) : k \in Requests})
      /\ Len(passed) <= Len(Business) /\ taken = EndOf[Len(passed)] /\ taken <= readto
  BY <1>1, <1>2, <1>3 DEF FlowInit
<1>6. /\ tasks \in Seq(Requests) /\ sends \in Seq([of : Requests, text : Spoken, by : Workers])
      /\ Len(wire) <= Window
      /\ got \in Seq(Unit) /\ wire \in Seq(Unit) /\ outputbuffer_ \in Seq(Unit)
  BY <1>1, <1>2, <1>3 DEF FlowInit
<1>7. /\ worker \in [Workers -> [at : {"idle", "message", "reply", "sent"},
                                 of : 0..Len(Business), text : Spoken \cup {"none"}]]
      /\ \A w \in Workers : worker[w].at = "idle" /\ worker[w].of = 0
  BY <1>1 DEF FlowInit
<1> QED  BY <1>4, <1>5, <1>6, <1>7 DEF FlowTypes

\* Reading one unit from the wire leaves the stream as a whole as it was.
LEMMA MovedOn ==
  ASSUME NEW S, NEW g \in Seq(S), NEW w \in Seq(S), w # <<>>
  PROVE  Append(g, Head(w)) \o Tail(w) = g \o w
<1>. DEFINE l == Append(g, Head(w)) \o Tail(w)
            r == g \o w
<1>1. /\ Len(g) \in Nat /\ Len(w) \in Nat \ {0}
      /\ Append(g, Head(w)) \in Seq(S) /\ Tail(w) \in Seq(S)
      /\ Len(Append(g, Head(w))) = Len(g) + 1 /\ Len(Tail(w)) = Len(w) - 1
      /\ \A k \in 1..Len(g) : Append(g, Head(w))[k] = g[k]
      /\ Append(g, Head(w))[Len(g) + 1] = w[1]
      /\ \A k \in 1..Len(w) - 1 : Tail(w)[k] = w[k + 1]
  OBVIOUS
<1>2. l \in Seq(S) /\ Len(l) = Len(g) + Len(w) /\ r \in Seq(S) /\ Len(r) = Len(g) + Len(w)
  BY <1>1, ConcatProperties
<1>3. \A k \in 1..Len(g) + Len(w) : l[k] = r[k]
  <2> SUFFICES ASSUME NEW k \in 1..Len(g) + Len(w) PROVE l[k] = r[k]
    OBVIOUS
  <2>1. CASE k <= Len(g)
    BY <2>1, <1>1, ConcatProperties
  <2>2. CASE k = Len(g) + 1
    <3>1. r[k] = w[1]
      BY <2>2, <1>1, ConcatProperties
    <3>2. l[k] = w[1]
      BY <2>2, <1>1, ConcatProperties
    <3> QED  BY <3>1, <3>2
  <2>3. CASE k > Len(g) + 1
    <3>1. r[k] = w[k - Len(g)]
      BY <2>3, <1>1, ConcatProperties
    <3>2. l[k] = Tail(w)[k - (Len(g) + 1)]
      BY <2>3, <1>1, ConcatProperties
    <3>3. k - (Len(g) + 1) \in 1..Len(w) - 1 /\ (k - (Len(g) + 1)) + 1 = k - Len(g)
      BY <2>3, <1>1
    <3> QED  BY <3>1, <3>2, <3>3, <1>1
  <2> QED  BY <2>1, <2>2, <2>3, <1>1
<1> HIDE DEF l, r
<1>4. l = r
  BY <1>2, <1>3
<1> QED  BY <1>4 DEF l, r

\* Concatenation.
Cat(s, t) == s \o t

\* Concatenation, named so that the provers do not open it.
LEMMA CatAssociative ==
  ASSUME NEW S, NEW s \in Seq(S), NEW t \in Seq(S), NEW u \in Seq(S)
  PROVE  Cat(Cat(s, t), u) = Cat(s, Cat(t, u)) /\ Cat(s, t) \in Seq(S)
BY SMT DEF Cat

\* Four pieces of a stream may be grouped in pairs.
LEMMA Regrouped ==
  ASSUME NEW S, NEW g \in Seq(S), NEW w \in Seq(S), NEW a \in Seq(S), NEW b \in Seq(S)
  PROVE  Cat(Cat(g, Cat(w, a)), b) = Cat(Cat(g, w), Cat(a, b))
<1>1. Cat(w, a) \in Seq(S) /\ Cat(a, b) \in Seq(S)
  BY CatAssociative
<1>2. Cat(Cat(g, Cat(w, a)), b) = Cat(g, Cat(Cat(w, a), b))
  BY <1>1, CatAssociative
<1>3. Cat(Cat(w, a), b) = Cat(w, Cat(a, b))
  BY CatAssociative
<1>4. Cat(g, Cat(w, Cat(a, b))) = Cat(Cat(g, w), Cat(a, b))
  BY <1>1, CatAssociative
<1> QED  BY <1>2, <1>3, <1>4

\* Sending a part of the output buffer leaves the stream as a whole as it was.
LEMMA SentOn ==
  ASSUME NEW S, NEW g \in Seq(S), NEW w \in Seq(S), NEW o \in Seq(S), NEW n \in 0..Len(o)
  PROVE  /\ SubSeq(o, 1, n) \in Seq(S) /\ Len(SubSeq(o, 1, n)) = n
         /\ SubSeq(o, n + 1, Len(o)) \in Seq(S)
         /\ Cat(Cat(g, Cat(w, SubSeq(o, 1, n))), SubSeq(o, n + 1, Len(o))) = Cat(Cat(g, w), o)
<1>. DEFINE a == SubSeq(o, 1, n)
            b == SubSeq(o, n + 1, Len(o))
<1>1. Len(o) \in Nat
  OBVIOUS
<1>2. a \in Seq(S) /\ b \in Seq(S) /\ Len(a) = n
  <2>1. \A i \in 1..n : o[i] \in S
    BY <1>1
  <2>2. \A i \in n + 1..Len(o) : o[i] \in S
    BY <1>1
  <2>3. a \in Seq(S) /\ Len(a) = IF 1 <= n THEN n - 1 + 1 ELSE 0
    BY <2>1, SubSeqProperties
  <2>4. b \in Seq(S)
    BY <2>2, SubSeqProperties, <1>1
  <2> QED  BY <2>3, <2>4
<1>3. Cat(a, b) = o
  <2>1. 1 \in 1..Len(o) + 1 /\ n \in 1 - 1..Len(o) /\ Len(o) \in n..Len(o)
    BY <1>1
  <2>2. a \o b = SubSeq(o, 1, Len(o))
    BY <2>1, ConcatAdjacentSubSeq
  <2> QED  BY <2>2, SubSeqFull DEF Cat
<1> HIDE DEF a, b
<1>8. Cat(Cat(g, Cat(w, a)), b) = Cat(Cat(g, w), o)
  <2>1. Cat(Cat(g, Cat(w, a)), b) = Cat(Cat(g, w), Cat(a, b))
    BY <1>2, Regrouped
  <2> QED  BY <2>1, <1>3
<1> QED  BY <1>2, <1>8 DEF a, b

\* The client's read moves one unit and changes none.
LEMMA ReadsKeep ==
  ASSUME FlowTypes, ClientReads
  PROVE  All' = All /\ got' \in Seq(Unit) /\ wire' \in Seq(Unit) /\ Len(wire') <= Window
<1>1. got \in Seq(Unit) /\ wire \in Seq(Unit) /\ Len(wire) <= Window /\ Window \in Nat
  BY FlowAssumption DEF FlowTypes
<1>2. wire # <<>> /\ got' = Append(got, Head(wire)) /\ wire' = Tail(wire) /\ outputbuffer_' = outputbuffer_
  BY DEF ClientReads
<1>3. got' \o wire' = got \o wire
  BY <1>1, <1>2, MovedOn
<1>4. Head(wire) \in Unit /\ Tail(wire) \in Seq(Unit) /\ Len(Tail(wire)) = Len(wire) - 1 /\ Len(wire) \in Nat
  BY <1>1, <1>2
<1>5. got' \in Seq(Unit) /\ wire' \in Seq(Unit) /\ Len(wire') <= Window
  BY <1>1, <1>2, <1>4
<1> QED  BY <1>2, <1>3, <1>5 DEF All, Sent

\* writecallback() moves what it sends and changes nothing (Connection.cpp:109-120).
LEMMA WritesKeep ==
  ASSUME FlowTypes, WriteCallback, got' = got
  PROVE  All' = All /\ wire' \in Seq(Unit) /\ outputbuffer_' \in Seq(Unit) /\ Len(wire') <= Window
<1>1. /\ got \in Seq(Unit) /\ wire \in Seq(Unit) /\ outputbuffer_ \in Seq(Unit)
      /\ Len(wire) <= Window /\ Window \in Nat
  BY FlowAssumption DEF FlowTypes
<1>. DEFINE n == IF Len(outputbuffer_) <= Window - Len(wire) THEN Len(outputbuffer_) ELSE Window - Len(wire)
<1>2. n \in 0..Len(outputbuffer_) /\ Len(wire) \in Nat /\ Len(wire) + n <= Window
  BY <1>1
<1>3. /\ wire' = wire \o SubSeq(outputbuffer_, 1, n)
      /\ outputbuffer_' = SubSeq(outputbuffer_, n + 1, Len(outputbuffer_))
  BY DEF WriteCallback, Erase
<1> HIDE DEF n
<1>4. All' = All /\ outputbuffer_' \in Seq(Unit)
  <2>1. /\ SubSeq(outputbuffer_, n + 1, Len(outputbuffer_)) \in Seq(Unit)
        /\ Cat(Cat(got, Cat(wire, SubSeq(outputbuffer_, 1, n))), SubSeq(outputbuffer_, n + 1, Len(outputbuffer_)))
             = Cat(Cat(got, wire), outputbuffer_)
    BY <1>1, <1>2, SentOn
  <2>2. All = Cat(Cat(got, wire), outputbuffer_) /\ All' = Cat(Cat(got', wire'), outputbuffer_')
    BY DEF All, Sent, Cat
  <2>3. wire' = Cat(wire, SubSeq(outputbuffer_, 1, n))
    BY <1>3 DEF Cat
  <2> QED  BY <1>3, <2>1, <2>2, <2>3, Zenon
<1>5. wire' \in Seq(Unit) /\ Len(wire') = Len(wire) + n
  <2>1. SubSeq(outputbuffer_, 1, n) \in Seq(Unit) /\ Len(SubSeq(outputbuffer_, 1, n)) = n
    BY <1>1, <1>2, SentOn
  <2> QED  BY <1>1, <1>3, <2>1, ConcatProperties
<1> QED  BY <1>2, <1>4, <1>5

\* The conjuncts of FlowTypes, by what they speak of.
StreamTypes ==
  /\ pipelines \in BOOLEAN /\ login \in BOOLEAN
  /\ written \in 0..Len(Business)
  /\ arrived \in 0..EndOf[written] /\ readto \in 0..arrived
  /\ passed \in Seq({Message(EndOf[k - 1], EndOf[k]) : k \in Requests})
  /\ Len(passed) <= Len(Business)
  /\ taken = EndOf[Len(passed)] /\ taken <= readto
BankTypes ==
  /\ tasks \in Seq(Requests)
  /\ worker \in [Workers -> [at : {"idle", "message", "reply", "sent"},
                             of : 0..Len(Business), text : Spoken \cup {"none"}]]
  /\ \A w \in Workers : /\ worker[w].at # "idle" => worker[w].of # 0
                        /\ worker[w].at = "idle" => worker[w].of = 0
                        /\ worker[w].at \in {"reply", "sent"} => worker[w].text \in Spoken
  /\ sends \in Seq([of : Requests, text : Spoken, by : Workers])
ReplyTypes == /\ Len(wire) <= Window
              /\ got \in Seq(Unit) /\ wire \in Seq(Unit) /\ outputbuffer_ \in Seq(Unit)

\* The three parts are the whole.
LEMMA TypesSplit == FlowTypes <=> StreamTypes /\ BankTypes /\ ReplyTypes
BY DEF FlowTypes, StreamTypes, BankTypes, ReplyTypes

\* What each part of the types is about.
streamVars == <<pipelines, written, arrived, input>>
replyVars == <<got, wire, outputbuffer_>>

\* A part of the types that a step leaves alone stays: the requests' direction.
LEMMA StreamStays == StreamTypes /\ UNCHANGED streamVars /\ login' \in BOOLEAN => StreamTypes'
BY DEF StreamTypes, streamVars, input

\* The same of the bank.
LEMMA BankStays == BankTypes /\ UNCHANGED <<tasks, worker, sends>> => BankTypes'
BY DEF BankTypes

\* The same of the replies' direction.
LEMMA RepliesStay == ReplyTypes /\ UNCHANGED replyVars => ReplyTypes'
BY DEF ReplyTypes, replyVars

\* The server holds no more than the client has written.
LEMMA StreamGrows == StreamTypes => /\ written + 1 <= Len(Business) => EndOf[written] <= EndOf[written + 1]
                                    /\ EndOf[written] \in Nat /\ EndOf[written] <= EndOf[Len(Business)]
                                    /\ EndOf[Len(Business)] \in Nat /\ Len(passed) <= written
<1> SUFFICES ASSUME StreamTypes
             PROVE  /\ written + 1 <= Len(Business) => EndOf[written] <= EndOf[written + 1]
                    /\ EndOf[written] \in Nat /\ EndOf[written] <= EndOf[Len(Business)]
                    /\ EndOf[Len(Business)] \in Nat /\ Len(passed) <= written
  OBVIOUS
<1>1. /\ written \in 0..Len(Business) /\ Len(Business) \in Nat /\ HeadUnits \in Nat \ {0}
      /\ Len(passed) \in 0..Len(Business)
      /\ EndOf[Len(passed)] <= EndOf[written]
  <2>1. Len(Business) \in Nat /\ HeadUnits \in Nat \ {0}
    BY BusinessSeq, FlowAssumption
  <2>2. written \in 0..Len(Business) /\ Len(passed) \in 0..Len(Business)
    BY <2>1 DEF StreamTypes
  <2>3. arrived \in 0..EndOf[written] /\ readto \in 0..arrived /\ EndOf[Len(passed)] <= readto
    BY DEF StreamTypes
  <2>4. EndOf[Len(passed)] \in Nat /\ EndOf[written] \in Nat
    BY <2>2, EndOfNat
  <2> QED  BY <2>1, <2>2, <2>3, <2>4
<1>2. EndOf[written] \in Nat /\ EndOf[Len(Business)] \in Nat /\ EndOf[Len(passed)] \in Nat
  BY <1>1, EndOfNat
<1>3. written + 1 <= Len(Business) => EndOf[written] <= EndOf[written + 1]
  <2> SUFFICES ASSUME written + 1 <= Len(Business) PROVE EndOf[written] <= EndOf[written + 1]
    OBVIOUS
  <2>1. written + 1 \in 0..Len(Business) /\ written < written + 1
    BY <1>1
  <2>2. EndOf[written] + HeadUnits <= EndOf[written + 1]
    BY <1>1, <2>1, EndOfGrows
  <2>3. EndOf[written + 1] \in Nat
    BY <2>1, EndOfNat
  <2> QED  BY <1>1, <1>2, <2>2, <2>3
<1>4. EndOf[written] <= EndOf[Len(Business)]
  <2>1. CASE written = Len(Business)
    BY <2>1, <1>2
  <2>2. CASE written < Len(Business)
    <3>1. EndOf[written] + HeadUnits <= EndOf[Len(Business)]
      BY <1>1, <2>2, EndOfGrows
    <3> QED  BY <3>1, <1>1, <1>2
  <2> QED  BY <1>1, <2>1, <2>2
<1>5. Len(passed) <= written
  <2>1. SUFFICES ASSUME written < Len(passed) PROVE FALSE
    BY <1>1
  <2>2. EndOf[written] + HeadUnits <= EndOf[Len(passed)]
    BY <1>1, <2>1, EndOfGrows
  <2> QED  BY <1>1, <1>2, <2>2
<1> QED  BY <1>2, <1>3, <1>4, <1>5

\* What sendinloop() leaves for each queued reply: a header, then the content.
LEMMA FramingAt ==
  ASSUME BankTypes, NEW texts
  PROVE  /\ DOMAIN Framing(texts) = 1..2 * Len(sends) /\ Len(sends) \in Nat
         /\ \A s \in 1..Len(sends) :
              /\ Framing(texts)[2 * s - 1] = [of |-> sends[s].of, text |-> "header"]
              /\ Framing(texts)[2 * s] = [of |-> sends[s].of, text |-> texts[s]]
<1>1. Len(sends) \in Nat
  BY DEF BankTypes
<1>2. ASSUME NEW s \in 1..Len(sends)
      PROVE  /\ Framing(texts)[2 * s - 1] = [of |-> sends[s].of, text |-> "header"]
             /\ Framing(texts)[2 * s] = [of |-> sends[s].of, text |-> texts[s]]
  <2>1. /\ 2 * s - 1 \in 1..2 * Len(sends) /\ ((2 * s - 1) + 1) \div 2 = s /\ (2 * s - 1) % 2 = 1
        /\ 2 * s \in 1..2 * Len(sends) /\ (2 * s + 1) \div 2 = s /\ (2 * s) % 2 = 0
    BY <1>1
  <2> QED  BY <2>1 DEF Framing, Reply
<1> QED  BY <1>1, <1>2 DEF Framing

\* The units of a stream of pairs, by pair.
LEMMA Halves ==
  ASSUME NEW n \in Nat, NEW k \in 1..2 * n
  PROVE  \E s \in 1..n : k = 2 * s - 1 \/ k = 2 * s
<1>1. k = 2 * ((k + 1) \div 2) - 1 \/ k = 2 * ((k + 1) \div 2)
  OBVIOUS
<1>2. (k + 1) \div 2 \in 1..n
  OBVIOUS
<1> QED  BY <1>1, <1>2

\* What sendinloop() appends is the replies' units, or spoilt ones.
LEMMA FramingTypes ==
  ASSUME BankTypes, NEW texts, \A k \in DOMAIN sends : texts[k] \in Memory(sends[k])
  PROVE  /\ Framing(texts) \in Seq(Unit) /\ Len(Framing(texts)) = 2 * Len(sends)
         /\ \A k \in 1..Len(sends) : /\ texts[k] \in {sends[k].text, Junk} /\ texts[k] # "header"
                                    /\ sends[k].of \in Requests
<1>1. /\ sends \in Seq([of : Requests, text : Spoken, by : Workers]) /\ Len(sends) \in Nat
      /\ DOMAIN sends = 1..Len(sends)
  BY DEF BankTypes
<1>2. ASSUME NEW k \in 1..Len(sends)
      PROVE  texts[k] \in {sends[k].text, Junk} /\ sends[k] \in [of : Requests, text : Spoken, by : Workers]
  <2>1. texts[k] \in Memory(sends[k])
    BY <1>1
  <2>2. Memory(sends[k]) \subseteq {sends[k].text, Junk}
    BY DEF Memory
  <2>3. sends[k] \in [of : Requests, text : Spoken, by : Workers]
    <3> DEFINE R == [of : Requests, text : Spoken, by : Workers]
    <3>1. sends \in Seq(R)
      BY <1>1
    <3> HIDE DEF R
    <3>2. sends[k] \in R
      BY <1>1, <3>1
    <3> QED  BY <3>2 DEF R
  <2> QED  BY <2>1, <2>2, <2>3
<1>3. ASSUME NEW k \in 1..2 * Len(sends) PROVE Framing(texts)[k] \in Unit
  <2>1. PICK s \in 1..Len(sends) : k = 2 * s - 1 \/ k = 2 * s
    BY <1>1, Halves
  <2>2. \/ Framing(texts)[k] = [of |-> sends[s].of, text |-> "header"]
        \/ Framing(texts)[k] = [of |-> sends[s].of, text |-> texts[s]]
    BY <2>1, FramingAt
  <2> QED  BY <2>2, <1>2 DEF Unit
<1>4. Framing(texts) \in [1..2 * Len(sends) -> Unit]
  <2>1. Framing(texts) = [k \in 1..2 * Len(sends) |-> Framing(texts)[k]]
    BY DEF Framing
  <2> QED  BY <1>3, <2>1
<1>5. 2 * Len(sends) \in Nat
  BY <1>1
<1>6. ASSUME NEW k \in 1..Len(sends) PROVE texts[k] # "header"
  BY <1>2, FlowAssumption DEF Spoken
<1> QED  BY <1>2, <1>4, <1>5, <1>6

\* An answer is a reply's text and a login state.
LEMMA AnswerTypes ==
  ASSUME NEW i \in Requests, NEW in \in BOOLEAN
  PROVE  Answer(i, in)[1] \in Spoken /\ Answer(i, in)[2] \in BOOLEAN
<1>1. Business[i] \in {"login", "query", "logout"}
  BY FlowAssumption, BusinessSeq
<1>2. CASE Business[i] = "login"
  BY <1>2 DEF Answer, Spoken
<1>3. CASE Business[i] = "query"
  BY <1>3 DEF Answer, Spoken
<1>4. CASE Business[i] = "logout"
  BY <1>4 DEF Answer, Spoken
<1> QED  BY <1>1, <1>2, <1>3, <1>4

\* Every step keeps the types.
LEMMA TypesStep == FlowTypes /\ [FlowNext]_flowVars => FlowTypes'
<1> SUFFICES ASSUME FlowTypes, [FlowNext]_flowVars PROVE FlowTypes'
  OBVIOUS
<1>0. StreamTypes /\ BankTypes /\ ReplyTypes
  BY TypesSplit
<1> USE DEF client, bank, turnVars, input, streamVars, replyVars
<1>t. login \in BOOLEAN
  BY <1>0 DEF StreamTypes
<1>p. StreamTypes' /\ BankTypes' /\ ReplyTypes' => FlowTypes'
  BY DEF FlowTypes, StreamTypes, BankTypes, ReplyTypes
<1>1. CASE Write
  <2>1. written' = written + 1 /\ written < Len(Business) /\ UNCHANGED <<pipelines, arrived, input, login>>
    BY <1>1 DEF Write
  <2>2. StreamTypes'
    <3>1. Len(Business) \in Nat
      BY BusinessSeq
    <3>2. written' \in 0..Len(Business) /\ EndOf[written] <= EndOf[written'] /\ EndOf[written'] \in Nat
      BY <1>0, <2>1, <3>1, StreamGrows, EndOfNat DEF StreamTypes
    <3>3. arrived' \in 0..EndOf[written']
      BY <1>0, <2>1, <3>2, StreamGrows DEF StreamTypes
    <3> QED  BY <1>0, <2>1, <3>2, <3>3 DEF StreamTypes
  <2> QED  BY <1>0, <1>1, <2>2, <1>p, BankStays, RepliesStay DEF Write
<1>2. CASE Arrive
  <2>1. arrived' \in arrived + 1..EndOf[written] /\ UNCHANGED <<pipelines, written, input, login>>
    BY <1>2 DEF Arrive
  <2>2. StreamTypes'
    <3>1. EndOf[written] \in Nat
      BY <1>0, StreamGrows
    <3> QED  BY <1>0, <2>1, <3>1 DEF StreamTypes
  <2> QED  BY <1>0, <1>2, <2>2, <1>p, BankStays, RepliesStay DEF Arrive
<1>3. CASE HangUp
  BY <1>0, <1>t, <1>3, <1>p, StreamStays, BankStays, RepliesStay DEF HangUp
<1>4. CASE ClientReads
  <2>1. ReplyTypes'
    BY <1>0, <1>4, ReadsKeep DEF ReplyTypes, ClientReads
  <2> QED  BY <1>0, <1>t, <1>4, <2>1, <1>p, StreamStays, BankStays DEF ClientReads
<1>5. CASE EpollWait
  BY <1>0, <1>t, <1>5, <1>p, StreamStays, BankStays, RepliesStay DEF EpollWait
<1>6. CASE HandleEvent
  <2>1. UNCHANGED <<pipelines, written, arrived, fin, got, taken, passed, tasks, sends, worker, login>>
    BY <1>6 DEF HandleEvent
  <2>2. BankTypes'
    BY <1>0, <2>1, BankStays
  <2>3. CASE (OnMessage \/ CloseCallback) /\ UNCHANGED <<wire, outputbuffer_>>
    <3>1. readto' = arrived
      BY <2>3 DEF OnMessage, CloseCallback
    <3>2. StreamTypes'
      <4>1. EndOf[written] \in Nat
        BY <1>0, StreamGrows
      <4>2. EndOf[Len(passed)] \in Nat
        BY <1>0, EndOfNat, BusinessSeq DEF StreamTypes
      <4> QED  BY <1>0, <2>1, <3>1, <4>1, <4>2 DEF StreamTypes
    <3> QED  BY <1>0, <2>1, <2>2, <2>3, <3>2, <1>p, RepliesStay
  <2>4. CASE WriteCallback /\ UNCHANGED readto
    <3>1. ReplyTypes'
      BY <1>0, <2>1, <2>4, WritesKeep DEF ReplyTypes
    <3>2. StreamTypes'
      BY <1>0, <2>1, <2>4 DEF StreamTypes
    <3> QED  BY <2>2, <3>1, <3>2, <1>p
  <2> QED  BY <1>6, <2>3, <2>4 DEF HandleEvent
<1>7. CASE PickOne
  <2>1. PICK next \in PickMessage(taken, readto) :
          /\ taken' = next
          /\ passed' = Append(passed, Message(taken, next))
          /\ tasks' = Append(tasks, Len(passed) + 1)
    BY <1>7 DEF PickOne
  <2>2. UNCHANGED <<pipelines, written, arrived, readto, login, worker, sends, got, wire, outputbuffer_>>
    BY <1>7 DEF PickOne
  <2>3. Len(passed) + 1 \in Requests /\ next = EndOf[Len(passed) + 1] /\ next <= readto
    <3>1. /\ Len(passed) \in 0..Len(Business) /\ readto \in Nat /\ taken = EndOf[Len(passed)]
          /\ EndOf[Len(passed)] <= readto /\ readto <= EndOf[Len(Business)]
      <4>1. EndOf[written] \in Nat /\ EndOf[written] <= EndOf[Len(Business)] /\ EndOf[Len(Business)] \in Nat
        BY <1>0, StreamGrows
      <4>2. Len(passed) \in Nat
        BY <1>0 DEF StreamTypes
      <4> QED  BY <1>0, <4>1, <4>2 DEF StreamTypes
    <3> QED  BY <2>1, <3>1, PickedIsNext
  <2>4. StreamTypes'
    <3>. DEFINE M == {Message(EndOf[k - 1], EndOf[k]) : k \in Requests}
    <3>1. passed \in Seq(M) /\ Len(passed) \in Nat /\ Len(Business) \in Nat /\ Requests = 1..Len(Business)
      BY <1>0, BusinessSeq DEF StreamTypes
    <3>2. taken = EndOf[(Len(passed) + 1) - 1]
      BY <1>0, <3>1 DEF StreamTypes
    <3>3. Message(taken, next) \in M
      BY <2>3, <3>2
    <3> HIDE DEF M
    <3>4. passed' \in Seq(M) /\ Len(passed') = Len(passed) + 1
      BY <2>1, <3>1, <3>3
    <3>5. taken' = EndOf[Len(passed')] /\ taken' <= readto' /\ Len(passed') <= Len(Business)
      BY <2>1, <2>2, <2>3, <3>1, <3>4
    <3> QED  BY <1>0, <2>2, <3>4, <3>5 DEF StreamTypes, M
  <2>5. BankTypes'
    BY <1>0, <2>1, <2>2, <2>3 DEF BankTypes
  <2> QED  BY <1>0, <2>2, <2>4, <2>5, <1>p, RepliesStay
<1>8. CASE PickNone
  BY <1>0, <1>t, <1>8, <1>p, BankStays, RepliesStay DEF PickNone, StreamTypes
<1>9. CASE HandleWakeup
  <2>1. PICK texts \in [DOMAIN sends -> UNION {Memory(sends[k]) : k \in DOMAIN sends}] :
          /\ \A k \in DOMAIN sends : texts[k] \in Memory(sends[k])
          /\ outputbuffer_' = outputbuffer_ \o Framing(texts)
    BY <1>9 DEF HandleWakeup, Framing
  <2>2. sends' = <<>> /\ UNCHANGED <<pipelines, written, arrived, input, got, wire, tasks, worker, login>>
    BY <1>9 DEF HandleWakeup
  <2>3. Framing(texts) \in Seq(Unit)
    BY <1>0, <2>1, FramingTypes
  <2>4. ReplyTypes'
    BY <1>0, <2>1, <2>2, <2>3, ConcatProperties DEF ReplyTypes
  <2>5. BankTypes'
    BY <1>0, <2>2 DEF BankTypes
  <2> QED  BY <1>0, <1>t, <2>2, <2>4, <2>5, <1>p, StreamStays
<1>10. ASSUME NEW w \in Workers, Take(w) PROVE FlowTypes'
  <2>1. /\ tasks # <<>> /\ tasks' = Tail(tasks) /\ sends' = sends
        /\ worker' = [worker EXCEPT ![w] = [at |-> "message", of |-> Head(tasks), text |-> "none"]]
    BY <1>10 DEF Take
  <2>2. Head(tasks) \in Requests /\ Tail(tasks) \in Seq(Requests) /\ Requests = 1..Len(Business) /\ Len(Business) \in Nat
    BY <1>0, <2>1, BusinessSeq DEF BankTypes
  <2>3. BankTypes'
    BY <1>0, <2>1, <2>2 DEF BankTypes
  <2> QED  BY <1>0, <1>t, <1>10, <2>3, <1>p, StreamStays, RepliesStay DEF Take
<1>11. ASSUME NEW w \in Workers, Compute(w) PROVE FlowTypes'
  <2>1. /\ worker[w].at = "message" /\ tasks' = tasks /\ sends' = sends
        /\ login' = Answer(worker[w].of, login)[2]
        /\ worker' = [worker EXCEPT ![w].at = "reply", ![w].text = Answer(worker[w].of, login)[1]]
    BY <1>11 DEF Compute
  <2>2. worker[w].of \in Requests
    BY <1>0, <2>1, BusinessSeq DEF BankTypes
  <2>3. Answer(worker[w].of, login)[1] \in Spoken /\ Answer(worker[w].of, login)[2] \in BOOLEAN
    BY <2>2, <1>t, AnswerTypes
  <2>4. BankTypes'
    BY <1>0, <2>1, <2>3 DEF BankTypes
  <2> QED  BY <1>0, <1>11, <2>1, <2>3, <2>4, <1>p, StreamStays, RepliesStay DEF Compute
<1>12. ASSUME NEW w \in Workers, Send(w) PROVE FlowTypes'
  <2>1. /\ worker[w].at = "reply" /\ tasks' = tasks
        /\ sends' = Append(sends, [of |-> worker[w].of, text |-> worker[w].text, by |-> w])
        /\ worker' = [worker EXCEPT ![w].at = "sent"]
    BY <1>12 DEF Send
  <2>2. worker[w].of \in Requests /\ worker[w].text \in Spoken
    BY <1>0, <2>1, BusinessSeq DEF BankTypes
  <2>3. BankTypes'
    BY <1>0, <2>1, <2>2 DEF BankTypes
  <2> QED  BY <1>0, <1>t, <1>12, <2>3, <1>p, StreamStays, RepliesStay DEF Send
<1>13. ASSUME NEW w \in Workers, Return(w) PROVE FlowTypes'
  <2>1. /\ tasks' = tasks /\ sends' = sends
        /\ worker' = [worker EXCEPT ![w] = [at |-> "idle", of |-> 0, text |-> "none"]]
    BY <1>13 DEF Return
  <2>2. BankTypes'
    BY <1>0, <2>1, BusinessSeq DEF BankTypes
  <2> QED  BY <1>0, <1>t, <1>13, <2>2, <1>p, StreamStays, RepliesStay DEF Return
<1>14. CASE UNCHANGED flowVars
  BY <1>0, <1>14, <1>t, <1>p, StreamStays, BankStays, RepliesStay DEF flowVars
<1> QED  BY <1>1, <1>2, <1>3, <1>4, <1>5, <1>6, <1>7, <1>8, <1>9, <1>10, <1>11, <1>12, <1>13, <1>14
          DEF FlowNext, TurnStep, WorkerStep

\* Every step keeps the messages handed over whole and in order.
LEMMA MessagesStep == FlowTypes /\ MessagesWhole /\ [FlowNext]_flowVars => MessagesWhole'
<1> SUFFICES ASSUME FlowTypes, MessagesWhole, [FlowNext]_flowVars PROVE MessagesWhole'
  OBVIOUS
<1>1. CASE PickOne
  <2>1. PICK next \in PickMessage(taken, readto) : taken' = next /\ passed' = Append(passed, Message(taken, next))
    BY <1>1 DEF PickOne
  <2>. DEFINE M == {Message(EndOf[k - 1], EndOf[k]) : k \in Requests}
  <2>2. passed \in Seq(M) /\ Len(passed) \in Nat /\ taken = EndOf[Len(passed)]
    BY DEF FlowTypes
  <2>3. passed' \in Seq(M) /\ taken' = EndOf[Len(passed')] /\ taken' = next
    <3>1. FlowTypes'
      BY TypesStep
    <3> QED  BY <2>1, <3>1 DEF FlowTypes
  <2> HIDE DEF M
  <2>4. Len(passed') = Len(passed) + 1 /\ DOMAIN passed' = 1..Len(passed) + 1 /\ DOMAIN passed = 1..Len(passed)
    BY <2>1, <2>2
  <2>5. next = EndOf[Len(passed) + 1]
    BY <2>3, <2>4
  <2>6. ASSUME NEW k \in DOMAIN passed' PROVE passed'[k] = Message(EndOf[k - 1], EndOf[k])
    <3>1. CASE k \in 1..Len(passed)
      <4>1. passed'[k] = passed[k]
        BY <2>1, <2>2, <3>1
      <4> QED  BY <3>1, <4>1, <2>4 DEF MessagesWhole
    <3>2. CASE k = Len(passed) + 1
      <4>1. passed'[k] = Message(taken, next) /\ k - 1 = Len(passed)
        BY <2>1, <2>2, <3>2
      <4> QED  BY <3>2, <4>1, <2>2, <2>5
    <3> QED  BY <2>2, <2>4, <3>1, <3>2
  <2> QED  BY <2>6 DEF MessagesWhole, Message
<1>2. CASE passed' = passed
  BY <1>2 DEF MessagesWhole, Message
<1> QED  BY <1>1, <1>2 DEF FlowNext, flowVars, input, TurnStep, WorkerStep, Write, Arrive, HangUp, ClientReads,
            EpollWait, HandleEvent, PickNone, HandleWakeup, Take, Compute, Send, Return

\* The replies written so far are a sequence of units.
LEMMA AllSeq == FlowTypes => /\ All \in Seq(Unit) /\ Len(All) \in Nat /\ DOMAIN All = 1..Len(All)
                             /\ \A k \in DOMAIN All : All[k] \in Unit
<1> SUFFICES ASSUME FlowTypes PROVE All \in Seq(Unit)
  <2> HIDE DEF Unit
  <2> QED  OBVIOUS
<1> QED  BY ConcatProperties DEF FlowTypes, All, Sent

\* Only handlewakeup() adds to the replies; a send() and a read move them.
LEMMA AllStays ==
  ASSUME FlowTypes, [FlowNext]_flowVars, ~ HandleWakeup
  PROVE  All' = All
<1>1. CASE ClientReads
  BY <1>1, ReadsKeep
<1>2. CASE HandleEvent
  <2>1. got' = got
    BY <1>2 DEF HandleEvent, client
  <2>2. CASE WriteCallback
    BY <2>1, <2>2, WritesKeep
  <2>3. CASE UNCHANGED <<wire, outputbuffer_>>
    BY <2>1, <2>3 DEF All, Sent
  <2> QED  BY <1>2, <2>2, <2>3 DEF HandleEvent
<1>3. CASE UNCHANGED <<got, wire, outputbuffer_>>
  BY <1>3 DEF All, Sent
<1> QED  BY <1>1, <1>2, <1>3 DEF FlowNext, flowVars, client, TurnStep, WorkerStep, Write, Arrive, HangUp,
            EpollWait, PickOne, PickNone, Take, Compute, Send, Return

\* handlewakeup() appends a header and a content for each queued reply and changes
\* nothing that was written before.
LEMMA AllGrows ==
  ASSUME FlowTypes, HandleWakeup
  PROVE  \E texts :
           /\ \A s \in 1..Len(sends) : texts[s] \in {sends[s].text, Junk} /\ texts[s] # "header" /\ sends[s].of \in Requests
           /\ Len(sends) \in Nat /\ Len(All) \in Nat /\ DOMAIN All = 1..Len(All)
           /\ Len(All') = Len(All) + 2 * Len(sends) /\ DOMAIN All' = 1..Len(All')
           /\ \A k \in 1..Len(All) : All'[k] = All[k]
           /\ \A s \in 1..Len(sends) :
                /\ All'[Len(All) + (2 * s - 1)] = [of |-> sends[s].of, text |-> "header"]
                /\ All'[Len(All) + 2 * s] = [of |-> sends[s].of, text |-> texts[s]]
<1>0. BankTypes /\ ReplyTypes
  BY TypesSplit
<1>1. PICK texts \in [DOMAIN sends -> UNION {Memory(sends[k]) : k \in DOMAIN sends}] :
        /\ \A k \in DOMAIN sends : texts[k] \in Memory(sends[k])
        /\ outputbuffer_' = outputbuffer_ \o Framing(texts)
  BY DEF HandleWakeup
<1>2. Framing(texts) \in Seq(Unit) /\ Len(Framing(texts)) = 2 * Len(sends) /\ Len(sends) \in Nat
  BY <1>0, <1>1, FramingTypes, FramingAt
<1>3. All' = All \o Framing(texts)
  <2>1. /\ got' = got /\ wire' = wire /\ got \in Seq(Unit) /\ wire \in Seq(Unit) /\ outputbuffer_ \in Seq(Unit)
    BY <1>0 DEF HandleWakeup, client, ReplyTypes
  <2>2. /\ All = Cat(Cat(got, wire), outputbuffer_)
        /\ All' = Cat(Cat(got, wire), Cat(outputbuffer_, Framing(texts)))
    BY <1>1, <2>1 DEF All, Sent, Cat
  <2>3. Cat(got, wire) \in Seq(Unit)
    BY <2>1, CatAssociative
  <2>4. All' = Cat(All, Framing(texts))
    BY <1>2, <2>1, <2>2, <2>3, CatAssociative
  <2> QED  BY <2>4 DEF Cat
<1>4. All \in Seq(Unit) /\ Len(All) \in Nat /\ DOMAIN All = 1..Len(All)
  BY AllSeq
<1>5. /\ All' \in Seq(Unit) /\ Len(All') = Len(All) + 2 * Len(sends)
      /\ \A k \in 1..Len(All) + 2 * Len(sends) :
           All'[k] = IF k <= Len(All) THEN All[k] ELSE Framing(texts)[k - Len(All)]
  BY <1>2, <1>3, <1>4, ConcatProperties
<1>6. DOMAIN All' = 1..Len(All')
  BY <1>5
<1>7. \A k \in 1..Len(All) : All'[k] = All[k]
  BY <1>2, <1>4, <1>5
<1>8. ASSUME NEW s \in 1..Len(sends)
      PROVE  /\ All'[Len(All) + (2 * s - 1)] = [of |-> sends[s].of, text |-> "header"]
             /\ All'[Len(All) + 2 * s] = [of |-> sends[s].of, text |-> texts[s]]
  <2>1. /\ Len(All) + (2 * s - 1) \in 1..Len(All) + 2 * Len(sends) /\ ~ (Len(All) + (2 * s - 1) <= Len(All))
        /\ (Len(All) + (2 * s - 1)) - Len(All) = 2 * s - 1
        /\ Len(All) + 2 * s \in 1..Len(All) + 2 * Len(sends) /\ ~ (Len(All) + 2 * s <= Len(All))
        /\ (Len(All) + 2 * s) - Len(All) = 2 * s
    BY <1>2, <1>4
  <2>2. /\ All'[Len(All) + (2 * s - 1)] = Framing(texts)[2 * s - 1]
        /\ All'[Len(All) + 2 * s] = Framing(texts)[2 * s]
    BY <1>5, <2>1
  <2> QED  BY <2>2, <1>0, FramingAt
<1>9. \A s \in 1..Len(sends) : texts[s] \in {sends[s].text, Junk} /\ texts[s] # "header" /\ sends[s].of \in Requests
  BY <1>0, <1>1, FramingTypes
<1> QED  BY <1>2, <1>4, <1>5, <1>6, <1>7, <1>8, <1>9

\* Every step keeps the replies framed.
LEMMA FramedStep == FlowTypes /\ Framed /\ [FlowNext]_flowVars => Framed'
<1> SUFFICES ASSUME FlowTypes, Framed, [FlowNext]_flowVars PROVE Framed'
  OBVIOUS
<1>1. CASE ~ HandleWakeup
  BY <1>1, AllStays DEF Framed
<1>2. CASE HandleWakeup
  <2>1. PICK texts :
           /\ \A s \in 1..Len(sends) : texts[s] \in {sends[s].text, Junk} /\ texts[s] # "header" /\ sends[s].of \in Requests
           /\ Len(sends) \in Nat /\ Len(All) \in Nat /\ DOMAIN All = 1..Len(All)
           /\ Len(All') = Len(All) + 2 * Len(sends) /\ DOMAIN All' = 1..Len(All')
           /\ \A k \in 1..Len(All) : All'[k] = All[k]
           /\ \A s \in 1..Len(sends) :
                /\ All'[Len(All) + (2 * s - 1)] = [of |-> sends[s].of, text |-> "header"]
                /\ All'[Len(All) + 2 * s] = [of |-> sends[s].of, text |-> texts[s]]
    BY <1>2, AllGrows
  <2>2. PICK m \in Nat : Len(All) = 2 * m
    BY DEF Framed
  <2>3. m + Len(sends) \in Nat /\ Len(All') = 2 * (m + Len(sends))
    BY <2>1, <2>2
  <2>4. ASSUME NEW k \in DOMAIN All'
        PROVE IF k % 2 = 1 THEN All'[k].text = "header" ELSE All'[k].text # "header" /\ All'[k].of = All'[k - 1].of
    <3>1. CASE k <= Len(All)
      <4>1. k \in DOMAIN All /\ All'[k] = All[k]
        BY <2>1, <3>1
      <4>2. k % 2 # 1 => k - 1 \in 1..Len(All) /\ All'[k - 1] = All[k - 1]
        BY <2>1, <4>1
      <4> QED  BY <4>1, <4>2 DEF Framed
    <3>2. CASE k > Len(All)
      <4>1. k - Len(All) \in 1..2 * Len(sends)
        BY <2>1, <2>3, <3>2
      <4>2. PICK s \in 1..Len(sends) : k - Len(All) = 2 * s - 1 \/ k - Len(All) = 2 * s
        BY <2>1, <4>1, Halves
      <4>4. CASE k = Len(All) + (2 * s - 1)
        <5>1. k % 2 = 1
          BY <2>2, <4>4
        <5>2. All'[k].text = "header"
          <6>1. All'[k] = [of |-> sends[s].of, text |-> "header"]
            BY <2>1, <4>4
          <6> QED  BY <6>1
        <5> QED  BY <5>1, <5>2
      <4>5. CASE k = Len(All) + 2 * s
        <5>1. k % 2 # 1 /\ k - 1 = Len(All) + (2 * s - 1)
          BY <2>1, <2>2, <4>5
        <5>2. All'[k].text = texts[s] /\ All'[k].of = sends[s].of
          <6>1. All'[k] = [of |-> sends[s].of, text |-> texts[s]]
            BY <2>1, <4>5
          <6> QED  BY <6>1
        <5>3. All'[k - 1].of = sends[s].of
          <6>1. All'[k - 1] = [of |-> sends[s].of, text |-> "header"]
            BY <2>1, <5>1
          <6> QED  BY <6>1
        <5> QED  BY <2>1, <5>1, <5>2, <5>3
      <4> QED  BY <2>1, <2>3, <4>2, <4>4, <4>5
    <3> QED  BY <2>1, <3>1, <3>2
  <2> QED  BY <2>3, <2>4 DEF Framed
<1> QED  BY <1>1, <1>2

\* Who has request i, and where its replies are.
WorkersOn(i) == {w \in Workers : worker[w].of = i /\ worker[w].at # "sent"}
RepliesFor(i) == {k \in DOMAIN All : All[k].of = i /\ All[k].text = "header"}

\* The four counts of a request are numbers, of finite sets.
LEMMA CountsNat ==
  ASSUME FlowTypes, NEW i
  PROVE  /\ InTasks(i) \in Nat /\ InWorkers(i) \in Nat /\ InSends(i) \in Nat /\ InReplies(i) \in Nat
         /\ IsFiniteSet(WorkersOn(i)) /\ InWorkers(i) = Cardinality(WorkersOn(i))
         /\ IsFiniteSet(RepliesFor(i)) /\ InReplies(i) = Cardinality(RepliesFor(i))
<1>1. InTasks(i) \in Nat
  BY PlacesFinite DEF FlowTypes, InTasks
<1>2. InSends(i) \in Nat
  BY PlacesFinite DEF FlowTypes, InSends
<1>3. All \in Seq(Unit)
  BY AllSeq
<1>4. InReplies(i) = Cardinality(RepliesFor(i))
  BY DEF InReplies, RepliesFor, All
<1>5. RepliesFor(i) \in SUBSET DOMAIN All
  BY DEF RepliesFor
<1>6. IsFiniteSet(RepliesFor(i)) /\ Cardinality(RepliesFor(i)) \in Nat
  BY <1>3, <1>5, PlacesFinite
<1>7. WorkersOn(i) \in SUBSET Workers /\ IsFiniteSet(Workers)
  BY FlowAssumption DEF WorkersOn
<1>8. IsFiniteSet(WorkersOn(i)) /\ Cardinality(WorkersOn(i)) \in Nat
  BY <1>7, FS_Subset, FS_CardinalityType
<1> QED  BY <1>1, <1>2, <1>4, <1>6, <1>8 DEF InWorkers, WorkersOn

\* A request pushed is counted once more in the pool's queue.
LEMMA TasksPush ==
  ASSUME FlowTypes, NEW e \in Requests, tasks' = Append(tasks, e), NEW i
  PROVE  InTasks(i)' = InTasks(i) + IF e = i THEN 1 ELSE 0
<1>1. tasks \in Seq(Requests)
  BY DEF FlowTypes
<1>2. InTasks(i) = Count(tasks, {i})
  BY DEF InTasks, Count
<1>3. InTasks(i)' = Count(Append(tasks, e), {i})
  BY DEF InTasks, Count
<1>4. Count(Append(tasks, e), {i}) = Count(tasks, {i}) + IF e \in {i} THEN 1 ELSE 0
  BY <1>1, CountAppend
<1> QED  BY <1>2, <1>3, <1>4

\* A request popped is counted once less.
LEMMA TasksPop ==
  ASSUME FlowTypes, tasks # <<>>, tasks' = Tail(tasks), NEW i
  PROVE  InTasks(i) = InTasks(i)' + IF Head(tasks) = i THEN 1 ELSE 0
<1>1. tasks \in Seq(Requests)
  BY DEF FlowTypes
<1>2. InTasks(i) = Count(tasks, {i})
  BY DEF InTasks, Count
<1>3. InTasks(i)' = Count(Tail(tasks), {i})
  BY DEF InTasks, Count
<1>4. Count(tasks, {i}) = Count(Tail(tasks), {i}) + IF Head(tasks) \in {i} THEN 1 ELSE 0
  BY <1>1, CountTail
<1> QED  BY <1>2, <1>3, <1>4

\* What a worker queues to the loop.
Sendable == [of : Requests, text : Spoken, by : Workers]

\* A reply queued to the loop is counted there.
LEMMA SendsPush ==
  ASSUME FlowTypes, NEW e \in Sendable, sends' = Append(sends, e), NEW i
  PROVE  InSends(i)' = InSends(i) + IF e.of = i THEN 1 ELSE 0
<1>. DEFINE S == {s \in Sendable : s.of = i}
<1>1. sends \in Seq(Sendable)
  BY DEF FlowTypes, Sendable
<1>2. InSends(i) = Count(sends, S)
  <2>1. \A k \in DOMAIN sends : sends[k] \in Sendable
    <3> HIDE DEF Sendable
    <3> QED  BY <1>1
  <2> QED  BY <2>1 DEF InSends, Count
<1>3. InSends(i)' = Count(Append(sends, e), S)
  <2>1. \A k \in DOMAIN Append(sends, e) : Append(sends, e)[k] \in Sendable
    <3> HIDE DEF Sendable
    <3> QED  BY <1>1
  <2> QED  BY <2>1 DEF InSends, Count
<1>4. Count(Append(sends, e), S) = Count(sends, S) + IF e \in S THEN 1 ELSE 0
  <2> HIDE DEF S
  <2> QED  BY <1>1, CountAppend
<1>5. e \in S <=> e.of = i
  OBVIOUS
<1> HIDE DEF S
<1> QED  BY <1>2, <1>3, <1>4, <1>5

\* handlewakeup() turns every queued reply into one written reply.
LEMMA RepliesMake ==
  ASSUME FlowTypes, HandleWakeup, Framed, NEW i
  PROVE  InReplies(i)' = InReplies(i) + InSends(i) /\ InSends(i)' = 0
<1>1. PICK texts :
           /\ \A s \in 1..Len(sends) : texts[s] \in {sends[s].text, Junk} /\ texts[s] # "header" /\ sends[s].of \in Requests
           /\ Len(sends) \in Nat /\ Len(All) \in Nat /\ DOMAIN All = 1..Len(All)
           /\ Len(All') = Len(All) + 2 * Len(sends) /\ DOMAIN All' = 1..Len(All')
           /\ \A k \in 1..Len(All) : All'[k] = All[k]
           /\ \A s \in 1..Len(sends) :
                /\ All'[Len(All) + (2 * s - 1)] = [of |-> sends[s].of, text |-> "header"]
                /\ All'[Len(All) + 2 * s] = [of |-> sends[s].of, text |-> texts[s]]
  BY AllGrows
<1>. DEFINE S == {k \in DOMAIN sends : sends[k].of = i}
            T == {Len(All) + (2 * s - 1) : s \in S}
            f == [s \in S |-> Len(All) + (2 * s - 1)]
<1>2. DOMAIN sends = 1..Len(sends) /\ S \in SUBSET (1..Len(sends))
  BY DEF FlowTypes
<1>3. IsFiniteSet(S) /\ Cardinality(S) \in Nat
  BY PlacesFinite DEF FlowTypes
<1>4. IsFiniteSet(T) /\ Cardinality(T) = Cardinality(S)
  <2>1. f \in [S -> T] /\ \A y \in T : \E x \in S : f[x] = y
    OBVIOUS
  <2>2. \A x, y \in S : f[x] = f[y] => x = y
    <3>1. SUFFICES ASSUME NEW x \in S, NEW y \in S, Len(All) + (2 * x - 1) = Len(All) + (2 * y - 1) PROVE x = y
      OBVIOUS
    <3>2. x \in Nat /\ y \in Nat /\ Len(All) \in Nat
      BY <1>1, <1>2
    <3> QED  BY <3>1, <3>2
  <2> HIDE DEF S, T, f
  <2> QED  BY <1>3, <2>1, <2>2, SameCount
<1>5. RepliesFor(i)' = RepliesFor(i) \cup T
  <2>1. ASSUME NEW k \in RepliesFor(i)' PROVE k \in RepliesFor(i) \cup T
    <3>1. k \in 1..Len(All) + 2 * Len(sends) /\ All'[k].of = i /\ All'[k].text = "header"
      BY <1>1, <2>1 DEF RepliesFor
    <3>2. CASE k <= Len(All)
      <4>1. k \in DOMAIN All /\ All[k] = All'[k]
        BY <1>1, <3>1, <3>2
      <4> QED  BY <3>1, <4>1 DEF RepliesFor
    <3>3. CASE k > Len(All)
      <4>1. k - Len(All) \in 1..2 * Len(sends)
        BY <1>1, <3>1, <3>3
      <4>2. PICK s \in 1..Len(sends) : k - Len(All) = 2 * s - 1 \/ k - Len(All) = 2 * s
        BY <1>1, <4>1, Halves
      <4>3. k # Len(All) + 2 * s
        <5>1. SUFFICES ASSUME k = Len(All) + 2 * s PROVE FALSE
          OBVIOUS
        <5>2. All'[k] = [of |-> sends[s].of, text |-> texts[s]]
          BY <1>1, <5>1
        <5>3. All'[k].text = texts[s]
          BY <5>2
        <5> QED  BY <1>1, <3>1, <5>3
      <4>4. k = Len(All) + (2 * s - 1)
        BY <1>1, <3>1, <4>2, <4>3
      <4>5. All'[k] = [of |-> sends[s].of, text |-> "header"]
        BY <1>1, <4>4
      <4>6. sends[s].of = i
        BY <3>1, <4>5
      <4>7. s \in S
        BY <1>2, <4>6
      <4> QED  BY <4>4, <4>7
    <3> QED  BY <1>1, <3>1, <3>2, <3>3
  <2>2. ASSUME NEW k \in RepliesFor(i) PROVE k \in RepliesFor(i)'
    <3>1. k \in 1..Len(All) /\ All[k].of = i /\ All[k].text = "header"
      BY <1>1, <2>2 DEF RepliesFor
    <3>2. k \in DOMAIN All' /\ All'[k] = All[k]
      BY <1>1, <3>1
    <3> QED  BY <3>1, <3>2 DEF RepliesFor
  <2>3. ASSUME NEW k \in T PROVE k \in RepliesFor(i)'
    <3>1. PICK s \in S : k = Len(All) + (2 * s - 1)
      BY <2>3
    <3>2. s \in 1..Len(sends) /\ sends[s].of = i
      BY <1>2
    <3>3. All'[k] = [of |-> sends[s].of, text |-> "header"]
      BY <1>1, <3>1, <3>2
    <3>4. All'[k].of = i /\ All'[k].text = "header"
      BY <3>2, <3>3
    <3>5. k \in 1..Len(All) + 2 * Len(sends)
      BY <1>1, <3>1, <3>2
    <3> QED  BY <1>1, <3>4, <3>5 DEF RepliesFor
  <2> QED  BY <2>1, <2>2, <2>3
<1>6. RepliesFor(i) \cap T = {}
  <2>1. SUFFICES ASSUME NEW k \in RepliesFor(i), k \in T PROVE FALSE
    OBVIOUS
  <2>2. k <= Len(All)
    BY <1>1 DEF RepliesFor
  <2>3. PICK s \in S : k = Len(All) + (2 * s - 1)
    BY <2>1
  <2>4. s \in Nat \ {0} /\ Len(All) \in Nat
    BY <1>1, <1>2
  <2> QED  BY <2>2, <2>3, <2>4
<1>7. Cardinality(RepliesFor(i)') = Cardinality(RepliesFor(i)) + Cardinality(T)
  <2>1. IsFiniteSet(RepliesFor(i)) /\ Cardinality(RepliesFor(i)) \in Nat
    BY CountsNat
  <2>2. Cardinality({}) = 0
    BY FS_EmptySet
  <2> HIDE DEF T
  <2>3. Cardinality(RepliesFor(i) \cup T)
          = Cardinality(RepliesFor(i)) + Cardinality(T) - Cardinality(RepliesFor(i) \cap T)
    BY <1>4, <2>1, FS_Union
  <2>4. Cardinality(T) \in Nat
    BY <1>3, <1>4
  <2>5. Cardinality(RepliesFor(i) \cap T) = 0
    BY <1>6, <2>2
  <2>6. Cardinality(RepliesFor(i)') = Cardinality(RepliesFor(i) \cup T)
    BY <1>5
  <2> DEFINE c == Cardinality(RepliesFor(i))
             d == Cardinality(T)
  <2>7. c \in Nat /\ d \in Nat /\ Cardinality(RepliesFor(i)') = c + d - 0
    BY <2>1, <2>3, <2>4, <2>5, <2>6
  <2> HIDE DEF c, d
  <2>8. Cardinality(RepliesFor(i)') = c + d
    BY <2>7
  <2> QED  BY <2>8 DEF c, d
<1>8. InReplies(i)' = Cardinality(RepliesFor(i)') /\ InReplies(i) = Cardinality(RepliesFor(i)) /\ InSends(i) = Cardinality(S)
  BY DEF InReplies, RepliesFor, All, InSends
<1>9. InSends(i)' = 0
  <2>1. sends' = <<>>
    BY DEF HandleWakeup
  <2>2. {k \in DOMAIN sends' : sends'[k].of = i} = {}
    BY <2>1
  <2> QED  BY <2>2, FS_EmptySet DEF InSends
<1> HIDE DEF S, T
<1> QED  BY <1>4, <1>7, <1>8, <1>9

\* A place that a step leaves alone holds what it held.
LEMMA PlacesStay ==
  ASSUME NEW i
  PROVE  /\ tasks' = tasks => InTasks(i)' = InTasks(i)
         /\ worker' = worker => InWorkers(i)' = InWorkers(i)
         /\ sends' = sends => InSends(i)' = InSends(i)
         /\ All' = All => InReplies(i)' = InReplies(i)
BY DEF InTasks, InWorkers, InSends, InReplies, All

\* A request is in one place before and after each step of the bank and the loop.
LEMMA CountedStep == FlowTypes /\ Framed /\ Counted /\ [FlowNext]_flowVars => Counted'
<1> SUFFICES ASSUME FlowTypes, Framed, Counted, [FlowNext]_flowVars, NEW i \in Nat \ {0}
             PROVE  InTasks(i)' + InWorkers(i)' + InSends(i)' + InReplies(i)'
                      = IF i <= Len(passed') THEN 1 ELSE 0
  BY DEF Counted
<1>0. /\ InTasks(i) + InWorkers(i) + InSends(i) + InReplies(i) = IF i <= Len(passed) THEN 1 ELSE 0
      /\ InTasks(i) \in Nat /\ InWorkers(i) \in Nat /\ InSends(i) \in Nat /\ InReplies(i) \in Nat
      /\ IsFiniteSet(WorkersOn(i)) /\ InWorkers(i) = Cardinality(WorkersOn(i))
  BY CountsNat DEF Counted
<1>w. InWorkers(i)' = Cardinality(WorkersOn(i)')
  BY DEF InWorkers, WorkersOn
<1>n. worker \in [Workers -> [at : {"idle", "message", "reply", "sent"},
                             of : 0..Len(Business), text : Spoken \cup {"none"}]]
  BY DEF FlowTypes
<1> USE DEF client, bank, turnVars, input
<1>1. CASE PickOne
  <2>1. /\ tasks' = Append(tasks, Len(passed) + 1) /\ Len(passed') = Len(passed) + 1
        /\ worker' = worker /\ sends' = sends /\ Len(passed) \in Nat /\ Len(passed) + 1 \in Requests
    <3>1. PICK next \in PickMessage(taken, readto) :
             /\ passed' = Append(passed, Message(taken, next))
             /\ tasks' = Append(tasks, Len(passed) + 1)
      BY <1>1 DEF PickOne
    <3>2. Len(passed) \in Nat /\ Len(Append(passed, Message(taken, next))) = Len(passed) + 1
      BY DEF FlowTypes
    <3>3. Len(passed) + 1 \in Requests
      <4>1. Len(passed) \in 0..Len(Business) /\ readto \in Nat /\ EndOf[Len(passed)] <= readto
            /\ readto <= EndOf[Len(Business)] /\ taken = EndOf[Len(passed)]
        <5>1. StreamTypes
          BY TypesSplit
        <5>2. EndOf[written] \in Nat /\ EndOf[written] <= EndOf[Len(Business)] /\ EndOf[Len(Business)] \in Nat
          BY <5>1, StreamGrows
        <5> QED  BY <5>1, <5>2, <3>2, BusinessSeq DEF StreamTypes
      <4> QED  BY <4>1, <3>1, PickedIsNext
    <3> QED  BY <1>1, <3>1, <3>2, <3>3 DEF PickOne
  <2>2. ~ HandleWakeup
    BY <1>1 DEF PickOne, HandleWakeup
  <2>3. All' = All
    BY <2>2, AllStays
  <2>4. InTasks(i)' = InTasks(i) + IF Len(passed) + 1 = i THEN 1 ELSE 0
    BY <2>1, TasksPush
  <2>5. InWorkers(i)' = InWorkers(i) /\ InSends(i)' = InSends(i) /\ InReplies(i)' = InReplies(i)
    BY <2>1, <2>3, PlacesStay
  <2>6. CASE Len(passed) + 1 = i
    <3>1. ~ (i <= Len(passed)) /\ i <= Len(passed')
      BY <2>1, <2>6
    <3> QED  BY <2>4, <2>5, <2>6, <3>1, <1>0
  <2>7. CASE Len(passed) + 1 # i
    <3>1. i <= Len(passed) <=> i <= Len(passed')
      BY <2>1, <2>7
    <3> QED  BY <2>4, <2>5, <2>7, <3>1, <1>0
  <2> QED  BY <2>6, <2>7
<1>2. CASE HandleWakeup
  <2>1. InReplies(i)' = InReplies(i) + InSends(i) /\ InSends(i)' = 0
    BY <1>2, RepliesMake
  <2>2. tasks' = tasks /\ worker' = worker /\ passed' = passed
    BY <1>2 DEF HandleWakeup
  <2> QED  BY <2>1, <2>2, <1>0, PlacesStay
<1>3. ASSUME NEW w \in Workers, Take(w)
      PROVE  InTasks(i)' + InWorkers(i)' + InSends(i)' + InReplies(i)' = IF i <= Len(passed') THEN 1 ELSE 0
  <2>1. /\ tasks # <<>> /\ tasks' = Tail(tasks) /\ sends' = sends /\ passed' = passed /\ worker[w].at = "idle"
        /\ worker' = [worker EXCEPT ![w] = [at |-> "message", of |-> Head(tasks), text |-> "none"]]
        /\ got' = got /\ wire' = wire /\ outputbuffer_' = outputbuffer_
    BY <1>3 DEF Take
  <2>2. worker[w].of = 0
    BY <2>1 DEF FlowTypes
  <2>3. InTasks(i) = InTasks(i)' + IF Head(tasks) = i THEN 1 ELSE 0
    BY <2>1, TasksPop
  <2>4. All' = All
    BY <2>1 DEF All, Sent
  <2>5. InWorkers(i)' = InWorkers(i) + IF Head(tasks) = i THEN 1 ELSE 0
    <3>1. CASE Head(tasks) = i
      <4>1. WorkersOn(i)' = WorkersOn(i) \cup {w} /\ w \notin WorkersOn(i)
        BY <1>n, <2>1, <2>2, <3>1 DEF WorkersOn
      <4>2. Cardinality(WorkersOn(i) \cup {w}) = Cardinality(WorkersOn(i)) + 1
        BY <4>1, <1>0, FS_AddElement
      <4> QED  BY <4>1, <4>2, <3>1, <1>0, <1>w
    <3>2. CASE Head(tasks) # i
      <4>1. WorkersOn(i)' = WorkersOn(i)
        BY <1>n, <2>1, <2>2, <3>2 DEF WorkersOn
      <4> QED  BY <4>1, <3>2, <1>0, <1>w
    <3> QED  BY <3>1, <3>2
  <2>6. InTasks(i)' = InTasks(i) - (IF Head(tasks) = i THEN 1 ELSE 0)
    <3>1. InTasks(i)' \in Nat
      <4>1. Tail(tasks) \in Seq(Requests)
        BY <2>1 DEF FlowTypes
      <4> QED  BY <2>1, <4>1, PlacesFinite DEF InTasks
    <3> QED  BY <2>3, <3>1
  <2> QED  BY <2>1, <2>4, <2>5, <2>6, <1>0, PlacesStay
<1>4. ASSUME NEW w \in Workers, Compute(w) \/ Return(w)
      PROVE  InTasks(i)' + InWorkers(i)' + InSends(i)' + InReplies(i)' = IF i <= Len(passed') THEN 1 ELSE 0
  <2>1. /\ tasks' = tasks /\ sends' = sends /\ passed' = passed
        /\ got' = got /\ wire' = wire /\ outputbuffer_' = outputbuffer_
    BY <1>4 DEF Compute, Return
  <2>2. All' = All
    BY <2>1 DEF All, Sent
  <2>3. WorkersOn(i)' = WorkersOn(i)
    <3>1. CASE Compute(w)
      BY <1>n, <3>1 DEF WorkersOn, Compute
    <3>2. CASE Return(w)
      BY <1>n, <3>2 DEF WorkersOn, Return
    <3> QED  BY <1>4, <3>1, <3>2
  <2> QED  BY <2>1, <2>2, <2>3, <1>0, <1>w, PlacesStay
<1>5. ASSUME NEW w \in Workers, Send(w)
      PROVE  InTasks(i)' + InWorkers(i)' + InSends(i)' + InReplies(i)' = IF i <= Len(passed') THEN 1 ELSE 0
  <2>. DEFINE e == [of |-> worker[w].of, text |-> worker[w].text, by |-> w]
  <2>1. /\ tasks' = tasks /\ sends' = Append(sends, e) /\ passed' = passed /\ worker[w].at = "reply"
        /\ worker' = [worker EXCEPT ![w].at = "sent"]
        /\ got' = got /\ wire' = wire /\ outputbuffer_' = outputbuffer_
    BY <1>5 DEF Send
  <2>2. All' = All
    BY <2>1 DEF All, Sent
  <2>3. e \in Sendable /\ e.of = worker[w].of
    <3>1. worker[w].of \in Requests /\ worker[w].text \in Spoken
      BY <2>1, <1>n, BusinessSeq DEF FlowTypes
    <3> QED  BY <3>1 DEF Sendable
  <2>4. InSends(i)' = InSends(i) + IF e.of = i THEN 1 ELSE 0
    <3> HIDE DEF e
    <3> QED  BY <2>1, <2>3, SendsPush
  <2>5. InWorkers(i)' = InWorkers(i) - IF worker[w].of = i THEN 1 ELSE 0
    <3>1. CASE worker[w].of = i
      <4>1. WorkersOn(i)' = WorkersOn(i) \ {w} /\ w \in WorkersOn(i)
        BY <1>n, <2>1, <3>1 DEF WorkersOn
      <4>2. Cardinality(WorkersOn(i) \ {w}) = Cardinality(WorkersOn(i)) - 1
        BY <4>1, <1>0, FS_RemoveElement
      <4> QED  BY <4>1, <4>2, <3>1, <1>0, <1>w
    <3>2. CASE worker[w].of # i
      <4>1. WorkersOn(i)' = WorkersOn(i)
        BY <1>n, <2>1, <3>2 DEF WorkersOn
      <4> QED  BY <4>1, <3>2, <1>0, <1>w
    <3> QED  BY <3>1, <3>2
  <2> HIDE DEF e
  <2> QED  BY <2>1, <2>2, <2>3, <2>4, <2>5, <1>0, PlacesStay
<1>6. CASE UNCHANGED <<tasks, worker, sends, passed>> /\ ~ HandleWakeup
  <2>1. All' = All
    BY <1>6, AllStays
  <2> QED  BY <1>6, <2>1, <1>0, PlacesStay
<1> QED
  <2>1. CASE HandleWakeup
    BY <2>1, <1>2
  <2>2. CASE ~ HandleWakeup
    BY <2>2, <1>1, <1>3, <1>4, <1>5, <1>6 DEF FlowNext, flowVars, TurnStep, WorkerStep, Write, Arrive, HangUp, ClientReads,
            EpollWait, HandleEvent, PickNone
  <2> QED  BY <2>1, <2>2

\* A finite set with a member counts at least one, and one that counts at most one
\* has no two.
LEMMA FewMembers ==
  ASSUME NEW S, IsFiniteSet(S), NEW x \in S
  PROVE  /\ Cardinality(S) \in Nat /\ Cardinality(S) >= 1
         /\ Cardinality(S) <= 1 => \A y \in S : y = x
<1>1. Cardinality(S) \in Nat
  BY FS_CardinalityType
<1>2. IsFiniteSet(S \ {x}) /\ Cardinality(S \ {x}) = Cardinality(S) - 1
  BY FS_RemoveElement
<1>3. Cardinality(S \ {x}) \in Nat
  BY <1>2, FS_CardinalityType
<1>4. ASSUME Cardinality(S) <= 1, NEW y \in S PROVE y = x
  <2>1. Cardinality(S \ {x}) = 0
    BY <1>1, <1>2, <1>3, <1>4
  <2>2. S \ {x} = {}
    BY <1>2, <2>1, FS_EmptySet
  <2> QED  BY <2>2
<1> QED  BY <1>1, <1>2, <1>3, <1>4

\* In order, the replies are those to the first requests, each once.
LEMMA RepliesInOrder ==
  ASSUME FlowTypes, Framed, Ordered, ~pipelines, NEW m \in Nat, Len(All) = 2 * m
  PROVE  \A i \in Nat \ {0} : InReplies(i) = IF i <= m THEN 1 ELSE 0
<1> SUFFICES ASSUME NEW i \in Nat \ {0} PROVE InReplies(i) = IF i <= m THEN 1 ELSE 0
  OBVIOUS
<1>1. InReplies(i) = Cardinality(RepliesFor(i))
  BY CountsNat
<1>2. DOMAIN All = 1..2 * m /\ \A k \in DOMAIN All : All[k] \in Unit
  BY AllSeq
<1>3. \A k \in DOMAIN All : 2 * All[k].of \in {k, k + 1}
  BY DEF Ordered, InTurn, InTurnOf
<1>4. \A k \in DOMAIN All : k % 2 = 1 <=> All[k].text = "header"
  BY DEF Framed
<1>5. ASSUME NEW k \in DOMAIN All, k % 2 = 1 PROVE All[k].of = i <=> k = 2 * i - 1
  <2>1. All[k].of \in Nat
    BY <1>2, BusinessSeq DEF Unit
  <2>2. k \in Nat /\ 2 * All[k].of \in {k, k + 1}
    BY <1>2, <1>3
  <2> QED  BY <2>1, <2>2, <1>5
<1>6. RepliesFor(i) = {k \in 1..2 * m : k = 2 * i - 1}
  <2>1. (2 * i - 1) % 2 = 1
    OBVIOUS
  <2> QED  BY <1>2, <1>4, <1>5, <2>1 DEF RepliesFor
<1>7. CASE i <= m
  <2>1. RepliesFor(i) = {2 * i - 1}
    BY <1>6, <1>7
  <2> QED  BY <2>1, <1>1, <1>7, FS_Singleton
<1>8. CASE ~ (i <= m)
  <2>1. RepliesFor(i) = {}
    BY <1>6, <1>8
  <2> QED  BY <2>1, <1>1, <1>8, FS_EmptySet
<1> QED  BY <1>7, <1>8

\* Thread w has a request it has not answered.
Working(w) == worker[w].at \in {"message", "reply"}

\* While the client waits, only the next request can be with the bank or on its
\* way back, and in one place.
LEMMA OnlyNext ==
  ASSUME FlowTypes, Framed, Counted, Ordered, ~pipelines, NEW m \in Nat, Len(All) = 2 * m
  PROVE  /\ \A k \in DOMAIN sends : sends[k].of = m + 1
         /\ \A w \in Workers : Working(w) => worker[w].of = m + 1
         /\ \A k, l \in DOMAIN sends : k = l
         /\ \A k \in DOMAIN sends : \A w \in Workers : ~ Working(w)
         /\ \A v, w \in Workers : Working(v) /\ Working(w) => v = w
<1>. DEFINE SendsOf(i) == {k \in DOMAIN sends : sends[k].of = i}
<1>1. Len(passed) \in Nat /\ Len(passed) <= m + 1
  <2>1. StreamTypes
    BY TypesSplit
  <2>2. Len(passed) <= written /\ written \in Nat /\ Len(passed) \in Nat
    BY <2>1, StreamGrows, BusinessSeq DEF StreamTypes
  <2> QED  BY <2>2 DEF Ordered, InTurn, InTurnOf
<1>2. ASSUME NEW i \in Nat \ {0}, InTasks(i) >= 1 \/ InWorkers(i) >= 1 \/ InSends(i) >= 1
      PROVE  i = m + 1 /\ InWorkers(i) + InSends(i) <= 1
  <2>1. /\ InTasks(i) + InWorkers(i) + InSends(i) + InReplies(i) = IF i <= Len(passed) THEN 1 ELSE 0
        /\ InTasks(i) \in Nat /\ InWorkers(i) \in Nat /\ InSends(i) \in Nat
        /\ InReplies(i) = IF i <= m THEN 1 ELSE 0
    BY CountsNat, RepliesInOrder DEF Counted
  <2>2. ~ (i <= m) /\ i <= Len(passed)
    BY <1>2, <2>1
  <2>3. InWorkers(i) + InSends(i) <= 1
    BY <1>2, <2>1
  <2> QED  BY <2>2, <2>3, <1>1
<1>3. ASSUME NEW k \in DOMAIN sends
      PROVE  /\ sends[k].of = m + 1 /\ k \in SendsOf(m + 1) /\ InSends(m + 1) >= 1
  <2>1. sends[k].of \in Nat \ {0}
    <3>1. sends \in Seq(Sendable)
      BY DEF FlowTypes, Sendable
    <3>2. sends[k] \in Sendable
      <4> HIDE DEF Sendable
      <4> QED  BY <3>1
    <3> QED  BY <3>2, BusinessSeq DEF Sendable
  <2>2. k \in SendsOf(sends[k].of) /\ IsFiniteSet(SendsOf(sends[k].of))
    BY PlacesFinite DEF FlowTypes
  <2>3. InSends(sends[k].of) = Cardinality(SendsOf(sends[k].of))
    BY DEF InSends
  <2>4. InSends(sends[k].of) >= 1
    <3> HIDE DEF SendsOf
    <3> QED  BY <2>2, <2>3, FewMembers
  <2> QED  BY <1>2, <2>1, <2>2, <2>4
<1>4. ASSUME NEW w \in Workers, Working(w)
      PROVE  worker[w].of = m + 1 /\ w \in WorkersOn(m + 1) /\ InWorkers(m + 1) >= 1
  <2>1. worker[w].of \in Nat \ {0}
    <3>1. worker[w].of \in 0..Len(Business)
      BY DEF FlowTypes
    <3> QED  BY <3>1, <1>4, BusinessSeq DEF FlowTypes, Working
  <2>2. w \in WorkersOn(worker[w].of)
    BY <1>4 DEF WorkersOn, Working
  <2>3. InWorkers(worker[w].of) >= 1
    BY <2>2, CountsNat, FewMembers
  <2> QED  BY <1>2, <2>1, <2>2, <2>3
<1>5. InSends(m + 1) \in Nat /\ InWorkers(m + 1) \in Nat /\ m + 1 \in Nat \ {0}
  BY CountsNat
<1>6. ASSUME NEW k \in DOMAIN sends, NEW l \in DOMAIN sends PROVE k = l
  <2>1. InSends(m + 1) <= 1
    BY <1>2, <1>3, <1>5
  <2>2. InSends(m + 1) = Cardinality(SendsOf(m + 1)) /\ IsFiniteSet(SendsOf(m + 1))
    BY PlacesFinite DEF FlowTypes, InSends
  <2>3. k \in SendsOf(m + 1) /\ l \in SendsOf(m + 1)
    BY <1>3
  <2> HIDE DEF SendsOf
  <2> QED  BY <2>1, <2>2, <2>3, FewMembers
<1>7. ASSUME NEW k \in DOMAIN sends, NEW w \in Workers PROVE ~ Working(w)
  BY <1>2, <1>3, <1>4, <1>5
<1>8. ASSUME NEW v \in Workers, NEW w \in Workers, Working(v), Working(w) PROVE v = w
  <2>1. InWorkers(m + 1) <= 1
    BY <1>2, <1>4, <1>5, <1>8
  <2>2. v \in WorkersOn(m + 1) /\ w \in WorkersOn(m + 1)
    BY <1>4, <1>8
  <2> QED  BY <2>1, <2>2, CountsNat, FewMembers
<1> QED  BY <1>3, <1>4, <1>6, <1>7, <1>8

\* A client that waits has not written past the request after its last reply.
LEMMA WaitsForReplies ==
  ASSUME FlowTypes, Ordered, ~pipelines, NEW m \in Nat, Len(All) = 2 * m
  PROVE  Cardinality(Replies) \in Nat /\ Cardinality(Replies) <= m
<1>1. DOMAIN All = 1..2 * m /\ \A k \in DOMAIN All : All[k] \in Unit
  BY AllSeq
<1>2. \A k \in DOMAIN All : 2 * All[k].of \in {k, k + 1}
  BY DEF Ordered, InTurn, InTurnOf
<1>3. got \in Seq(Unit) /\ wire \in Seq(Unit) /\ outputbuffer_ \in Seq(Unit)
  BY DEF FlowTypes
<1>4. ASSUME NEW k \in DOMAIN got PROVE k \in DOMAIN All /\ All[k] = got[k]
  <2>1. got \o wire \in Seq(Unit) /\ Len(got) \in Nat /\ Len(wire) \in Nat /\ Len(got \o wire) = Len(got) + Len(wire)
        /\ k \in 1..Len(got) /\ (got \o wire)[k] = got[k]
    BY <1>3, <1>4, ConcatProperties
  <2>2. k \in 1..Len(got \o wire)
    BY <2>1
  <2>3. Len((got \o wire) \o outputbuffer_) = Len(got \o wire) + Len(outputbuffer_)
        /\ ((got \o wire) \o outputbuffer_)[k] = (got \o wire)[k] /\ Len(outputbuffer_) \in Nat
    <3> DEFINE s == got \o wire
    <3>1. s \in Seq(Unit) /\ Len(s) \in Nat /\ k \in 1..Len(s)
      BY <2>1, <2>2
    <3> HIDE DEF s
    <3>2. Len(s \o outputbuffer_) = Len(s) + Len(outputbuffer_) /\ (s \o outputbuffer_)[k] = s[k]
      BY <3>1, <1>3, ConcatProperties
    <3>3. Len(outputbuffer_) \in Nat
      BY <1>3
    <3> QED  BY <3>2, <3>3 DEF s
  <2>4. Len(All) = Len(got) + Len(wire) + Len(outputbuffer_) /\ All[k] = got[k]
    BY <2>1, <2>3 DEF All, Sent
  <2>5. k \in 1..Len(All)
    BY <2>1, <2>3, <2>4
  <2> QED  BY <1>1, <2>4, <2>5
<1>5. Replies \subseteq 1..m
  <2>1. SUFFICES ASSUME NEW i \in Replies PROVE i \in 1..m
    OBVIOUS
  <2>2. PICK k \in DOMAIN got : got[k].of = i
    BY DEF Replies
  <2>3. k \in 1..2 * m /\ 2 * i \in {k, k + 1}
    BY <1>1, <1>2, <1>4, <2>2
  <2>4. i \in Nat \ {0}
    BY BusinessSeq DEF Replies
  <2> QED  BY <2>3, <2>4
<1>6. IsFiniteSet(1..m) /\ Cardinality(1..m) = m
  BY FS_Interval
<1>7. IsFiniteSet(Replies) /\ Cardinality(Replies) <= Cardinality(1..m)
  BY <1>5, <1>6, FS_Subset
<1> QED  BY <1>6, <1>7, FS_CardinalityType

\* What a step leaves alone stays in turn.
LEMMA InTurnStays ==
  ASSUME NEW m \in Nat, InTurn(m), UNCHANGED <<login, worker, sends, All>>, written' <= m + 1
  PROVE  InTurn(m)'
BY DEF InTurn, InTurnOf, Computed

\* A reply computed in turn follows the login state the earlier requests made.
LEMMA ComputedInTurn ==
  ASSUME FlowTypes, Framed, Counted, Ordered, ~pipelines, NEW m \in Nat, Len(All) = 2 * m,
         NEW w \in Workers, Compute(w)
  PROVE  InTurn(m)'
<1>1. InTurn(m)
  BY DEF Ordered
<1>2. Working(w) /\ worker[w].at = "message" /\ worker[w].of = m + 1 /\ worker[w].of \in Requests
  <2>1. worker[w].at = "message" /\ worker[w].of \in 1..Len(Business)
    BY BusinessSeq DEF Compute, FlowTypes
  <2> QED  BY <2>1, OnlyNext, BusinessSeq DEF Working
<1>3. ~ Computed /\ sends = <<>>
  <2>1. DOMAIN sends = {}
    BY <1>2, OnlyNext
  <2>2. sends = <<>>
    BY <2>1 DEF FlowTypes
  <2>3. ASSUME NEW v \in Workers PROVE worker[v].at # "reply"
    BY <1>2, OnlyNext DEF Working
  <2> QED  BY <2>2, <2>3 DEF Computed
<1>4. login = LoggedInBefore(m + 1)
  BY <1>1, <1>3 DEF InTurn, InTurnOf
<1>5. Answer(worker[w].of, login) = <<InOrder(m + 1), LoggedInBefore((m + 1) + 1)>>
  BY <1>2, <1>4, InOrderIsAnswer
<1>6. /\ worker' = [worker EXCEPT ![w].at = "reply", ![w].text = InOrder(m + 1)]
      /\ login' = LoggedInBefore(m + 2)
      /\ sends' = sends /\ written' = written /\ got' = got /\ wire' = wire /\ outputbuffer_' = outputbuffer_
  <2>1. (m + 1) + 1 = m + 2
    OBVIOUS
  <2> QED  BY <1>5, <2>1 DEF Compute, client
<1>7. All' = All
  BY <1>6 DEF All, Sent
<1>8. worker'[w].at = "reply" /\ worker'[w].of = m + 1 /\ worker'[w].text = InOrder(m + 1)
      /\ \A v \in Workers \ {w} : worker'[v] = worker[v]
  BY <1>2, <1>6 DEF FlowTypes
<1>9. Computed'
  BY <1>8 DEF Computed
<1>10. \A v \in Workers : worker'[v].at = "reply" => worker'[v].text = InOrder(worker'[v].of)
  BY <1>1, <1>8 DEF InTurn, InTurnOf
<1> QED  BY <1>1, <1>6, <1>7, <1>9, <1>10 DEF InTurn, InTurnOf

\* The loop writes the one reply that is due.
LEMMA WrittenInTurn ==
  ASSUME FlowTypes, Framed, Counted, Ordered, ~pipelines, NEW m \in Nat, Len(All) = 2 * m,
         HandleWakeup
  PROVE  \E n \in Nat : Len(All') = 2 * n /\ InTurn(n)'
<1>1. InTurn(m)
  BY DEF Ordered
<1>2. PICK texts :
           /\ \A s \in 1..Len(sends) : texts[s] \in {sends[s].text, Junk} /\ texts[s] # "header" /\ sends[s].of \in Requests
           /\ Len(sends) \in Nat /\ Len(All) \in Nat /\ DOMAIN All = 1..Len(All)
           /\ Len(All') = Len(All) + 2 * Len(sends) /\ DOMAIN All' = 1..Len(All')
           /\ \A k \in 1..Len(All) : All'[k] = All[k]
           /\ \A s \in 1..Len(sends) :
                /\ All'[Len(All) + (2 * s - 1)] = [of |-> sends[s].of, text |-> "header"]
                /\ All'[Len(All) + 2 * s] = [of |-> sends[s].of, text |-> texts[s]]
  BY AllGrows
<1>3. sends' = <<>> /\ worker' = worker /\ login' = login /\ written' = written
  BY DEF HandleWakeup, client, bank
<1>4. DOMAIN sends = 1..Len(sends)
  BY DEF FlowTypes
<1>5. CASE Len(sends) = 0
  <2>1. sends = <<>>
    BY <1>5 DEF FlowTypes
  <2>2. Len(All') = 2 * m /\ DOMAIN All' = DOMAIN All /\ \A k \in DOMAIN All : All'[k] = All[k]
    BY <1>2, <1>5
  <2>3. InTurn(m)'
    BY <1>1, <1>3, <2>1, <2>2 DEF InTurn, InTurnOf, Computed
  <2> QED  BY <2>2, <2>3
<1>6. CASE Len(sends) # 0
  <2>1. Len(sends) = 1
    <3>1. Len(sends) \in Nat
      BY DEF FlowTypes
    <3>2. ~ (2 <= Len(sends))
      <4>1. SUFFICES ASSUME 2 <= Len(sends) PROVE FALSE
        OBVIOUS
      <4>2. 1 \in DOMAIN sends /\ 2 \in DOMAIN sends
        BY <1>4, <3>1, <4>1
      <4> QED  BY <4>2, OnlyNext
    <3> QED  BY <1>6, <3>1, <3>2
  <2>2. 1 \in DOMAIN sends /\ sends[1].of = m + 1 /\ sends[1].text = InOrder(m + 1) /\ sends # <<>>
    <3>1. 1 \in DOMAIN sends
      BY <1>4, <2>1
    <3> QED  BY <3>1, <1>1, <2>1, OnlyNext DEF InTurn, InTurnOf
  <2>3. m + 1 \in Nat /\ Len(All') = 2 * (m + 1) /\ DOMAIN All' = 1..2 * (m + 1)
    BY <1>2, <2>1
  <2>4. \A w \in Workers : ~ Working(w)
    BY <2>2, OnlyNext
  <2>5. Computed /\ ~ Computed'
    BY <1>3, <2>2, <2>4 DEF Computed, Working
  <2>6. login' = LoggedInBefore((m + 1) + 1)
    <3>1. login = LoggedInBefore(m + 2)
      BY <1>1, <2>5 DEF InTurn, InTurnOf
    <3>2. (m + 1) + 1 = m + 2
      OBVIOUS
    <3> QED  BY <1>3, <3>1, <3>2
  <2>7. All'[2 * m + 1] = [of |-> m + 1, text |-> "header"] /\ All'[2 * m + 2] = [of |-> m + 1, text |-> texts[1]]
        /\ texts[1] \in {InOrder(m + 1), Junk}
    <3>1. 1 \in 1..Len(sends)
      BY <2>1
    <3>2. All'[Len(All) + (2 * 1 - 1)] = [of |-> sends[1].of, text |-> "header"]
          /\ All'[Len(All) + 2 * 1] = [of |-> sends[1].of, text |-> texts[1]]
          /\ texts[1] \in {sends[1].text, Junk}
      BY <1>2, <3>1
    <3>3. Len(All) + (2 * 1 - 1) = 2 * m + 1 /\ Len(All) + 2 * 1 = 2 * m + 2
      OBVIOUS
    <3> QED  BY <3>2, <3>3, <2>2
  <2>8. ASSUME NEW k \in DOMAIN All'
        PROVE  2 * All'[k].of \in {k, k + 1} /\ All'[k].text \in {"header", InOrder(All'[k].of), Junk}
    <3>1. CASE k \in 1..2 * m
      <4>1. All'[k] = All[k] /\ k \in DOMAIN All
        BY <1>2, <3>1
      <4> QED  BY <1>1, <4>1 DEF InTurn, InTurnOf
    <3>2. CASE k = 2 * m + 1
      <4>1. All'[k].of = m + 1 /\ All'[k].text = "header"
        BY <2>7, <3>2
      <4> QED  BY <3>2, <4>1
    <3>3. CASE k = 2 * m + 2
      <4>1. All'[k].of = m + 1 /\ All'[k].text \in {InOrder(m + 1), Junk}
        BY <2>7, <3>3
      <4> QED  BY <3>3, <4>1
    <3> QED  BY <2>3, <3>1, <3>2, <3>3
  <2>9. \A w \in Workers : worker'[w].at # "reply"
    BY <1>3, <2>4 DEF Working
  <2>10. written' <= (m + 1) + 1
    <3>1. written \in Nat
      BY BusinessSeq DEF FlowTypes
    <3> QED  BY <1>1, <1>3, <3>1 DEF InTurn, InTurnOf
  <2>11. InTurn(m + 1)'
    BY <1>3, <2>5, <2>6, <2>8, <2>9, <2>10 DEF InTurn, InTurnOf
  <2> QED  BY <2>3, <2>11
<1> QED  BY <1>5, <1>6

\* Every step keeps a waiting client's replies in order.
LEMMA OrderedStep ==
  FlowTypes /\ Framed /\ Counted /\ Ordered /\ [FlowNext]_flowVars => Ordered'
<1> SUFFICES ASSUME FlowTypes, Framed, Counted, Ordered, [FlowNext]_flowVars,
                    ~ pipelines', NEW n \in Nat, Len(All') = 2 * n
             PROVE  InTurn(n)'
  BY DEF Ordered
<1> USE DEF client, bank, turnVars, input
<1>1. ~ pipelines
  BY DEF FlowNext, flowVars, TurnStep, WorkerStep, Write, Arrive, HangUp, ClientReads, EpollWait, HandleEvent,
         PickOne, PickNone, HandleWakeup, Take, Compute, Send, Return
<1>2. PICK m \in Nat : Len(All) = 2 * m
  BY DEF Framed
<1>3. InTurn(m)
  BY <1>1, <1>2 DEF Ordered
<1>4. CASE HandleWakeup
  <2>1. PICK k \in Nat : Len(All') = 2 * k /\ InTurn(k)'
    BY <1>1, <1>2, <1>4, WrittenInTurn
  <2>2. k = n
    BY <2>1
  <2> QED  BY <2>1, <2>2
<1>5. CASE ~ HandleWakeup
  <2>1. All' = All /\ n = m
    <3>1. All' = All
      BY <1>5, AllStays
    <3> QED  BY <3>1, <1>2
  <2>2. written \in Nat /\ written <= m + 1
    BY <1>3, BusinessSeq DEF FlowTypes, InTurn, InTurnOf
  <2>3. CASE Write
    <3>1. written' = written + 1 /\ written = Cardinality(Replies)
      BY <1>1, <2>3 DEF Write
    <3>2. written' <= m + 1
      BY <3>1, <2>2, <1>1, <1>2, WaitsForReplies
    <3> QED  BY <1>3, <2>1, <2>3, <3>2, InTurnStays DEF Write
  <2>4. ASSUME NEW w \in Workers, Compute(w) PROVE InTurn(n)'
    BY <1>1, <1>2, <2>1, <2>4, ComputedInTurn
  <2>5. ASSUME NEW w \in Workers, Take(w) \/ Return(w) PROVE InTurn(n)'
    <3>1. sends' = sends /\ login' = login /\ written' = written
      BY <2>5 DEF Take, Return
    <3>0. /\ worker[w].at # "reply" /\ w \in DOMAIN worker
          /\ worker'[w].at # "reply" /\ \A v \in Workers \ {w} : worker'[v] = worker[v]
      <4>1. w \in DOMAIN worker /\ Workers = DOMAIN worker
        BY DEF FlowTypes
      <4>2. CASE Take(w)
        BY <4>1, <4>2 DEF Take
      <4>3. CASE Return(w)
        BY <4>1, <4>3 DEF Return
      <4> QED  BY <2>5, <4>2, <4>3
    <3>2. \A v \in Workers : worker'[v].at = "reply" <=> worker[v].at = "reply"
      BY <3>0
    <3>3. \A v \in Workers : worker[v].at = "reply" => worker'[v] = worker[v]
      BY <3>0
    <3>4. Computed' = Computed
      BY <3>1, <3>2 DEF Computed
    <3>5. \A v \in Workers : worker'[v].at = "reply" => worker'[v].text = InOrder(worker'[v].of)
      BY <1>3, <3>2, <3>3 DEF InTurn, InTurnOf
    <3> QED  BY <1>3, <2>1, <3>1, <3>4, <3>5 DEF InTurn, InTurnOf
  <2>6. ASSUME NEW w \in Workers, Send(w) PROVE InTurn(n)'
    <3>. DEFINE e == [of |-> worker[w].of, text |-> worker[w].text, by |-> w]
    <3>1. /\ login' = login /\ written' = written /\ sends' = Append(sends, e)
          /\ worker[w].at = "reply" /\ worker' = [worker EXCEPT ![w].at = "sent"]
      BY <2>6 DEF Send
    <3>2. sends \in Seq(Sendable) /\ Len(sends) \in Nat /\ DOMAIN sends = 1..Len(sends)
          /\ DOMAIN sends' = 1..Len(sends) + 1 /\ sends'[Len(sends) + 1] = e
          /\ \A k \in 1..Len(sends) : sends'[k] = sends[k]
      <4>1. sends \in Seq(Sendable)
        BY DEF FlowTypes, Sendable
      <4> HIDE DEF Sendable, e
      <4> QED  BY <3>1, <4>1
    <3>3. e.of = worker[w].of /\ e.text = InOrder(worker[w].of)
      BY <1>3, <3>1 DEF InTurn, InTurnOf
    <3>4. ASSUME NEW k \in DOMAIN sends' PROVE sends'[k].text = InOrder(sends'[k].of)
      <4>1. CASE k \in 1..Len(sends)
        BY <1>3, <3>2, <4>1 DEF InTurn, InTurnOf
      <4>2. CASE k = Len(sends) + 1
        <5> HIDE DEF e
        <5> QED  BY <3>2, <3>3, <4>2
      <4> QED  BY <3>2, <4>1, <4>2
    <3>5. Computed /\ Computed'
      <4>1. sends' # <<>>
        BY <3>2
      <4> QED  BY <3>1, <4>1 DEF Computed
    <3>6. \A v \in Workers : worker'[v].at = "reply" => worker'[v].text = InOrder(worker'[v].of)
      <4>1. \A v \in Workers : worker'[v].at = "reply" => worker'[v] = worker[v]
        BY <3>1 DEF FlowTypes
      <4> QED  BY <1>3, <4>1 DEF InTurn, InTurnOf
    <3> QED  BY <1>3, <2>1, <3>1, <3>4, <3>5, <3>6 DEF InTurn, InTurnOf
  <2>7. CASE UNCHANGED <<login, worker, sends, written>>
    BY <1>3, <2>1, <2>2, <2>7, InTurnStays
  <2> QED  BY <1>5, <2>3, <2>4, <2>5, <2>6, <2>7 DEF FlowNext, flowVars, TurnStep, WorkerStep, Arrive, HangUp,
               ClientReads, EpollWait, HandleEvent, PickOne, PickNone
<1> QED  BY <1>4, <1>5

\* The invariant holds at first.
LEMMA FlowInitInvariant == FlowInit => MessagesWhole /\ Framed /\ Counted /\ Ordered
<1> SUFFICES ASSUME FlowInit PROVE MessagesWhole /\ Framed /\ Counted /\ Ordered
  OBVIOUS
<1>1. /\ All = <<>> /\ sends = <<>> /\ tasks = <<>> /\ passed = <<>> /\ written = 0 /\ login = FALSE
      /\ worker = [w \in Workers |-> [at |-> "idle", of |-> 0, text |-> "none"]]
  BY DEF FlowInit, All, Sent
<1>2. Len(<<>>) = 0 /\ DOMAIN <<>> = {}
  OBVIOUS
<1>3. MessagesWhole
  BY <1>1, <1>2 DEF MessagesWhole
<1>4. Framed
  BY <1>1, <1>2 DEF Framed
<1>5. Counted
  <2>1. SUFFICES ASSUME NEW i \in Nat \ {0}
                 PROVE  InTasks(i) + InWorkers(i) + InSends(i) + InReplies(i) = IF i <= Len(passed) THEN 1 ELSE 0
    BY DEF Counted
  <2>2. {w \in Workers : worker[w].of = i /\ worker[w].at # "sent"} = {}
    BY <1>1
  <2>3. InWorkers(i) = 0
    BY <2>2, FS_EmptySet DEF InWorkers
  <2>4. InTasks(i) = 0
    <3>1. {k \in DOMAIN tasks : tasks[k] = i} = {}
      BY <1>1, <1>2
    <3> QED  BY <3>1, FS_EmptySet DEF InTasks
  <2>5. InSends(i) = 0
    <3>1. {k \in DOMAIN sends : sends[k].of = i} = {}
      BY <1>1, <1>2
    <3> QED  BY <3>1, FS_EmptySet DEF InSends
  <2>6. InReplies(i) = 0
    <3>1. RepliesFor(i) = {}
      BY <1>1, <1>2 DEF RepliesFor
    <3> QED  BY <3>1, FS_EmptySet DEF InReplies, RepliesFor, All
  <2> QED  BY <1>1, <1>2, <2>3, <2>4, <2>5, <2>6
<1>6. Ordered
  <2>1. SUFFICES ASSUME NEW m \in Nat, Len(All) = 2 * m PROVE InTurn(m)
    BY DEF Ordered
  <2>2. m = 0 /\ m + 1 = 1
    BY <1>1, <1>2, <2>1
  <2>3. ~ Computed
    BY <1>1 DEF Computed
  <2>4. login = LoggedInBefore(1)
    BY <1>1, NotLoggedInAtFirst
  <2> QED  BY <1>1, <1>2, <2>2, <2>3, <2>4 DEF InTurn, InTurnOf
<1> QED  BY <1>3, <1>4, <1>5, <1>6

\* The inductive invariant: nothing is lost between the stages, and a waiting client's
\* requests pass one at a time.
FlowInvariant == FlowTypes /\ MessagesWhole /\ Framed /\ Counted /\ Ordered

\* The inductive invariant of the dataflow.
THEOREM FlowInvariantCorrect == FlowSpec => []FlowInvariant
<1>1. FlowInit => FlowInvariant
  BY FlowInitTypes, FlowInitInvariant DEF FlowInvariant
<1>2. FlowInvariant /\ [FlowNext]_flowVars => FlowInvariant'
  BY TypesStep, MessagesStep, FramedStep, CountedStep, OrderedStep DEF FlowInvariant
<1> QED  BY <1>1, <1>2, PTL DEF FlowSpec

\* Neither direction of a connection loses its frames, however the network cuts the
\* stream and send() the output, for any requests, sizes, workers and window.
THEOREM StreamsFramedCorrect == FlowSpec => []StreamsFramed
<1>1. FlowInvariant => StreamsFramed
  <2>1. ASSUME FlowInvariant PROVE RepliesFramed
    <3>1. \A i \in 1..Len(passed) : i \in Nat \ {0} /\ i <= Len(passed)
      BY <2>1 DEF FlowInvariant, FlowTypes
    <3>2. \A i \in 1..Len(passed) : InTasks(i) + InWorkers(i) + InSends(i) + InReplies(i) = 1
      BY <2>1, <3>1 DEF FlowInvariant, Counted
    <3> QED  BY <2>1, <3>2 DEF FlowInvariant, Framed, RepliesFramed, All
  <2> QED  BY <2>1 DEF StreamsFramed, FlowInvariant
<1> QED  BY <1>1, FlowInvariantCorrect, PTL

\* A client that waits for each reply is answered in order, with the login state that
\* its own requests made, whichever of any number of threads answers.
THEOREM OneAtATimeInOrderCorrect == FlowSpec => []OneAtATimeInOrder
<1>1. FlowInvariant => OneAtATimeInOrder
  <2>1. SUFFICES ASSUME FlowInvariant, ~ pipelines, NEW k \in DOMAIN Sent
                 PROVE  /\ 2 * Sent[k].of \in {k, k + 1}
                        /\ Sent[k].text \in {"header", InOrder(Sent[k].of), Junk}
    BY DEF OneAtATimeInOrder
  <2>2. got \in Seq(Unit) /\ wire \in Seq(Unit) /\ outputbuffer_ \in Seq(Unit)
    BY <2>1 DEF FlowInvariant, FlowTypes
  <2>3. Sent \in Seq(Unit)
    BY <2>2, ConcatProperties DEF Sent
  <2>4. k \in DOMAIN All /\ All[k] = Sent[k]
    <3>1. k \in 1..Len(Sent) /\ Len(Sent) \in Nat
      BY <2>1, <2>3
    <3>2. All \in Seq(Unit) /\ Len(All) = Len(Sent) + Len(outputbuffer_) /\ All[k] = Sent[k]
      BY <2>2, <2>3, <3>1, ConcatProperties DEF All
    <3>3. Len(outputbuffer_) \in Nat /\ DOMAIN All = 1..Len(All)
      BY <2>2, <3>2
    <3> QED  BY <3>1, <3>2, <3>3
  <2>5. PICK m \in Nat : Len(All) = 2 * m
    BY <2>1 DEF FlowInvariant, Framed
  <2>6. InTurn(m)
    BY <2>1, <2>5 DEF FlowInvariant, Ordered
  <2> QED  BY <2>4, <2>6 DEF InTurn, InTurnOf
<1> QED  BY <1>1, FlowInvariantCorrect, PTL

=============================================================================
