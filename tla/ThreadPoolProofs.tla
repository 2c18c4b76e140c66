-------------------------- MODULE ThreadPoolProofs --------------------------
(***************************************************************************)
(* The safety properties of ThreadPool, for any finite set of workers and  *)
(* of callers and any set of tasks.                                        *)
(***************************************************************************)
EXTENDS ThreadPool, TLAPS, FiniteSetTheorems

-----------------------------------------------------------------------------
(* What a queue holds after a push and after a pop.                        *)

\* A push adds its element to what the queue holds.
LEMMA RangeOfAppend ==
  ASSUME NEW S, NEW q \in Seq(S), NEW e
  PROVE  Range(Append(q, e)) = Range(q) \cup {e}
<1>1. \A i \in 1..Len(q) : Append(q, e)[i] = q[i]
  OBVIOUS
<1>2. /\ DOMAIN Append(q, e) = 1..(Len(q) + 1)
      /\ Append(q, e)[Len(q) + 1] = e
      /\ DOMAIN q = 1..Len(q)
      /\ Len(q) \in Nat
  OBVIOUS
<1>3. 1..(Len(q) + 1) = (1..Len(q)) \cup {Len(q) + 1}
  BY <1>2
<1>. QED
  BY <1>1, <1>2, <1>3 DEF Range

\* A queue holds its head and what it holds after a pop.
LEMMA RangeOfTail ==
  ASSUME NEW S, NEW q \in Seq(S), q # <<>>
  PROVE  Range(q) = Range(Tail(q)) \cup {Head(q)}
<1>1. /\ DOMAIN q = 1..Len(q)
      /\ DOMAIN Tail(q) = 1..(Len(q) - 1)
      /\ Len(q) \in Nat \ {0}
      /\ Head(q) = q[1]
      /\ \A i \in 1..(Len(q) - 1) : Tail(q)[i] = q[i + 1]
  OBVIOUS
<1>2. \A i \in 1..Len(q) : i = 1 \/ (i - 1 \in 1..(Len(q) - 1) /\ (i - 1) + 1 = i)
  BY <1>1
<1>3. \A i \in 1..(Len(q) - 1) : i + 1 \in 1..Len(q)
  BY <1>1
<1>4. 1 \in 1..Len(q)
  BY <1>1
<1>5. ASSUME NEW x \in Range(q) PROVE x \in Range(Tail(q)) \cup {Head(q)}
  <2>1. PICK i \in 1..Len(q) : x = q[i]
    BY <1>1 DEF Range
  <2>2. CASE i = 1
    BY <2>1, <2>2, <1>1
  <2>3. CASE i - 1 \in 1..(Len(q) - 1) /\ (i - 1) + 1 = i
    <3>1. x = Tail(q)[i - 1]
      BY <2>1, <2>3, <1>1
    <3>. QED
      BY <3>1, <2>3, <1>1 DEF Range
  <2>. QED
    BY <1>2, <2>1, <2>2, <2>3
<1>6. ASSUME NEW x \in Range(Tail(q)) \cup {Head(q)} PROVE x \in Range(q)
  <2>1. CASE x = Head(q)
    BY <2>1, <1>1, <1>4 DEF Range
  <2>2. CASE x \in Range(Tail(q))
    <3>1. PICK i \in 1..(Len(q) - 1) : x = Tail(q)[i]
      BY <2>2, <1>1 DEF Range
    <3>. QED
      BY <3>1, <1>1, <1>3 DEF Range
  <2>. QED
    BY <1>6, <2>1, <2>2
<1>. QED
  BY <1>5, <1>6

\* A queue holds finitely many elements.
LEMMA RangeFinite ==
  ASSUME NEW S, NEW q \in Seq(S)
  PROVE  IsFiniteSet(Range(q))
<1>1. q \in Surjection(1..Len(q), Range(q))
  BY DEF Surjection, Range
<1>2. IsFiniteSet(1..Len(q))
  BY FS_Interval
<1>. QED
  BY <1>1, <1>2, FS_Surjection

\* A push of an element that is not in the queue duplicates nothing.
LEMMA InjectiveAppend ==
  ASSUME NEW S, NEW q \in Seq(S), IsInjective(q), NEW e, e \notin Range(q)
  PROVE  IsInjective(Append(q, e))
<1>1. /\ DOMAIN q = 1..Len(q)
      /\ DOMAIN Append(q, e) = 1..(Len(q) + 1)
      /\ Len(q) \in Nat
      /\ \A i \in 1..Len(q) : Append(q, e)[i] = q[i]
      /\ Append(q, e)[Len(q) + 1] = e
  OBVIOUS
<1>2. \A i \in 1..Len(q) : q[i] # e
  BY <1>1 DEF Range
<1>3. \A i \in 1..(Len(q) + 1) : i \in 1..Len(q) \/ i = Len(q) + 1
  BY <1>1
<1>. QED
  BY <1>1, <1>2, <1>3 DEF IsInjective

\* Popping leaves a queue without repetitions, and without what was popped.
LEMMA InjectiveTail ==
  ASSUME NEW S, NEW q \in Seq(S), IsInjective(q), q # <<>>
  PROVE  IsInjective(Tail(q)) /\ Head(q) \notin Range(Tail(q))
<1>1. /\ DOMAIN q = 1..Len(q)
      /\ DOMAIN Tail(q) = 1..(Len(q) - 1)
      /\ Len(q) \in Nat \ {0}
      /\ Head(q) = q[1]
      /\ \A i \in 1..(Len(q) - 1) : Tail(q)[i] = q[i + 1]
  OBVIOUS
<1>2. \A i \in 1..(Len(q) - 1) : i + 1 \in 1..Len(q) /\ i + 1 # 1
  BY <1>1
<1>3. 1 \in 1..Len(q)
  BY <1>1
<1>4. IsInjective(Tail(q))
  BY <1>1, <1>2 DEF IsInjective
<1>5. Head(q) \notin Range(Tail(q))
  BY <1>1, <1>2, <1>3 DEF IsInjective, Range
<1>. QED
  BY <1>4, <1>5

-----------------------------------------------------------------------------
(* Types.                                                                  *)

\* Types, of the pool, of its workers and of its callers.
THEOREM TypeCorrect == Spec => []TypeOK
<1>. USE DEF WorkerStates, StopperStates, queueVars, stopVars, Running, Asleep
<1>1. Init => TypeOK
  <2>. SUFFICES ASSUME Init PROVE TypeOK
    OBVIOUS
  <2>1. taskqueue_ \in Seq(Tasks)
    BY DEF Init
  <2>2. stop_ \in BOOLEAN
    BY DEF Init
  <2>3. /\ worker \in [Workers -> WorkerStates]
        /\ task \in [Workers -> Tasks \cup {None}]
        /\ \A w \in Workers : task[w] = None <=> worker[w] # "run"
    BY DEF Init
  <2>. QED
    BY <2>1, <2>2, <2>3 DEF Init, TypeOK
<1>2. TypeOK /\ [Next]_vars => TypeOK'
  <2>. SUFFICES ASSUME TypeOK, [Next]_vars PROVE TypeOK'
    OBVIOUS
  <2>. USE PoolAssumption
  <2>1. ASSUME NEW w \in Workers, TestStop(w) PROVE TypeOK'
    BY <2>1 DEF TestStop, TypeOK
  <2>2. ASSUME NEW w \in Workers, Lock(w) PROVE TypeOK'
    BY <2>2 DEF Lock, TypeOK
  <2>3. ASSUME NEW w \in Workers, CheckEmpty(w) PROVE TypeOK'
    BY <2>3 DEF CheckEmpty, TypeOK
  <2>4. ASSUME NEW w \in Workers, Sleep(w) PROVE TypeOK'
    BY <2>4 DEF Sleep, TypeOK
  <2>5. ASSUME NEW w \in Workers, SpuriousWakeup(w) PROVE TypeOK'
    BY <2>5 DEF SpuriousWakeup, TypeOK
  <2>6. ASSUME NEW w \in Workers, CheckStopped(w) PROVE TypeOK'
    BY <2>6 DEF CheckStopped, TypeOK
  <2>7. ASSUME NEW w \in Workers, Pop(w) PROVE TypeOK'
    <3>1. Head(taskqueue_) \in Tasks /\ Tail(taskqueue_) \in Seq(Tasks)
      BY <2>7 DEF Pop, TypeOK
    <3>. QED
      BY <2>7, <3>1 DEF Pop, TypeOK
  <2>8. ASSUME NEW w \in Workers, RunTask(w) PROVE TypeOK'
    BY <2>8 DEF RunTask, TypeOK
  <2>9. ASSUME NEW p \in Producers, NEW t \in Tasks, Push(p, t) PROVE TypeOK'
    BY <2>9 DEF Push, TypeOK
  <2>10. ASSUME NEW p \in Producers, NotifyOne(p) PROVE TypeOK'
    BY <2>10 DEF NotifyOne, TypeOK
  <2>11. CASE SetStop
    <3>1. Range(taskqueue_) \subseteq Tasks
      BY DEF TypeOK, Range
    <3>. QED
      BY <2>11, <3>1 DEF SetStop, TypeOK
  <2>12. CASE NotifyAll
    BY <2>12 DEF NotifyAll, TypeOK
  <2>13. CASE JoinAll
    BY <2>13 DEF JoinAll, TypeOK
  <2>14. CASE UNCHANGED vars
    BY <2>14 DEF vars, TypeOK
  <2>. QED
    BY <2>1, <2>2, <2>3, <2>4, <2>5, <2>6, <2>7, <2>8, <2>9, <2>10, <2>11,
       <2>12, <2>13, <2>14 DEF Next, WorkerStep, StopperStep
<1>. QED
  BY <1>1, <1>2, PTL DEF Spec

-----------------------------------------------------------------------------
(* The mutex, and what a worker about to sleep knows.                      *)

\* The mutex of the task queue has one holder, the one that is in its section.
LEMMA MutexCorrect == Spec => []MutexHeld
<1>. USE DEF MutexHeld
<1>1. Init => MutexHeld
  BY PoolAssumption DEF Init
<1>2. TypeOK /\ MutexHeld /\ [Next]_vars => MutexHeld'
  <2>. SUFFICES ASSUME TypeOK, MutexHeld, [Next]_vars PROVE MutexHeld'
    OBVIOUS
  <2>. USE PoolAssumption DEF TypeOK, queueVars, stopVars, Asleep
  <2>1. ASSUME NEW w \in Workers, TestStop(w) PROVE MutexHeld'
    BY <2>1 DEF TestStop
  <2>2. ASSUME NEW w \in Workers, Lock(w) PROVE MutexHeld'
    BY <2>2 DEF Lock
  <2>3. ASSUME NEW w \in Workers, CheckEmpty(w) PROVE MutexHeld'
    BY <2>3 DEF CheckEmpty
  <2>4. ASSUME NEW w \in Workers, Sleep(w) PROVE MutexHeld'
    BY <2>4 DEF Sleep
  <2>5. ASSUME NEW w \in Workers, SpuriousWakeup(w) PROVE MutexHeld'
    BY <2>5 DEF SpuriousWakeup
  <2>6. ASSUME NEW w \in Workers, CheckStopped(w) PROVE MutexHeld'
    BY <2>6 DEF CheckStopped
  <2>7. ASSUME NEW w \in Workers, Pop(w) PROVE MutexHeld'
    BY <2>7 DEF Pop
  <2>8. ASSUME NEW w \in Workers, RunTask(w) PROVE MutexHeld'
    BY <2>8 DEF RunTask
  <2>9. ASSUME NEW p \in Producers, NEW t \in Tasks, Push(p, t) PROVE MutexHeld'
    BY <2>9 DEF Push
  <2>10. ASSUME NEW p \in Producers, NotifyOne(p) PROVE MutexHeld'
    BY <2>10 DEF NotifyOne
  <2>11. CASE SetStop
    BY <2>11 DEF SetStop
  <2>12. CASE NotifyAll
    BY <2>12 DEF NotifyAll
  <2>13. CASE JoinAll
    BY <2>13 DEF JoinAll
  <2>14. CASE UNCHANGED vars
    BY <2>14 DEF vars
  <2>. QED
    BY <2>1, <2>2, <2>3, <2>4, <2>5, <2>6, <2>7, <2>8, <2>9, <2>10, <2>11,
       <2>12, <2>13, <2>14 DEF Next, WorkerStep, StopperStep
<1>. QED
  BY <1>1, <1>2, TypeCorrect, PTL DEF Spec

\* A worker goes to sleep only on an empty queue.
LEMMA BlockingCorrect == Spec => []BlocksOnEmpty
<1>. USE DEF BlocksOnEmpty
<1>1. Init => BlocksOnEmpty
  BY DEF Init
<1>2. TypeOK /\ MutexHeld /\ BlocksOnEmpty /\ [Next]_vars => BlocksOnEmpty'
  <2>. SUFFICES ASSUME TypeOK, MutexHeld, BlocksOnEmpty, [Next]_vars
                PROVE  BlocksOnEmpty'
    OBVIOUS
  <2>. USE DEF TypeOK, queueVars, stopVars, Asleep
  <2>1. ASSUME NEW w \in Workers, TestStop(w) PROVE BlocksOnEmpty'
    BY <2>1 DEF TestStop
  <2>2. ASSUME NEW w \in Workers, Lock(w) PROVE BlocksOnEmpty'
    BY <2>2 DEF Lock
  <2>3. ASSUME NEW w \in Workers, CheckEmpty(w) PROVE BlocksOnEmpty'
    BY <2>3 DEF CheckEmpty
  <2>4. ASSUME NEW w \in Workers, Sleep(w) PROVE BlocksOnEmpty'
    BY <2>4 DEF Sleep
  <2>5. ASSUME NEW w \in Workers, SpuriousWakeup(w) PROVE BlocksOnEmpty'
    BY <2>5 DEF SpuriousWakeup
  <2>6. ASSUME NEW w \in Workers, CheckStopped(w) PROVE BlocksOnEmpty'
    BY <2>6 DEF CheckStopped
  <2>7. ASSUME NEW w \in Workers, Pop(w) PROVE BlocksOnEmpty'
    <3>. SUFFICES ASSUME NEW v \in Workers, worker'[v] = "block" PROVE FALSE
      OBVIOUS
    <3>1. v # w /\ worker[v] = "block"
      BY <2>7 DEF Pop
    <3>. QED
      BY <2>7, <3>1 DEF Pop, MutexHeld
  <2>8. ASSUME NEW w \in Workers, RunTask(w) PROVE BlocksOnEmpty'
    BY <2>8 DEF RunTask
  \* A push needs mutex_ free, so no worker is about to block.
  <2>9. ASSUME NEW p \in Producers, NEW t \in Tasks, Push(p, t)
        PROVE  BlocksOnEmpty'
    BY <2>9, PoolAssumption DEF Push, MutexHeld
  <2>10. ASSUME NEW p \in Producers, NotifyOne(p) PROVE BlocksOnEmpty'
    BY <2>10 DEF NotifyOne
  <2>11. CASE SetStop
    BY <2>11 DEF SetStop
  <2>12. CASE NotifyAll
    BY <2>12 DEF NotifyAll
  <2>13. CASE JoinAll
    BY <2>13 DEF JoinAll
  <2>14. CASE UNCHANGED vars
    BY <2>14 DEF vars
  <2>. QED
    BY <2>1, <2>2, <2>3, <2>4, <2>5, <2>6, <2>7, <2>8, <2>9, <2>10, <2>11,
       <2>12, <2>13, <2>14 DEF Next, WorkerStep, StopperStep
<1>. QED
  BY <1>1, <1>2, TypeCorrect, MutexCorrect, PTL DEF Spec

-----------------------------------------------------------------------------
(* A task is queued, held or done, never two of them, and never twice.     *)

\* No task of addtask() is run twice, whichever workers take them.
THEOREM TasksAreNotDuplicated == Spec => []NoTaskDuplicated
<1>1. Init => NoTaskDuplicated
  BY DEF Init, NoTaskDuplicated, Running, Range, IsInjective
<1>2. TypeOK /\ NoTaskDuplicated /\ [Next]_vars => NoTaskDuplicated'
  <2>. SUFFICES ASSUME TypeOK, NoTaskDuplicated, [Next]_vars
                PROVE  NoTaskDuplicated'
    OBVIOUS
  <2>1. ASSUME NEW w \in Workers, Pop(w) PROVE NoTaskDuplicated'
    <3>. DEFINE h == Head(taskqueue_)
    <3>1. /\ Range(taskqueue_) = Range(Tail(taskqueue_)) \cup {h}
          /\ taskqueue_ # <<>>
      BY <2>1, RangeOfTail DEF Pop, TypeOK
    <3>2. IsInjective(taskqueue_')
      BY <2>1, InjectiveTail DEF Pop, TypeOK, NoTaskDuplicated
    <3>3. h \notin Range(Tail(taskqueue_))
      BY <3>1, InjectiveTail DEF TypeOK, NoTaskDuplicated
    <3>4. /\ Running' = Running \cup {w}
          /\ w \notin Running
          /\ task'[w] = h
          /\ \A v \in Running : task'[v] = task[v]
          /\ taskqueue_' = Tail(taskqueue_)
          /\ finished' = finished
      BY <2>1 DEF Pop, TypeOK, Running
    <3>. HIDE DEF h
    <3>5. h \notin finished /\ \A v \in Running : task[v] # h
      BY <3>1 DEF NoTaskDuplicated
    <3>6. \A u, v \in Running' : task'[u] = task'[v] => u = v
      BY <3>4, <3>5 DEF NoTaskDuplicated
    <3>7. \A v \in Running' : task'[v] \notin Range(taskqueue_') \cup finished'
      BY <3>1, <3>3, <3>4, <3>5 DEF NoTaskDuplicated
    <3>8. finished' \cap Range(taskqueue_') = {}
      BY <3>1, <3>4 DEF NoTaskDuplicated
    <3>. QED
      BY <3>2, <3>6, <3>7, <3>8 DEF NoTaskDuplicated
  <2>2. ASSUME NEW w \in Workers, RunTask(w) PROVE NoTaskDuplicated'
    BY <2>2 DEF RunTask, TypeOK, NoTaskDuplicated, Running
  <2>3. ASSUME NEW p \in Producers, NEW t \in Tasks, Push(p, t)
        PROVE  NoTaskDuplicated'
    <3>1. /\ Range(taskqueue_') = Range(taskqueue_) \cup {t}
          /\ t \notin Range(taskqueue_) \cup finished
          /\ \A v \in Running : task[v] # t
      BY <2>3, RangeOfAppend DEF Push, TypeOK, Submitted
    <3>2. Running' = Running /\ task' = task /\ finished' = finished
      BY <2>3 DEF Push, Running
    <3>3. IsInjective(taskqueue_')
      BY <2>3, <3>1, InjectiveAppend DEF Push, TypeOK, NoTaskDuplicated
    <3>. QED
      BY <3>1, <3>2, <3>3 DEF NoTaskDuplicated
  \* The other steps move no task.
  <2>4. ASSUME UNCHANGED queueVars, Running' = Running PROVE NoTaskDuplicated'
    BY <2>4 DEF queueVars, NoTaskDuplicated
  <2>5. ASSUME NEW w \in Workers,
               \/ TestStop(w) \/ Lock(w) \/ CheckEmpty(w) \/ Sleep(w)
               \/ SpuriousWakeup(w) \/ CheckStopped(w)
        PROVE  UNCHANGED queueVars /\ Running' = Running
    BY <2>5 DEF TestStop, Lock, CheckEmpty, Sleep, SpuriousWakeup, CheckStopped,
                TypeOK, Running
  <2>6. ASSUME NEW p \in Producers, NotifyOne(p)
        PROVE  UNCHANGED queueVars /\ Running' = Running
    BY <2>6 DEF NotifyOne, TypeOK, Running, Asleep
  <2>7. ASSUME SetStop \/ StopperStep \/ UNCHANGED vars
        PROVE  UNCHANGED queueVars /\ Running' = Running
    BY <2>7 DEF SetStop, StopperStep, NotifyAll, JoinAll, vars, TypeOK, Running,
                Asleep
  <2>. QED
    BY <2>1, <2>2, <2>3, <2>4, <2>5, <2>6, <2>7 DEF Next, WorkerStep
<1>. QED
  BY <1>1, <1>2, TypeCorrect, PTL DEF Spec

-----------------------------------------------------------------------------
(* While a worker sleeps, the queue is no longer than the set of threads   *)
(* that are about to look at it.                                           *)

\* There are finitely many workers to look for work.
LEMMA LookersFinite == IsFiniteSet(Lookers)
<1>1. IsFiniteSet(Producers \cup Workers)
  BY PoolAssumption, FS_Union
<1>2. Lookers \in SUBSET (Producers \cup Workers)
  BY DEF Lookers
<1>. QED
  BY <1>1, <1>2, FS_Subset

\* A step that keeps every looker and does not lengthen the queue is harmless.
LEMMA MoreLookers ==
  ASSUME IsFiniteSet(Lookers'), Lookers \subseteq Lookers',
         taskqueue_' = taskqueue_, stop_' = stop_,
         Asleep' # {} => Asleep # {},
         TypeOK, WakeupsSuffice
  PROVE  WakeupsSuffice'
<1>1. /\ Cardinality(Lookers) \in Nat
      /\ Cardinality(Lookers') \in Nat
      /\ Cardinality(Lookers) <= Cardinality(Lookers')
  <2>1. Lookers \in SUBSET Lookers'
    OBVIOUS
  <2>. QED
    BY <2>1, LookersFinite, FS_Subset, FS_CardinalityType
<1>2. Len(taskqueue_) \in Nat
  BY DEF TypeOK
<1>. QED
  BY <1>1, <1>2 DEF WakeupsSuffice

\* No lost wakeup before stop(): while a worker sleeps, each task that addtask()
\* queued has a thread of its own that will notify a worker or be one.
THEOREM WakeupsAlwaysSuffice == Spec => []WakeupsSuffice
<1>1. Init => WakeupsSuffice
  BY DEF Init, WakeupsSuffice, Asleep
<1>2. /\ TypeOK /\ TypeOK' /\ BlocksOnEmpty
      /\ WakeupsSuffice /\ [Next]_vars
      => WakeupsSuffice'
  <2>. SUFFICES ASSUME TypeOK, TypeOK', BlocksOnEmpty, WakeupsSuffice,
                       [Next]_vars
                PROVE  WakeupsSuffice'
    OBVIOUS
  <2>0. /\ IsFiniteSet(Lookers')
        /\ Cardinality(Lookers) \in Nat /\ Cardinality(Lookers') \in Nat
        /\ Len(taskqueue_) \in Nat /\ Len(taskqueue_') \in Nat
    <3>1. IsFiniteSet(Producers \cup Workers)
      BY PoolAssumption, FS_Union
    <3>2. Lookers' \in SUBSET (Producers \cup Workers)
      BY DEF Lookers
    <3>3. IsFiniteSet(Lookers')
      BY <3>1, <3>2, FS_Subset
    <3>. QED
      BY <3>3, LookersFinite, FS_CardinalityType DEF TypeOK
  \* These are false once stop_ is set, or leave the queue empty.
  <2>1. ASSUME NEW w \in Workers, TestStop(w) PROVE WakeupsSuffice'
    <3>1. CASE stop_
      BY <2>1, <3>1 DEF TestStop, stopVars, WakeupsSuffice
    <3>2. CASE ~stop_
      <4>1. /\ Lookers' = Lookers /\ Asleep' = Asleep
            /\ taskqueue_' = taskqueue_ /\ stop_' = stop_
        BY <2>1, <3>2 DEF TestStop, stopVars, queueVars, Lookers, Asleep, TypeOK
      <4>. QED
        BY <2>0, <4>1, MoreLookers
    <3>. QED
      BY <3>1, <3>2
  <2>2. ASSUME NEW w \in Workers, CheckEmpty(w) \/ Sleep(w) PROVE WakeupsSuffice'
    <3>1. taskqueue_' = <<>>
      BY <2>2 DEF CheckEmpty, Sleep, queueVars, BlocksOnEmpty
    <3>. QED
      BY <2>0, <3>1 DEF WakeupsSuffice
  <2>3. ASSUME NEW w \in Workers, CheckStopped(w) PROVE WakeupsSuffice'
    BY <2>3 DEF CheckStopped, stopVars, WakeupsSuffice
  <2>4. CASE SetStop
    BY <2>4 DEF SetStop, WakeupsSuffice
  \* These keep the lookers, and put nobody to sleep.
  <2>5. ASSUME NEW w \in Workers, Lock(w) \/ SpuriousWakeup(w) \/ RunTask(w)
        PROVE  WakeupsSuffice'
    <3>1. /\ Lookers \subseteq Lookers' /\ Asleep' \subseteq Asleep
          /\ taskqueue_' = taskqueue_ /\ stop_' = stop_
      BY <2>5 DEF Lock, SpuriousWakeup, RunTask, stopVars, queueVars, Lookers,
                  Asleep, TypeOK
    <3>. QED
      BY <2>0, <3>1, MoreLookers
  <2>6. CASE NotifyAll \/ JoinAll \/ UNCHANGED vars
    <3>1. /\ Lookers \subseteq Lookers' /\ Asleep' \subseteq Asleep
          /\ taskqueue_' = taskqueue_ /\ stop_' = stop_
      BY <2>6 DEF NotifyAll, JoinAll, vars, stopVars, queueVars, Lookers,
                  Asleep, TypeOK
    <3>. QED
      BY <2>0, <3>1, MoreLookers
  \* A pop takes one task and one looker away.
  <2>7. ASSUME NEW w \in Workers, Pop(w) PROVE WakeupsSuffice'
    <3>1. /\ Lookers' = Lookers \ {w} /\ w \in Lookers
          /\ Asleep' = Asleep /\ stop_' = stop_
      BY <2>7, PoolAssumption DEF Pop, stopVars, Lookers, Asleep, TypeOK
    <3>2. Cardinality(Lookers') = Cardinality(Lookers) - 1
      BY <3>1, LookersFinite, FS_RemoveElement
    <3>3. Len(taskqueue_') = Len(taskqueue_) - 1
      <4>1. /\ taskqueue_ \in Seq(Tasks) /\ taskqueue_ # <<>>
            /\ taskqueue_' = Tail(taskqueue_)
        BY <2>7 DEF Pop, TypeOK
      <4>. QED
        BY <4>1
    <3>. QED
      BY <2>0, <3>1, <3>2, <3>3 DEF WakeupsSuffice
  \* A push adds one task and one looker, the caller that will notify.
  <2>8. ASSUME NEW p \in Producers, NEW t \in Tasks, Push(p, t)
        PROVE  WakeupsSuffice'
    <3>1. /\ Lookers' = Lookers \cup {p} /\ p \notin Lookers
          /\ Asleep' = Asleep /\ stop_' = stop_
      BY <2>8, PoolAssumption DEF Push, stopVars, Lookers, Asleep, TypeOK
    <3>2. Cardinality(Lookers') = Cardinality(Lookers) + 1
      BY <3>1, LookersFinite, FS_AddElement
    <3>3. Len(taskqueue_') = Len(taskqueue_) + 1
      BY <2>8 DEF Push, TypeOK
    <3>. QED
      BY <2>0, <3>1, <3>2, <3>3 DEF WakeupsSuffice
  \* A notification hands the caller's place over to the worker it wakes.
  <2>9. ASSUME NEW p \in Producers, NotifyOne(p) PROVE WakeupsSuffice'
    <3>1. CASE Asleep = {}
      <4>1. Asleep' = {}
        BY <2>9, <3>1 DEF NotifyOne, Asleep
      <4>. QED
        BY <4>1 DEF WakeupsSuffice
    <3>2. CASE Asleep # {}
      <4>1. PICK w \in Asleep : worker' = [worker EXCEPT ![w] = "lock"]
        BY <2>9, <3>2 DEF NotifyOne
      <4>2. /\ Lookers' = (Lookers \ {p}) \cup {w}
            /\ p \in Lookers /\ w \notin Lookers \ {p}
            /\ stop_' = stop_ /\ taskqueue_' = taskqueue_
        BY <2>9, <4>1, PoolAssumption
           DEF NotifyOne, stopVars, queueVars, Lookers, Asleep, TypeOK
      <4>3. /\ IsFiniteSet(Lookers \ {p})
            /\ Cardinality(Lookers \ {p}) = Cardinality(Lookers) - 1
        BY <4>2, LookersFinite, FS_RemoveElement
      <4>4. Cardinality(Lookers') = Cardinality(Lookers \ {p}) + 1
        BY <4>2, <4>3, FS_AddElement
      <4>. QED
        BY <2>0, <3>2, <4>2, <4>3, <4>4 DEF WakeupsSuffice
    <3>. QED
      BY <3>1, <3>2
  <2>. QED
    BY <2>1, <2>2, <2>3, <2>4, <2>5, <2>6, <2>7, <2>8, <2>9
       DEF Next, WorkerStep, StopperStep
<1>. QED
  BY <1>1, <1>2, TypeCorrect, BlockingCorrect, PTL DEF Spec

-----------------------------------------------------------------------------
(* After stop_ is set, a worker that takes a task never comes back for     *)
(* another one: each task taken is charged to a worker past the queue.     *)

PastQueue == {w \in Workers : worker[w] \in {"run", "test", "exited"}}

StopCharges ==
  /\ IsFiniteSet(queuedAtStop)
  /\ stop_ => Cardinality(queuedAtStop \ Range(taskqueue_)) <= Cardinality(PastQueue)

\* Finitely many workers are past the queue.
LEMMA PastQueueFinite ==
  /\ IsFiniteSet(PastQueue)
  /\ Cardinality(PastQueue) \in Nat
  /\ Cardinality(PastQueue) <= Cardinality(Workers)
<1>1. PastQueue \in SUBSET Workers
  BY DEF PastQueue
<1>. QED
  BY <1>1, PoolAssumption, FS_Subset, FS_CardinalityType

\* Each task taken after stop() is charged to a worker that does not come back
\* to the queue: it will find stop_ set.
LEMMA StopChargesCorrect == Spec => []StopCharges
<1>1. Init => StopCharges
  BY FS_EmptySet DEF Init, StopCharges
<1>2. TypeOK /\ StopCharges /\ [Next]_vars => StopCharges'
  <2>. SUFFICES ASSUME TypeOK, StopCharges, [Next]_vars PROVE StopCharges'
    OBVIOUS
  <2>. DEFINE gone == queuedAtStop \ Range(taskqueue_)
  <2>0. /\ IsFiniteSet(gone) /\ Cardinality(gone) \in Nat
        /\ Cardinality(PastQueue) \in Nat
    BY PastQueueFinite, FS_Difference, FS_CardinalityType DEF StopCharges
  \* These take no task, and nobody leaves PastQueue.
  <2>1. ASSUME gone' \subseteq gone, PastQueue \subseteq PastQueue',
               UNCHANGED <<stop_, queuedAtStop>>
        PROVE  StopCharges'
    <3>1. IsFiniteSet(PastQueue')
      <4>1. PastQueue' \in SUBSET Workers
        BY DEF PastQueue
      <4>. QED
        BY <4>1, PoolAssumption, FS_Subset
    <3>2. /\ Cardinality(gone') <= Cardinality(gone)
          /\ Cardinality(gone') \in Nat
      <4>1. gone' \in SUBSET gone
        BY <2>1
      <4>. QED
        BY <4>1, <2>0, FS_Subset, FS_CardinalityType
    <3>3. /\ Cardinality(PastQueue) <= Cardinality(PastQueue')
          /\ Cardinality(PastQueue') \in Nat
      <4>1. PastQueue \in SUBSET PastQueue'
        BY <2>1
      <4>. QED
        BY <4>1, <3>1, FS_Subset, FS_CardinalityType
    <3>. QED
      BY <2>0, <2>1, <3>2, <3>3 DEF StopCharges
  <2>2. ASSUME NEW w \in Workers, TestStop(w) PROVE StopCharges'
    <3>1. CASE stop_
      <4>1. gone' = gone /\ PastQueue' = PastQueue /\ UNCHANGED <<stop_, queuedAtStop>>
        BY <2>2, <3>1 DEF TestStop, stopVars, queueVars, PastQueue, TypeOK
      <4>. QED
        BY <2>1, <4>1
    <3>2. CASE ~stop_
      BY <2>2, <3>2 DEF TestStop, stopVars, StopCharges
    <3>. QED
      BY <3>1, <3>2
  <2>3. ASSUME NEW w \in Workers,
               \/ Lock(w) \/ CheckEmpty(w) \/ Sleep(w) \/ SpuriousWakeup(w)
               \/ CheckStopped(w) \/ RunTask(w)
        PROVE  StopCharges'
    <3>1. gone' = gone /\ PastQueue \subseteq PastQueue' /\ UNCHANGED <<stop_, queuedAtStop>>
      BY <2>3 DEF Lock, CheckEmpty, Sleep, SpuriousWakeup, CheckStopped, RunTask,
                  stopVars, queueVars, PastQueue, TypeOK
    <3>. QED
      BY <2>1, <3>1
  <2>4. ASSUME NEW p \in Producers, NotifyOne(p) PROVE StopCharges'
    <3>1. gone' = gone /\ PastQueue \subseteq PastQueue' /\ UNCHANGED <<stop_, queuedAtStop>>
      BY <2>4 DEF NotifyOne, stopVars, queueVars, PastQueue, Asleep, TypeOK
    <3>. QED
      BY <2>1, <3>1
  <2>5. CASE StopperStep \/ UNCHANGED vars
    <3>1. gone' = gone /\ PastQueue \subseteq PastQueue' /\ UNCHANGED <<stop_, queuedAtStop>>
      BY <2>5 DEF StopperStep, NotifyAll, JoinAll, vars, stopVars, queueVars,
                  PastQueue, Asleep, TypeOK
    <3>. QED
      BY <2>1, <3>1
  <2>6. ASSUME NEW p \in Producers, NEW t \in Tasks, Push(p, t) PROVE StopCharges'
    <3>1. Range(taskqueue_') = Range(taskqueue_) \cup {t}
      BY <2>6, RangeOfAppend DEF Push, TypeOK
    <3>2. PastQueue' = PastQueue /\ UNCHANGED <<stop_, queuedAtStop>>
      BY <2>6 DEF Push, stopVars, PastQueue
    <3>. QED
      BY <2>1, <3>1, <3>2
  <2>7. CASE SetStop
    <3>1. queuedAtStop' = Range(taskqueue_) /\ taskqueue_' = taskqueue_
      BY <2>7 DEF SetStop, queueVars
    <3>2. IsFiniteSet(queuedAtStop')
      BY <3>1, RangeFinite DEF TypeOK
    <3>3. Cardinality(gone') = 0
      BY <3>1, FS_EmptySet
    <3>4. Cardinality(PastQueue') \in Nat
      <4>1. PastQueue' \in SUBSET Workers
        BY DEF PastQueue
      <4>. QED
        BY <4>1, PoolAssumption, FS_Subset, FS_CardinalityType
    <3>. QED
      BY <3>2, <3>3, <3>4 DEF StopCharges
  \* The worker that pops joins PastQueue.
  <2>8. ASSUME NEW w \in Workers, Pop(w) PROVE StopCharges'
    <3>. DEFINE h == Head(taskqueue_)
    <3>1. Range(taskqueue_) = Range(taskqueue_') \cup {h}
      BY <2>8, RangeOfTail DEF Pop, TypeOK
    <3>2. /\ PastQueue' = PastQueue \cup {w} /\ w \notin PastQueue
          /\ UNCHANGED <<stop_, queuedAtStop>>
      BY <2>8 DEF Pop, stopVars, PastQueue, TypeOK
    <3>3. Cardinality(PastQueue') = Cardinality(PastQueue) + 1
      BY <3>2, PastQueueFinite, FS_AddElement
    <3>4. /\ Cardinality(gone') <= Cardinality(gone) + 1
          /\ Cardinality(gone') \in Nat
      <4>1. gone' \in SUBSET (gone \cup {h})
        BY <3>1, <3>2
      <4>. HIDE DEF gone, h
      <4>2. /\ IsFiniteSet(gone \cup {h})
            /\ Cardinality(gone \cup {h})
                 = IF h \in gone THEN Cardinality(gone) ELSE Cardinality(gone) + 1
        BY <2>0, FS_AddElement
      <4>3. Cardinality(gone \cup {h}) \in Nat
        BY <4>2, FS_CardinalityType
      <4>. QED
        BY <2>0, <4>1, <4>2, <4>3, FS_Subset, FS_CardinalityType
    <3>. QED
      BY <2>0, <3>2, <3>3, <3>4 DEF StopCharges
  <2>. QED
    BY <2>2, <2>3, <2>4, <2>5, <2>6, <2>7, <2>8 DEF Next, WorkerStep
<1>. QED
  BY <1>1, <1>2, TypeCorrect, PTL DEF Spec

\* What the loop condition (13) makes of the promise of line 26: of the tasks queued
\* when stop() set stop_, at most one for each worker is run.
THEOREM StopBoundsWorkCorrect == Spec => []StopBoundsWork
<1>1. StopCharges => StopBoundsWork
  <2>. SUFFICES ASSUME StopCharges, stop_
                PROVE  Cardinality(queuedAtStop \ Range(taskqueue_))
                         <= Cardinality(Workers)
    BY DEF StopBoundsWork
  <2>1. Cardinality(queuedAtStop \ Range(taskqueue_)) \in Nat
    BY FS_Difference, FS_CardinalityType DEF StopCharges
  <2>2. Cardinality(Workers) \in Nat
    BY PoolAssumption, FS_CardinalityType
  <2>. QED
    BY <2>1, <2>2, PastQueueFinite DEF StopCharges
<1>. QED
  BY <1>1, StopChargesCorrect, PTL

-----------------------------------------------------------------------------
(* Refinement: a push submits, a pop starts, the return of a task finishes *)
(* it, and every other step is a stutter of TaskQueue.                     *)

\* The mutex, the condition variable and the queue of ThreadPool implement the
\* abstract queue: first in, first out, each task once.
THEOREM ImplementsTaskQueueCorrect == Spec => ImplementsTaskQueue
<1>. DEFINE held == {task[w] : w \in Running}
<1>0. \A S : Abstract!Cardinality(S) = Cardinality(S)
  BY DEF Cardinality, Abstract!Cardinality
<1>1. Init => Abstract!TQInit
  BY DEF Init, Abstract!TQInit, Running
<1>2. /\ TypeOK /\ NoTaskDuplicated /\ NoTaskDuplicated' /\ [Next]_vars
      => [Abstract!TQNext]_Abstract!tqVars
  <2>. SUFFICES ASSUME TypeOK, NoTaskDuplicated, [Next]_vars
                PROVE  [Abstract!TQNext]_Abstract!tqVars
    OBVIOUS
  <2>1. ASSUME NEW w \in Workers, Pop(w) PROVE Abstract!Start
    <3>1. /\ Running' = Running \cup {w} /\ w \notin Running
          /\ task'[w] = Head(taskqueue_)
          /\ \A v \in Running : task'[v] = task[v]
      BY <2>1 DEF Pop, TypeOK, Running
    <3>2. {task'[v] : v \in Running'} = held \cup {Head(taskqueue_)}
      BY <3>1
    <3>3. Cardinality(held) < Cardinality(Workers)
      <4>1. Running \in SUBSET (Workers \ {w})
        BY <3>1 DEF Running
      <4>2. /\ IsFiniteSet(Workers \ {w})
            /\ Cardinality(Workers \ {w}) = Cardinality(Workers) - 1
            /\ Cardinality(Workers) \in Nat
        BY PoolAssumption, FS_RemoveElement, FS_CardinalityType
      <4>3. /\ IsFiniteSet(Running)
            /\ Cardinality(Running) <= Cardinality(Workers) - 1
            /\ Cardinality(Running) \in Nat
        BY <4>1, <4>2, FS_Subset, FS_CardinalityType
      <4>4. [v \in Running |-> task[v]] \in Surjection(Running, held)
        BY DEF Surjection
      <4>5. IsFiniteSet(held) /\ Cardinality(held) <= Cardinality(Running)
        BY <4>3, <4>4, FS_Surjection
      <4>6. Cardinality(held) \in Nat
        BY <4>5, FS_CardinalityType
      <4>. HIDE DEF held
      <4>. QED
        BY <4>2, <4>3, <4>5, <4>6
    <3>4. Head(taskqueue_) \in Range(taskqueue_) /\ taskqueue_ # <<>>
      BY <2>1, RangeOfTail DEF Pop, TypeOK
    <3>5. Head(taskqueue_) \notin held \cup finished
      BY <3>4 DEF NoTaskDuplicated
    <3>. QED
      BY <2>1, <3>2, <3>3, <3>4, <3>5, <1>0 DEF Pop, Abstract!Start
  <2>2. ASSUME NEW w \in Workers, RunTask(w) 
        PROVE  \E t \in Tasks : Abstract!Finish(t)
    <3>1. /\ w \in Running /\ Running' = Running \ {w}
          /\ \A v \in Running \ {w} : task'[v] = task[v]
          /\ task[w] \in Tasks
      BY <2>2 DEF RunTask, TypeOK, Running
    <3>2. {task'[v] : v \in Running'} = held \ {task[w]}
      BY <3>1 DEF NoTaskDuplicated
    <3>. QED
      BY <2>2, <3>1, <3>2 DEF RunTask, Abstract!Finish
  <2>3. ASSUME NEW p \in Producers, NEW t \in Tasks, Push(p, t) PROVE Abstract!Submit(t)
    BY <2>3 DEF Push, Abstract!Submit, Submitted, Running, Range, Abstract!Range
  <2>4. ASSUME UNCHANGED queueVars, Running' = Running
        PROVE  UNCHANGED Abstract!tqVars
    BY <2>4 DEF queueVars, Abstract!tqVars
  <2>5. ASSUME NEW w \in Workers,
               \/ TestStop(w) \/ Lock(w) \/ CheckEmpty(w) \/ Sleep(w)
               \/ SpuriousWakeup(w) \/ CheckStopped(w)
        PROVE  UNCHANGED queueVars /\ Running' = Running
    BY <2>5 DEF TestStop, Lock, CheckEmpty, Sleep, SpuriousWakeup, CheckStopped,
                TypeOK, Running
  <2>6. ASSUME NEW p \in Producers, NotifyOne(p)
        PROVE  UNCHANGED queueVars /\ Running' = Running
    BY <2>6 DEF NotifyOne, TypeOK, Running, Asleep
  <2>7. ASSUME SetStop \/ StopperStep \/ UNCHANGED vars
        PROVE  UNCHANGED queueVars /\ Running' = Running
    BY <2>7 DEF SetStop, StopperStep, NotifyAll, JoinAll, vars, TypeOK, Running,
                Asleep
  <2>. QED
    <3>1. CASE \E w \in Workers : Pop(w)
      BY <3>1, <2>1 DEF Abstract!TQNext
    <3>2. CASE \E w \in Workers : RunTask(w)
      BY <3>2, <2>2 DEF Abstract!TQNext
    <3>3. CASE \E p \in Producers, t \in Tasks : Push(p, t)
      BY <3>3, <2>3 DEF Abstract!TQNext
    <3>4. CASE UNCHANGED queueVars /\ Running' = Running
      BY <3>4, <2>4
    <3>. QED
      BY <3>1, <3>2, <3>3, <3>4, <2>5, <2>6, <2>7 DEF Next, WorkerStep
<1>. QED
  BY <1>1, <1>2, TypeCorrect, TasksAreNotDuplicated, PTL
     DEF Spec, ImplementsTaskQueue, Abstract!TQSpec

=============================================================================
