-------------------------- MODULE TcpServerProofs ---------------------------
(***************************************************************************)
(* The safety properties of TcpServer, for any set of Connections, of      *)
(* descriptors and of workers.                                             *)
(***************************************************************************)
EXTENDS TcpServer, TLAPS, FiniteSetTheorems

-----------------------------------------------------------------------------
(* What a queue holds after a push and after a pop.                        *)

\* A push adds its element to what the queue holds.
LEMMA RangeOfAppend ==
  ASSUME NEW S, NEW q \in Seq(S), NEW e
  PROVE  Range(Append(q, e)) = Range(q) \cup {e}
<1>1. \A i \in 1..Len(q) : Append(q, e)[i] = q[i]
  OBVIOUS
<1>2. /\ DOMAIN Append(q, e) = 1..(Len(q) + 1)
      /\ Append(q, e)[Len(q) + 1] = e
      /\ DOMAIN q = 1..Len(q)
      /\ Len(q) \in Nat
  OBVIOUS
<1>3. 1..(Len(q) + 1) = (1..Len(q)) \cup {Len(q) + 1}
  BY <1>2
<1>. QED
  BY <1>1, <1>2, <1>3 DEF Range

\* A queue holds its head and what it holds after a pop.
LEMMA RangeOfTail ==
  ASSUME NEW S, NEW q \in Seq(S), q # <<>>
  PROVE  Range(q) = Range(Tail(q)) \cup {Head(q)}
<1>1. /\ DOMAIN q = 1..Len(q)
      /\ DOMAIN Tail(q) = 1..(Len(q) - 1)
      /\ Len(q) \in Nat \ {0}
      /\ Head(q) = q[1]
      /\ \A i \in 1..(Len(q) - 1) : Tail(q)[i] = q[i + 1]
  OBVIOUS
<1>2. \A i \in 1..Len(q) : i = 1 \/ (i - 1 \in 1..(Len(q) - 1) /\ (i - 1) + 1 = i)
  BY <1>1
<1>3. \A i \in 1..(Len(q) - 1) : i + 1 \in 1..Len(q)
  BY <1>1
<1>4. 1 \in 1..Len(q)
  BY <1>1
<1>5. ASSUME NEW x \in Range(q) PROVE x \in Range(Tail(q)) \cup {Head(q)}
  <2>1. PICK i \in 1..Len(q) : x = q[i]
    BY <1>1 DEF Range
  <2>2. CASE i = 1
    BY <2>1, <2>2, <1>1
  <2>3. CASE i - 1 \in 1..(Len(q) - 1) /\ (i - 1) + 1 = i
    <3>1. x = Tail(q)[i - 1]
      BY <2>1, <2>3, <1>1
    <3>. QED
      BY <3>1, <2>3, <1>1 DEF Range
  <2>. QED
    BY <1>2, <2>1, <2>2, <2>3
<1>6. ASSUME NEW x \in Range(Tail(q)) \cup {Head(q)} PROVE x \in Range(q)
  <2>1. CASE x = Head(q)
    BY <2>1, <1>1, <1>4 DEF Range
  <2>2. CASE x \in Range(Tail(q))
    <3>1. PICK i \in 1..(Len(q) - 1) : x = Tail(q)[i]
      BY <2>2, <1>1 DEF Range
    <3>. QED
      BY <3>1, <1>1, <1>3 DEF Range
  <2>. QED
    BY <1>6, <2>1, <2>2
<1>. QED
  BY <1>5, <1>6

-----------------------------------------------------------------------------
(* The inductive invariant.                                                *)

\* Where each thread has a Connection, and which key the eviction uses.
Control ==
  /\ main.conn = None <=> main.at = "accept"
  /\ io.at \in {"messages", "remove"} \cup Sharing => io.conn \in Conns
  /\ io.at \in {"eraseserver", "eraseuser"} => io.key \in Fds /\ fd[io.conn] = io.key
  /\ \A w \in Workers : worker[w].conn = None <=> worker[w].at = "idle"
  /\ \A c \in Conns : Alive(c) => c \in accepted

\* The kernel gives a descriptor to one live Connection at a time.
FdsDiffer == \A c, d \in Conns : Alive(c) /\ fd[c] = fd[d] => c = d

IInv == Types /\ Ownership /\ Control /\ FdsDiffer /\ MapsAgree

\* Whatever fails leaves the rest of the state alone.
FailStep == \E why \in {"epoll_ctl", "callback", "use after free", "iterator",
                        "null userinfo", "race"} : Fail(why)

\* The steps of the specification, one disjunct each.
LEMMA StepCases ==
  ASSUME [Next]_vars
  PROVE  \/ SetCallbacks \/ AddServer \/ AddLoop \/ AddUser
         \/ Poll \/ EndOfTurn \/ HandleMessage \/ EndOfMessages \/ RemoveChannel
         \/ CloseUser \/ CloseServer \/ HandleWakeup \/ EndOfDrain \/ HandleTimer
         \/ EraseServer \/ EraseUser \/ EndOfSweep
         \/ \E c \in Conns : \/ Read(c) \/ ReadEnd(c) \/ RunSend(c)
                             \/ Request(c) \/ HangUp(c) \/ BecomesIdle(c)
         \/ \E f \in Fds : SweepErase(f)
         \/ \E w \in Workers : \/ Take(w) \/ Lookup(w) \/ Business(w)
                               \/ SendDisconnected(w) \/ Send(w) \/ QueueSend(w)
         \/ \E c \in Conns, f \in Fds : Accept(c, f)
         \/ TimerExpires
         \/ FailStep
         \/ UNCHANGED vars
<1>1. ASSUME NEW c \in Conns, HandleFreed(c) \/ RunSendFails(c) PROVE FailStep
  BY <1>1 DEF HandleFreed, RunSendFails, FailStep
<1>2. ASSUME NEW w \in Workers, BusinessCrash(w) PROVE FailStep
  BY <1>2 DEF BusinessCrash, FailStep
<1>3. ASSUME CallbackMissing \/ SweepCrash \/ AcceptFails \/ DataRace PROVE FailStep
  BY <1>3 DEF CallbackMissing, SweepCrash, AcceptFails, DataRace, FailStep
<1>. QED
  BY <1>1, <1>2, <1>3 DEF Next, MainStep, IoStep, WorkerStep, Environment

\* epoll_wait() returns finitely many events.
LEMMA ReadyFinite == Types => IsFiniteSet(Ready)
<1>. SUFFICES ASSUME Types PROVE IsFiniteSet(Ready)
  OBVIOUS
<1>1. IsFiniteSet(Conns \cup {"timer"})
  BY ServerAssumption, FS_AddElement
<1>2. IsFiniteSet((Conns \cup {"timer"}) \cup {"wakeup"})
  BY <1>1, FS_AddElement
<1>3. Ready \in SUBSET ((Conns \cup {"timer"}) \cup {"wakeup"})
  BY DEF Ready, Types
<1>. QED
  BY <1>2, <1>3, FS_Subset

\* A worker in OnMessage() has a live Connection, whose descriptor is in use.
LEMMA WorkerHolds ==
  ASSUME Types, Ownership, Control, NEW w \in Workers, worker[w].at # "idle"
  PROVE  worker[w].conn \in Conns /\ fd[worker[w].conn] \in Fds
<1>1. worker[w].conn \in Entry
  BY DEF Types, WorkerRecords
<1>2. worker[w].conn \in Conns
  BY <1>1 DEF Control, Entry
<1>3. worker[w].conn \in Held
  BY DEF Held
<1>4. fd[worker[w].conn] # None
  BY <1>2, <1>3 DEF Ownership, Alive
<1>. QED
  BY <1>2, <1>4 DEF Types

\* The entry of a live Connection's descriptor is its own, in both maps.
LEMMA KeyOwner ==
  ASSUME Types, FdsDiffer, MapsAgree, NEW c \in Conns, NEW f \in Fds, fd[c] = f
  PROVE  conns_[f] \in {None, c} /\ loopconns_[f] \in {None, c}
<1>1. Alive(c)
  BY ServerAssumption DEF Alive
<1>2. ASSUME NEW d \in {conns_[f], loopconns_[f]}, d # None PROVE d = c
  <2>0. conns_[f] \in Entry /\ loopconns_[f] \in Entry
    BY DEF Types
  <2>1. d \in Conns /\ fd[d] = f
    BY <1>2, <2>0 DEF MapsAgree, Entry
  <2>. QED
    BY <1>1, <2>1 DEF FdsDiffer
<1>. QED
  BY <1>2

-----------------------------------------------------------------------------
(* Types are preserved.                                                    *)

\* Every step of the server keeps every variable in its type.
LEMMA TypesStep == IInv /\ [Next]_vars => Types'
<1>. SUFFICES ASSUME IInv, [Next]_vars PROVE Types'
  OBVIOUS
<1>. USE ServerAssumption DEF MainAt, IoAt, IoIn, WorkerAt, client, clock, own, flags, maps,
         queues
<1>1. /\ Types /\ Control /\ Ownership
      /\ main \in MainRecords /\ io \in IoRecords
      /\ worker \in [Workers -> WorkerRecords]
  BY DEF IInv, Types
<1>2. CASE SetCallbacks
  <2>1. main' \in MainRecords
    BY <1>1, <1>2 DEF SetCallbacks, MainRecords, MainStates
  <2>. QED
    BY <1>1, <1>2, <2>1 DEF SetCallbacks, Types
<1>3. CASE AddServer
  <2>1. main' \in MainRecords /\ main.conn \in Entry
    BY <1>1, <1>3 DEF AddServer, MainRecords, MainStates
  <2>. QED
    BY <1>1, <1>3, <2>1 DEF AddServer, Release, Types
<1>4. CASE AddLoop
  <2>1. main' \in MainRecords /\ main.conn \in Entry
    BY <1>1, <1>4 DEF AddLoop, MainRecords, MainStates
  <2>. QED
    BY <1>1, <1>4, <2>1 DEF AddLoop, Release, Types
<1>5. CASE AddUser
  <2>1. main' \in MainRecords /\ main.conn \in Entry
    BY <1>1, <1>5 DEF AddUser, MainRecords, MainStates, Entry
  <2>2. main.conn \in Conns
    BY <1>1, <1>5, <2>1 DEF AddUser, Control, Entry
  <2>3. stranded' \subseteq Conns
    BY <1>1, <1>5, <2>2 DEF AddUser, NoteStranded, Types
  <2>. QED
    BY <1>1, <1>5, <2>1, <2>3 DEF AddUser, Release, Types
<1>6. CASE Poll
  <2>1. PICK order \in [1..Cardinality(Ready) -> Ready] :
          io' = [io EXCEPT !.at = "dispatch", !.channels = order]
    BY <1>6 DEF Poll
  <2>2. Ready \subseteq Events
    BY <1>1 DEF Ready, Types, Events
  <2>3. Cardinality(Ready) \in Nat
    BY <1>1, FS_CardinalityType, ReadyFinite
  <2>4. order \in Seq(Events)
    BY <2>2, <2>3
  <2>5. io' \in IoRecords
    BY <1>1, <2>1, <2>4 DEF IoRecords, IoStates
  <2>. QED
    BY <1>1, <1>6, <2>5 DEF Poll, Types
<1>7. CASE EndOfTurn \/ EndOfMessages \/ EndOfDrain \/ EndOfSweep
  <2>1. io' \in IoRecords
    BY <1>1, <1>7 DEF EndOfTurn, EndOfMessages, EndOfDrain, EndOfSweep, IoRecords, IoStates,
                      Entry
  <2>. QED
    BY <1>1, <1>7, <2>1 DEF EndOfTurn, EndOfMessages, EndOfDrain, EndOfSweep, Types
<1>8. CASE HandleMessage
  <2>1. io.conn \in Conns /\ io' \in IoRecords
    <3>1. io' = [io EXCEPT !.left = @ - 1] /\ io.left > 0 /\ io.conn \in Conns
      BY <1>1, <1>8 DEF HandleMessage, Control
    <3>. QED
      BY <1>1, <3>1 DEF IoRecords
  <2>2. tasks \in Seq(Conns)
    BY <1>1 DEF Types
  <2>3. Append(tasks, io.conn) \in Seq(Conns)
    BY <2>1, <2>2
  <2>4. tasks' \in Seq(Conns) /\ idle' \subseteq Conns
    BY <1>1, <1>8, <2>3 DEF HandleMessage, Types
  <2>. QED
    BY <1>1, <1>8, <2>1, <2>4 DEF HandleMessage, Types
<1>9. CASE RemoveChannel
  <2>1. io' \in IoRecords
    BY <1>1, <1>9 DEF RemoveChannel, IoRecords, IoStates
  <2>. QED
    BY <1>1, <1>9, <2>1 DEF RemoveChannel, Types
<1>10. CASE CloseUser
  <2>1. io' \in IoRecords
    BY <1>1, <1>10 DEF CloseUser, IoRecords, IoStates
  <2>. QED
    BY <1>1, <1>10, <2>1 DEF CloseUser, Types, Entry
<1>11. CASE CloseServer
  <2>1. io' \in IoRecords
    BY <1>1, <1>11 DEF CloseServer, IoRecords, IoStates, Entry
  <2>. QED
    BY <1>1, <1>11, <2>1 DEF CloseServer, Release, Types, Entry
<1>12. ASSUME NEW e \in Events, Handles(e), NEW at \in IoStates, NEW c \in Entry
       PROVE  Handling(at, c) \in IoRecords
  <2>1. Tail(io.channels) \in Seq(Events)
    BY <1>1, <1>12 DEF Handles, IoRecords
  <2>. QED
    BY <1>1, <2>1 DEF Handling, IoRecords
<1>13. CASE HandleWakeup
  <2>1. io' \in IoRecords
    BY <1>12, <1>13 DEF HandleWakeup, Events, IoStates, Entry
  <2>. QED
    BY <1>1, <1>13, <2>1 DEF HandleWakeup, Types
<1>14. CASE HandleTimer
  <2>1. io' \in IoRecords
    BY <1>12, <1>14 DEF HandleTimer, Events, IoStates, Entry
  <2>. QED
    BY <1>1, <1>14, <2>1 DEF HandleTimer, Types
<1>15. CASE EraseServer
  <2>1. io' \in IoRecords
    BY <1>1, <1>15 DEF EraseServer, IoRecords, IoStates
  <2>. QED
    BY <1>1, <1>15, <2>1 DEF EraseServer, Types, Entry
<1>16. CASE EraseUser
  <2>1. io' \in IoRecords
    BY <1>1, <1>16 DEF EraseUser, IoRecords, IoStates, Entry
  <2>. QED
    BY <1>1, <1>16, <2>1 DEF EraseUser, Release, Types, Entry
<1>17. ASSUME NEW c \in Conns, Read(c) PROVE Types'
  <2>1. Handling("messages", c) \in IoRecords /\ input[c] \in Nat
    BY <1>1, <1>12, <1>17 DEF Read, Events, IoStates, Entry, Types
  <2>2. io' \in IoRecords
    BY <1>17, <2>1 DEF Read, IoRecords
  <2>. QED
    BY <1>1, <1>17, <2>2 DEF Read, Types
<1>18. ASSUME NEW c \in Conns, ReadEnd(c) PROVE Types'
  <2>1. io' \in IoRecords
    BY <1>12, <1>18 DEF ReadEnd, Events, IoStates, Entry
  <2>. QED
    BY <1>1, <1>18, <2>1 DEF ReadEnd, Types
<1>19. ASSUME NEW c \in Conns, RunSend(c) PROVE Types'
  <2>1. sends \in Seq(Conns) /\ sends # <<>>
    BY <1>1, <1>19 DEF RunSend, Types
  <2>2. sends' \in Seq(Conns)
    BY <1>19, <2>1 DEF RunSend
  <2>. QED
    BY <1>1, <1>19, <2>2 DEF RunSend, Types
<1>20. ASSUME NEW f \in Fds, SweepErase(f) PROVE Types'
  <2>1. loopconns_[f] \in Entry
    BY <1>1 DEF Types
  <2>2. io' \in IoRecords
    BY <1>1, <1>20, <2>1 DEF SweepErase, IoRecords, IoStates
  <2>. QED
    BY <1>1, <1>20, <2>2 DEF SweepErase, Types, Entry
<1>21. ASSUME NEW w \in Workers, Take(w) PROVE Types'
  <2>1. tasks \in Seq(Conns) /\ tasks # <<>>
    BY <1>1, <1>21 DEF Take, Types
  <2>2. Head(tasks) \in Entry /\ Tail(tasks) \in Seq(Conns)
    BY <2>1 DEF Entry
  <2>3. worker' \in [Workers -> WorkerRecords]
    <3>1. worker' = [worker EXCEPT ![w].at = "lookup", ![w].conn = Head(tasks)]
      BY <1>21 DEF Take
    <3>. QED
      BY <1>1, <2>2, <3>1 DEF WorkerRecords, WorkerStates
  <2>. QED
    BY <1>1, <1>21, <2>2, <2>3 DEF Take, Types
<1>22. ASSUME NEW w \in Workers, Lookup(w) PROVE Types'
  <2>1. fd[worker[w].conn] \in Fds
    BY <1>1, <1>22, WorkerHolds DEF Lookup
  <2>2. PICK u \in Entry \cup {Null} :
          /\ usermap_' = [usermap_ EXCEPT ![fd[worker[w].conn]] = u]
          /\ worker' = [worker EXCEPT ![w].at = "found", ![w].userinfo = u]
    BY <1>1, <1>22, <2>1 DEF Lookup, Types
  <2>3. worker' \in [Workers -> WorkerRecords]
    BY <1>1, <2>2, Zenon DEF WorkerRecords, WorkerStates
  <2>4. usermap_' \in [Fds -> Entry \cup {Null}]
    BY <1>1, <2>1, <2>2 DEF Types
  <2>. QED
    BY <1>1, <1>22, <2>3, <2>4 DEF Lookup, Types
<1>23. ASSUME NEW w \in Workers, Business(w) \/ Send(w) PROVE Types'
  <2>1. worker' \in [Workers -> WorkerRecords]
    BY <1>1, <1>23 DEF Business, Send, WorkerRecords, WorkerStates, Entry
  <2>. QED
    BY <1>1, <1>23, <2>1 DEF Business, Send, Types
<1>24. ASSUME NEW w \in Workers, SendDisconnected(w) PROVE Types'
  <2>1. worker' \in [Workers -> WorkerRecords]
    <3>1. worker' = [worker EXCEPT ![w].at = "idle", ![w].conn = None]
      BY <1>24 DEF SendDisconnected, Return
    <3>. QED
      BY <1>1, <3>1 DEF WorkerRecords, WorkerStates, Entry
  <2>. QED
    BY <1>1, <1>24, <2>1 DEF SendDisconnected, Release, Types
<1>25. ASSUME NEW w \in Workers, QueueSend(w) PROVE Types'
  <2>1. worker[w].conn \in Conns
    BY <1>1, <1>25, WorkerHolds DEF QueueSend
  <2>2. worker' \in [Workers -> WorkerRecords]
    <3>1. worker' = [worker EXCEPT ![w].at = "idle", ![w].conn = None]
      BY <1>25 DEF QueueSend, Return
    <3>. QED
      BY <1>1, <3>1 DEF WorkerRecords, WorkerStates, Entry
  <2>3. sends \in Seq(Conns)
    BY <1>1 DEF Types
  <2>4. Append(sends, worker[w].conn) \in Seq(Conns)
    BY <2>1, <2>3
  <2>5. sends' \in Seq(Conns)
    BY <1>25, <2>4 DEF QueueSend
  <2>. QED
    BY <1>1, <1>25, <2>2, <2>5 DEF QueueSend, Release, Types
<1>26. ASSUME NEW c \in Conns, Request(c) \/ HangUp(c) \/ BecomesIdle(c) PROVE Types'
  <2>1. CASE Request(c)
    <3>1. requests[c] \in 0..MaxRequests /\ input[c] \in Nat
      BY <1>1 DEF Types
    <3>2. requests[c] + 1 \in 0..MaxRequests /\ input[c] + 1 \in Nat
      BY <2>1, <3>1 DEF Request
    <3>3. /\ requests \in [Conns -> 0..MaxRequests] /\ input \in [Conns -> Nat]
          /\ requests' = [requests EXCEPT ![c] = requests[c] + 1]
          /\ input' = [input EXCEPT ![c] = input[c] + 1]
      BY <1>1, <2>1 DEF Request, Types
    <3>4. requests' \in [Conns -> 0..MaxRequests] /\ input' \in [Conns -> Nat]
      BY <3>2, <3>3
    <3>. QED
      BY <1>1, <2>1, <3>4 DEF Request, Types
  <2>2. CASE HangUp(c)
    BY <1>1, <2>2 DEF HangUp, Types
  <2>3. CASE BecomesIdle(c)
    BY <1>1, <2>3 DEF BecomesIdle, Types
  <2>. QED
    BY <1>26, <2>1, <2>2, <2>3
<1>27. ASSUME NEW c \in Conns, NEW f \in Fds, Accept(c, f) PROVE Types'
  <2>1. main' \in MainRecords
    BY <1>27 DEF Accept, MainRecords, MainStates, Entry
  <2>. QED
    BY <1>1, <1>27, <2>1 DEF Accept, Types
<1>28. CASE TimerExpires
  BY <1>1, <1>28 DEF TimerExpires, Types
<1>29. CASE FailStep
  <2>1. UNCHANGED <<client, clock, own, flags, maps, queues, main, io, worker>>
    BY <1>29 DEF FailStep, Fail
  <2>2. failed' \in {"no", "epoll_ctl", "callback", "use after free", "iterator",
                     "null userinfo", "race"}
    BY <1>29 DEF FailStep, Fail
  <2>. QED
    BY <1>1, <2>1, <2>2 DEF Types
<1>30. CASE UNCHANGED vars
  <2>1. UNCHANGED <<client, clock, own, flags, maps, queues, main, io, worker>>
    BY <1>30 DEF vars
  <2>2. failed' = failed
    BY <1>30 DEF vars
  <2>. QED
    BY <1>1, <2>1, <2>2 DEF Types
<1>. QED
  BY <1>2, <1>3, <1>4, <1>5, <1>6, <1>7, <1>8, <1>9, <1>10, <1>11, <1>13, <1>14, <1>15,
     <1>16, <1>17, <1>18, <1>19, <1>20, <1>21, <1>22, <1>23, <1>24, <1>25, <1>26, <1>27,
     <1>28, <1>29, <1>30, StepCases

-----------------------------------------------------------------------------
(* Ownership is preserved.                                                 *)

\* Held, place by place.
Holds(c) == \/ c = main.conn
            \/ \E f \in Fds : conns_[f] = c
            \/ \E f \in Fds : loopconns_[f] = c
            \/ c \in Range(tasks)
            \/ \E w \in Workers : worker[w].conn = c
            \/ c = io.conn /\ io.at \in Sharing

\* The shared pointers, seen as a set and place by place, in a state.
LEMMA HeldIsHolds == Types => \A c : c \in Held <=> Holds(c)
  BY DEF Held, Holds, Range, Types

\* The same in the state after a step.
LEMMA HeldIsHoldsNext == Types' => \A c : c \in Held' <=> Holds(c)'
  BY DEF Held, Holds, Range, Types

\* A step that releases what is no longer held, and gives nobody a pointer to
\* a Connection that nobody held.
LEMMA ReleasingStep ==
  ASSUME Types, Types', Ownership, Release, \A c \in Conns : Holds(c)' => Holds(c)
  PROVE  Ownership'
<1>1. \A c \in Conns : c \in Held' => c \in Held
  BY HeldIsHolds, HeldIsHoldsNext
<1>2. \A c \in Conns : fd'[c] = IF c \in Held' THEN fd[c] ELSE None
  BY DEF Release
<1>3. registered' = registered \cap Held'
  BY DEF Release
<1>4. \A c \in Conns : Alive(c)' <=> c \in Held'
  BY <1>1, <1>2 DEF Ownership, Alive
<1>. QED
  BY <1>3, <1>4 DEF Ownership, Types

\* A step that only passes pointers on.
LEMMA KeepingStep ==
  ASSUME Types, Types', Ownership, fd' = fd, \A c \in registered' : Alive(c),
         \A c \in Conns : Holds(c)' <=> Holds(c)
  PROVE  Ownership'
<1>1. \A c \in Conns : c \in Held' <=> c \in Held
  BY HeldIsHolds, HeldIsHoldsNext
<1>2. \A c \in Conns : Alive(c)' <=> Alive(c)
  BY DEF Alive
<1>. QED
  BY <1>1, <1>2 DEF Ownership, Types

\* A step destroys exactly the Connections whose last pointer it drops.
LEMMA OwnershipStep == IInv /\ [Next]_vars => Ownership'
<1>. SUFFICES ASSUME IInv, [Next]_vars PROVE Ownership'
  OBVIOUS
<1>. USE DEF MainAt, IoAt, IoIn, WorkerAt, client, clock, own, flags, maps, queues
<1>1. Types /\ Control /\ Ownership /\ Types' /\ tasks \in Seq(Conns)
  BY TypesStep DEF IInv, Types
<1>2. \A c \in Conns : Alive(c) <=> Holds(c)
  BY <1>1, HeldIsHolds DEF Ownership
<1>3. \A c \in registered : Alive(c)
  BY <1>1 DEF Ownership
<1>4. CASE SetCallbacks
  BY <1>1, <1>3, <1>4, KeepingStep DEF SetCallbacks, Holds, Types, MainRecords
<1>5. CASE AddServer
  <2>1. \A c \in Conns : Holds(c)' => Holds(c)
    BY <1>1, <1>5 DEF AddServer, Holds, Types, MainRecords
  <2>. QED
    BY <1>1, <1>5, <2>1, ReleasingStep DEF AddServer
<1>6. CASE AddLoop
  <2>1. \A c \in Conns : Holds(c)' => Holds(c)
    BY <1>1, <1>6 DEF AddLoop, Holds, Types, MainRecords
  <2>. QED
    BY <1>1, <1>6, <2>1, ReleasingStep DEF AddLoop
<1>7. CASE AddUser
  <2>1. \A c \in Conns : Holds(c)' => Holds(c)
    BY <1>1, <1>7, ServerAssumption DEF AddUser, Holds
  <2>. QED
    BY <1>1, <1>7, <2>1, ReleasingStep DEF AddUser
\* The event loop holds no pointer before and after.
<1>8. CASE Poll \/ EndOfTurn \/ EndOfMessages \/ EndOfDrain \/ EndOfSweep
  <2>1. io.at \notin Sharing /\ io'.at \notin Sharing
    BY <1>1, <1>8 DEF Poll, EndOfTurn, EndOfMessages, EndOfDrain, EndOfSweep, Sharing, Types,
                      IoRecords
  <2>2. UNCHANGED <<main, own, maps, queues, worker>>
    BY <1>8 DEF Poll, EndOfTurn, EndOfMessages, EndOfDrain, EndOfSweep
  <2>. QED
    BY <1>1, <1>3, <2>1, <2>2, KeepingStep DEF Holds
<1>9. CASE \/ HandleWakeup \/ HandleTimer \/ \E c \in Conns : Read(c) \/ ReadEnd(c)
  <2>1. io.at \notin Sharing /\ io'.at \notin Sharing
    <3>1. io \in IoRecords
      BY <1>1 DEF Types
    <3>. QED
      BY <1>9, <3>1 DEF HandleWakeup, HandleTimer, Read, ReadEnd, Handles, Handling, Sharing,
                        IoRecords
  <2>2. UNCHANGED <<main, own, maps, queues, worker>>
    BY <1>9 DEF HandleWakeup, HandleTimer, Read, ReadEnd
  <2>. QED
    BY <1>1, <1>3, <2>1, <2>2, KeepingStep DEF Holds
<1>10. CASE HandleMessage
  <2>1. io.at \notin Sharing /\ io'.at \notin Sharing /\ io.conn \in Conns
    BY <1>1, <1>10 DEF HandleMessage, Sharing, Types, IoRecords, Control
  <2>2. Holds(io.conn)
    BY <1>2, <1>10, <2>1 DEF HandleMessage
  <2>3. Range(tasks') = Range(tasks) \cup {io.conn}
    BY <1>1, <1>10, <2>1, RangeOfAppend DEF HandleMessage
  <2>4. UNCHANGED <<main, own, maps, worker>>
    BY <1>10 DEF HandleMessage
  <2>5. \A c \in Conns : Holds(c)' <=> Holds(c)
    BY <2>1, <2>2, <2>3, <2>4 DEF Holds
  <2>. QED
    BY <1>1, <1>3, <2>4, <2>5, KeepingStep
<1>11. CASE RemoveChannel
  <2>1. io.at \notin Sharing /\ io'.conn = io.conn /\ io.conn \in Conns
    BY <1>1, <1>11 DEF RemoveChannel, Sharing, Types, IoRecords, Control
  <2>2. Holds(io.conn)
    BY <1>2, <1>11, <2>1 DEF RemoveChannel
  <2>3. UNCHANGED <<main, fd, maps, queues, worker>>
    BY <1>11 DEF RemoveChannel
  <2>4. \A c \in Conns : Holds(c)' <=> Holds(c)
    BY <2>1, <2>2, <2>3, <1>11 DEF Holds, RemoveChannel, Sharing
  <2>. QED
    BY <1>1, <1>3, <1>11, <2>3, <2>4, KeepingStep DEF RemoveChannel
<1>12. CASE CloseUser
  <2>1. io.at \in Sharing /\ io'.at \in Sharing /\ io'.conn = io.conn
    BY <1>1, <1>12 DEF CloseUser, Sharing, Types, IoRecords
  <2>. QED
    BY <1>1, <1>3, <1>12, <2>1, KeepingStep DEF CloseUser, Holds
<1>13. CASE CloseServer
  <2>1. io'.at \notin Sharing
    BY <1>1, <1>13 DEF CloseServer, Sharing, Types, IoRecords
  <2>2. \A c \in Conns : Holds(c)' => Holds(c)
    BY <1>1, <1>13, <2>1, ServerAssumption DEF CloseServer, Holds, Types
  <2>. QED
    BY <1>1, <1>13, <2>2, ReleasingStep DEF CloseServer
<1>14. ASSUME NEW f \in Fds, SweepErase(f) PROVE Ownership'
  <2>1. io.at \notin Sharing /\ io'.at \in Sharing /\ io'.conn = loopconns_[f]
    BY <1>1, <1>14 DEF SweepErase, Sharing, Types, IoRecords
  <2>2. \A g \in Fds : loopconns_'[g] = IF g = f THEN None ELSE loopconns_[g]
    BY <1>1, <1>14 DEF SweepErase, Types
  <2>3. UNCHANGED <<main, own, conns_, queues, worker>>
    BY <1>14 DEF SweepErase
  <2>4. \A c \in Conns : Holds(c)' <=> Holds(c)
    BY <2>1, <2>2, <2>3, ServerAssumption DEF Holds
  <2>. QED
    BY <1>1, <1>3, <2>3, <2>4, KeepingStep
\* The entry that goes is that of the Connection the sweep holds.
<1>15. CASE EraseServer
  <2>1. /\ io.at \in Sharing /\ io'.at \in Sharing /\ io'.conn = io.conn
        /\ io.conn \in Conns /\ io.key \in Fds /\ fd[io.conn] = io.key
    BY <1>1, <1>15 DEF EraseServer, Sharing, Types, IoRecords, Control
  <2>2. conns_[io.key] \in {None, io.conn}
    BY <1>1, <2>1, KeyOwner DEF IInv
  <2>3. \A g \in Fds : conns_'[g] = IF g = io.key THEN None ELSE conns_[g]
    BY <1>1, <1>15 DEF EraseServer, Types
  <2>4. UNCHANGED <<main, own, loopconns_, queues, worker>>
    BY <1>15 DEF EraseServer
  <2>5. \A c \in Conns : Holds(c)' <=> Holds(c)
    BY <2>1, <2>2, <2>3, <2>4, ServerAssumption DEF Holds
  <2>. QED
    BY <1>1, <1>3, <2>4, <2>5, KeepingStep
<1>16. CASE EraseUser
  <2>1. io'.at \notin Sharing
    BY <1>1, <1>16 DEF EraseUser, Sharing, Types, IoRecords
  <2>2. \A c \in Conns : Holds(c)' => Holds(c)
    BY <1>1, <1>16, <2>1 DEF EraseUser, Holds
  <2>. QED
    BY <1>1, <1>16, <2>2, ReleasingStep DEF EraseUser
<1>17. ASSUME NEW c \in Conns, RunSend(c) PROVE Ownership'
  <2>1. UNCHANGED <<main, fd, maps, tasks, worker, io>> /\ registered' = registered \cup {c}
    BY <1>17 DEF RunSend
  <2>. QED
    BY <1>1, <1>3, <1>17, <2>1, KeepingStep DEF RunSend, Holds
<1>18. ASSUME NEW w \in Workers, Take(w) PROVE Ownership'
  <2>1. Range(tasks) = {Head(tasks)} \cup Range(tasks')
    BY <1>1, <1>18, RangeOfTail DEF Take
  <2>2. \A v \in Workers : worker'[v].conn = IF v = w THEN Head(tasks) ELSE worker[v].conn
    BY <1>1, <1>18 DEF Take, Types, WorkerRecords
  <2>3. worker[w].conn = None
    BY <1>1, <1>18 DEF Take, Control
  <2>4. UNCHANGED <<main, own, maps, io>>
    BY <1>18 DEF Take
  <2>5. \A c \in Conns : Holds(c)' <=> Holds(c)
    BY <2>1, <2>2, <2>3, <2>4, ServerAssumption DEF Holds
  <2>. QED
    BY <1>1, <1>3, <2>4, <2>5, KeepingStep
<1>19. ASSUME NEW w \in Workers, Lookup(w) \/ Business(w) \/ Send(w) PROVE Ownership'
  <2>1. \A v \in Workers : worker'[v].conn = worker[v].conn
    <3>1. worker \in [Workers -> WorkerRecords]
      BY <1>1 DEF Types
    <3>2. PICK at, u : worker' \in {[worker EXCEPT ![w].at = at],
                                    [worker EXCEPT ![w].at = at, ![w].userinfo = u]}
      BY <1>19 DEF Lookup, Business, Send
    <3>. QED
      BY <3>1, <3>2 DEF WorkerRecords
  <2>2. UNCHANGED <<main, own, conns_, loopconns_, tasks, io>>
    BY <1>19 DEF Lookup, Business, Send
  <2>. QED
    BY <1>1, <1>3, <2>1, <2>2, KeepingStep DEF Holds
<1>20. ASSUME NEW w \in Workers, SendDisconnected(w) \/ QueueSend(w) PROVE Ownership'
  <2>1. \A v \in Workers : worker'[v].conn = IF v = w THEN None ELSE worker[v].conn
    <3>1. worker' = [worker EXCEPT ![w].at = "idle", ![w].conn = None]
      BY <1>20 DEF SendDisconnected, QueueSend, Return
    <3>2. worker \in [Workers -> WorkerRecords]
      BY <1>1 DEF Types
    <3>. QED
      BY <3>1, <3>2 DEF WorkerRecords
  <2>2. UNCHANGED <<main, maps, tasks, io>> /\ Release
    BY <1>20 DEF SendDisconnected, QueueSend
  <2>3. \A c \in Conns : Holds(c)' => Holds(c)
    BY <2>1, <2>2, ServerAssumption DEF Holds
  <2>. QED
    BY <1>1, <2>2, <2>3, ReleasingStep
<1>21. CASE \/ \E c \in Conns : Request(c) \/ HangUp(c) \/ BecomesIdle(c)
            \/ TimerExpires \/ FailStep \/ UNCHANGED vars
  <2>1. UNCHANGED <<main, own, maps, queues, worker, io>>
    BY <1>21 DEF Request, HangUp, BecomesIdle, TimerExpires, FailStep, Fail, vars
  <2>. QED
    BY <1>1, <1>3, <2>1, KeepingStep DEF Holds
<1>22. ASSUME NEW c \in Conns, NEW f \in Fds, Accept(c, f) PROVE Ownership'
  <2>1. main.conn = None /\ main'.conn = c /\ f # None /\ ~Alive(c)
    BY <1>1, <1>22, ServerAssumption DEF Accept, Control
  <2>2. UNCHANGED <<maps, queues, worker, io>> /\ registered' = registered \cup {c}
    BY <1>22 DEF Accept
  <2>3. \A d \in Conns : Holds(d)' <=> Holds(d) \/ d = c
    BY <2>1, <2>2, ServerAssumption DEF Holds
  <2>4. \A d \in Conns : Alive(d)' <=> Alive(d) \/ d = c
    BY <1>1, <1>22, <2>1 DEF Accept, Alive, Types
  <2>5. \A d \in Conns : Alive(d)' <=> d \in Held'
    BY <1>1, <1>2, <2>3, <2>4, HeldIsHoldsNext
  <2>. QED
    BY <1>1, <1>3, <2>2, <2>4, <2>5 DEF Ownership, Types
<1>. QED
  BY <1>4, <1>5, <1>6, <1>7, <1>8, <1>9, <1>10, <1>11, <1>12, <1>13, <1>14, <1>15, <1>16,
     <1>17, <1>18, <1>19, <1>20, <1>21, <1>22, StepCases

-----------------------------------------------------------------------------
(* The descriptors.                                                        *)

\* A step that gives no Connection a descriptor.
FdShrinks == \A d \in Conns : fd'[d] \in {fd[d], None}

\* Only accept4() gives a Connection a descriptor.
LEMMA FdStep ==
  ASSUME Types, Control, [Next]_vars
  PROVE  FdShrinks \/ \E c \in Conns, f \in Fds : Accept(c, f)
<1>. USE DEF own, FdShrinks
<1>1. ASSUME Release PROVE FdShrinks
  BY <1>1 DEF Release
<1>2. ASSUME fd' = fd PROVE FdShrinks
  BY <1>2
<1>3. CASE AddServer \/ AddLoop \/ AddUser \/ CloseServer \/ EraseUser
  BY <1>1, <1>3 DEF AddServer, AddLoop, AddUser, CloseServer, EraseUser
<1>4. CASE \E w \in Workers : SendDisconnected(w) \/ QueueSend(w)
  BY <1>1, <1>4 DEF SendDisconnected, QueueSend
<1>5. CASE \/ SetCallbacks \/ Poll \/ EndOfTurn \/ HandleMessage \/ EndOfMessages
           \/ RemoveChannel \/ CloseUser \/ HandleWakeup \/ EndOfDrain \/ HandleTimer
           \/ EraseServer \/ EndOfSweep \/ TimerExpires \/ FailStep \/ UNCHANGED vars
  <2>1. fd' = fd
    BY <1>5 DEF SetCallbacks, Poll, EndOfTurn, HandleMessage, EndOfMessages, RemoveChannel,
                CloseUser, HandleWakeup, EndOfDrain, HandleTimer, EraseServer, EndOfSweep,
                TimerExpires, FailStep, Fail, vars
  <2>. QED
    BY <1>2, <2>1
<1>6. CASE \/ \E c \in Conns : \/ Read(c) \/ ReadEnd(c) \/ RunSend(c)
                               \/ Request(c) \/ HangUp(c) \/ BecomesIdle(c)
           \/ \E f \in Fds : SweepErase(f)
           \/ \E w \in Workers : Take(w) \/ Lookup(w) \/ Business(w) \/ Send(w)
  <2>1. fd' = fd
    BY <1>6 DEF Read, ReadEnd, RunSend, Request, HangUp, BecomesIdle, SweepErase, Take,
                Lookup, Business, Send
  <2>. QED
    BY <1>2, <2>1
<1>. QED
  BY <1>3, <1>4, <1>5, <1>6, StepCases

\* A live Connection keeps its descriptor for as long as it lives.
LEMMA FdKept ==
  ASSUME IInv, [Next]_vars, NEW d \in Conns, Alive(d), Alive(d)'
  PROVE  fd'[d] = fd[d]
<1>1. ASSUME NEW c \in Conns, NEW f \in Fds, Accept(c, f) PROVE fd'[d] = fd[d]
  <2>1. d # c
    BY <1>1 DEF Accept, IInv, Control
  <2>. QED
    BY <1>1, <2>1 DEF Accept, IInv, Types
<1>. QED
  BY <1>1, FdStep DEF IInv, FdShrinks, Alive

\* accept4() never returns a descriptor that a live Connection has.
LEMMA FdsDifferStep == IInv /\ [Next]_vars => FdsDiffer'
<1>. SUFFICES ASSUME IInv, [Next]_vars, NEW c \in Conns, NEW d \in Conns,
                     Alive(c)', fd'[c] = fd'[d]
              PROVE  c = d
  BY DEF FdsDiffer
<1>1. CASE FdShrinks
  <2>1. fd'[c] = fd[c] /\ fd'[d] = fd[d]
    BY <1>1 DEF FdShrinks, Alive
  <2>. QED
    BY <2>1 DEF IInv, FdsDiffer, Alive
<1>2. ASSUME NEW e \in Conns, NEW f \in Fds, Accept(e, f) PROVE c = d
  <2>1. \A b \in Conns : fd'[b] = IF b = e THEN f ELSE fd[b]
    BY <1>2 DEF Accept, IInv, Types
  <2>2. \A b \in Conns : fd[b] # f
    BY <1>2 DEF Accept, IInv, Types, Range
  <2>. QED
    BY <2>1, <2>2 DEF IInv, FdsDiffer, Alive
<1>. QED
  BY <1>1, <1>2, FdStep DEF IInv

-----------------------------------------------------------------------------
(* The maps.                                                               *)

\* Each step enters a Connection at its own descriptor.
LEMMA EntriesStep ==
  ASSUME IInv, [Next]_vars, NEW f \in Fds
  PROVE  \A e \in {conns_'[f], loopconns_'[f]} \ {None} : fd[e] = f
<1>. USE DEF maps
<1>1. \A e \in {conns_[f], loopconns_[f]} \ {None} : fd[e] = f
  BY DEF IInv, MapsAgree
<1>2. conns_ \in [Fds -> Entry] /\ loopconns_ \in [Fds -> Entry]
  BY DEF IInv, Types
<1>3. CASE UNCHANGED <<conns_, loopconns_>>
  BY <1>1, <1>3
<1>4. CASE AddServer
  BY <1>1, <1>2, <1>4 DEF AddServer
<1>5. CASE AddLoop
  BY <1>1, <1>2, <1>5 DEF AddLoop
<1>6. CASE CloseServer
  BY <1>1, <1>2, <1>6 DEF CloseServer
<1>7. CASE EraseServer
  BY <1>1, <1>2, <1>7 DEF EraseServer
<1>8. CASE \E g \in Fds : SweepErase(g)
  BY <1>1, <1>2, <1>8 DEF SweepErase
<1>9. CASE \/ SetCallbacks \/ AddUser \/ Poll \/ EndOfTurn \/ HandleMessage \/ EndOfMessages
           \/ RemoveChannel \/ CloseUser \/ HandleWakeup \/ EndOfDrain \/ HandleTimer
           \/ EraseUser \/ EndOfSweep \/ TimerExpires \/ FailStep \/ UNCHANGED vars
  BY <1>3, <1>9 DEF SetCallbacks, AddUser, Poll, EndOfTurn, HandleMessage, EndOfMessages,
                    RemoveChannel, CloseUser, HandleWakeup, EndOfDrain, HandleTimer,
                    EraseUser, EndOfSweep, TimerExpires, FailStep, Fail, vars
<1>10. CASE \/ \E c \in Conns : \/ Read(c) \/ ReadEnd(c) \/ RunSend(c)
                                \/ Request(c) \/ HangUp(c) \/ BecomesIdle(c)
            \/ \E w \in Workers : \/ Take(w) \/ Lookup(w) \/ Business(w)
                                  \/ SendDisconnected(w) \/ Send(w) \/ QueueSend(w)
            \/ \E c \in Conns, g \in Fds : Accept(c, g)
  BY <1>3, <1>10 DEF Read, ReadEnd, RunSend, Request, HangUp, BecomesIdle, Take, Lookup,
                     Business, SendDisconnected, Send, QueueSend, Accept
<1>. QED
  BY <1>4, <1>5, <1>6, <1>7, <1>8, <1>9, <1>10, StepCases

\* An entry of the two maps stays that of its key's owner: the entry itself
\* keeps the owner, and so the descriptor, alive.
LEMMA MapsAgreeStep == IInv /\ [Next]_vars => MapsAgree'
<1>. SUFFICES ASSUME IInv, [Next]_vars, NEW f \in Fds,
                     NEW e \in {conns_'[f], loopconns_'[f]} \ {None}
              PROVE  fd'[e] = f
  BY DEF MapsAgree
<1>1. Types' /\ Ownership'
  BY TypesStep, OwnershipStep
<1>2. fd[e] = f
  BY EntriesStep
<1>3. conns_'[f] \in Entry /\ loopconns_'[f] \in Entry
  BY <1>1 DEF Types
<1>4. e \in Conns
  BY <1>3 DEF Entry
<1>5. Holds(e)'
  BY DEF Holds
<1>6. Alive(e)'
  BY <1>1, <1>4, <1>5, HeldIsHoldsNext DEF Ownership
<1>7. Alive(e)
  BY <1>2, ServerAssumption DEF Alive
<1>. QED
  BY <1>2, <1>4, <1>6, <1>7, FdKept

-----------------------------------------------------------------------------
(* Where each thread is.                                                   *)

\* The main thread has a Connection exactly while it is in newconnection().
LEMMA MainControlStep ==
  ASSUME IInv, [Next]_vars
  PROVE  (main.conn = None <=> main.at = "accept")'
<1>. USE DEF MainAt
<1>1. main \in MainRecords /\ (main.conn = None <=> main.at = "accept")
  BY DEF IInv, Types, Control
<1>2. CASE SetCallbacks \/ AddServer \/ AddLoop \/ AddUser
  BY <1>1, <1>2 DEF SetCallbacks, AddServer, AddLoop, AddUser, MainRecords
<1>3. ASSUME NEW c \in Conns, NEW f \in Fds, Accept(c, f)
      PROVE  (main.conn = None <=> main.at = "accept")'
  BY <1>3, ServerAssumption DEF Accept
<1>4. CASE UNCHANGED main
  BY <1>1, <1>4
<1>5. CASE \/ Poll \/ EndOfTurn \/ HandleMessage \/ EndOfMessages
           \/ RemoveChannel \/ CloseUser \/ CloseServer \/ HandleWakeup \/ EndOfDrain
           \/ HandleTimer \/ EraseServer \/ EraseUser \/ EndOfSweep \/ TimerExpires
           \/ FailStep \/ UNCHANGED vars
  BY <1>4, <1>5 DEF Poll, EndOfTurn, HandleMessage, EndOfMessages, RemoveChannel, CloseUser,
                    CloseServer, HandleWakeup, EndOfDrain, HandleTimer, EraseServer,
                    EraseUser, EndOfSweep, TimerExpires, FailStep, Fail, vars
<1>6. CASE \/ \E c \in Conns : \/ Read(c) \/ ReadEnd(c) \/ RunSend(c)
                               \/ Request(c) \/ HangUp(c) \/ BecomesIdle(c)
           \/ \E f \in Fds : SweepErase(f)
           \/ \E w \in Workers : \/ Take(w) \/ Lookup(w) \/ Business(w)
                                 \/ SendDisconnected(w) \/ Send(w) \/ QueueSend(w)
  BY <1>4, <1>6 DEF Read, ReadEnd, RunSend, Request, HangUp, BecomesIdle, SweepErase, Take,
                    Lookup, Business, SendDisconnected, Send, QueueSend
<1>. QED
  BY <1>2, <1>3, <1>5, <1>6, StepCases

\* The loop's thread has a Connection where it uses one, and the sweep's key
\* is its descriptor.
IoControl ==
  /\ io.at \in {"messages", "remove"} \cup Sharing => io.conn \in Conns
  /\ io.at \in {"eraseserver", "eraseuser"} => io.key \in Fds /\ fd[io.conn] = io.key

\* The descriptor of the Connection that a sweep holds, before the step.
IoKept ==
  /\ io'.at \in {"messages", "remove"} \cup Sharing => io'.conn \in Conns
  /\ io'.at \in {"eraseserver", "eraseuser"} => io'.key \in Fds /\ fd[io'.conn] = io'.key

\* What the loop's thread has after a step had that descriptor before it.
LEMMA IoKeptStep ==
  ASSUME IInv, [Next]_vars
  PROVE  IoKept
<1>. USE DEF IoAt, IoIn, Handles, Handling, Sharing
<1>1. io \in IoRecords /\ IoControl
  BY DEF IInv, Types, Control, IoControl
<1>2. CASE UNCHANGED io
  BY <1>1, <1>2 DEF IoControl, IoKept
<1>3. CASE Poll \/ EndOfTurn \/ EndOfMessages \/ EndOfDrain \/ EndOfSweep \/ CloseServer
           \/ HandleWakeup \/ HandleTimer \/ EraseUser
  BY <1>1, <1>3 DEF Poll, EndOfTurn, EndOfMessages, EndOfDrain, EndOfSweep, CloseServer,
                    HandleWakeup, HandleTimer, EraseUser, IoRecords, IoKept
<1>4. CASE HandleMessage \/ RemoveChannel \/ CloseUser \/ EraseServer
  BY <1>1, <1>4 DEF HandleMessage, RemoveChannel, CloseUser, EraseServer, IoRecords, IoKept,
                    IoControl
<1>5. ASSUME NEW c \in Conns, Read(c) \/ ReadEnd(c) PROVE IoKept
  BY <1>1, <1>5 DEF Read, ReadEnd, IoRecords, IoKept
<1>6. ASSUME NEW f \in Fds, SweepErase(f) PROVE IoKept
  <2>1. loopconns_[f] \in Conns
    BY <1>6 DEF SweepErase, Evictable, IInv, Types
  <2>2. fd[loopconns_[f]] = f
    BY <2>1, ServerAssumption DEF IInv, MapsAgree
  <2>. QED
    BY <1>1, <1>6, <2>1, <2>2 DEF SweepErase, IoRecords, IoKept
<1>7. CASE \/ SetCallbacks \/ AddServer \/ AddLoop \/ AddUser \/ TimerExpires \/ FailStep
           \/ UNCHANGED vars
  BY <1>2, <1>7 DEF SetCallbacks, AddServer, AddLoop, AddUser, TimerExpires, FailStep, Fail,
                    vars
<1>8. CASE \/ \E c \in Conns : RunSend(c) \/ Request(c) \/ HangUp(c) \/ BecomesIdle(c)
           \/ \E w \in Workers : \/ Take(w) \/ Lookup(w) \/ Business(w)
                                 \/ SendDisconnected(w) \/ Send(w) \/ QueueSend(w)
           \/ \E c \in Conns, f \in Fds : Accept(c, f)
  BY <1>2, <1>8 DEF RunSend, Request, HangUp, BecomesIdle, Take, Lookup, Business,
                    SendDisconnected, Send, QueueSend, Accept
<1>. QED
  BY <1>3, <1>4, <1>5, <1>6, <1>7, <1>8, StepCases

\* What a sweep holds keeps its descriptor, since the sweep holds it.
LEMMA IoControlStep ==
  ASSUME IInv, [Next]_vars
  PROVE  IoControl'
<1>1. IoKept /\ Types' /\ Ownership'
  BY IoKeptStep, TypesStep, OwnershipStep
<1>2. ASSUME io'.at \in {"eraseserver", "eraseuser"} PROVE fd'[io'.conn] = io'.key
  <2>1. io'.at \in Sharing /\ io'.conn \in Conns /\ io'.key \in Fds /\ fd[io'.conn] = io'.key
    BY <1>1, <1>2 DEF IoKept, Sharing
  <2>2. Holds(io.conn)'
    BY <2>1 DEF Holds
  <2>3. Alive(io.conn)'
    BY <1>1, <2>1, <2>2, HeldIsHoldsNext DEF Ownership
  <2>. QED
    BY <2>1, <2>3, FdKept, ServerAssumption DEF Alive
<1>. QED
  BY <1>1, <1>2 DEF IoControl, IoKept

\* A worker has a Connection exactly while it is in OnMessage().
LEMMA WorkerControlStep ==
  ASSUME IInv, [Next]_vars
  PROVE  (\A w \in Workers : worker[w].conn = None <=> worker[w].at = "idle")'
<1>. USE DEF WorkerAt
<1>1. /\ worker \in [Workers -> WorkerRecords]
      /\ \A w \in Workers : worker[w].conn = None <=> worker[w].at = "idle"
  BY DEF IInv, Types, Control
<1>2. CASE UNCHANGED worker
  BY <1>1, <1>2
<1>3. ASSUME NEW w \in Workers, Take(w)
      PROVE  (\A v \in Workers : worker[v].conn = None <=> worker[v].at = "idle")'
  <2>1. tasks \in Seq(Conns) /\ tasks # <<>>
    BY <1>3 DEF Take, IInv, Types
  <2>2. Head(tasks) # None
    BY <2>1, ServerAssumption
  <2>. QED
    BY <1>1, <1>3, <2>2 DEF Take, WorkerRecords
<1>4. ASSUME NEW w \in Workers, Lookup(w) \/ Business(w) \/ Send(w)
      PROVE  (\A v \in Workers : worker[v].conn = None <=> worker[v].at = "idle")'
  BY <1>1, <1>4 DEF Lookup, Business, Send, WorkerRecords
<1>5. ASSUME NEW w \in Workers, SendDisconnected(w) \/ QueueSend(w)
      PROVE  (\A v \in Workers : worker[v].conn = None <=> worker[v].at = "idle")'
  BY <1>1, <1>5 DEF SendDisconnected, QueueSend, Return, WorkerRecords
<1>6. CASE \/ SetCallbacks \/ AddServer \/ AddLoop \/ AddUser
           \/ Poll \/ EndOfTurn \/ HandleMessage \/ EndOfMessages \/ RemoveChannel
           \/ CloseUser \/ CloseServer \/ HandleWakeup \/ EndOfDrain \/ HandleTimer
           \/ EraseServer \/ EraseUser \/ EndOfSweep \/ TimerExpires \/ FailStep
           \/ UNCHANGED vars
  BY <1>2, <1>6 DEF SetCallbacks, AddServer, AddLoop, AddUser, Poll, EndOfTurn, HandleMessage,
                    EndOfMessages, RemoveChannel, CloseUser, CloseServer, HandleWakeup,
                    EndOfDrain, HandleTimer, EraseServer, EraseUser, EndOfSweep,
                    TimerExpires, FailStep, Fail, vars
<1>7. CASE \/ \E c \in Conns : \/ Read(c) \/ ReadEnd(c) \/ RunSend(c)
                               \/ Request(c) \/ HangUp(c) \/ BecomesIdle(c)
           \/ \E f \in Fds : SweepErase(f)
           \/ \E c \in Conns, f \in Fds : Accept(c, f)
  BY <1>2, <1>7 DEF Read, ReadEnd, RunSend, Request, HangUp, BecomesIdle, SweepErase, Accept
<1>. QED
  BY <1>3, <1>4, <1>5, <1>6, <1>7, StepCases

\* A live Connection has been constructed, so none is constructed twice.
LEMMA AcceptedStep ==
  ASSUME IInv, [Next]_vars
  PROVE  (\A c \in Conns : Alive(c) => c \in accepted)'
<1>. USE DEF client
<1>1. \A c \in Conns : Alive(c) => c \in accepted
  BY DEF IInv, Control
<1>2. ASSUME NEW c \in Conns, NEW f \in Fds, Accept(c, f)
      PROVE  (\A d \in Conns : Alive(d) => d \in accepted)'
  BY <1>1, <1>2 DEF Accept, Alive, IInv, Types
<1>3. CASE FdShrinks /\ accepted' = accepted
  BY <1>1, <1>3 DEF FdShrinks, Alive
<1>4. CASE \/ SetCallbacks \/ AddServer \/ AddLoop \/ AddUser
           \/ Poll \/ EndOfTurn \/ HandleMessage \/ EndOfMessages \/ RemoveChannel
           \/ CloseUser \/ CloseServer \/ HandleWakeup \/ EndOfDrain \/ HandleTimer
           \/ EraseServer \/ EraseUser \/ EndOfSweep \/ TimerExpires \/ FailStep
           \/ UNCHANGED vars
  <2>1. accepted' = accepted
    BY <1>4 DEF SetCallbacks, AddServer, AddLoop, AddUser, Poll, EndOfTurn, HandleMessage,
                EndOfMessages, RemoveChannel, CloseUser, CloseServer, HandleWakeup,
                EndOfDrain, HandleTimer, EraseServer, EraseUser, EndOfSweep, TimerExpires,
                FailStep, Fail, vars
  <2>. QED
    BY <1>2, <1>3, <2>1, FdStep DEF IInv
<1>5. CASE \/ \E c \in Conns : \/ Read(c) \/ ReadEnd(c) \/ RunSend(c)
                               \/ Request(c) \/ HangUp(c) \/ BecomesIdle(c)
           \/ \E f \in Fds : SweepErase(f)
           \/ \E w \in Workers : \/ Take(w) \/ Lookup(w) \/ Business(w)
                                 \/ SendDisconnected(w) \/ Send(w) \/ QueueSend(w)
  <2>1. accepted' = accepted
    BY <1>5 DEF Read, ReadEnd, RunSend, Request, HangUp, BecomesIdle, SweepErase, Take,
                Lookup, Business, SendDisconnected, Send, QueueSend
  <2>. QED
    BY <1>2, <1>3, <2>1, FdStep DEF IInv
<1>. QED
  BY <1>2, <1>4, <1>5, StepCases

\* The inductive invariant holds before the first connection.
LEMMA InvariantInit == Init => IInv
<1>. SUFFICES ASSUME Init PROVE IInv
  OBVIOUS
<1>1. \A w \in Workers : worker[w] = [at |-> "idle", conn |-> None, userinfo |-> None]
  BY DEF Init
<1>2. /\ main = [at |-> "accept", conn |-> None]
      /\ io = [at |-> "poll", conn |-> None, key |-> None, left |-> 0, channels |-> <<>>]
  BY DEF Init
<1>3. Types
  <2>1. main \in MainRecords
    BY <1>2 DEF MainRecords, MainStates, Entry
  <2>2. io \in IoRecords
    BY <1>2 DEF IoRecords, IoStates, Entry
  <2>3. worker \in [Workers -> WorkerRecords]
    BY DEF Init, WorkerRecords, WorkerStates, Entry
  <2>4. input \in [Conns -> Nat] /\ requests \in [Conns -> 0..MaxRequests]
    BY ServerAssumption DEF Init
  <2>5. sends \in Seq(Conns) /\ tasks \in Seq(Conns)
    BY DEF Init
  <2>. QED
    BY <2>1, <2>2, <2>3, <2>4, <2>5 DEF Init, Types, NoEntry, Entry
<1>4. \A c \in Conns : ~Alive(c)
  BY DEF Init, Alive
<1>5. Ownership
  <2>1. \A c \in Conns : ~Holds(c)
    BY <1>1, <1>2, ServerAssumption DEF Init, Holds, NoEntry, Sharing, Range
  <2>. QED
    BY <1>3, <1>4, <2>1, HeldIsHolds DEF Init, Ownership
<1>6. Control
  BY <1>1, <1>2, <1>4 DEF Control, Sharing
<1>7. MapsAgree
  BY DEF Init, MapsAgree, NoEntry
<1>. QED
  BY <1>3, <1>4, <1>5, <1>6, <1>7 DEF IInv, FdsDiffer

\* The inductive invariant is preserved by every step.
LEMMA InvariantStep == IInv /\ [Next]_vars => IInv'
<1>. SUFFICES ASSUME IInv, [Next]_vars PROVE IInv'
  OBVIOUS
<1>1. Control'
  BY MainControlStep, IoControlStep, WorkerControlStep, AcceptedStep DEF Control, IoControl
<1>. QED
  BY <1>1, TypesStep, OwnershipStep, FdsDifferStep, MapsAgreeStep DEF IInv

-----------------------------------------------------------------------------
(* The theorems.                                                           *)

\* The inductive invariant holds: the maps keyed by descriptor, the owners of
\* the Connections and the threads agree, whatever the interleaving.
LEMMA InvariantHolds == Spec => []IInv
<1>. QED
  BY InvariantInit, InvariantStep, PTL DEF Spec

\* Types, and that a Connection is destroyed, and its socket closed, exactly
\* when the last of the maps, tasks and threads lets go of it.
THEOREM TypeCorrect == Spec => []TypeOK
<1>1. IInv => TypeOK
  BY DEF IInv, TypeOK
<1>. QED
  BY <1>1, InvariantHolds, PTL

\* Each entry of TcpServer::conns_ and EventLoop::conns_ is the live owner of
\* the descriptor it is entered at.
THEOREM MapsAgreeCorrect == Spec => []MapsAgree
<1>1. IInv => MapsAgree
  BY DEF IInv
<1>. QED
  BY <1>1, InvariantHolds, PTL

-----------------------------------------------------------------------------
(* The users.                                                              *)

\* A Connection can still be reached by the step that erases its user.
Reached(f, c) == \/ loopconns_[f] = c
                 \/ io.at \in {"eraseserver", "eraseuser"} /\ io.conn = c

\* A user that is in the map is that of a live Connection, unless stranded.
UsersKept == \A f \in Fds, c \in Conns :
  usermap_[f] = c /\ c \notin stranded => fd[c] = f /\ Reached(f, c)

\* A Connection that was entered in the map is served with its own user or none.
UsersServed ==
  \A c \in Conns : Alive(c) /\ c # main.conn => usermap_[fd[c]] \in {None, Null, c}

\* A worker answers with the user of its own Connection, none, or a stranded one.
UsersAnswered ==
  \A w \in Workers : worker[w].at = "found" =>
    worker[w].userinfo \in {None, Null, worker[w].conn} \cup stranded

\* What can be reached is alive after the step, and keeps its descriptor.
LEMMA ReachedIsAlive ==
  ASSUME IInv, [Next]_vars, NEW f \in Fds, NEW c \in Conns, fd[c] = f, Reached(f, c)'
  PROVE  fd'[c] = f
<1>1. Types' /\ Ownership'
  BY TypesStep, OwnershipStep
<1>2. Holds(c)'
  BY DEF Reached, Holds, Sharing
<1>3. Alive(c)'
  BY <1>1, <1>2, HeldIsHoldsNext DEF Ownership
<1>4. Alive(c)
  BY ServerAssumption DEF Alive
<1>. QED
  BY <1>3, <1>4, FdKept

\* No step leaves a user in the map that nobody will erase, but AddUser when the
\* sweep has been there before it.
LEMMA UsersKeptStep == IInv /\ UsersKept /\ [Next]_vars => UsersKept'
<1>. SUFFICES ASSUME IInv, UsersKept, [Next]_vars, NEW f \in Fds, NEW c \in Conns,
                     usermap_'[f] = c, c \notin stranded'
              PROVE  fd[c] = f /\ Reached(f, c)'
  BY ReachedIsAlive DEF UsersKept
<1>. USE DEF MainAt, IoAt, IoIn, maps, flags
<1>1. /\ Types /\ Control /\ Ownership /\ FdsDiffer
      /\ main \in MainRecords /\ io \in IoRecords
      /\ usermap_ \in [Fds -> Entry \cup {Null}] /\ loopconns_ \in [Fds -> Entry]
      /\ c # None /\ c # Null
  BY ServerAssumption DEF IInv, Types
<1>2. ASSUME usermap_[f] = c, stranded' = stranded
      PROVE  fd[c] = f /\ Reached(f, c)
  BY <1>2 DEF UsersKept
<1>3. CASE /\ UNCHANGED <<usermap_, loopconns_, stranded>>
           /\ \/ io'.at = io.at /\ io'.conn = io.conn
              \/ io.at \notin {"eraseserver", "eraseuser"}
  BY <1>2, <1>3 DEF Reached
<1>4. CASE AddLoop
  <2>1. usermap_[f] = c /\ stranded' = stranded /\ io' = io
    BY <1>4 DEF AddLoop
  <2>2. fd[c] = f /\ Reached(f, c)
    BY <1>2, <2>1
  <2>3. CASE fd[main.conn] = f /\ main.conn \in Conns
    <3>1. main.conn = c
      BY <1>1, <2>2, <2>3, ServerAssumption DEF FdsDiffer, Alive
    <3>. QED
      BY <1>1, <1>4, <2>2, <2>3, <3>1 DEF AddLoop, Reached
  <2>4. CASE fd[main.conn] # f
    BY <1>1, <1>4, <2>1, <2>2, <2>4 DEF AddLoop, Reached
  <2>5. main.conn \in Conns
    BY <1>1, <1>4 DEF AddLoop, Control, MainRecords, Entry
  <2>. QED
    BY <2>3, <2>4, <2>5
<1>5. CASE AddUser
  <2>0. main.conn \in Conns
    BY <1>1, <1>5 DEF AddUser, Control, MainRecords, Entry
  <2>1. io' = io /\ loopconns_' = loopconns_
    BY <1>5 DEF AddUser
  <2>2. CASE f = fd[main.conn]
    <3>1. c = main.conn
      BY <1>1, <1>5, <2>2 DEF AddUser
    <3>2. loopconns_[f] = c
      BY <1>5, <2>2, <3>1 DEF AddUser, NoteStranded
    <3>. QED
      BY <2>1, <2>2, <3>1, <3>2 DEF Reached
  <2>3. CASE f # fd[main.conn]
    <3>1. usermap_[f] = c
      BY <1>1, <1>5, <2>3 DEF AddUser
    <3>2. c \notin stranded
      BY <1>5, <2>3, <3>1 DEF AddUser, NoteStranded
    <3>. QED
      BY <2>1, <3>1, <3>2 DEF UsersKept, Reached
  <2>. QED
    BY <2>2, <2>3
<1>6. CASE CloseUser
  <2>1. usermap_[f] = c
    BY <1>1, <1>6 DEF CloseUser
  <2>. QED
    BY <1>1, <1>2, <1>6, <2>1 DEF CloseUser, Reached, IoRecords
<1>7. CASE EraseUser
  <2>1. usermap_[f] = c /\ f # io.key /\ stranded' = stranded /\ loopconns_' = loopconns_
    BY <1>1, <1>7 DEF EraseUser
  <2>2. fd[io.conn] = io.key
    BY <1>1, <1>7 DEF EraseUser, Control
  <2>. QED
    BY <1>2, <2>1, <2>2 DEF Reached
<1>8. ASSUME NEW w \in Workers, Lookup(w) PROVE fd[c] = f /\ Reached(f, c)'
  <2>1. usermap_[f] = c /\ stranded' = stranded /\ loopconns_' = loopconns_ /\ io' = io
    BY <1>1, <1>8 DEF Lookup
  <2>. QED
    BY <1>2, <2>1 DEF Reached
<1>9. ASSUME NEW g \in Fds, SweepErase(g) PROVE fd[c] = f /\ Reached(f, c)'
  <2>1. /\ usermap_' = usermap_ /\ stranded' = stranded
        /\ io.at \notin {"eraseserver", "eraseuser"}
        /\ loopconns_' = [loopconns_ EXCEPT ![g] = None]
        /\ io'.at = "eraseserver" /\ io'.conn = loopconns_[g]
    BY <1>1, <1>9 DEF SweepErase, IoRecords
  <2>2. fd[c] = f /\ loopconns_[f] = c
    BY <1>2, <2>1 DEF Reached
  <2>. QED
    BY <1>1, <2>1, <2>2 DEF Reached
<1>10. CASE EraseServer
  <2>1. usermap_' = usermap_ /\ stranded' = stranded /\ loopconns_' = loopconns_
        /\ io'.at = "eraseuser" /\ io'.conn = io.conn
    BY <1>1, <1>10 DEF EraseServer, IoRecords
  <2>. QED
    BY <1>2, <2>1 DEF Reached
<1>11. CASE \/ SetCallbacks \/ AddServer \/ TimerExpires \/ FailStep \/ UNCHANGED vars
            \/ \E d \in Conns, g \in Fds : Accept(d, g)
            \/ \E d \in Conns : Request(d) \/ HangUp(d) \/ BecomesIdle(d)
            \/ \E w \in Workers : \/ Take(w) \/ Business(w) \/ SendDisconnected(w)
                                  \/ Send(w) \/ QueueSend(w)
  BY <1>3, <1>11 DEF SetCallbacks, AddServer, TimerExpires, FailStep, Fail, vars, Accept,
                     Request, HangUp, BecomesIdle, Take, Business, SendDisconnected, Send,
                     QueueSend
<1>12. CASE \/ Poll \/ EndOfTurn \/ HandleMessage \/ EndOfMessages \/ RemoveChannel
            \/ CloseServer \/ HandleWakeup \/ EndOfDrain \/ HandleTimer \/ EndOfSweep
            \/ \E d \in Conns : Read(d) \/ ReadEnd(d) \/ RunSend(d)
  BY <1>1, <1>3, <1>12 DEF Poll, EndOfTurn, HandleMessage, EndOfMessages, RemoveChannel,
                     CloseServer, HandleWakeup, EndOfDrain, HandleTimer, EndOfSweep,
                     Read, ReadEnd, RunSend, Handles, Handling
<1>. QED
  BY <1>4, <1>5, <1>6, <1>7, <1>8, <1>9, <1>10, <1>11, <1>12, StepCases

\* The user at the descriptor of a live Connection is its own, or a stranded one.
LEMMA UserIsOwn ==
  ASSUME Types, FdsDiffer, UsersKept, NEW c \in Conns, fd[c] \in Fds
  PROVE  usermap_[fd[c]] \in {None, Null, c} \cup stranded
<1>1. usermap_[fd[c]] \in Conns \cup {None, Null}
  BY DEF Types, Entry
<1>2. Alive(c)
  BY ServerAssumption DEF Alive
<1>. QED
  BY <1>1, <1>2 DEF UsersKept, FdsDiffer

\* A step that changes neither the users nor the Connection being entered.
LEMMA UsersUnchanged ==
  ASSUME IInv, [Next]_vars, UsersServed, main'.conn = main.conn,
         \A f \in Fds : usermap_'[f] \in {usermap_[f], None, Null}
  PROVE  UsersServed'
<1>. SUFFICES ASSUME NEW c \in Conns, Alive(c)', c # main'.conn
              PROVE  usermap_'[fd'[c]] \in {None, Null, c}
  BY DEF UsersServed
<1>1. CASE Alive(c)
  <2>1. fd'[c] = fd[c] /\ fd[c] \in Fds
    BY <1>1, FdKept DEF IInv, Types, Alive
  <2>. QED
    BY <1>1, <2>1 DEF UsersServed
<1>2. ASSUME ~Alive(c), NEW d \in Conns, NEW f \in Fds, Accept(d, f) PROVE FALSE
  <2>1. c # d => fd'[c] = fd[c]
    BY <1>2 DEF Accept, IInv, Types
  <2>2. main'.conn = d
    BY <1>2 DEF Accept
  <2>. QED
    BY <1>2, <2>1, <2>2 DEF Alive
<1>. QED
  BY <1>1, <1>2, FdStep DEF IInv, FdShrinks, Alive

\* A Connection that has been entered is served with its own user: AddUser writes
\* over what was at its descriptor, and nobody else enters one there.
LEMMA UsersServedStep == IInv /\ UsersServed /\ [Next]_vars => UsersServed'
<1>. SUFFICES ASSUME IInv, UsersServed, [Next]_vars PROVE UsersServed'
  OBVIOUS
<1>. USE DEF MainAt, maps
<1>1. /\ Types /\ Control /\ Ownership
      /\ main \in MainRecords /\ usermap_ \in [Fds -> Entry \cup {Null}]
  BY DEF IInv, Types
<1>2. CASE UNCHANGED <<usermap_, main>>
  BY <1>2, UsersUnchanged
<1>3. CASE SetCallbacks \/ AddServer \/ AddLoop
  <2>1. main'.conn = main.conn /\ usermap_' = usermap_
    BY <1>1, <1>3 DEF SetCallbacks, AddServer, AddLoop, MainRecords
  <2>. QED
    BY <2>1, UsersUnchanged
<1>4. CASE AddUser
  <2>1. main.conn # None /\ main.conn \in Entry
    BY <1>1, <1>4 DEF AddUser, Control, MainRecords
  <2>2. main.conn \in Conns /\ Holds(main.conn)
    BY <2>1 DEF Entry, Holds
  <2>3. fd[main.conn] \in Fds
    BY <1>1, <2>2, HeldIsHolds DEF Ownership, Alive, Types
  <2>4. ASSUME NEW c \in Conns, Alive(c)' PROVE usermap_'[fd'[c]] \in {None, Null, c}
    <3>1. fd'[c] = fd[c] /\ Alive(c)
      BY <1>4, <2>4 DEF AddUser, Release, Alive
    <3>2. CASE c = main.conn
      BY <1>1, <1>4, <2>3, <3>1, <3>2 DEF AddUser
    <3>3. CASE c # main.conn
      <4>1. fd[c] # fd[main.conn]
        BY <2>2, <3>1, <3>3 DEF IInv, FdsDiffer
      <4>2. usermap_'[fd[c]] = usermap_[fd[c]]
        BY <1>1, <1>4, <3>1, <4>1 DEF AddUser, Types, Alive
      <4>. QED
        BY <3>1, <3>3, <4>2 DEF UsersServed
    <3>. QED
      BY <3>2, <3>3
  <2>. QED
    BY <2>4 DEF UsersServed
<1>5. CASE CloseUser \/ EraseUser
  <2>1. main' = main /\ \A f \in Fds : usermap_'[f] \in {usermap_[f], None}
    BY <1>1, <1>5 DEF CloseUser, EraseUser
  <2>. QED
    BY <2>1, UsersUnchanged
<1>6. ASSUME NEW w \in Workers, Lookup(w) PROVE UsersServed'
  <2>1. main' = main /\ \A f \in Fds : usermap_'[f] \in {usermap_[f], Null}
    BY <1>1, <1>6 DEF Lookup
  <2>. QED
    BY <2>1, UsersUnchanged
<1>7. ASSUME NEW c \in Conns, NEW f \in Fds, Accept(c, f) PROVE UsersServed'
  <2>1. main.conn = None /\ main'.conn = c /\ usermap_' = usermap_
    BY <1>1, <1>7 DEF Accept, Control
  <2>2. \A d \in Conns \ {c} : fd'[d] = fd[d] /\ d # main.conn
    BY <1>1, <1>7, <2>1, ServerAssumption DEF Accept, Types
  <2>. QED
    BY <2>1, <2>2 DEF UsersServed, Alive
<1>8. CASE \/ Poll \/ EndOfTurn \/ HandleMessage \/ EndOfMessages
           \/ RemoveChannel \/ CloseServer \/ HandleWakeup \/ EndOfDrain
           \/ HandleTimer \/ EraseServer \/ EndOfSweep \/ TimerExpires
           \/ FailStep \/ UNCHANGED vars
  BY <1>2, <1>8 DEF Poll, EndOfTurn, HandleMessage, EndOfMessages, RemoveChannel,
                    CloseServer, HandleWakeup, EndOfDrain, HandleTimer, EraseServer,
                    EndOfSweep, TimerExpires, FailStep, Fail, vars
<1>9. CASE \/ \E c \in Conns : \/ Read(c) \/ ReadEnd(c) \/ RunSend(c)
                               \/ Request(c) \/ HangUp(c) \/ BecomesIdle(c)
           \/ \E f \in Fds : SweepErase(f)
           \/ \E w \in Workers : \/ Take(w) \/ Business(w)
                                 \/ SendDisconnected(w) \/ Send(w) \/ QueueSend(w)
  BY <1>2, <1>9 DEF Read, ReadEnd, RunSend, Request, HangUp, BecomesIdle, SweepErase, Take,
                    Business, SendDisconnected, Send, QueueSend
<1>. QED
  BY <1>3, <1>4, <1>5, <1>6, <1>7, <1>8, <1>9, StepCases

\* What a worker found is its Connection's own user, or of a stranded one.
LEMMA UsersAnsweredStep ==
  IInv /\ UsersKept /\ UsersAnswered /\ [Next]_vars => UsersAnswered'
<1>. SUFFICES ASSUME IInv, UsersKept, UsersAnswered, [Next]_vars,
                     NEW w \in Workers, worker'[w].at = "found"
              PROVE  worker'[w].userinfo \in {None, Null, worker'[w].conn} \cup stranded'
  BY DEF UsersAnswered
<1>. USE DEF WorkerAt, Return, flags, queues
<1>1. /\ Types /\ Control /\ Ownership /\ FdsDiffer
      /\ worker \in [Workers -> WorkerRecords] /\ usermap_ \in [Fds -> Entry \cup {Null}]
  BY DEF IInv, Types
<1>2. CASE worker'[w] = worker[w] /\ stranded' = stranded
  BY <1>2 DEF UsersAnswered
<1>3. CASE AddUser
  BY <1>3 DEF AddUser, NoteStranded, UsersAnswered
<1>4. CASE Lookup(w)
  <2>1. worker[w].conn \in Conns /\ fd[worker[w].conn] \in Fds
    BY <1>1, <1>4, WorkerHolds DEF Lookup
  <2>2. usermap_[fd[worker[w].conn]] \in {None, Null, worker[w].conn} \cup stranded
    BY <1>1, <2>1, UserIsOwn
  <2>3. /\ worker'[w].userinfo \in {Null, usermap_[fd[worker[w].conn]]}
        /\ worker'[w].conn = worker[w].conn /\ stranded' = stranded
    BY <1>1, <1>4 DEF Lookup, WorkerRecords
  <2>. QED
    BY <2>2, <2>3
<1>5. ASSUME NEW v \in Workers, Lookup(v) PROVE v # w => worker'[w] = worker[w] /\ stranded' = stranded
  BY <1>1, <1>5 DEF Lookup
<1>6. ASSUME NEW v \in Workers,
             Take(v) \/ Business(v) \/ SendDisconnected(v) \/ Send(v) \/ QueueSend(v)
      PROVE  worker'[w] = worker[w] /\ stranded' = stranded
  <2>1. stranded' = stranded /\ (v # w => worker'[w] = worker[w])
    BY <1>1, <1>6 DEF Take, Business, SendDisconnected, Send, QueueSend
  <2>2. worker'[v].at # "found"
    BY <1>1, <1>6 DEF Take, Business, SendDisconnected, Send, QueueSend, WorkerRecords
  <2>. QED
    BY <2>1, <2>2
<1>7. CASE \/ SetCallbacks \/ AddServer \/ AddLoop \/ TimerExpires \/ FailStep
           \/ UNCHANGED vars \/ \E d \in Conns, g \in Fds : Accept(d, g)
           \/ \E d \in Conns : Request(d) \/ HangUp(d) \/ BecomesIdle(d)
  BY <1>2, <1>7 DEF SetCallbacks, AddServer, AddLoop, TimerExpires, FailStep, Fail, vars,
                    Accept, Request, HangUp, BecomesIdle
<1>8. CASE \/ Poll \/ EndOfTurn \/ HandleMessage \/ EndOfMessages \/ RemoveChannel
           \/ CloseUser \/ CloseServer \/ HandleWakeup \/ EndOfDrain \/ HandleTimer
           \/ EraseServer \/ EraseUser \/ EndOfSweep
           \/ \E d \in Conns : Read(d) \/ ReadEnd(d) \/ RunSend(d)
           \/ \E g \in Fds : SweepErase(g)
  BY <1>2, <1>8 DEF Poll, EndOfTurn, HandleMessage, EndOfMessages, RemoveChannel, CloseUser,
                    CloseServer, HandleWakeup, EndOfDrain, HandleTimer, EraseServer,
                    EraseUser, EndOfSweep, Read, ReadEnd, RunSend, SweepErase
<1>. QED
  BY <1>2, <1>3, <1>4, <1>5, <1>6, <1>7, <1>8, StepCases

\* A Connection finds its own user or none in BankServer::usermap_, and so does the
\* worker that answers it; one that newconnection() is still entering may find that
\* of a Connection that was evicted before it was entered itself.
THEOREM UserBelongsCorrect == Spec => []UserBelongs
<1>. DEFINE Users == UsersKept /\ UsersServed /\ UsersAnswered
<1>1. Init => Users
  BY ServerAssumption DEF Init, UsersKept, UsersServed, UsersAnswered, Alive, NoEntry
<1>2. IInv /\ Users /\ [Next]_vars => Users'
  BY UsersKeptStep, UsersServedStep, UsersAnsweredStep
<1>3. IInv /\ Users => UserBelongs
  <2>. SUFFICES ASSUME IInv, Users, NEW c \in Conns, Alive(c)
                PROVE  \/ usermap_[fd[c]] \in {None, Null, c}
                       \/ c = main.conn /\ usermap_[fd[c]] \in stranded
    BY DEF UserBelongs, UsersAnswered
  <2>1. fd[c] \in Fds
    BY DEF IInv, Types, Alive
  <2>. QED
    BY <2>1, UserIsOwn DEF IInv, UsersServed
<1>. QED
  BY <1>1, <1>2, <1>3, InvariantHolds, PTL DEF Spec

-----------------------------------------------------------------------------
(* What the server holds.                                                  *)

\* NoLeak, with the moments at which an entry of the server's map may be
\* without its entry in the loop's: before newconnection() has made it, and
\* until the close or the eviction that is under way has erased it.
Leaving == {"closeuser", "closeserver", "eraseserver"}

InLoop ==
  \A f \in Fds : conns_[f] # None => \/ loopconns_[f] = conns_[f]
                                     \/ main.at = "loop" /\ main.conn = conns_[f]
                                     \/ io.at \in Leaving /\ io.conn = conns_[f]

\* The steps that concern neither map, and no moment of InLoop.
LEMMA InLoopUnchanged ==
  ASSUME InLoop, UNCHANGED <<conns_, loopconns_>>,
         main.at = "loop" => UNCHANGED main, io.at \in Leaving => UNCHANGED io
  PROVE  InLoop'
  BY DEF InLoop

\* An entry of the server's map loses its loop entry only to an eviction, which
\* then erases it, and a close erases it by itself.
LEMMA InLoopStep == IInv /\ InLoop /\ [Next]_vars => InLoop'
<1>. SUFFICES ASSUME IInv, InLoop, [Next]_vars PROVE InLoop'
  OBVIOUS
<1>. USE DEF MainAt, IoAt, IoIn, maps
<1>1. /\ Types /\ Control /\ main \in MainRecords /\ io \in IoRecords
      /\ conns_ \in [Fds -> Entry] /\ loopconns_ \in [Fds -> Entry]
  BY DEF IInv, Types
<1>2. \A f \in Fds : conns_[f] # None => fd[conns_[f]] = f
  BY DEF IInv, MapsAgree
<1>3. \A f \in Fds : conns_[f] # None /\ loopconns_[f] # None => conns_[f] = loopconns_[f]
  <2>. SUFFICES ASSUME NEW f \in Fds, conns_[f] # None, loopconns_[f] # None
                PROVE  conns_[f] = loopconns_[f]
    OBVIOUS
  <2>1. conns_[f] \in Conns /\ fd[conns_[f]] = f
    BY <1>1, <1>2 DEF Entry
  <2>. QED
    BY <1>1, <2>1, KeyOwner DEF IInv
<1>4. CASE AddServer
  <2>1. main'.at = "loop" /\ main'.conn = main.conn /\ UNCHANGED <<io, loopconns_>>
    BY <1>1, <1>4 DEF AddServer, MainRecords
  <2>2. \A f \in Fds : conns_'[f] \in {conns_[f], main.conn}
    BY <1>1, <1>4 DEF AddServer
  <2>3. main.at # "loop"
    BY <1>4 DEF AddServer
  <2>. QED
    BY <2>1, <2>2, <2>3 DEF InLoop
<1>5. CASE AddLoop
  <2>1. main.conn # None /\ UNCHANGED <<io, conns_>>
    BY <1>1, <1>5 DEF AddLoop, Control
  <2>2. \A f \in Fds : loopconns_'[f] = IF f = fd[main.conn] THEN main.conn ELSE loopconns_[f]
    BY <1>1, <1>5 DEF AddLoop
  <2>3. main.conn \in Conns
    BY <1>1, <2>1 DEF MainRecords, Entry
  <2>4. \A f \in Fds : f = fd[main.conn] => conns_[f] \in {None, main.conn}
    BY <1>1, <2>3, KeyOwner DEF IInv
  <2>. QED
    BY <1>2, <2>1, <2>2, <2>4 DEF InLoop
<1>6. CASE CloseServer
  <2>1. io.conn \in Conns /\ io.at = "closeserver" /\ UNCHANGED <<main, loopconns_>>
    BY <1>1, <1>6 DEF CloseServer, Control, Sharing
  <2>2. \A f \in Fds : conns_'[f] = IF f = fd[io.conn] THEN None ELSE conns_[f]
    BY <1>1, <1>6 DEF CloseServer
  <2>. QED
    BY <1>2, <2>1, <2>2 DEF InLoop
<1>7. CASE EraseServer
  <2>1. fd[io.conn] = io.key /\ UNCHANGED <<main, loopconns_>>
    BY <1>1, <1>7 DEF EraseServer, Control
  <2>2. \A f \in Fds : conns_'[f] = IF f = io.key THEN None ELSE conns_[f]
    BY <1>1, <1>7 DEF EraseServer
  <2>. QED
    BY <1>2, <2>1, <2>2 DEF InLoop
<1>8. ASSUME NEW f \in Fds, SweepErase(f) PROVE InLoop'
  <2>1. io.at \notin Leaving /\ io'.at \in Leaving /\ io'.conn = loopconns_[f]
    BY <1>1, <1>8 DEF SweepErase, Leaving, IoRecords
  <2>2. \A g \in Fds : g # f => loopconns_'[g] = loopconns_[g]
    BY <1>1, <1>8 DEF SweepErase
  <2>3. UNCHANGED <<main, conns_>>
    BY <1>8 DEF SweepErase
  <2>. QED
    BY <2>1, <2>2, <2>3 DEF InLoop
<1>9. CASE CloseUser
  <2>1. io'.at \in Leaving /\ io'.conn = io.conn
    BY <1>1, <1>9 DEF CloseUser, Leaving, IoRecords
  <2>2. UNCHANGED <<main, conns_, loopconns_>>
    BY <1>9 DEF CloseUser
  <2>. QED
    BY <2>1, <2>2 DEF InLoop
<1>10. CASE \/ SetCallbacks \/ AddUser \/ \E c \in Conns, f \in Fds : Accept(c, f)
  BY <1>10, InLoopUnchanged DEF SetCallbacks, AddUser, Accept
<1>11. CASE \/ Poll \/ EndOfTurn \/ HandleMessage \/ EndOfMessages \/ RemoveChannel
            \/ HandleWakeup \/ EndOfDrain \/ HandleTimer \/ EraseUser \/ EndOfSweep
            \/ \E c \in Conns : Read(c) \/ ReadEnd(c)
  <2>1. io.at \notin Leaving
    BY <1>11 DEF Poll, EndOfTurn, HandleMessage, EndOfMessages, RemoveChannel, HandleWakeup,
                 EndOfDrain, HandleTimer, EraseUser, EndOfSweep, Read, ReadEnd, Handles,
                 Leaving
  <2>2. UNCHANGED <<main, conns_, loopconns_>>
    BY <1>11 DEF Poll, EndOfTurn, HandleMessage, EndOfMessages, RemoveChannel, HandleWakeup,
                 EndOfDrain, HandleTimer, EraseUser, EndOfSweep, Read, ReadEnd
  <2>. QED
    BY <2>1, <2>2, InLoopUnchanged
<1>12. CASE \/ TimerExpires \/ FailStep \/ UNCHANGED vars
            \/ \E c \in Conns : RunSend(c) \/ Request(c) \/ HangUp(c) \/ BecomesIdle(c)
            \/ \E w \in Workers : \/ Take(w) \/ Lookup(w) \/ Business(w)
                                  \/ SendDisconnected(w) \/ Send(w) \/ QueueSend(w)
  <2>1. UNCHANGED <<main, io, conns_, loopconns_>>
    BY <1>12 DEF TimerExpires, FailStep, Fail, vars, RunSend, Request, HangUp, BecomesIdle,
                 Take, Lookup, Business, SendDisconnected, Send, QueueSend
  <2>. QED
    BY <2>1, InLoopUnchanged
<1>. QED
  BY <1>4, <1>5, <1>6, <1>7, <1>8, <1>9, <1>10, <1>11, <1>12, StepCases

\* A Connection of the server's map can be evicted by its loop, or is still
\* being entered, closed or evicted: none keeps its descriptor for ever.
THEOREM NoLeakCorrect == Spec => []NoLeak
<1>1. Init => InLoop
  BY DEF Init, InLoop, NoEntry
<1>2. InLoop => NoLeak
  BY DEF InLoop, NoLeak, Leaving, Sharing
<1>. QED
  BY <1>1, <1>2, InLoopStep, InvariantHolds, PTL DEF Spec

-----------------------------------------------------------------------------
(* What a removal removes.                                                 *)

\* What leaves or enters TcpServer::conns_ is the thread's own Connection.
LEMMA ServerRemoval ==
  ASSUME IInv, [Next]_vars, NEW f \in Fds, conns_'[f] # conns_[f]
  PROVE  {conns_[f], conns_'[f]} \subseteq {None, io.conn, main.conn}
<1>. USE DEF MainAt, IoAt, IoIn, maps
<1>1. /\ Types /\ Control /\ main \in MainRecords /\ conns_ \in [Fds -> Entry]
  BY DEF IInv, Types
<1>2. ASSUME NEW c \in Conns, fd[c] = f PROVE conns_[f] \in {None, c}
  BY <1>1, <1>2, KeyOwner DEF IInv
<1>3. CASE AddServer
  <2>1. main.conn \in Conns
    BY <1>1, <1>3 DEF AddServer, Control, MainRecords, Entry
  <2>2. fd[main.conn] = f /\ conns_'[f] = main.conn
    BY <1>1, <1>3 DEF AddServer
  <2>. QED
    BY <1>2, <2>1, <2>2
<1>4. CASE CloseServer
  <2>1. io.conn \in Conns
    BY <1>1, <1>4 DEF CloseServer, Control, Sharing
  <2>2. fd[io.conn] = f /\ conns_'[f] = None
    BY <1>1, <1>4 DEF CloseServer
  <2>. QED
    BY <1>2, <2>1, <2>2
<1>5. CASE EraseServer
  <2>1. io.conn \in Conns /\ fd[io.conn] = io.key
    BY <1>1, <1>5 DEF EraseServer, Control, Sharing
  <2>2. io.key = f /\ conns_'[f] = None
    BY <1>1, <1>5 DEF EraseServer
  <2>. QED
    BY <1>2, <2>1, <2>2
<1>6. CASE \/ SetCallbacks \/ AddLoop \/ AddUser \/ Poll \/ EndOfTurn \/ HandleMessage
           \/ EndOfMessages \/ RemoveChannel \/ CloseUser \/ HandleWakeup \/ EndOfDrain
           \/ HandleTimer \/ EraseUser \/ EndOfSweep \/ TimerExpires \/ FailStep
           \/ UNCHANGED vars
  BY <1>6 DEF SetCallbacks, AddLoop, AddUser, Poll, EndOfTurn, HandleMessage, EndOfMessages,
              RemoveChannel, CloseUser, HandleWakeup, EndOfDrain, HandleTimer, EraseUser,
              EndOfSweep, TimerExpires, FailStep, Fail, vars
<1>7. CASE \/ \E c \in Conns : \/ Read(c) \/ ReadEnd(c) \/ RunSend(c)
                               \/ Request(c) \/ HangUp(c) \/ BecomesIdle(c)
           \/ \E g \in Fds : SweepErase(g)
           \/ \E w \in Workers : \/ Take(w) \/ Lookup(w) \/ Business(w)
                                 \/ SendDisconnected(w) \/ Send(w) \/ QueueSend(w)
           \/ \E c \in Conns, g \in Fds : Accept(c, g)
  BY <1>7 DEF Read, ReadEnd, RunSend, Request, HangUp, BecomesIdle, SweepErase, Take,
              Lookup, Business, SendDisconnected, Send, QueueSend, Accept
<1>. QED
  BY <1>3, <1>4, <1>5, <1>6, <1>7, StepCases

\* Whoever has the descriptor of a removed user is the Connection being closed.
LEMMA UserRemoval ==
  ASSUME IInv, [Next]_vars, NEW f \in Fds, usermap_[f] \in Conns, usermap_'[f] = None,
         NEW c \in Conns, fd[c] = f
  PROVE  c = io.conn
<1>. USE ServerAssumption DEF MainAt, IoAt, IoIn, maps
<1>1. /\ Types /\ Control /\ main \in MainRecords /\ usermap_ \in [Fds -> Entry \cup {Null}]
      /\ Alive(c)
  BY DEF IInv, Types, Alive
<1>2. ASSUME usermap_'[f] = usermap_[f] PROVE FALSE
  BY <1>2
<1>3. CASE CloseUser
  <2>1. io.conn \in Conns
    BY <1>1, <1>3 DEF CloseUser, Control, Sharing
  <2>2. fd[io.conn] = f
    BY <1>1, <1>2, <1>3 DEF CloseUser
  <2>. QED
    BY <1>1, <2>1, <2>2 DEF IInv, FdsDiffer
<1>4. CASE EraseUser
  <2>1. io.conn \in Conns /\ fd[io.conn] = io.key
    BY <1>1, <1>4 DEF EraseUser, Control, Sharing
  <2>2. io.key = f
    BY <1>1, <1>2, <1>4 DEF EraseUser
  <2>. QED
    BY <1>1, <2>1, <2>2 DEF IInv, FdsDiffer
<1>5. CASE AddUser
  <2>1. main.conn # None
    BY <1>1, <1>5 DEF AddUser, Control
  <2>. QED
    BY <1>1, <1>2, <1>5, <2>1 DEF AddUser
<1>6. ASSUME NEW w \in Workers, Lookup(w) PROVE FALSE
  BY <1>1, <1>2, <1>6 DEF Lookup
<1>7. CASE \/ SetCallbacks \/ AddServer \/ AddLoop \/ Poll \/ EndOfTurn \/ HandleMessage
           \/ EndOfMessages \/ RemoveChannel \/ CloseServer \/ HandleWakeup \/ EndOfDrain
           \/ HandleTimer \/ EraseServer \/ EndOfSweep \/ TimerExpires \/ FailStep
           \/ UNCHANGED vars
  BY <1>2, <1>7 DEF SetCallbacks, AddServer, AddLoop, Poll, EndOfTurn, HandleMessage,
              EndOfMessages, RemoveChannel, CloseServer, HandleWakeup, EndOfDrain,
              HandleTimer, EraseServer, EndOfSweep, TimerExpires, FailStep, Fail, vars
<1>8. CASE \/ \E d \in Conns : \/ Read(d) \/ ReadEnd(d) \/ RunSend(d)
                               \/ Request(d) \/ HangUp(d) \/ BecomesIdle(d)
           \/ \E g \in Fds : SweepErase(g)
           \/ \E w \in Workers : \/ Take(w) \/ Business(w)
                                 \/ SendDisconnected(w) \/ Send(w) \/ QueueSend(w)
           \/ \E d \in Conns, g \in Fds : Accept(d, g)
  BY <1>2, <1>8 DEF Read, ReadEnd, RunSend, Request, HangUp, BecomesIdle, SweepErase, Take,
              Business, SendDisconnected, Send, QueueSend, Accept
<1>. QED
  BY <1>3, <1>4, <1>5, <1>6, <1>7, <1>8, StepCases

\* No map ever serves, closes or evicts another client than its own, or holds
\* one that the sweep cannot reach.
THEOREM MapsSafeCorrect == Spec => []MapsSafe
BY MapsAgreeCorrect, UserBelongsCorrect, NoLeakCorrect, PTL DEF MapsSafe

\* An erasure by descriptor, in TcpServer and in BankServer, takes the entry
\* of the Connection that is being closed or evicted and of no other.
THEOREM RemovalsAreOwnCorrect == Spec => RemovalsAreOwn
<1>1. ASSUME IInv, [Next]_vars, NEW f \in Fds
      PROVE  /\ conns_'[f] # conns_[f] => {conns_[f], conns_'[f]} \subseteq
                                            {None, io.conn, main.conn}
             /\ usermap_[f] \in Conns /\ usermap_'[f] = None
                  => \A c \in Conns : fd[c] = f => c = io.conn
  BY <1>1, ServerRemoval, UserRemoval
<1>2. IInv /\ [Next]_vars
        => [\A f \in Fds : /\ conns_'[f] # conns_[f] => {conns_[f], conns_'[f]} \subseteq
                                                          {None, io.conn, main.conn}
                           /\ usermap_[f] \in Conns /\ usermap_'[f] = None
                                => \A c \in Conns : fd[c] = f => c = io.conn]_vars
  BY <1>1
<1>. QED
  BY <1>2, InvariantHolds, PTL DEF Spec, RemovalsAreOwn

=============================================================================
