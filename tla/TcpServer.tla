----------------------------- MODULE TcpServer ------------------------------
(***************************************************************************)
(* The life of the connections of reactor/TcpServer.cpp with BankServer on *)
(* top: the main loop's thread constructs a Connection and enters it in    *)
(* three maps, the thread of its event loop serves it, closes it and       *)
(* evicts it when it has been idle, the worker threads answer its requests.*)
(* The three maps are keyed by the file descriptor, which the kernel uses  *)
(* again once the Connection is destroyed.                                 *)
(*                                                                         *)
(* A Connection is owned by shared pointers: it is destroyed, and its      *)
(* socket closed (Socket.cpp:22-25), by the step that drops the last one.  *)
(* The Channel in epoll and the tasks of EventLoop::queueinloop() hold raw *)
(* pointers, which do not count.                                           *)
(*                                                                         *)
(* The model has one sub-loop (an fd always picks the same one,            *)
(* TcpServer.cpp:57,70).  What is written to the client, and the lock and  *)
(* eventfd of the loop's task queue, are not here: see module EventLoop.   *)
(***************************************************************************)
EXTENDS Naturals, Sequences, FiniteSets, Functions

CONSTANTS Conns,        \* the Connection objects, each constructed once
          Fds,          \* the descriptors the kernel hands out
          Workers,      \* the threads of BankServer's pool
          MaxRequests,  \* bound: the requests a client sends
          None,         \* no connection; no entry in a map
          Null          \* an entry that holds a null pointer

ASSUME ServerAssumption == /\ IsFiniteSet(Conns)
                           /\ None # Null
                           /\ {None, Null} \cap Conns = {}
                           /\ None \notin Fds
                           /\ Conns \cap {"timer", "wakeup"} = {}
                           /\ MaxRequests \in Nat

VARIABLES
  \* The kernel and the clients.
  accepted,      \* the Connections constructed so far
  edge,          \* those with an edge that epoll_wait() has not reported
  input,         \* the requests not yet read from each socket
  requests,      \* the requests each client sent
  hup,           \* the clients that closed
  idle,          \* the Connections without a request for longer than timeout_
  timerfd_,
  fd,            \* the descriptor of each live Connection
  registered,    \* the Connections whose descriptor is in the epoll tree
  \* The program.
  inepoll_,      \* the Connections whose Channel::inepoll_ is true
  disconnect_,   \* those whose Connection::disconnect_ is true
  conns_,        \* TcpServer::conns_
  loopconns_,    \* EventLoop::conns_
  usermap_,      \* BankServer::usermap_
  sends,         \* EventLoop::taskqueue_: one sendinloop() per reply
  tasks,         \* ThreadPool::taskqueue_: one OnMessage() per request
  main,          \* the main loop's thread in newconnection(), and its conn
  io,            \* the event loop's thread
  worker,        \* the workers in OnMessage(): conn and userinfo
  failed,        \* why the process ended, or "no"
  stranded       \* history: Connections evicted before their AddUser

client == <<accepted, edge, input, requests, hup>>
clock  == <<idle, timerfd_>>
own    == <<fd, registered>>
flags  == <<inepoll_, disconnect_, stranded>>
maps   == <<conns_, loopconns_, usermap_>>
queues == <<sends, tasks>>
vars   == <<client, clock, own, flags, maps, queues, main, io, worker, failed>>

-----------------------------------------------------------------------------

MainStates == {"accept",     \* in its own loop, Acceptor.cpp:27
               "callbacks",  \* 58: the Channel is in epoll, no callback is set
               "server",     \* 68
               "loop",       \* 70
               "user"}       \* 72

IoStates == {"poll", "dispatch",
             "messages",                 \* Connection.cpp:93-101
             "remove",                   \* 38: disconnect_ is set
             "closeuser",                \* 39, in BankServer::HandleClose()
             "closeserver",              \* 39, at TcpServer.cpp:83
             "drain",                    \* EventLoop.cpp:116
             "sweep",                    \* 142, nothing evicted yet
             "eraseserver", "eraseuser", \* 150: removeconn(), HandleRemove()
             "swept"}                    \* 142, the iterator's node is freed

WorkerStates == {"idle",
                 "lookup",   \* BankServer.cpp:104
                 "found",    \* 112: the business, which uses userinfo
                 "send",     \* Connection.cpp:115
                 "queue"}    \* 127

\* The states in which io.conn is held by a shared pointer: the argument of
\* closecallback_(), and the copy aa of handletimer().
Sharing == {"closeuser", "closeserver", "eraseserver", "eraseuser"}

Held == {main.conn} \cup Range(conns_) \cup Range(loopconns_) \cup Range(tasks)
          \cup {worker[w].conn : w \in Workers}
          \cup {c \in {io.conn} : io.at \in Sharing}

\* Conjoined to each step that drops a shared pointer: what nobody holds is
\* destroyed, and its close() takes the descriptor out of epoll.
Release == LET held == Held' IN
             /\ fd' = [c \in Conns |-> IF c \in held THEN fd[c] ELSE None]
             /\ registered' = registered \cap held

Alive(c) == fd[c] # None

\* The callbacks of the Connection that main is constructing are not set.
NoCallback(c) == main.at = "callbacks" /\ main.conn = c

NoEntry == [f \in Fds |-> None]

Init == /\ accepted = {} /\ edge = {} /\ hup = {} /\ idle = {} /\ registered = {}
        /\ disconnect_ = {} /\ inepoll_ = {} /\ stranded = {}
        /\ input = [c \in Conns |-> 0]
        /\ requests = [c \in Conns |-> 0]
        /\ fd = [c \in Conns |-> None]
        /\ timerfd_ = FALSE
        /\ conns_ = NoEntry /\ loopconns_ = NoEntry /\ usermap_ = NoEntry
        /\ sends = <<>> /\ tasks = <<>>
        /\ main = [at |-> "accept", conn |-> None]
        /\ io = [at |-> "poll", conn |-> None, key |-> None, left |-> 0, channels |-> <<>>]
        /\ worker = [w \in Workers |-> [at |-> "idle", conn |-> None, userinfo |-> None]]
        /\ failed = "no"

Up            == failed = "no"
MainAt(s)     == Up /\ main.at = s
IoAt(s)       == Up /\ io.at = s
IoIn(S)       == Up /\ io.at \in S
WorkerAt(w,s) == Up /\ worker[w].at = s

\* The process ends: exit(-1), an uncaught exception or undefined behaviour.
Fail(why) ==
  /\ failed' = why
  /\ UNCHANGED <<client, clock, own, flags, maps, queues, main, io, worker>>

-----------------------------------------------------------------------------
(* The main loop's thread: Acceptor::newconnection(), the constructor of   *)
(* Connection and TcpServer::newconnection().                              *)

\* Data that came before the ADD is reported like data that comes after it.
Accept(c, f) ==
  /\ MainAt("accept")
  /\ c \notin accepted
  /\ f \notin Range(fd)
  /\ accepted' = accepted \cup {c}
  /\ fd' = [fd EXCEPT ![c] = f]
  /\ registered' = registered \cup {c}
  /\ inepoll_' = inepoll_ \cup {c}
  /\ main' = [at |-> "callbacks", conn |-> c]
  /\ UNCHANGED <<edge, input, requests, hup, clock, disconnect_, stranded, maps, queues,
                 io, worker, failed>>

\* accept4() returned -1, which nobody checks: the ADD of fd -1 fails.
AcceptFails == MainAt("accept") /\ Fail("epoll_ctl")

SetCallbacks ==
  /\ MainAt("callbacks")
  /\ main' = [main EXCEPT !.at = "server"]
  /\ UNCHANGED <<client, clock, own, flags, maps, queues, io, worker, failed>>

AddServer ==
  /\ MainAt("server")
  /\ conns_' = [conns_ EXCEPT ![fd[main.conn]] = main.conn]
  /\ main' = [main EXCEPT !.at = "loop"]
  /\ UNCHANGED <<client, clock, flags, loopconns_, usermap_, queues, io, worker, failed>>
  /\ Release

AddLoop ==
  /\ MainAt("loop")
  /\ loopconns_' = [loopconns_ EXCEPT ![fd[main.conn]] = main.conn]
  /\ main' = [main EXCEPT !.at = "user"]
  /\ UNCHANGED <<client, clock, flags, conns_, usermap_, queues, io, worker, failed>>
  /\ Release

\* The entry outlives its Connection when the sweep has taken it out of the loop's
\* map already: nobody is left to erase it.  Noted as long as anybody can find it.
NoteStranded ==
  LET here  == fd[main.conn]
      found == {usermap_[f] : f \in Fds \ {here}} \cup {worker[w].userinfo : w \in Workers}
  IN stranded' = (stranded \cap found)
                   \cup {c \in {main.conn} : loopconns_[here] # c}

\* Mutant: insert(), which keeps an entry that is there.
AddUserInsert ==
  /\ MainAt("user")
  /\ usermap_' = [usermap_ EXCEPT ![fd[main.conn]] = IF @ = None THEN main.conn ELSE @]
  /\ NoteStranded
  /\ main' = [at |-> "accept", conn |-> None]
  /\ UNCHANGED <<client, clock, inepoll_, disconnect_, conns_, loopconns_, queues, io,
                 worker, failed>>
  /\ Release

\* At the end of newconnection() its local conn goes.
AddUser ==
  /\ MainAt("user")
  /\ usermap_' = [usermap_ EXCEPT ![fd[main.conn]] = main.conn]
  /\ NoteStranded
  /\ main' = [at |-> "accept", conn |-> None]
  /\ UNCHANGED <<client, clock, inepoll_, disconnect_, conns_, loopconns_, queues, io,
                 worker, failed>>
  /\ Release

-----------------------------------------------------------------------------
(* The event loop's thread: EventLoop::run().                              *)

Ready == (edge \cap registered) \cup {e \in {"timer"} : timerfd_}
                                \cup {e \in {"wakeup"} : sends # <<>>}

\* Every ready channel is returned, in an order epoll chooses.
Poll ==
  /\ IoAt("poll")
  /\ Ready # {}
  /\ \E order \in [1..Cardinality(Ready) -> Ready] :
       /\ Range(order) = Ready
       /\ io' = [io EXCEPT !.at = "dispatch", !.channels = order]
  /\ edge' = edge \ registered
  /\ UNCHANGED <<accepted, input, requests, hup, clock, own, flags, maps, queues, main,
                 worker, failed>>

EndOfTurn ==
  /\ IoAt("dispatch") /\ io.channels = <<>>
  /\ io' = [io EXCEPT !.at = "poll"]
  /\ UNCHANGED <<client, clock, own, flags, maps, queues, main, worker, failed>>

\* The next event of this turn is that of e, and is handled in state at.
Handles(e) == IoAt("dispatch") /\ io.channels # <<>> /\ Head(io.channels) = e

Handling(at, c) == [io EXCEPT !.at = at, !.conn = c, !.channels = Tail(@)]

\* The Channel of the event was destroyed earlier in this turn, or the
\* Connection is destroyed in the middle of its onmessage().
HandleFreed(c) == /\ Handles(c) \/ (IoIn({"messages", "remove"}) /\ io.conn = c)
                  /\ ~Alive(c)
                  /\ Fail("use after free")

\* onmessage() reads to EAGAIN: what has arrived is dispatched.
Read(c) ==
  /\ Handles(c) /\ Alive(c) /\ c \notin hup
  /\ input' = [input EXCEPT ![c] = 0]
  /\ io' = [Handling("messages", c) EXCEPT !.left = input[c]]
  /\ UNCHANGED <<accepted, edge, requests, hup, clock, own, flags, maps, queues, main,
                 worker, failed>>

\* onmessage() reads to 0: what was read with the end is never dispatched.
ReadEnd(c) ==
  /\ Handles(c) /\ Alive(c) /\ c \in hup
  /\ input' = [input EXCEPT ![c] = 0]
  /\ disconnect_' = disconnect_ \cup {c}
  /\ io' = Handling("remove", c)
  /\ UNCHANGED <<accepted, edge, requests, hup, clock, own, inepoll_, stranded, maps, queues,
                 main, worker, failed>>

HandleMessage ==
  /\ IoAt("messages") /\ io.left > 0
  /\ Alive(io.conn) /\ ~NoCallback(io.conn)
  /\ io' = [io EXCEPT !.left = @ - 1]
  /\ idle' = idle \ {io.conn}
  /\ tasks' = Append(tasks, io.conn)
  /\ UNCHANGED <<client, timerfd_, own, flags, maps, sends, main, worker, failed>>

EndOfMessages ==
  /\ IoAt("messages") /\ io.left = 0
  /\ Alive(io.conn)
  /\ io' = [io EXCEPT !.at = "dispatch", !.conn = None]
  /\ UNCHANGED <<client, clock, own, flags, maps, queues, main, worker, failed>>

\* Channel::remove(); Epoll::removechannel() leaves inepoll_ as it was.
RemoveChannel ==
  /\ IoAt("remove")
  /\ Alive(io.conn) /\ ~NoCallback(io.conn)
  /\ registered' = registered \ {io.conn}
  /\ io' = [io EXCEPT !.at = "closeuser"]
  /\ UNCHANGED <<client, clock, fd, flags, maps, queues, main, worker, failed>>

\* shared_from_this() of an object no pointer owns yet, or an empty function.
CallbackMissing ==
  /\ IoAt("remove") \/ (IoAt("messages") /\ io.left > 0)
  /\ NoCallback(io.conn)
  /\ Fail("callback")

CloseUser ==
  /\ IoAt("closeuser")
  /\ usermap_' = [usermap_ EXCEPT ![fd[io.conn]] = None]
  /\ io' = [io EXCEPT !.at = "closeserver"]
  /\ UNCHANGED <<client, clock, own, flags, conns_, loopconns_, queues, main, worker,
                 failed>>

CloseServer ==
  /\ IoAt("closeserver")
  /\ conns_' = [conns_ EXCEPT ![fd[io.conn]] = None]
  /\ io' = [io EXCEPT !.at = "dispatch", !.conn = None]
  /\ UNCHANGED <<client, clock, flags, loopconns_, usermap_, queues, main, worker, failed>>
  /\ Release

HandleWakeup ==
  /\ Handles("wakeup")
  /\ io' = Handling("drain", None)
  /\ UNCHANGED <<client, clock, own, flags, maps, queues, main, worker, failed>>

\* sendinloop() through the raw this of queueinloop(): enablewriting() is an
\* EPOLL_CTL_MOD when inepoll_ is true and an ADD otherwise.
RunSend(c) ==
  /\ IoAt("drain") /\ sends # <<>> /\ Head(sends) = c
  /\ Alive(c) /\ (c \in inepoll_ => c \in registered)
  /\ sends' = Tail(sends)
  /\ registered' = registered \cup {c}
  /\ inepoll_' = inepoll_ \cup {c}
  /\ UNCHANGED <<client, clock, fd, disconnect_, stranded, maps, tasks, main, io, worker,
                 failed>>

RunSendFails(c) ==
  /\ IoAt("drain") /\ sends # <<>> /\ Head(sends) = c
  /\ \/ ~Alive(c) /\ Fail("use after free")
     \/ Alive(c) /\ c \in inepoll_ \ registered /\ Fail("epoll_ctl")

EndOfDrain ==
  /\ IoAt("drain") /\ sends = <<>>
  /\ io' = [io EXCEPT !.at = "dispatch"]
  /\ UNCHANGED <<client, clock, own, flags, maps, queues, main, worker, failed>>

HandleTimer ==
  /\ Handles("timer")
  /\ timerfd_' = FALSE
  /\ io' = Handling("sweep", None)
  /\ UNCHANGED <<client, idle, own, flags, maps, queues, main, worker, failed>>

\* Mutant: a closed Connection is taken for gone.
EvictableOpen == {f \in Fds : loopconns_[f] \in idle \ disconnect_}

Evictable == {f \in Fds : loopconns_[f] \in idle}

SweepErase(f) ==
  /\ IoIn({"sweep", "swept"})
  /\ f \in Evictable
  /\ loopconns_' = [loopconns_ EXCEPT ![f] = None]
  /\ io' = [io EXCEPT !.at = "eraseserver", !.conn = loopconns_[f], !.key = f]
  /\ UNCHANGED <<client, clock, own, flags, conns_, usermap_, queues, main, worker, failed>>

EraseServer ==
  /\ IoAt("eraseserver")
  /\ conns_' = [conns_ EXCEPT ![io.key] = None]
  /\ io' = [io EXCEPT !.at = "eraseuser"]
  /\ UNCHANGED <<client, clock, own, flags, loopconns_, usermap_, queues, main, worker,
                 failed>>

\* The end of the loop's body, where its copy aa goes.
EraseUser ==
  /\ IoAt("eraseuser")
  /\ usermap_' = [usermap_ EXCEPT ![io.key] = None]
  /\ io' = [io EXCEPT !.at = "swept", !.conn = None, !.key = None]
  /\ UNCHANGED <<client, clock, flags, conns_, loopconns_, queues, main, worker, failed>>
  /\ Release

\* Once a node was erased, the increment of its iterator is undefined: the
\* loop goes on (SweepErase), or ends early, or the process does.
EndOfSweep ==
  /\ IoAt("swept") \/ (IoAt("sweep") /\ Evictable = {})
  /\ io' = [io EXCEPT !.at = "dispatch"]
  /\ UNCHANGED <<client, clock, own, flags, maps, queues, main, worker, failed>>

SweepCrash == IoAt("swept") /\ Fail("iterator")

-----------------------------------------------------------------------------
(* The workers: BankServer::OnMessage() and Connection::send().            *)

Take(w) ==
  /\ WorkerAt(w, "idle") /\ tasks # <<>>
  /\ tasks' = Tail(tasks)
  /\ worker' = [worker EXCEPT ![w].at = "lookup", ![w].conn = Head(tasks)]
  /\ UNCHANGED <<client, clock, own, flags, maps, sends, main, io, failed>>

\* operator[], without mutex_: a missing entry is created with a null pointer.
Lookup(w) ==
  LET f     == fd[worker[w].conn]
      found == IF usermap_[f] = None THEN Null ELSE usermap_[f]
  IN /\ WorkerAt(w, "lookup")
     /\ usermap_' = [usermap_ EXCEPT ![f] = found]
     /\ worker' = [worker EXCEPT ![w].at = "found", ![w].userinfo = found]
     /\ UNCHANGED <<client, clock, own, flags, conns_, loopconns_, queues, main, io,
                    failed>>

\* Only a business code that is not known does without userinfo.
Business(w) ==
  /\ WorkerAt(w, "found")
  /\ worker' = [worker EXCEPT ![w].at = "send", ![w].userinfo = None]
  /\ UNCHANGED <<client, clock, own, flags, maps, queues, main, io, failed>>

BusinessCrash(w) ==
  WorkerAt(w, "found") /\ worker[w].userinfo = Null /\ Fail("null userinfo")

Return(w) == worker' = [worker EXCEPT ![w].at = "idle", ![w].conn = None]

SendDisconnected(w) ==
  /\ WorkerAt(w, "send") /\ worker[w].conn \in disconnect_
  /\ Return(w)
  /\ UNCHANGED <<client, clock, flags, maps, queues, main, io, failed>>
  /\ Release

Send(w) ==
  /\ WorkerAt(w, "send") /\ worker[w].conn \notin disconnect_
  /\ worker' = [worker EXCEPT ![w].at = "queue"]
  /\ UNCHANGED <<client, clock, own, flags, maps, queues, main, io, failed>>

\* The loop holds the lock of its task queue while it drains it.
QueueSend(w) ==
  /\ WorkerAt(w, "queue")
  /\ io.at # "drain"
  /\ sends' = Append(sends, worker[w].conn)
  /\ Return(w)
  /\ UNCHANGED <<client, clock, flags, maps, tasks, main, io, failed>>
  /\ Release

-----------------------------------------------------------------------------
(* The clients, the clock, and the unsynchronised accesses.                *)

Request(c) ==
  /\ Up /\ Alive(c) /\ c \notin hup
  /\ requests[c] < MaxRequests
  /\ requests' = [requests EXCEPT ![c] = @ + 1]
  /\ input' = [input EXCEPT ![c] = @ + 1]
  /\ edge' = edge \cup {c}
  /\ UNCHANGED <<accepted, hup, clock, own, flags, maps, queues, main, io, worker, failed>>

HangUp(c) ==
  /\ Up /\ Alive(c) /\ c \notin hup
  /\ hup' = hup \cup {c}
  /\ edge' = edge \cup {c}
  /\ UNCHANGED <<accepted, input, requests, clock, own, flags, maps, queues, main, io,
                 worker, failed>>

TimerExpires ==
  /\ Up /\ ~timerfd_
  /\ timerfd_' = TRUE
  /\ UNCHANGED <<client, idle, own, flags, maps, queues, main, io, worker, failed>>

\* Connection::timeout() is asked of the elements of loopconns_ only.
BecomesIdle(c) ==
  /\ Up /\ c \in Range(loopconns_) \ idle
  /\ idle' = idle \cup {c}
  /\ UNCHANGED <<client, timerfd_, own, flags, maps, queues, main, io, worker, failed>>

\* The lookup of BankServer.cpp:104 takes no lock, and neither does the
\* iteration of EventLoop.cpp:142: an insertion or an erasure at the same
\* time is undefined behaviour.
LooksUp(w)  == WorkerAt(w, "lookup")
Inserts(w)  == LooksUp(w) /\ usermap_[fd[worker[w].conn]] = None

DataRace ==
  /\ \/ MainAt("loop") /\ io.at \in {"sweep", "swept"}
     \/ \E w \in Workers : /\ LooksUp(w)
                           /\ \/ MainAt("user")
                              \/ io.at \in {"closeuser", "eraseuser"}
                              \/ \E v \in Workers \ {w} : Inserts(v)
  /\ Up /\ Fail("race")

-----------------------------------------------------------------------------

MainStep == SetCallbacks \/ AddServer \/ AddLoop \/ AddUser

IoStep == \/ Poll \/ EndOfTurn \/ HandleMessage \/ EndOfMessages \/ CallbackMissing
          \/ RemoveChannel \/ CloseUser \/ CloseServer \/ HandleWakeup \/ EndOfDrain
          \/ HandleTimer \/ EraseServer \/ EraseUser \/ EndOfSweep \/ SweepCrash
          \/ \E c \in Conns : \/ HandleFreed(c) \/ Read(c) \/ ReadEnd(c)
                              \/ RunSend(c) \/ RunSendFails(c)
          \/ \E f \in Fds : SweepErase(f)

WorkerStep(w) == \/ Take(w) \/ Lookup(w) \/ Business(w) \/ BusinessCrash(w)
                 \/ SendDisconnected(w) \/ Send(w) \/ QueueSend(w)

Environment == \/ \E c \in Conns : Request(c) \/ HangUp(c) \/ BecomesIdle(c)
               \/ \E c \in Conns, f \in Fds : Accept(c, f)
               \/ AcceptFails
               \/ TimerExpires
               \/ DataRace

Next == \/ MainStep
        \/ IoStep
        \/ \E w \in Workers : WorkerStep(w)
        \/ Environment

Spec == Init /\ [][Next]_vars

(* The threads run, time passes and the timer expires.  No client has to   *)
(* connect, to send or to close.                                           *)
Fairness == /\ WF_vars(MainStep)
            /\ WF_vars(IoStep)
            /\ \A w \in Workers : WF_vars(WorkerStep(w))
            /\ WF_vars(TimerExpires)
            /\ \A c \in Conns : WF_vars(BecomesIdle(c))

FairSpec == Spec /\ Fairness

-----------------------------------------------------------------------------
(* Properties                                                              *)

Entry == Conns \cup {None}

Events == Conns \cup {"timer", "wakeup"}

MainRecords   == [at : MainStates, conn : Entry]
WorkerRecords == [at : WorkerStates, conn : Entry, userinfo : Entry \cup {Null}]
IoRecords     == [at : IoStates, conn : Entry, key : Fds \cup {None}, left : Nat,
                  channels : Seq(Events)]

Types ==
  /\ accepted \subseteq Conns /\ edge \subseteq Conns /\ hup \subseteq Conns
  /\ idle \subseteq Conns /\ inepoll_ \subseteq Conns /\ disconnect_ \subseteq Conns
  /\ registered \subseteq Conns /\ stranded \subseteq Conns
  /\ input \in [Conns -> Nat]
  /\ requests \in [Conns -> 0..MaxRequests]
  /\ timerfd_ \in BOOLEAN
  /\ fd \in [Conns -> Fds \cup {None}]
  /\ conns_ \in [Fds -> Entry] /\ loopconns_ \in [Fds -> Entry]
  /\ usermap_ \in [Fds -> Entry \cup {Null}]
  /\ sends \in Seq(Conns) /\ tasks \in Seq(Conns)
  /\ main \in MainRecords
  /\ io \in IoRecords
  /\ worker \in [Workers -> WorkerRecords]
  /\ failed \in {"no", "epoll_ctl", "callback", "use after free", "iterator",
                 "null userinfo", "race"}

\* A Connection has a descriptor exactly while a shared pointer holds it, and
\* only such a one is in epoll.
Ownership == /\ \A c \in Conns : Alive(c) <=> c \in Held
             /\ \A c \in registered : Alive(c)

(* Types, and the ownership of the Connections: the destructor runs when   *)
(* the last shared pointer goes (Socket.cpp:22-25), not before or after,   *)
(* though three maps, a task queue and three threads hold them.            *)
TypeOK == Types /\ Ownership

(* The maps are keyed by descriptor, and descriptors are used again: an    *)
(* entry of either map of Connections is the live owner of its key, so no  *)
(* message, close or eviction reaches another client's Connection.         *)
MapsAgree ==
  \A f \in Fds : \A c \in {conns_[f], loopconns_[f]} \ {None} : fd[c] = f

(* A Connection finds its own user or none in usermap_, which three        *)
(* threads write by key (BankServer.cpp:45, 57, 191), and so does each     *)
(* worker that answers it.  The user of a former client is found only by   *)
(* one that newconnection() has not entered yet, and only when the former  *)
(* one was evicted before its own newconnection() was done (stranded).     *)
UserBelongs ==
  /\ \A c \in Conns :
       Alive(c) => \/ usermap_[fd[c]] \in {None, Null, c}
                   \/ c = main.conn /\ usermap_[fd[c]] \in stranded
  /\ \A w \in Workers : worker[w].at = "found" =>
       worker[w].userinfo \in {None, Null, worker[w].conn} \cup stranded

(* What TcpServer holds the event loop can evict: a Connection in the      *)
(* server's map alone would keep its descriptor for ever.                  *)
NoLeak ==
  \A f \in Fds : conns_[f] # None => \/ loopconns_[f] = conns_[f]
                                     \/ main.conn = conns_[f]
                                     \/ io.conn = conns_[f] /\ io.at \in Sharing

(* The three together: whoever closes, is evicted, or gets the descriptor   *)
(* next, each map's entry is its own client's and can be reached.          *)
MapsSafe == MapsAgree /\ UserBelongs /\ NoLeak

(* TcpServer.cpp:156 and 83, BankServer.cpp:57 and 191 erase by descriptor:*)
(* the entry that goes is that of the Connection being closed or evicted,  *)
(* never that of a client accepted meanwhile.                              *)
RemovalsAreOwn ==
  [][\A f \in Fds : /\ conns_'[f] # conns_[f] => {conns_[f], conns_'[f]} \subseteq
                                                   {None, io.conn, main.conn}
                    /\ usermap_[f] \in Conns /\ usermap_'[f] = None
                         => \A c \in Conns : fd[c] = f => c = io.conn]_vars

(* A client that closes gives its descriptor back: the entry that closing  *)
(* leaves in EventLoop::conns_ is evicted by a later timer, even when the  *)
(* close came before newconnection() had entered it in the maps.           *)
HangUpFrees == \A c \in Conns : c \in hup ~> ~Alive(c) \/ ~Up

=============================================================================
