----------------------------- MODULE WebServer -----------------------------
(***************************************************************************)
(* The data access web server.  A receive thread accepts the clients,      *)
(* collects their requests and queues them; workers answer them from the   *)
(* database and queue the replies; a send thread writes the replies.  A    *)
(* client is known by its descriptor number alone, in both queues and in   *)
(* clientmap, which the receive and the send thread share without a lock.  *)
(*                                                                         *)
(* A client sends a request in one or more pieces and waits for the reply  *)
(* before the next one: "end" is a piece that ends the request, "part" one *)
(* that does not, "short" one of fewer than four bytes.                    *)
(***************************************************************************)
EXTENDS Integers, Sequences, SequencesExt, FiniteSets

CONSTANTS
    Client, Worker,
    MaxFD,        \* descriptor numbers 1..MaxFD
    MaxPieces,    \* this many pieces stand for the limit of 1000 bytes
    MaxRequests   \* bound: requests of one client

None == [from |-> {}, n |-> 0]     \* nobody holds the descriptor

ASSUME WebServerAssumption ==
    /\ None \notin Client
    /\ MaxFD \in Nat \ {0} /\ MaxPieces \in Nat \ {0}
    /\ MaxRequests \in Nat \ {0}

FD == 1..MaxFD
Piece == {"short", "part", "end"}

VARIABLES
    \* the clients
    phase,     \* "new", "queued", "idle", "begun", "waiting" or "gone"
    asked,     \* the number of requests completed
    got,       \* the replies received
    inq,       \* the pieces in the socket's receive buffer
    hup,       \* the clients that have closed
    \* the kernel
    own,       \* descriptor -> client, or None
    sendpipe,  \* characters in m_sendpipe
    sendep,    \* the descriptors in the send thread's epoll
    sevs,      \* the descriptors of this turn the send thread has not visited
    \* the program
    recvbuffer, sendbuffer,   \* the two buffers of clientmap[fd]
    m_rq, m_sq,
    worker,    \* "loop", "asleep", "woken", "exit", or what it works on
    receiver, sender,         \* "run" or "exit"
    m_exit,
    signalled, \* EXIT() has written to m_recvpipe
    tainted,   \* history: clients that got a number with a reply on its way
    missed     \* history: the workers that did not sleep when told to exit

client == <<phase, asked, got, inq, hup>>
kernel == <<own, sendpipe, sendep, sevs>>
clientmap == <<recvbuffer, sendbuffer>>
threads == <<worker, receiver, sender>>
control == <<m_exit, signalled, missed>>
WSvars == <<client, kernel, clientmap, m_rq, m_sq, threads, control, tainted>>

Step(s) == [at |-> s]

Empty == [f \in FD |-> <<>>]

\* A worker that cannot connect to the database returns at once.
Started == {[w \in Worker |-> Step(IF w \in W THEN "loop" ELSE "exit")] :
              W \in SUBSET Worker}

WSInit ==
    /\ phase = [c \in Client |-> "new"] /\ asked = [c \in Client |-> 0]
    /\ got = [c \in Client |-> <<>>] /\ inq = [c \in Client |-> <<>>]
    /\ hup = {} /\ own = [f \in FD |-> None]
    /\ sendpipe = 0 /\ sendep = {} /\ sevs = {}
    /\ recvbuffer = Empty /\ sendbuffer = Empty
    /\ m_rq = <<>> /\ m_sq = <<>>
    /\ worker \in Started /\ receiver = "run" /\ sender = "run"
    /\ m_exit = FALSE /\ signalled = FALSE
    /\ tainted = {} /\ missed = {}

-----------------------------------------------------------------------------
\* The clients.

Connect(c) ==
    /\ phase[c] = "new"
    /\ phase' = [phase EXCEPT ![c] = "queued"]
    /\ UNCHANGED <<asked, got, inq, hup, kernel, clientmap, m_rq, m_sq, threads,
                   control, tainted>>

SendPiece(c, p) ==
    /\ c \notin hup /\ asked[c] < MaxRequests
    /\ phase[c] = "idle" \/ (phase[c] = "begun" /\ p # "short")
    /\ Len(inq[c]) <= MaxPieces
    /\ inq' = [inq EXCEPT ![c] = Append(@, p)]
    /\ phase' = [phase EXCEPT ![c] = IF p = "end" THEN "waiting" ELSE "begun"]
    /\ asked' = IF p = "end" THEN [asked EXCEPT ![c] = @ + 1] ELSE asked
    /\ UNCHANGED <<got, hup, kernel, clientmap, m_rq, m_sq, threads, control,
                   tainted>>

HangUp(c) ==
    /\ phase[c] \in {"idle", "begun", "waiting"} /\ c \notin hup
    /\ hup' = hup \cup {c}
    /\ UNCHANGED <<phase, asked, got, inq, kernel, clientmap, m_rq, m_sq,
                   threads, control, tainted>>

-----------------------------------------------------------------------------
\* The receive thread.

\* What still refers to the number f, other than its owner.
OnItsWay(f) ==
    \/ \E i \in 1..Len(m_rq) : m_rq[i].sock = f
    \/ \E i \in 1..Len(m_sq) : m_sq[i].sock = f
    \/ \E w \in Worker : worker[w].at = "busy" /\ worker[w].job.sock = f
    \/ sendbuffer[f] # <<>>

\* accept() returns the lowest number that is free.
Accept(c) ==
    /\ receiver = "run" /\ phase[c] = "queued"
    /\ \E f \in FD :
          /\ own[f] = None /\ \A g \in 1..(f - 1) : own[g] # None
          /\ own' = [own EXCEPT ![f] = c]
          /\ tainted' = IF OnItsWay(f) THEN tainted \cup {c} ELSE tainted
    /\ phase' = [phase EXCEPT ![c] = "idle"]
    /\ UNCHANGED <<asked, got, inq, hup, sendpipe, sendep, sevs, clientmap,
                   m_rq, m_sq, threads, control>>

\* The clients C are disconnected; nothing is recorded of them any more.
Leave(C) ==
    /\ phase' = [c \in Client |-> IF c \in C THEN "gone" ELSE phase[c]]
    /\ asked' = [c \in Client |-> IF c \in C THEN 0 ELSE asked[c]]
    /\ got' = [c \in Client |-> IF c \in C THEN <<>> ELSE got[c]]
    /\ inq' = [c \in Client |-> IF c \in C THEN <<>> ELSE inq[c]]
    /\ hup' = hup \ C /\ tainted' = tainted \ C

\* close() and clientmap.erase(): the number is free, its entry is gone, and
\* the send thread's epoll has forgotten it.
CloseClient(f) ==
    /\ own' = [own EXCEPT ![f] = None]
    /\ sendep' = sendep \ {f}
    /\ recvbuffer' = [recvbuffer EXCEPT ![f] = <<>>]
    /\ sendbuffer' = [sendbuffer EXCEPT ![f] = <<>>]
    /\ Leave({own[f]})

Disconnected(f) ==
    /\ receiver = "run" /\ own[f] \in hup /\ inq[own[f]] = <<>>
    /\ CloseClient(f)
    /\ UNCHANGED <<sendpipe, sevs, m_rq, m_sq, threads, control>>

\* inrq(): push and notify_one() under the mutex.
InrqSilent(q) ==             \* Mutant: nobody is notified.
    /\ m_rq' = Append(m_rq, q)
    /\ UNCHANGED worker
Inrq(q) ==
    LET asleep == {w \in Worker : worker[w].at = "asleep"}
    IN  /\ m_rq' = Append(m_rq, q)
        /\ \/ asleep = {} /\ UNCHANGED worker
           \/ \E w \in asleep :
                 worker' = [worker EXCEPT ![w] = Step("woken")]

TooLong(b) == Len(b) > MaxPieces

\* recv(), and what follows when it returned data.
Receive(f) ==
    LET c == own[f]
        full == recvbuffer[f] \o inq[c]
        Keep(b) == /\ recvbuffer' = [recvbuffer EXCEPT ![f] = b]
                   /\ inq' = [inq EXCEPT ![c] = <<>>]
                   /\ UNCHANGED <<phase, asked, got, hup, own, sendep,
                                  sendbuffer, tainted>>
    IN  /\ receiver = "run" /\ c # None /\ inq[c] # <<>>
        /\ full # <<"short">>
        /\ \/ /\ Last(full) = "end"
              /\ Inrq([sock |-> f, mesg |-> [from |-> c, n |-> asked[c]]])
              /\ Keep(<<>>)
           \/ /\ Last(full) # "end" /\ TooLong(full)
              /\ CloseClient(f)
              /\ UNCHANGED <<m_rq, worker>>
           \/ /\ Last(full) # "end" /\ ~TooLong(full)
              /\ Keep(full)
              /\ UNCHANGED <<m_rq, worker>>
        /\ UNCHANGED <<sendpipe, sevs, m_sq, receiver, sender, control>>

\* The pipe of EXIT(): m_exit, notify_all(), and a character for the send
\* thread.
TellSenderNot == UNCHANGED sendpipe   \* Mutant: the write() is missing.
TellSender == sendpipe' = sendpipe + 1

ReceiverExits ==
    /\ receiver = "run" /\ signalled
    /\ m_exit' = TRUE
    /\ worker' = [w \in Worker |-> IF worker[w].at = "asleep" THEN Step("woken")
                                   ELSE worker[w]]
    /\ missed' = {w \in Worker : worker[w].at # "asleep"}
    /\ TellSender
    /\ receiver' = "exit"
    /\ UNCHANGED <<client, own, sendep, sevs, clientmap, m_rq, m_sq, sender,
                   signalled, tainted>>

ReceiverStep ==
    \/ \E c \in Client : Accept(c)
    \/ \E f \in FD : Receive(f) \/ Disconnected(f)
    \/ ReceiverExits

-----------------------------------------------------------------------------
\* The workers.  A critical section of m_mutex_rq is one step.

Become(w, s) == worker' = [worker EXCEPT ![w] = s]

Sleep(w) ==
    /\ worker[w].at = "loop" /\ m_rq = <<>>
    /\ Become(w, Step("asleep"))
    /\ UNCHANGED <<client, kernel, clientmap, m_rq, m_sq, receiver, sender,
                   control, tainted>>

\* After wait(): m_exit is looked at here only.
Wake(w) ==
    /\ worker[w].at = "woken"
    /\ Become(w, Step(IF m_exit THEN "exit" ELSE "loop"))
    /\ UNCHANGED <<client, kernel, clientmap, m_rq, m_sq, receiver, sender,
                   control, tainted>>

Take(w) ==
    /\ worker[w].at = "loop" /\ m_rq # <<>>
    /\ m_rq' = Tail(m_rq)
    /\ Become(w, [at |-> "busy", job |-> Head(m_rq)])
    /\ UNCHANGED <<client, kernel, clientmap, m_sq, receiver, sender, control,
                   tainted>>

\* bizmain(), and the reply is queued; one more step writes to the pipe.
Answer(w) ==
    /\ worker[w].at = "busy"
    /\ m_sq' = Append(m_sq, worker[w].job)
    /\ Become(w, Step("told"))
    /\ UNCHANGED <<client, kernel, clientmap, m_rq, receiver, sender, control,
                   tainted>>

Insq(w) ==
    /\ worker[w].at = "told"
    /\ sendpipe' = sendpipe + 1
    /\ Become(w, Step("loop"))
    /\ UNCHANGED <<client, own, sendep, sevs, clientmap, m_rq, m_sq, receiver,
                   sender, control, tainted>>

WorkerStep(w) == Sleep(w) \/ Wake(w) \/ Take(w) \/ Answer(w) \/ Insq(w)

-----------------------------------------------------------------------------
\* The send thread.

\* The pipe is readable and m_exit is set.
SenderExits ==
    /\ sender = "run" /\ sendpipe > 0 /\ m_exit
    /\ sender' = "exit"
    /\ UNCHANGED <<client, kernel, clientmap, m_rq, m_sq, worker, receiver,
                   control, tainted>>

\* The pipe is readable: the whole queue goes to the send buffers, and each
\* descriptor that is open is watched (epoll_wait() of the same turn may
\* have reported others, which are visited later).
Replies(f) == {i \in 1..Len(m_sq) : m_sq[i].sock = f}
Nth(f, k) == CHOOSE i \in Replies(f) : Cardinality({j \in Replies(f) : j <= i}) = k
For(f) == [k \in 1..Cardinality(Replies(f)) |-> m_sq[Nth(f, k)].mesg]
Drain ==
    /\ sender = "run" /\ sendpipe > 0 /\ ~m_exit
    /\ sendpipe' = sendpipe - 1
    /\ m_sq' = <<>>
    /\ sendbuffer' = [f \in FD |-> sendbuffer[f] \o For(f)]
    /\ sendep' = sendep \cup {f \in FD : Replies(f) # {} /\ own[f] # None}
    /\ UNCHANGED <<client, own, sevs, recvbuffer, m_rq, threads, control,
                   tainted>>

\* epoll_wait(): the descriptors that can be written to.
SenderWait ==
    /\ sender = "run" /\ sevs = {} /\ sendep # {}
    /\ sevs' = sendep
    /\ UNCHANGED <<client, own, sendpipe, sendep, clientmap, m_rq, m_sq,
                   threads, control, tainted>>

\* What stays in the buffer when send() took k replies of it.
UnsentNotErased(b, k) == b   \* Mutant: what was sent is not erased.
Unsent(b, k) == SubSeq(b, k + 1, Len(b))

\* EPOLLOUT.  send() fails when the number is closed by now; a client that
\* has closed takes the replies and nobody reads them.
Send(f) ==
    LET c == own[f]
        b == sendbuffer[f]
    IN  /\ sender = "run" /\ f \in sevs
        /\ \E k \in 0..Len(b) :
              /\ (k = 0) = (b = <<>>)
              /\ c = None => k = Len(b)
              /\ got' = IF c = None \/ c \in hup THEN got
                        ELSE [got EXCEPT ![c] = @ \o SubSeq(b, 1, k)]
              /\ phase' = IF c = None \/ c \in hup \/ k = 0 THEN phase
                          ELSE [phase EXCEPT ![c] = IF @ = "waiting" THEN "idle"
                                                    ELSE @]
              /\ sendbuffer' = [sendbuffer EXCEPT ![f] = Unsent(b, k)]
              /\ sendep' = IF Unsent(b, k) = <<>> THEN sendep \ {f} ELSE sendep
        /\ sevs' = sevs \ {f}
        /\ UNCHANGED <<asked, inq, hup, own, sendpipe, recvbuffer, m_rq, m_sq,
                       threads, control, tainted>>

SenderStep == SenderExits \/ Drain \/ SenderWait \/ \E f \in FD : Send(f)

-----------------------------------------------------------------------------
\* The end of the process.  procctl starts the next one, which begins as
\* WSInit does, with clients that connect to it.

Signal ==
    /\ ~signalled
    /\ signalled' = TRUE
    /\ UNCHANGED <<client, kernel, clientmap, m_rq, m_sq, threads, m_exit, missed,
                   tainted>>

ProcessEnds ==
    /\ Leave(Client)
    /\ own' = [f \in FD |-> None]
    /\ sendpipe' = 0 /\ sendep' = {} /\ sevs' = {}
    /\ recvbuffer' = Empty /\ sendbuffer' = Empty /\ m_rq' = <<>> /\ m_sq' = <<>>
    /\ worker' = [w \in Worker |-> Step("exit")]
    /\ receiver' = "exit" /\ sender' = "exit"
    /\ m_exit' = TRUE /\ signalled' = TRUE /\ missed' = {}

\* EXIT() calls exit() 500 microseconds after it wrote to the pipe.
Exit == signalled /\ ProcessEnds

\* compare() of a buffer of fewer than four bytes throws out_of_range, which
\* nobody catches.
ShortRequest(f) ==
    /\ receiver = "run" /\ own[f] # None
    /\ recvbuffer[f] \o inq[own[f]] = <<"short">> /\ inq[own[f]] # <<>>
    /\ ProcessEnds

\* The receive thread inserts into or erases from clientmap while the send
\* thread uses it: undefined; here the outcome is a crash, and the steps
\* themselves are the outcome where nothing happens.
DataRace ==
    /\ receiver = "run" /\ sender = "run"
    /\ \/ \E c \in Client : phase[c] = "queued"
       \/ \E f \in FD : own[f] \in hup
    /\ sevs # {} \/ (sendpipe > 0 /\ m_sq # <<>>)
    /\ ProcessEnds

WSNext ==
    \/ \E c \in Client : Connect(c) \/ HangUp(c)
                         \/ \E p \in Piece : SendPiece(c, p)
    \/ ReceiverStep \/ SenderStep
    \/ \E w \in Worker : WorkerStep(w)
    \/ Signal \/ Exit \/ DataRace
    \/ \E f \in FD : ShortRequest(f)

\* The threads run on; nothing is assumed of clients, signals and crashes.
Fairness == /\ WF_WSvars(ReceiverStep) /\ WF_WSvars(SenderStep)
            /\ \A w \in Worker : WF_WSvars(WorkerStep(w))
WSSpec == WSInit /\ [][WSNext]_WSvars /\ Fairness

-----------------------------------------------------------------------------
(* A client receives the replies to its own requests, each once and in     *)
(* order, unless something was on its way to an earlier client of the same *)
(* descriptor number when it was accepted.                                 *)
OwnReplies ==
    \A c \in Client \ tainted : \A i \in 1..Len(got[c]) :
        got[c][i] = [from |-> c, n |-> i]

(* Every complete request of a client that stays is answered, as long as   *)
(* the process is not told to end and a worker has a database connection:  *)
(* again and again nobody waits.                                           *)
Answered ==
    []<>( \/ \A c \in Client : phase[c] = "waiting" => c \in hup
          \/ signalled \/ \A w \in Worker : worker[w].at = "exit" )

(* Given time, the send thread returns once it is told to, and so does     *)
(* every worker that slept when m_exit was set; the others are not told    *)
(* (recvfunc() and workfunc()).                                            *)
ThreadsEnd ==
    []<>( receiver = "exit" =>
            sender = "exit" /\ \A w \in Worker \ missed : worker[w].at = "exit" )

(* The threads leave neither a client without its replies nor a signal     *)
(* without an end.                                                         *)
AnsweredThenEnds == Answered /\ ThreadsEnd

=============================================================================
