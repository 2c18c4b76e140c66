------------------------------ MODULE Dataflow ------------------------------
(***************************************************************************)
(* The bytes of one connection of the reactor, from a client's write() to  *)
(* the reply it reads: reactor/Connection.cpp, Buffer.cpp and Channel.cpp, *)
(* with the requests answered by the threads of BankServer's pool.         *)
(*                                                                         *)
(* A byte stream is cut into units: HeadUnits of them stand for the four   *)
(* bytes of a header, Size[i] for the content of request i.  A reply is    *)
(* one header unit and one content unit.  The kernel's event queue is      *)
(* edge-triggered (Connection.cpp:11): an event is reported once, and      *)
(* again only after data came, space came that was missing, or an          *)
(* EPOLL_CTL_MOD found the descriptor ready.                               *)
(*                                                                         *)
(* Who owns a Connection, and what happens to it after a close, is module  *)
(* TcpServer; the locks of the two queues are ThreadPool and EventLoop.    *)
(* This module ends when the server has closed the connection.             *)
(***************************************************************************)
EXTENDS Naturals, Sequences, FiniteSets

CONSTANTS Workers,    \* the threads of BankServer's pool
          Business,   \* the requests the client sends: login, query, logout
          Size,       \* the units of their content
          HeadUnits,  \* the units of a request's header
          Window,     \* bound: the units in flight to the client
          Junk        \* what freed memory may hold

Requests == DOMAIN Business

ASSUME FlowAssumption == /\ IsFiniteSet(Workers) /\ Workers # {}
                         /\ Business \in Seq({"login", "query", "logout"})
                         /\ Size \in [Requests -> Nat]
                         /\ HeadUnits \in Nat \ {0} /\ Window \in Nat \ {0}
                         /\ Junk # "header"

VARIABLES
  \* The client and the network.
  pipelines,      \* whether the client sends without waiting for replies
  written,        \* the requests it has written
  arrived,        \* the units that have reached the server's socket
  fin,            \* it has closed
  wire,           \* the units sent to the client and not yet read by it
  got,            \* the units it has read
  \* The kernel's epoll entry of the connection.
  ready,          \* it is in the list of epoll_wait()
  short,          \* a send() or a poll found too little space
  \* The event loop.
  eventfd,        \* wakeupfd_ is readable
  turn,           \* the Channels of this turn not yet handled
  events_,        \* Channel::events_
  revents_,       \* Channel::revents_
  readto,         \* the units read from the socket
  picking,        \* it is in the loop over pickmessage()
  taken,          \* those picked: inputbuffer_ is what lies between the two
  outputbuffer_,
  sends,          \* EventLoop::taskqueue_: the replies, bound by pointer
  closed,         \* closecallback() has run
  \* BankServer and its pool.
  tasks,          \* ThreadPool::taskqueue_
  passed,         \* every message handed to HandleMessage(), as its units
  worker,         \* OnMessage() of each thread: its request and its reply
  login           \* UserInfo's flag

client   == <<pipelines, written, arrived, fin, got>>
turnVars == <<eventfd, turn, revents_, closed>>
input    == <<readto, picking, taken, passed>>
bank     == <<worker, login>>
flowVars == <<client, wire, ready, short, turnVars, events_, input, outputbuffer_,
              sends, tasks, bank>>

\* Where request i ends in the client's stream, and the stream: a unit of a
\* header tells the length of the content.
EndOf[i \in 0..Len(Business)] == IF i = 0 THEN 0 ELSE EndOf[i - 1] + HeadUnits + Size[i]
Stream == [p \in 1..EndOf[Len(Business)] |->
             LET i == CHOOSE j \in Requests : EndOf[j - 1] < p /\ p <= EndOf[j] IN
             [of |-> i, len |-> IF p <= EndOf[i - 1] + HeadUnits THEN Size[i] ELSE 0]]
Reply(i, text) == <<[of |-> i, text |-> "header"], [of |-> i, text |-> text]>>

Sent    == got \o wire
Replies == {i \in Requests : \E k \in DOMAIN got : got[k].of = i /\ got[k].text # "header"}

FlowInit == /\ pipelines \in BOOLEAN
            /\ written = 0 /\ arrived = 0 /\ fin = FALSE /\ wire = <<>> /\ got = <<>>
            /\ ready = FALSE /\ short = FALSE /\ eventfd = FALSE
            /\ turn = {} /\ events_ = {"in"} /\ revents_ = {}
            /\ readto = 0 /\ picking = FALSE /\ taken = 0 /\ passed = <<>>
            /\ outputbuffer_ = <<>> /\ sends = <<>> /\ closed = FALSE
            /\ tasks = <<>> /\ login = FALSE
            /\ worker = [w \in Workers |-> [at |-> "idle", of |-> 0, text |-> "none"]]

-----------------------------------------------------------------------------
(* The client and the network.                                             *)

\* One that does not pipeline waits for its replies, as bankclient.cpp does.
Write == /\ ~fin /\ written < Len(Business)
         /\ pipelines \/ Cardinality(Replies) = written
         /\ written' = written + 1
         /\ UNCHANGED <<pipelines, arrived, fin, got, wire, ready, short, turnVars, events_,
                        input, outputbuffer_, sends, tasks, bank>>

Arrive == /\ \E n \in (arrived + 1)..EndOf[written] : arrived' = n
          /\ ready' = (ready \/ "in" \in events_)
          /\ UNCHANGED <<pipelines, written, fin, got, wire, short, turnVars, events_,
                         input, outputbuffer_, sends, tasks, bank>>

\* A client that pipelines may leave at any time.
HangUp == /\ ~fin /\ arrived = EndOf[written]
          /\ pipelines \/ Cardinality(Replies) = Len(Business)
          /\ fin' = TRUE
          /\ ready' = (ready \/ "in" \in events_)
          /\ UNCHANGED <<pipelines, written, arrived, got, wire, short, turnVars, events_,
                         input, outputbuffer_, sends, tasks, bank>>

ClientReads == /\ wire # <<>>
               /\ got' = Append(got, Head(wire)) /\ wire' = Tail(wire)
               /\ ready' = (ready \/ (short /\ "out" \in events_))
               /\ short' = FALSE
               /\ UNCHANGED <<pipelines, written, arrived, fin, turnVars, events_,
                              input, outputbuffer_, sends, tasks, bank>>

\* What a poll of the descriptor finds.
Found(out) == (IF arrived > readto \/ fin THEN {"in"} ELSE {})
                \cup (IF Len(out) < Window THEN {"out"} ELSE {})

-----------------------------------------------------------------------------
(* The event loop.                                                         *)

\* updatechannel() is an EPOLL_CTL_MOD, which looks at the descriptor.
SetEvents(evs, out) == /\ events_' = evs
                       /\ ready' = (ready \/ evs \cap Found(out) # {})
                       /\ short' = (short \/ "out" \notin Found(out))

EpollWait ==
  /\ turn = {} /\ ~picking /\ ~closed
  /\ LET found == IF ready THEN Found(wire) \cap events_ ELSE {} IN
       /\ turn' = (IF found # {} THEN {"connection"} ELSE {})
                    \cup (IF eventfd THEN {"wakeup"} ELSE {})
       /\ turn' # {}
       /\ revents_' = found
  /\ ready' = FALSE
  /\ short' = (short \/ (ready /\ Len(wire) = Window))
  /\ UNCHANGED <<client, wire, eventfd, closed, events_, input, outputbuffer_,
                 sends, tasks, bank>>

\* The header of what is in inputbuffer_.  When it is not whole, memcpy() takes
\* the rest from what the string held before.
HeaderLen(from, to) == IF to - from >= HeadUnits THEN {Stream[from + 1].len}
                                                 ELSE 0..Len(Stream)

WholeWithoutHead(size, len) == size >= len
Whole(size, len) == size >= len + HeadUnits

\* pickmessage(): where the message at the front of inputbuffer_ ends.
PickMessage(from, to) ==
  {from + HeadUnits + len : len \in {l \in HeaderLen(from, to) : to > from /\ Whole(to - from, l)}}

Message(from, to) == SubSeq(Stream, from + HeadUnits + 1, to)

\* read() until EAGAIN; then the loop over the messages in inputbuffer_.
OnMessage == /\ ~fin
             /\ readto' = arrived /\ picking' = TRUE
             /\ UNCHANGED closed

\* The end of the stream: what is in inputbuffer_ is not looked at again.
CloseCallback == /\ fin
                 /\ readto' = arrived /\ closed' = TRUE
                 /\ UNCHANGED picking

\* send() as much as there is space for.
EraseAll(n) == <<>>
Erase(n) == SubSeq(outputbuffer_, n + 1, Len(outputbuffer_))

WriteCallback ==
  \E n \in {IF Len(outputbuffer_) <= Window - Len(wire) THEN Len(outputbuffer_)
                                                         ELSE Window - Len(wire)} :
    /\ wire' = wire \o SubSeq(outputbuffer_, 1, n)
    /\ outputbuffer_' = Erase(n)
    /\ IF outputbuffer_' = <<>> THEN SetEvents(events_ \ {"out"}, wire')
                                ELSE short' = TRUE /\ UNCHANGED <<events_, ready>>

\* Channel::handleevent(): a descriptor that is readable is not written to.
HandleEvent ==
  /\ "connection" \in turn /\ ~picking
  /\ turn' = turn \ {"connection"}
  /\ \/ /\ "in" \in revents_
        /\ OnMessage \/ CloseCallback
        /\ UNCHANGED <<wire, short, ready, events_, outputbuffer_>>
     \/ /\ "in" \notin revents_
        /\ WriteCallback
        /\ UNCHANGED <<readto, picking, closed>>
  /\ UNCHANGED <<client, eventfd, revents_, taken, passed, tasks, sends, bank>>

\* Each message is handed to a worker, who may start before the next is picked.
PickOne == /\ picking
           /\ \E next \in PickMessage(taken, readto) :
                /\ taken' = next
                /\ passed' = Append(passed, Message(taken, next))
                /\ tasks' = Append(tasks, Len(passed) + 1)
           /\ UNCHANGED <<client, wire, ready, short, turnVars, events_, readto, picking,
                          outputbuffer_, sends, bank>>

\* Nothing there, or what is there is not whole.
PickNone == /\ picking
            /\ \/ taken = readto
               \/ \E len \in HeaderLen(taken, readto) : ~Whole(readto - taken, len)
            /\ picking' = FALSE
            /\ UNCHANGED <<client, wire, ready, short, turnVars, events_, readto, taken, passed,
                           outputbuffer_, sends, tasks, bank>>

\* The memory a reply was bound to: the worker's string while OnMessage() has
\* not returned, then anything.
Memory(s) == IF worker[s.by].at = "sent" /\ worker[s.by].of = s.of
             THEN {s.text} ELSE {s.text, Junk}

\* sendinloop(): enablewriting() even when it is enabled already.
EnableWritingOnce == IF "out" \in events_ THEN UNCHANGED <<events_, ready, short>>
                     ELSE SetEvents(events_ \cup {"out"}, wire)
EnableWriting == SetEvents(events_ \cup {"out"}, wire)

\* What the queued replies leave in the output buffer: a header and a content each.
Framing(texts) == [k \in 1..2 * Len(sends) |->
                     LET s == (k + 1) \div 2 IN
                     Reply(sends[s].of, texts[s])[IF k % 2 = 1 THEN 1 ELSE 2]]

\* handlewakeup() runs the whole queue under its mutex.
HandleWakeup ==
  /\ "wakeup" \in turn /\ ~picking
  /\ turn' = turn \ {"wakeup"}
  /\ eventfd' = FALSE /\ sends' = <<>>
  /\ \E texts \in [DOMAIN sends -> UNION {Memory(sends[k]) : k \in DOMAIN sends}] :
       /\ \A k \in DOMAIN sends : texts[k] \in Memory(sends[k])
       /\ outputbuffer_' = outputbuffer_ \o Framing(texts)
  /\ IF sends = <<>> THEN UNCHANGED <<events_, ready, short>> ELSE EnableWriting
  /\ UNCHANGED <<client, wire, revents_, closed, input, tasks, bank>>

-----------------------------------------------------------------------------
(* BankServer::OnMessage() in a worker thread.                             *)

Take(w) == /\ worker[w].at = "idle" /\ tasks # <<>>
           /\ worker' = [worker EXCEPT ![w] = [at |-> "message", of |-> Head(tasks), text |-> "none"]]
           /\ tasks' = Tail(tasks)
           /\ UNCHANGED <<client, wire, ready, short, turnVars, events_, input, outputbuffer_,
                          sends, login>>

\* The reply and the state of the user after request of.
Answer(of, in) == CASE Business[of] = "login"  -> <<"ok", TRUE>>
                    [] Business[of] = "query"  -> <<IF in THEN "balance" ELSE "not logged in", in>>
                    [] Business[of] = "logout" -> <<IF in THEN "ok" ELSE "not logged in", FALSE>>

ComputeOnly(w) == /\ worker[w].at = "message"
                  /\ worker' = [worker EXCEPT ![w].at = "reply", ![w].text = Answer(worker[w].of, login)[1]]
                  /\ UNCHANGED <<client, wire, ready, short, turnVars, events_, input, outputbuffer_,
                                 sends, tasks, login>>

Compute(w) == /\ worker[w].at = "message"
              /\ LET a == Answer(worker[w].of, login) IN
                   /\ worker' = [worker EXCEPT ![w].at = "reply", ![w].text = a[1]]
                   /\ login' = a[2]
              /\ UNCHANGED <<client, wire, ready, short, turnVars, events_, input, outputbuffer_,
                             sends, tasks>>
\* Connection::send() from another thread: queueinloop() and wakeup().
Send(w) == /\ worker[w].at = "reply"
           /\ sends' = Append(sends, [of |-> worker[w].of, text |-> worker[w].text, by |-> w])
           /\ eventfd' = TRUE
           /\ worker' = [worker EXCEPT ![w].at = "sent"]
           /\ UNCHANGED <<client, wire, ready, short, turn, revents_, closed, events_, input,
                          outputbuffer_, tasks, login>>

\* OnMessage() returns: replaymessage is destroyed.
Return(w) == /\ worker[w].at = "sent"
             /\ worker' = [worker EXCEPT ![w] = [at |-> "idle", of |-> 0, text |-> "none"]]
             /\ UNCHANGED <<client, wire, ready, short, turnVars, events_, input, outputbuffer_,
                            sends, tasks, login>>

WorkerStep(w) == Take(w) \/ Compute(w) \/ Send(w) \/ Return(w)
TurnStep == EpollWait \/ HandleEvent \/ PickOne \/ PickNone \/ HandleWakeup

FlowNext == \/ /\ ~closed
               /\ \/ Write \/ Arrive \/ HangUp \/ ClientReads
                  \/ TurnStep
                  \/ \E w \in Workers : WorkerStep(w)
            \/ closed /\ UNCHANGED flowVars

FlowSpec == FlowInit /\ [][FlowNext]_flowVars

\* The network delivers, the client reads, no thread stops; nothing makes the
\* client write, or a client that pipelines leave.
FlowFairSpec == /\ FlowSpec
                /\ WF_flowVars(Arrive) /\ WF_flowVars(ClientReads) /\ WF_flowVars(TurnStep)
                /\ \A w \in Workers : WF_flowVars(WorkerStep(w))

-----------------------------------------------------------------------------
(* Properties.                                                             *)

\* Wherever the network cuts the stream, inside a header too, what a worker is
\* given are the client's requests, whole and in order (Buffer.cpp:59-80).
MessagesWhole == \A k \in DOMAIN passed : passed[k] = Message(EndOf[k - 1], EndOf[k])

\* A request handed over is in exactly one place until it is answered: the
\* pool's queue, a worker, the loop's queue, or the replies written so far.
InTasks(i) == Cardinality({k \in DOMAIN tasks : tasks[k] = i})
InWorkers(i) == Cardinality({w \in Workers : worker[w].of = i /\ worker[w].at # "sent"})
InSends(i) == Cardinality({k \in DOMAIN sends : sends[k].of = i})
InReplies(i) == LET all == Sent \o outputbuffer_ IN
                Cardinality({k \in DOMAIN all : all[k].of = i /\ all[k].text = "header"})

\* However send() cuts the output, and whoever wrote the replies, the client
\* reads headers and contents in turn, one reply for each request it made.
RepliesFramed ==
  /\ LET all == Sent \o outputbuffer_ IN
     \A k \in DOMAIN all : IF k % 2 = 1 THEN all[k].text = "header"
                           ELSE all[k].text # "header" /\ all[k].of = all[k - 1].of
  /\ \A i \in 1..Len(passed) : InTasks(i) + InWorkers(i) + InSends(i) + InReplies(i) = 1

\* Neither direction of the stream loses its frames.
StreamsFramed == MessagesWhole /\ RepliesFramed

\* Whether the user is logged in before request i, and what the request is
\* answered, by a server with one thread.
LoggedInBefore(i) ==
  LET before == {j \in 1..(i - 1) : Business[j] \in {"login", "logout"}} IN
  before # {} /\ Business[CHOOSE j \in before : \A k \in before : k <= j] = "login"

InOrder(i) == CASE Business[i] = "login" -> "ok"
                [] OTHER -> IF LoggedInBefore(i) THEN IF Business[i] = "query" THEN "balance" ELSE "ok"
                                                 ELSE "not logged in"

\* Whichever threads answer, a client that waits for each reply is answered in
\* order and finds the login state that its own requests made
\* (BankServer.cpp:78, 121); only the memory of line 127 can spoil a reply.
OneAtATimeInOrder ==
  ~pipelines => \A k \in DOMAIN Sent : /\ 2 * Sent[k].of \in {k, k + 1}
                                       /\ Sent[k].text \in {"header", InOrder(Sent[k].of), Junk}

\* Nothing stays in an output buffer or a queue: a request written is answered
\* or the connection closed, although an event that is readable and writable
\* only reads (Channel.cpp:91) and events are reported once.
Answered == []<>(closed \/ Cardinality(Replies) = written)

\* Connection.h:52: "发送数据，不管在任何线程中，都是调用此函数发送数据", data is
\* sent by this function whatever the thread; so what a worker sent arrives.
RepliesIntact == \A k \in DOMAIN Sent : Sent[k].text # Junk
=============================================================================
