------------------------------- MODULE Relay -------------------------------
(***************************************************************************)
(* The forward proxy (inetd): one thread, a level-triggered epoll and      *)
(* three arrays indexed by descriptor number.  clientsocks[fd] is the      *)
(* descriptor of the other end of the channel (0: none), clientbuffer[fd]  *)
(* what has been read for fd and not sent yet.  The same loop body is the  *)
(* relay of both halves of the reverse proxy.                              *)
(*                                                                         *)
(* A channel has a "src" end (a client that was accepted, a blocking       *)
(* socket) and a "dst" end (a non-blocking connection to the target).  An  *)
(* end is identified apart from the descriptor it occupies, because the    *)
(* kernel hands the lowest free number out again.                          *)
(***************************************************************************)
EXTENDS Integers, Sequences, SequencesExt

CONSTANTS
    Chan,         \* the connections clients make
    MAXSOCK,      \* descriptors from this number on are refused
    MaxSent,      \* bound: messages one end sends
    MaxFaults   \* bound: failed connections to a target, and restarts by procctl

ASSUME RelayAssumption ==
    /\ MAXSOCK \in Nat \ {0} /\ MaxSent \in Nat /\ MaxFaults \in Nat

End == Chan \X {"src", "dst"}
Other(e) == <<e[1], IF e[2] = "src" THEN "dst" ELSE "src">>
Message == [from : End, n : 1..MaxSent]

\* What a descriptor number stands for in the kernel, when not for an end.
Free == <<"free">>
Log == <<"log">>            \* number 0, the first file opened
Leaked == <<"leaked">>      \* a socket whose connect() failed at once

FD == 0..(MAXSOCK - 1)      \* MAXSOCK itself stands for every larger number
None == -1
Listen == -2                \* the listening socket, apart from the channels
Event == [fd : FD \cup {Listen}, in : BOOLEAN, out : BOOLEAN]

VARIABLES
    own,       \* kernel: FD -> what is open under that number
    clientsocks, clientbuffer,
    wants,     \* epoll: the descriptors watched for EPOLLOUT
    evs,       \* the events of this turn the loop has not visited yet
    cur,       \* the descriptor whose recv() blocks the loop, or None
    backlog,   \* channels in the accept queue
    inq,       \* end -> messages that reached the proxy's socket
    sent, got, \* end -> messages its peer sent, and has received
    hup,       \* the ends whose peer has closed
    shut,      \* the ends whose connection the proxy has closed
    faults,    \* how many of those happened
    tainted,   \* history: ends that got a descriptor with bytes left in it
    stale,     \* history: channels whose number had an event pending already
    zeroUsed   \* history: number 0 has been a channel's descriptor

arrays == <<clientsocks, clientbuffer>>
peers == <<inq, sent, got, hup>>
hist == <<tainted, stale, zeroUsed>>
vars == <<own, arrays, wants, evs, cur, backlog, peers, shut, faults, hist>>

TypeOK ==
    /\ own \in [FD -> End \cup {Free, Log, Leaked}]
    /\ clientsocks \in [FD -> FD]
    /\ clientbuffer \in [FD -> Seq(Message)]
    /\ wants \subseteq FD
    /\ evs \subseteq Event /\ cur \in FD \cup {None}
    /\ backlog \in Seq(Chan)
    /\ inq \in [End -> Seq(Message)] /\ got \in [End -> Seq(Message)]
    /\ sent \in [End -> 0..MaxSent]
    /\ hup \subseteq End /\ shut \subseteq End /\ tainted \subseteq End
    /\ faults \in 0..MaxFaults
    /\ stale \subseteq Chan /\ zeroUsed \in BOOLEAN

StartOwn == [f \in FD |-> IF f = 0 THEN Log ELSE Free]

Init ==
    /\ own = StartOwn
    /\ clientsocks = [f \in FD |-> 0]
    /\ clientbuffer = [f \in FD |-> <<>>]
    /\ wants = {} /\ evs = {} /\ cur = None /\ backlog = <<>>
    /\ inq = [e \in End |-> <<>>] /\ got = [e \in End |-> <<>>]
    /\ sent = [e \in End |-> 0]
    /\ hup = {} /\ shut = {} /\ faults = 0
    /\ tainted = {} /\ stale = {} /\ zeroUsed = FALSE

IsOpen(e) == \E f \in FD : own[f] = e
\* The number the kernel gives next, the numbers of S being taken.
IsLowestFree(f, S) ==
    LET free == {g \in FD \ S : own[g] = Free} \cup {MAXSOCK}
    IN  f \in free /\ \A g \in free : f <= g

-----------------------------------------------------------------------------
\* The peers: clients and target servers.  What a client does while it is
\* still in the accept queue is seen by nobody before it is accepted, and is
\* done right after that here.

Connect(c) ==
    /\ c \notin ToSet(backlog) /\ ~IsOpen(<<c, "src">>)
    /\ <<c, "src">> \notin shut
    /\ backlog' = Append(backlog, c)
    /\ UNCHANGED <<own, arrays, wants, evs, cur, peers, shut, faults, hist>>

PeerSends(e) ==
    /\ IsOpen(e) /\ e \notin hup /\ sent[e] < MaxSent
    /\ sent' = [sent EXCEPT ![e] = @ + 1]
    /\ inq' = [inq EXCEPT ![e] = Append(@, [from |-> e, n |-> sent[e] + 1])]
    /\ UNCHANGED <<own, arrays, wants, evs, cur, backlog, got, hup, shut,
                   faults, hist>>

\* The peer closes; a target that refuses the connection looks the same.
PeerHangsUp(e) ==
    /\ IsOpen(e) /\ e \notin hup
    /\ hup' = hup \cup {e}
    /\ UNCHANGED <<own, arrays, wants, evs, cur, backlog, inq, sent, got,
                   shut, faults, hist>>

-----------------------------------------------------------------------------
\* The event loop.

Watched == {f \in FD : own[f] \in End}
Readable(f) == own[f] \in End /\ (inq[own[f]] # <<>> \/ own[f] \in hup)

\* epoll_wait(): everything that is ready, in an order the kernel chooses.
EpollWait ==
    LET fds == {[fd |-> f, in |-> Readable(f), out |-> f \in wants] :
                  f \in {g \in Watched : Readable(g) \/ g \in wants}}
        lsn == IF backlog = <<>> THEN {}
               ELSE {[fd |-> Listen, in |-> TRUE, out |-> FALSE]}
    IN  /\ evs = {}
        /\ fds \cup lsn # {}
        /\ evs' = fds \cup lsn
        /\ UNCHANGED <<own, arrays, wants, cur, backlog, peers, shut, faults,
                       hist>>

\* The connections E are closed by the proxy: what was not read from them is
\* gone.  The peers' side is recorded only while a connection is open.
Shut(E) ==
    /\ shut' = shut \cup E
    /\ hup' = hup \ E
    /\ inq' = [e \in End |-> IF e \in E THEN <<>> ELSE inq[e]]
    /\ got' = [e \in End |-> IF e \in E THEN <<>> ELSE got[e]]
    /\ sent' = [e \in End |-> IF e \in E THEN 0 ELSE sent[e]]

\* close() of the descriptors F; epoll forgets them.
Close(F) ==
    /\ own' = [f \in FD |-> IF f \in F THEN Free ELSE own[f]]
    /\ wants' = wants \ F
    /\ Shut({own[f] : f \in F \cap Watched})

TakeClient ==
    /\ cur = None
    /\ \E ev \in evs : ev.fd = Listen /\ evs' = evs \ {ev}
    /\ backlog' = Tail(backlog)

\* The test against MAXSOCK, the size of the arrays.
Fits(f) == f < MAXSOCK

\* A client is accepted, the target is connected, the two are paired.
AcceptClient == \E src, dst \in 0..MAXSOCK :
    LET c == Head(backlog)
        dirty == {f \in FD : clientbuffer[f] # <<>>}
        pending == {ev.fd : ev \in evs}
    IN  /\ TakeClient
        /\ IsLowestFree(src, {}) /\ IsLowestFree(dst, {src})
        /\ Fits(src) /\ Fits(dst)
        /\ own' = [own EXCEPT ![src] = <<c, "src">>, ![dst] = <<c, "dst">>]
        /\ clientsocks' = [clientsocks EXCEPT ![src] = dst, ![dst] = src]
        /\ tainted' = tainted
              \cup (IF src \in dirty THEN {<<c, "src">>} ELSE {})
              \cup (IF dst \in dirty THEN {<<c, "dst">>} ELSE {})
        /\ stale' = IF {src, dst} \cap pending = {} THEN stale
                    ELSE stale \cup {c}
        /\ zeroUsed' = (zeroUsed \/ src = 0)
        /\ UNCHANGED <<clientbuffer, wants, cur, peers, shut, faults>>

\* A client is accepted and closed again: a number is too large, the
\* target's name is not resolved, or connect() fails at once, and then the
\* socket made for it is never closed.  The client may try again.
RefuseClient == \E src, dst \in 0..MAXSOCK :
        /\ TakeClient
        /\ IsLowestFree(src, {}) /\ IsLowestFree(dst, {src})
        /\ \/ dst = MAXSOCK /\ UNCHANGED <<own, faults>>
           \/ /\ faults < MaxFaults /\ faults' = faults + 1
              /\ own' \in {own, [f \in FD |-> IF f = dst THEN Leaked
                                               ELSE own[f]]}
        /\ UNCHANGED <<arrays, wants, cur, peers, shut, hist>>

\* The loop visits the event ev, or returns to it from a blocked recv().
Visits(ev) ==
    /\ ev \in evs /\ ev.fd # Listen
    /\ cur \in {None, ev.fd}

\* recv() of a blocking socket with nothing to read.
BlockInRecv(ev) ==
    /\ Visits(ev) /\ cur = None /\ ev.in
    /\ own[ev.fd] \in Chan \X {"src"} /\ ~Readable(ev.fd)
    /\ cur' = ev.fd
    /\ UNCHANGED <<own, arrays, wants, evs, backlog, peers, shut, faults,
                   hist>>

\* close() of both ends, and then the two entries, the other end's first.
CloseChannelSwapped(f) ==   \* Mutant: the entries in the other order.
    /\ Close({f, clientsocks[f]})
    /\ clientsocks' = [clientsocks EXCEPT ![f] = 0, ![0] = 0]
CloseChannelPeerOnly(f) ==   \* Mutant: one close() is missing.
    /\ Close({clientsocks[f]})
    /\ clientsocks' = [clientsocks EXCEPT ![clientsocks[f]] = 0, ![f] = 0]
CloseChannel(f) ==
    /\ Close({f, clientsocks[f]})
    /\ clientsocks' = [clientsocks EXCEPT ![clientsocks[f]] = 0, ![f] = 0]

\* recv() returned 0 or -1: the channel is closed at both ends.  When its
\* entry is already 0 the number 0 is closed instead.
Disconnect(ev) ==
    LET e == own[ev.fd]
    IN  /\ Visits(ev) /\ ev.in
        /\ e \in End => inq[e] = <<>> /\ (e \in hup \/ e[2] = "dst")
        /\ CloseChannel(ev.fd)
        /\ evs' = evs \ {ev} /\ cur' = None
        /\ UNCHANGED <<clientbuffer, backlog, faults, hist>>

\* What stays in a buffer after send() took k messages from it.
UnsentNotErased(b, k) == b   \* Mutant: what was sent is not erased.
Unsent(b, k) == SubSeq(b, k + 1, Len(b))

\* What the loop body does with a descriptor that has data, that can be
\* written, or both: read into the other end's buffer, then send one's own.
Transfer(ev) ==
    LET f == ev.fd
        e == own[f]
        p == clientsocks[f]
        read == IF ev.in THEN inq[e] ELSE <<>>
        full == [clientbuffer EXCEPT ![p] = @ \o read]
    IN  /\ Visits(ev)
        /\ ev.in => e \in End /\ inq[e] # <<>>
        /\ inq' = IF ev.in THEN [inq EXCEPT ![e] = <<>>] ELSE inq
        /\ \/ /\ ~ev.out
              /\ clientbuffer' = full
              /\ wants' = wants \cup ({p} \cap Watched)
              /\ UNCHANGED got
           \/ \E k \in 0..Len(full[f]) :
              /\ ev.out
              /\ k = 0 => full[f] = <<>>
              \* a blocking send() takes all; a failed one erases all
              /\ e \notin End \/ e[2] = "src" => Unsent(full[f], k) = <<>>
              /\ got' = IF e \in End \ hup
                        THEN [got EXCEPT ![e] = @ \o SubSeq(full[f], 1, k)]
                        ELSE got
              /\ clientbuffer' = [full EXCEPT ![f] = Unsent(full[f], k)]
              /\ wants' = (wants \cup IF ev.in THEN {p} \cap Watched ELSE {})
                             \ IF Unsent(full[f], k) = <<>> THEN {f} ELSE {}
        /\ evs' = evs \ {ev} /\ cur' = None
        /\ UNCHANGED <<own, clientsocks, backlog, sent, hup, shut, faults,
                       hist>>

\* EXIT() on a signal, and procctl starts the program again.
Restart ==
    /\ faults < MaxFaults
    /\ faults' = faults + 1
    /\ own' = StartOwn /\ wants' = {}
    /\ Shut({own[f] : f \in Watched} \cup ToSet(backlog) \X {"src"})
    /\ clientsocks' = [f \in FD |-> 0]
    /\ clientbuffer' = [f \in FD |-> <<>>]
    /\ evs' = {} /\ cur' = None /\ backlog' = <<>>
    /\ UNCHANGED hist

Loop == EpollWait \/ AcceptClient \/ RefuseClient
        \/ \E ev \in evs : BlockInRecv(ev) \/ Disconnect(ev) \/ Transfer(ev)

Next ==
    \/ Loop
    \/ Restart
    \/ \E c \in Chan : Connect(c)
    \/ \E e \in End : PeerSends(e) \/ PeerHangsUp(e)

\* The loop never rests while epoll_wait() has something to report.
Spec == Init /\ [][Next]_vars /\ WF_vars(Loop)

-----------------------------------------------------------------------------
(* The arrays agree with the kernel: every descriptor of a channel is      *)
(* paired with the other end's, the pairing is symmetric, and a number     *)
(* that is not open is not paired (正向代理.cpp, clientsocks).             *)
PairsSymmetric ==
    zeroUsed \/ \A f \in FD :
        /\ own[f] \in End => LET p == clientsocks[f]
                             IN own[p] = Other(own[f]) /\ clientsocks[p] = f
        /\ clientsocks[f] # 0 => own[f] \in End

(* What a peer receives is what the peer of its own channel sent, in order *)
(* and without a gap, unless its descriptor was handed over with bytes of  *)
(* the previous channel in clientbuffer.                                   *)
NoForeignBytes ==
    zeroUsed \/ \A e \in End \ tainted : \A i \in 1..Len(got[e]) :
        got[e][i] = [from |-> Other(e), n |-> i]

(* A channel one of whose peers has closed does not stay: again and again  *)
(* there is none left (hup holds the ends that are still open), unless the *)
(* loop hangs in recv() on a client accepted under a number for which the  *)
(* turn had an event already.                                              *)
ChannelsEnd ==
    []<>(hup = {} \/ (cur # None /\ own[cur][1] \in stale))

=============================================================================
