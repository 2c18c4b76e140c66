---------------------------- MODULE ProxyProofs ----------------------------
(***************************************************************************)
(* The proxies, for any number of clients.                                 *)
(*                                                                         *)
(* The relay, with any number of descriptors: its state has its types, its *)
(* arrays agree with the kernel, and no channel gets another's bytes, as   *)
(* long as number 0 is not a channel's.                                    *)
(* PairsSymmetric is inductive with two additions: until zeroUsed, number  *)
(* 0 is no end of a channel, so the entry 0 always means "none"; and an    *)
(* event of the listening socket stands for a client that still waits.     *)
(* NoForeignBytes needs Streams besides: the messages of an end are        *)
(* numbered, and what its peer has received, what is buffered and what is  *)
(* still in the socket are consecutive parts of that run of numbers.       *)
(*                                                                         *)
(* The reverse proxy, the second part: a client is never given another's   *)
(* target.  The invariant is Answers, on top of the shape of the state: at *)
(* most one command or one answer is on its way, and it is about the       *)
(* client for which rinetd waits.                                          *)
(***************************************************************************)
EXTENDS Relay, ReverseProxy, TLAPS

ZeroApart == zeroUsed \/ own[0] \notin End

Called == \A ev \in evs : ev.fd = Listen =>
            ev = [fd |-> Listen, in |-> TRUE, out |-> FALSE] /\ backlog # <<>>

Inv == TypeOK /\ Called /\ ZeroApart /\ PairsSymmetric

USE RelayAssumption

-----------------------------------------------------------------------------
LEMMA Marks == Free \notin End /\ Log \notin End /\ Leaked \notin End
<1>1. \A e \in End : Len(e) = 2
  BY DEF End
<1>2. Len(Free) = 1 /\ Len(Log) = 1 /\ Len(Leaked) = 1
  BY DEF Free, Log, Leaked
<1>. QED
  BY <1>1, <1>2

LEMMA InitInv == Init => Inv
<1>. SUFFICES ASSUME Init PROVE Inv
  OBVIOUS
<1>1. \A f \in FD : own[f] \notin End /\ clientsocks[f] = 0
  BY Marks DEF Init, StartOwn
<1>2. own \in [FD -> End \cup {Free, Log, Leaked}] /\ 0 \in FD
  BY DEF Init, StartOwn, FD
<1>3. faults \in 0..MaxFaults /\ sent \in [End -> 0..MaxSent]
  BY DEF Init
<1>4. TypeOK
  BY <1>2, <1>3 DEF Init, TypeOK
<1>. QED
  BY <1>1, <1>2, <1>4 DEF Inv, Init, Called, ZeroApart, PairsSymmetric

LEMMA Facts ==
  ASSUME TypeOK
  PROVE  /\ 0 \in FD /\ FD \subseteq Int /\ None \notin FD /\ Listen \notin FD
         /\ Watched \subseteq FD
  BY DEF FD, None, Listen, Watched

-----------------------------------------------------------------------------
(* The types.                                                              *)

LEMMA ShutTypes ==
  ASSUME TypeOK, NEW E \in SUBSET End, Shut(E)
  PROVE  /\ shut' \subseteq End /\ hup' \subseteq End
         /\ inq' \in [End -> Seq(Message)] /\ got' \in [End -> Seq(Message)]
         /\ sent' \in [End -> 0..MaxSent]
<1>1. <<>> \in Seq(Message) /\ 0 \in 0..MaxSent
  OBVIOUS
<1>. QED
  BY <1>1 DEF TypeOK, Shut

LEMMA CloseTypes ==
  ASSUME TypeOK, NEW F, Close(F)
  PROVE  /\ own' \in [FD -> End \cup {Free, Log, Leaked}] /\ wants' \subseteq FD
         /\ shut' \subseteq End /\ hup' \subseteq End
         /\ inq' \in [End -> Seq(Message)] /\ got' \in [End -> Seq(Message)]
         /\ sent' \in [End -> 0..MaxSent]
<1>1. {own[f] : f \in F \cap Watched} \in SUBSET End
  BY DEF Watched
<1>2. Shut({own[f] : f \in F \cap Watched})
  BY DEF Close
<1>3. own' \in [FD -> End \cup {Free, Log, Leaked}] /\ wants' \subseteq FD
  BY DEF Close, TypeOK
<1>. QED
  BY <1>1, <1>2, <1>3, ShutTypes

LEMMA PeerTypes ==
  ASSUME TypeOK, NEW e \in End, PeerSends(e) \/ PeerHangsUp(e)
  PROVE  TypeOK'
<1>1. CASE PeerSends(e)
  <2>1. sent[e] \in 0..MaxSent /\ sent[e] < MaxSent /\ inq[e] \in Seq(Message)
    BY <1>1 DEF PeerSends, TypeOK
  <2>2. [from |-> e, n |-> sent[e] + 1] \in Message /\ sent[e] + 1 \in 0..MaxSent
    BY <2>1 DEF Message
  <2>3. Append(inq[e], [from |-> e, n |-> sent[e] + 1]) \in Seq(Message)
    BY <2>1, <2>2
  <2>4. inq' \in [End -> Seq(Message)] /\ sent' \in [End -> 0..MaxSent]
    BY <1>1, <2>2, <2>3 DEF PeerSends, TypeOK
  <2>. QED
    BY <1>1, <2>4 DEF PeerSends, TypeOK, arrays, hist
<1>2. CASE PeerHangsUp(e)
  BY <1>2 DEF PeerHangsUp, TypeOK, arrays, hist
<1>. QED
  BY <1>1, <1>2

LEMMA EpollTypes == TypeOK /\ EpollWait => TypeOK'
<1>. SUFFICES ASSUME TypeOK, EpollWait PROVE TypeOK'
  OBVIOUS
<1>1. \A f \in FD : Readable(f) \in BOOLEAN /\ (f \in wants) \in BOOLEAN
  BY DEF Readable
<1>2. \A f \in FD : [fd |-> f, in |-> Readable(f), out |-> f \in wants] \in Event
  BY <1>1 DEF Event
<1>3. [fd |-> Listen, in |-> TRUE, out |-> FALSE] \in Event
  BY DEF Event
<1>4. evs' \subseteq Event
  BY <1>2, <1>3, Facts DEF EpollWait, Watched
<1>. QED
  BY <1>4 DEF EpollWait, TypeOK, arrays, peers, hist

LEMMA AcceptTypes ==
  ASSUME TypeOK, AcceptClient \/ RefuseClient, backlog # <<>>
  PROVE  TypeOK'
<1>1. Head(backlog) \in Chan /\ backlog' \in Seq(Chan) /\ evs' \subseteq Event /\ cur' \in FD \cup {None}
  <2>1. backlog \in Seq(Chan)
    BY DEF TypeOK
  <2>2. Head(backlog) \in Chan /\ Tail(backlog) \in Seq(Chan)
    BY <2>1
  <2>3. backlog' = Tail(backlog) /\ evs' \subseteq evs /\ cur' = cur
    BY DEF AcceptClient, RefuseClient, TakeClient
  <2>. QED
    BY <2>2, <2>3 DEF TypeOK
<1>2. CASE AcceptClient
  <2>. DEFINE c == Head(backlog)
  <2>1. PICK src, dst \in 0..MAXSOCK :
          /\ src < MAXSOCK /\ dst < MAXSOCK
          /\ own' = [own EXCEPT ![src] = <<c, "src">>, ![dst] = <<c, "dst">>]
          /\ clientsocks' = [clientsocks EXCEPT ![src] = dst, ![dst] = src]
          /\ tainted' \subseteq tainted \cup {<<c, "src">>, <<c, "dst">>}
          /\ stale' \subseteq stale \cup {c}
          /\ zeroUsed' = (zeroUsed \/ src = 0)
          /\ UNCHANGED <<clientbuffer, wants, cur, peers, shut, faults>>
    BY <1>2 DEF AcceptClient, Fits
  <2>2. src \in FD /\ dst \in FD /\ <<c, "src">> \in End /\ <<c, "dst">> \in End
    BY <1>1, <2>1 DEF FD, End
  <2>3. own' \in [FD -> End \cup {Free, Log, Leaked}] /\ clientsocks' \in [FD -> FD]
    BY <2>1, <2>2 DEF TypeOK
  <2>4. zeroUsed' \in BOOLEAN
    BY <2>1
  <2>5. tainted' \subseteq End /\ stale' \subseteq Chan
    BY <1>1, <2>1, <2>2 DEF TypeOK
  <2>. QED
    BY <1>1, <2>1, <2>3, <2>4, <2>5 DEF TypeOK, peers
<1>3. CASE RefuseClient
  <2>1. own' \in [FD -> End \cup {Free, Log, Leaked}] /\ faults' \in 0..MaxFaults
    BY <1>3 DEF RefuseClient, TypeOK
  <2>. QED
    BY <1>1, <1>3, <2>1 DEF RefuseClient, TypeOK, arrays, peers, hist
<1>. QED
  BY <1>2, <1>3

LEMMA PartTypes ==
  ASSUME NEW S, NEW q \in Seq(S), NEW k \in 0..Len(q), NEW r \in Seq(S)
  PROVE  /\ SubSeq(q, 1, k) \in Seq(S) /\ Unsent(q, k) \in Seq(S)
         /\ r \o SubSeq(q, 1, k) \in Seq(S)
<1>1. k \in Nat /\ Len(q) \in Nat /\ k <= Len(q)
  OBVIOUS
<1>2. SubSeq(q, 1, k) \in Seq(S)
  BY <1>1
<1>3. SubSeq(q, k + 1, Len(q)) \in Seq(S)
  BY <1>1
<1>. QED
  BY <1>2, <1>3 DEF Unsent

LEMMA TransferTypes ==
  ASSUME TypeOK, NEW ev \in evs, Transfer(ev)
  PROVE  TypeOK'
<1>. DEFINE f == ev.fd
            e == own[f]
            p == clientsocks[f]
            read == IF ev.in THEN inq[e] ELSE <<>>
            full == [clientbuffer EXCEPT ![p] = @ \o read]
<1>1. f \in FD /\ p \in FD /\ ev.in \in BOOLEAN
  BY DEF Transfer, Visits, TypeOK, Event
<1>2. read \in Seq(Message) /\ (ev.in => e \in End)
  <2>1. ev.in => e \in End
    BY DEF Transfer
  <2>2. ev.in => inq[e] \in Seq(Message)
    BY <2>1 DEF TypeOK
  <2>. QED
    BY <2>1, <2>2
<1>3. full \in [FD -> Seq(Message)] /\ full[f] \in Seq(Message)
  <2>1. clientbuffer[p] \o read \in Seq(Message)
    BY <1>1, <1>2 DEF TypeOK
  <2>. QED
    BY <1>1, <2>1 DEF TypeOK
<1>. HIDE DEF full
<1>4. inq' \in [End -> Seq(Message)]
  <2>1. <<>> \in Seq(Message)
    OBVIOUS
  <2>. QED
    BY <1>2, <2>1 DEF Transfer, TypeOK
<1>5. /\ clientbuffer' \in [FD -> Seq(Message)] /\ got' \in [End -> Seq(Message)]
      /\ wants' \subseteq FD
  <2>1. CASE ~ev.out
    <3>1. clientbuffer' = full /\ wants' = wants \cup ({p} \cap Watched) /\ got' = got
      BY <2>1 DEF Transfer, full
    <3>. QED
      BY <1>3, <3>1, Facts DEF TypeOK
  <2>2. CASE ev.out
    <3>1. PICK k \in 0..Len(full[f]) :
            /\ got' = IF e \in End \ hup THEN [got EXCEPT ![e] = @ \o SubSeq(full[f], 1, k)] ELSE got
            /\ clientbuffer' = [full EXCEPT ![f] = Unsent(full[f], k)]
            /\ wants' = (wants \cup IF ev.in THEN {p} \cap Watched ELSE {})
                             \ IF Unsent(full[f], k) = <<>> THEN {f} ELSE {}
      BY <2>2 DEF Transfer, full
    <3>2. SubSeq(full[f], 1, k) \in Seq(Message) /\ Unsent(full[f], k) \in Seq(Message)
      BY <1>3, PartTypes
    <3>3. e \in End => got[e] \o SubSeq(full[f], 1, k) \in Seq(Message)
      <4>1. e \in End => got[e] \in Seq(Message)
        BY DEF TypeOK
      <4>. QED
        BY <1>3, <4>1, PartTypes
    <3>. QED
      BY <1>3, <3>1, <3>2, <3>3, Facts DEF TypeOK
  <2>. QED
    BY <2>1, <2>2
<1>6. evs' \subseteq Event /\ cur' \in FD \cup {None}
      /\ UNCHANGED <<own, clientsocks, backlog, sent, hup, shut, faults, hist>>
  BY DEF Transfer, TypeOK
<1>. QED
  BY <1>4, <1>5, <1>6 DEF TypeOK, hist

LEMMA DisconnectTypes ==
  ASSUME TypeOK, NEW ev \in evs, Disconnect(ev)
  PROVE  TypeOK' /\ ev.fd \in FD /\ CloseChannel(ev.fd)
<1>1. ev.fd \in FD /\ 0 \in FD
  BY Facts DEF Disconnect, Visits, TypeOK, Event
<1>2. Close({ev.fd, clientsocks[ev.fd]})
  BY DEF Disconnect, CloseChannel
<1>3. clientsocks' \in [FD -> FD]
  BY <1>1 DEF Disconnect, CloseChannel, TypeOK
<1>4. evs' \subseteq Event /\ cur' \in FD \cup {None} /\ UNCHANGED <<clientbuffer, backlog, faults, hist>>
  BY DEF Disconnect, TypeOK
<1>. QED
  BY <1>1, <1>2, <1>3, <1>4, CloseTypes DEF TypeOK, hist, Disconnect

LEMMA RestartTypes == TypeOK /\ Restart => TypeOK'
<1>. SUFFICES ASSUME TypeOK, Restart PROVE TypeOK'
  OBVIOUS
<1>1. {own[f] : f \in Watched} \cup ToSet(backlog) \X {"src"} \in SUBSET End
  BY DEF Watched, End, ToSet, TypeOK
<1>2. Shut({own[f] : f \in Watched} \cup ToSet(backlog) \X {"src"})
  BY DEF Restart
<1>3. /\ shut' \subseteq End /\ hup' \subseteq End
      /\ inq' \in [End -> Seq(Message)] /\ got' \in [End -> Seq(Message)]
      /\ sent' \in [End -> 0..MaxSent]
  BY <1>1, <1>2, ShutTypes
<1>4. faults' \in 0..MaxFaults
  BY DEF Restart, TypeOK
<1>5. own' \in [FD -> End \cup {Free, Log, Leaked}] /\ clientsocks' \in [FD -> FD]
  BY Facts DEF Restart, StartOwn
<1>6. /\ clientbuffer' \in [FD -> Seq(Message)] /\ wants' \subseteq FD /\ evs' \subseteq Event
      /\ cur' \in FD \cup {None} /\ backlog' \in Seq(Chan) /\ UNCHANGED hist
  BY DEF Restart
<1>. QED
  BY <1>3, <1>4, <1>5, <1>6 DEF TypeOK, hist

LEMMA TypesStep == TypeOK /\ Called /\ [Next]_vars => TypeOK' /\ Called'
<1>. SUFFICES ASSUME TypeOK, Called, [Next]_vars PROVE TypeOK' /\ Called'
  OBVIOUS
<1>0. backlog \in Seq(Chan) /\ Listen \notin FD
  BY Facts DEF TypeOK
<1>1. CASE EpollWait
  <2>1. ASSUME NEW ev \in evs', ev.fd = Listen
        PROVE  ev = [fd |-> Listen, in |-> TRUE, out |-> FALSE] /\ backlog # <<>>
    BY <1>0, <1>1, <2>1, Facts DEF EpollWait
  <2>. QED
    BY <1>1, <2>1, EpollTypes DEF Called, EpollWait
<1>2. CASE AcceptClient \/ RefuseClient
  <2>1. PICK ev \in evs : ev.fd = Listen /\ evs' = evs \ {ev}
    BY <1>2 DEF AcceptClient, RefuseClient, TakeClient
  <2>2. backlog # <<>> /\ \A e \in evs' : e.fd # Listen
    BY <2>1 DEF Called
  <2>. QED
    BY <1>2, <2>2, AcceptTypes DEF Called
<1>3. ASSUME NEW ev \in evs, BlockInRecv(ev) PROVE TypeOK' /\ Called'
  <2>1. ev.fd \in FD
    BY <1>3 DEF BlockInRecv, Visits, TypeOK, Event
  <2>. QED
    BY <1>3, <2>1 DEF BlockInRecv, TypeOK, Called, arrays, peers, hist
<1>4. ASSUME NEW ev \in evs, Disconnect(ev) PROVE TypeOK' /\ Called'
  BY <1>4, DisconnectTypes DEF Disconnect, Called
<1>5. ASSUME NEW ev \in evs, Transfer(ev) PROVE TypeOK' /\ Called'
  BY <1>5, TransferTypes DEF Transfer, Called
<1>6. CASE Restart
  BY <1>6, RestartTypes DEF Restart, Called
<1>7. ASSUME NEW c \in Chan, Connect(c) PROVE TypeOK' /\ Called'
  <2>1. Append(backlog, c) \in Seq(Chan) /\ Append(backlog, c) # <<>>
    BY <1>0
  <2>. QED
    BY <1>7, <2>1 DEF Connect, TypeOK, Called, arrays, peers, hist
<1>8. ASSUME NEW e \in End, PeerSends(e) \/ PeerHangsUp(e) PROVE TypeOK' /\ Called'
  BY <1>8, PeerTypes DEF PeerSends, PeerHangsUp, Called
<1>9. CASE UNCHANGED vars
  BY <1>9 DEF vars, TypeOK, Called, arrays, peers, hist
<1>. QED
  BY <1>1, <1>2, <1>3, <1>4, <1>5, <1>6, <1>7, <1>8, <1>9 DEF Next, Loop

-----------------------------------------------------------------------------
(* The pairing.                                                            *)

Paired == ZeroApart /\ PairsSymmetric

LEMMA OtherEnd == \A e \in End : Other(e) \in End /\ Other(Other(e)) = e /\ Other(e) # e
  BY DEF End, Other

LEMMA AcceptPairs ==
  ASSUME TypeOK, Paired, AcceptClient, backlog # <<>>, ~zeroUsed'
  PROVE  Paired'
<1>. DEFINE c == Head(backlog)
<1>1. PICK src, dst \in 0..MAXSOCK :
        /\ IsLowestFree(src, {}) /\ IsLowestFree(dst, {src})
        /\ src < MAXSOCK /\ dst < MAXSOCK
        /\ own' = [own EXCEPT ![src] = <<c, "src">>, ![dst] = <<c, "dst">>]
        /\ clientsocks' = [clientsocks EXCEPT ![src] = dst, ![dst] = src]
        /\ zeroUsed' = (zeroUsed \/ src = 0)
  BY DEF AcceptClient, Fits
<1>2. c \in Chan /\ <<c, "src">> \in End /\ <<c, "dst">> \in End
  BY DEF TypeOK, End
<1>3. src \in FD /\ dst \in FD /\ own[src] = Free /\ own[dst] = Free /\ src # dst /\ src <= dst
  BY <1>1 DEF IsLowestFree, FD
<1>4. ~zeroUsed /\ src # 0 /\ dst # 0 /\ 0 \in FD
  <2>1. ~zeroUsed /\ src # 0
    BY <1>1
  <2>2. src \in Nat /\ dst \in Nat
    BY <1>1
  <2>. QED
    BY <2>1, <2>2, <1>3, Facts
<1>5. /\ own'[src] = <<c, "src">> /\ own'[dst] = <<c, "dst">>
      /\ clientsocks'[src] = dst /\ clientsocks'[dst] = src
      /\ \A f \in FD : f # src /\ f # dst => own'[f] = own[f] /\ clientsocks'[f] = clientsocks[f]
  BY <1>1, <1>3 DEF TypeOK
<1>6. Other(<<c, "src">>) = <<c, "dst">> /\ Other(<<c, "dst">>) = <<c, "src">>
  BY DEF Other
<1>7. \A f \in FD : own[f] \in End => clientsocks[f] \in FD /\ own[clientsocks[f]] = Other(own[f])
  BY <1>4 DEF Paired, PairsSymmetric, TypeOK
<1>8. ASSUME NEW f \in FD, f # src, f # dst, own[f] \in End
      PROVE  clientsocks[f] # src /\ clientsocks[f] # dst
  BY <1>3, <1>7, <1>8, Marks, OtherEnd
<1>9. ASSUME NEW f \in FD
      PROVE  /\ own'[f] \in End => own'[clientsocks'[f]] = Other(own'[f]) /\ clientsocks'[clientsocks'[f]] = f
             /\ clientsocks'[f] # 0 => own'[f] \in End
  <2>1. CASE f \in {src, dst}
    BY <1>2, <1>5, <1>6, <2>1
  <2>2. CASE f \notin {src, dst}
    BY <1>4, <1>5, <1>7, <1>8, <2>2 DEF Paired, PairsSymmetric
  <2>. QED
    BY <2>1, <2>2
<1>10. own'[0] \notin End
  BY <1>4, <1>5 DEF Paired, ZeroApart
<1>. QED
  BY <1>9, <1>10 DEF Paired, PairsSymmetric, ZeroApart

\* Closing a channel frees its two numbers, and no other entry names them.
LEMMA ClosePairs ==
  ASSUME TypeOK, Paired, NEW f \in FD, CloseChannel(f), ~zeroUsed, UNCHANGED zeroUsed
  PROVE  Paired'
<1>. DEFINE p == clientsocks[f]
<1>1. p \in FD /\ 0 \in FD
  BY Facts DEF TypeOK
<1>2. /\ own' = [g \in FD |-> IF g \in {f, p} THEN Free ELSE own[g]]
      /\ clientsocks' = [clientsocks EXCEPT ![p] = 0, ![f] = 0]
  BY DEF CloseChannel, Close
<1>3. ASSUME NEW g \in FD, g \notin {f, p}, own[g] \in End
      PROVE  clientsocks[g] \in FD /\ clientsocks[g] \notin {f, p}
  <2>1. /\ clientsocks[g] \in FD /\ clientsocks[clientsocks[g]] = g
        /\ own[clientsocks[g]] = Other(own[g]) /\ Other(own[g]) \in End
    BY <1>3, OtherEnd DEF Paired, PairsSymmetric, TypeOK
  <2>2. CASE own[f] \in End
    BY <1>1, <1>3, <2>1, <2>2 DEF Paired, PairsSymmetric
  <2>3. CASE own[f] \notin End
    <3>1. p = 0 /\ own[0] \notin End
      BY <2>3 DEF Paired, PairsSymmetric, ZeroApart
    <3>. QED
      BY <1>3, <2>1, <2>3, <3>1
  <2>. QED
    BY <2>2, <2>3
<1>4. \A g \in FD : /\ g \in {f, p} => own'[g] = Free /\ clientsocks'[g] = 0
                    /\ g \notin {f, p} => own'[g] = own[g] /\ clientsocks'[g] = clientsocks[g]
  BY <1>1, <1>2 DEF TypeOK
<1>5. ASSUME NEW g \in FD
      PROVE  /\ own'[g] \in End => own'[clientsocks'[g]] = Other(own'[g]) /\ clientsocks'[clientsocks'[g]] = g
             /\ clientsocks'[g] # 0 => own'[g] \in End
  <2>1. CASE g \in {f, p}
    BY <1>4, <2>1, Marks
  <2>2. CASE g \notin {f, p}
    BY <1>3, <1>4, <2>2 DEF Paired, PairsSymmetric
  <2>. QED
    BY <2>1, <2>2
<1>6. own'[0] \notin End
  BY <1>1, <1>4, Marks DEF Paired, ZeroApart
<1>. QED
  BY <1>5, <1>6 DEF Paired, PairsSymmetric, ZeroApart

LEMMA PairsStep == TypeOK /\ Called /\ Paired /\ [Next]_vars => Paired'
<1>. SUFFICES ASSUME TypeOK, Called, Paired, [Next]_vars, ~zeroUsed' PROVE Paired'
  BY DEF Paired, ZeroApart, PairsSymmetric
<1>1. CASE AcceptClient
  BY <1>1, AcceptPairs DEF AcceptClient, TakeClient, Called
<1>2. CASE RefuseClient
  <2>1. PICK dst \in 0..MAXSOCK : \E src \in 0..MAXSOCK :
          /\ IsLowestFree(dst, {src})
          /\ own' \in {own, [f \in FD |-> IF f = dst THEN Leaked ELSE own[f]]}
    BY <1>2 DEF RefuseClient
  <2>2. UNCHANGED <<clientsocks, zeroUsed>>
    BY <1>2 DEF RefuseClient, arrays, hist
  <2>3. dst \in FD => own[dst] = Free
    BY <2>1 DEF IsLowestFree, FD
  <2>4. \A f \in FD : own'[f] = own[f] \/ (own[f] \notin End /\ own'[f] \notin End)
    BY <2>1, <2>3, Marks
  <2>5. \A f \in FD : clientsocks[f] \in FD
    BY DEF TypeOK
  <2>6. ASSUME NEW f \in FD, own'[f] \in End
        PROVE  own'[clientsocks[f]] = Other(own'[f]) /\ clientsocks[clientsocks[f]] = f
    BY <2>2, <2>4, <2>5, <2>6, OtherEnd DEF Paired, PairsSymmetric
  <2>. QED
    BY <2>2, <2>4, <2>6, Facts DEF Paired, PairsSymmetric, ZeroApart
<1>3. ASSUME NEW ev \in evs, Disconnect(ev) PROVE Paired'
  BY <1>3, DisconnectTypes, ClosePairs DEF Disconnect, hist
<1>4. CASE Restart
  <2>1. \A f \in FD : own'[f] \notin End /\ clientsocks'[f] = 0
    BY <1>4, Marks DEF Restart, StartOwn
  <2>. QED
    BY <2>1, Facts DEF Paired, PairsSymmetric, ZeroApart
<1>5. CASE UNCHANGED <<own, clientsocks, zeroUsed>>
  BY <1>5 DEF Paired, PairsSymmetric, ZeroApart
<1>6. CASE \/ EpollWait \/ \E ev \in evs : BlockInRecv(ev) \/ Transfer(ev)
           \/ \E c \in Chan : Connect(c)
           \/ \E e \in End : PeerSends(e) \/ PeerHangsUp(e)
           \/ UNCHANGED vars
  BY <1>5, <1>6 DEF EpollWait, BlockInRecv, Transfer, Connect, PeerSends, PeerHangsUp, vars, arrays, hist
<1>. QED
  BY <1>1, <1>2, <1>3, <1>4, <1>6 DEF Next, Loop

-----------------------------------------------------------------------------
(* The bytes.  Each end's messages are numbered; what its peer has got,    *)
(* what is buffered for that and what still waits in the socket are one    *)
(* run of numbers up to the number sent.                                   *)

\* s is what the end e sent after its first n messages.
Run(s, e, n) == \A i \in 1..Len(s) : s[i] = [from |-> e, n |-> n + i]

\* An end that is not open has no state.
ClosedEmpty == \A e \in End : ~IsOpen(e) =>
                 got[e] = <<>> /\ inq[e] = <<>> /\ sent[e] = 0 /\ e \notin hup

\* A client that waits is not served already, nor does it wait twice.
WaitOnce == /\ \A i \in 1..Len(backlog) : ~IsOpen(<<backlog[i], "src">>)
            /\ \A i, j \in 1..Len(backlog) : backlog[i] = backlog[j] => i = j

OneFD == \A f, g \in FD : own[f] \in End /\ own[f] = own[g] => f = g

\* What the end under the number f gets.
Flow(f) ==
  LET e == own[f]
      o == Other(own[f])
  IN  /\ Run(inq[e], e, sent[e] - Len(inq[e]))
      /\ e \notin tainted \cup hup =>
           /\ Run(clientbuffer[f], o, Len(got[e]))
           /\ sent[o] = Len(got[e]) + Len(clientbuffer[f]) + Len(inq[o])

Flows == \A f \in FD : own[f] \in End => Flow(f)

Received == \A e \in End \ tainted : Run(got[e], Other(e), 0)

Streams == zeroUsed \/ (ClosedEmpty /\ WaitOnce /\ OneFD /\ Flows /\ Received)

\* Runs put together and taken apart.
LEMMA RunLemma ==
  ASSUME NEW s \in Seq(Message), NEW e \in End, NEW n \in Int, Run(s, e, n)
  PROVE  /\ \A t \in Seq(Message) : Run(t, e, n + Len(s)) => Run(s \o t, e, n)
         /\ \A k \in 0..Len(s) : /\ Run(SubSeq(s, 1, k), e, n) /\ Run(Unsent(s, k), e, n + k)
                                 /\ Len(SubSeq(s, 1, k)) = k /\ Len(Unsent(s, k)) = Len(s) - k
         /\ \A m \in Message : m = [from |-> e, n |-> n + Len(s) + 1] => Run(Append(s, m), e, n)
<1>1. Len(s) \in Nat
  OBVIOUS
<1>2. ASSUME NEW t \in Seq(Message), Run(t, e, n + Len(s)) PROVE Run(s \o t, e, n)
  <2>. SUFFICES ASSUME NEW i \in 1..Len(s \o t) PROVE (s \o t)[i] = [from |-> e, n |-> n + i]
    BY DEF Run
  <2>1. Len(s \o t) = Len(s) + Len(t) /\ Len(t) \in Nat
    OBVIOUS
  <2>2. CASE i <= Len(s)
    <3>1. (s \o t)[i] = s[i] /\ i \in 1..Len(s)
      BY <1>1, <2>1, <2>2
    <3>. QED
      BY <3>1 DEF Run
  <2>3. CASE i > Len(s)
    <3>1. (s \o t)[i] = t[i - Len(s)] /\ i - Len(s) \in 1..Len(t)
      BY <1>1, <2>1, <2>3
    <3>2. n + Len(s) + (i - Len(s)) = n + i
      BY <1>1
    <3>. QED
      BY <1>2, <3>1, <3>2 DEF Run
  <2>. QED
    BY <1>1, <2>2, <2>3
<1>3. ASSUME NEW k \in 0..Len(s)
      PROVE  /\ Run(SubSeq(s, 1, k), e, n) /\ Run(Unsent(s, k), e, n + k)
             /\ Len(SubSeq(s, 1, k)) = k /\ Len(Unsent(s, k)) = Len(s) - k
  <2>1. k \in Nat /\ k <= Len(s)
    BY <1>1
  <2>2. Len(SubSeq(s, 1, k)) = k /\ \A i \in 1..k : SubSeq(s, 1, k)[i] = s[i]
    BY <1>1, <2>1
  <2>3. /\ Len(SubSeq(s, k + 1, Len(s))) = Len(s) - k
        /\ \A i \in 1..(Len(s) - k) : SubSeq(s, k + 1, Len(s))[i] = s[k + i]
    BY <1>1, <2>1
  <2>4. Run(SubSeq(s, 1, k), e, n)
    BY <1>1, <2>1, <2>2 DEF Run
  <2>5. Run(SubSeq(s, k + 1, Len(s)), e, n + k)
    <3>. SUFFICES ASSUME NEW i \in 1..(Len(s) - k)
                  PROVE  SubSeq(s, k + 1, Len(s))[i] = [from |-> e, n |-> n + k + i]
      BY <2>3 DEF Run
    <3>1. k + i \in 1..Len(s) /\ n + (k + i) = n + k + i
      BY <1>1, <2>1
    <3>. QED
      BY <2>3, <3>1 DEF Run
  <2>. QED
    BY <2>2, <2>3, <2>4, <2>5 DEF Unsent
<1>4. ASSUME NEW m \in Message, m = [from |-> e, n |-> n + Len(s) + 1] PROVE Run(Append(s, m), e, n)
  <2>. SUFFICES ASSUME NEW i \in 1..(Len(s) + 1) PROVE Append(s, m)[i] = [from |-> e, n |-> n + i]
    BY <1>1 DEF Run
  <2>1. CASE i \in 1..Len(s)
    BY <1>1, <2>1 DEF Run
  <2>2. CASE i = Len(s) + 1
    BY <1>1, <1>4, <2>2
  <2>. QED
    BY <1>1, <2>1, <2>2
<1>. QED
  BY <1>2, <1>3, <1>4

LEMMA NoRun == \A e, n : Run(<<>>, e, n)
  BY DEF Run

\* What the channels have before number 0 is one's.
Sound == ~zeroUsed /\ Paired /\ ClosedEmpty /\ WaitOnce /\ OneFD /\ Flows /\ Received

LEMMA SeqTypes ==
  ASSUME TypeOK
  PROVE  /\ \A e \in End : inq[e] \in Seq(Message) /\ got[e] \in Seq(Message) /\ sent[e] \in Nat
         /\ \A f \in FD : clientbuffer[f] \in Seq(Message) /\ clientsocks[f] \in FD
         /\ backlog \in Seq(Chan)
  BY DEF TypeOK

LEMMA SendStreams ==
  ASSUME TypeOK, Sound, NEW e \in End, PeerSends(e)
  PROVE  ClosedEmpty' /\ WaitOnce' /\ OneFD' /\ Flows' /\ Received'
<1>. DEFINE m == [from |-> e, n |-> sent[e] + 1]
<1>1. /\ sent' = [sent EXCEPT ![e] = @ + 1] /\ inq' = [inq EXCEPT ![e] = Append(@, m)]
      /\ UNCHANGED <<own, clientbuffer, backlog, got, hup, tainted>>
      /\ IsOpen(e) /\ sent[e] < MaxSent
  BY DEF PeerSends, arrays, hist
<1>2. m \in Message /\ inq[e] \in Seq(Message) /\ sent[e] \in Nat /\ Len(inq[e]) \in Nat
  <2>1. sent[e] \in 0..MaxSent /\ inq[e] \in Seq(Message)
    BY DEF TypeOK
  <2>2. sent[e] + 1 \in 1..MaxSent
    BY <1>1, <2>1
  <2>. QED
    BY <2>1, <2>2 DEF Message
<1>3. /\ inq'[e] = Append(inq[e], m) /\ sent'[e] = sent[e] + 1 /\ Len(inq'[e]) = Len(inq[e]) + 1
      /\ \A b \in End : b # e => inq'[b] = inq[b] /\ sent'[b] = sent[b]
  BY <1>1, <1>2 DEF TypeOK
<1>4. ASSUME NEW f \in FD, own[f] \in End PROVE Flow(f)'
  <2>1. Flow(f) /\ own' = own /\ Other(own[f]) \in End
    BY <1>1, <1>4, OtherEnd DEF Sound, Flows
  <2>2. Run(inq'[own[f]], own[f], sent'[own[f]] - Len(inq'[own[f]]))
    <3>1. CASE own[f] = e
      <4>1. Run(inq[e], e, sent[e] - Len(inq[e])) /\ sent[e] - Len(inq[e]) \in Int
        BY <1>2, <2>1, <3>1 DEF Flow
      <4>2. m = [from |-> e, n |-> (sent[e] - Len(inq[e])) + Len(inq[e]) + 1]
        BY <1>2
      <4>3. Run(Append(inq[e], m), e, sent[e] - Len(inq[e]))
        BY <1>2, <4>1, <4>2, RunLemma
      <4>4. sent'[e] - Len(inq'[e]) = sent[e] - Len(inq[e])
        BY <1>2, <1>3
      <4>. QED
        BY <1>3, <3>1, <4>3, <4>4
    <3>2. CASE own[f] # e
      BY <1>3, <1>4, <2>1, <3>2 DEF Flow
    <3>. QED
      BY <3>1, <3>2
  <2>3. ASSUME own[f] \notin tainted \cup hup
        PROVE  /\ Run(clientbuffer[f], Other(own[f]), Len(got[own[f]]))
               /\ sent'[Other(own[f])] = Len(got[own[f]]) + Len(clientbuffer[f]) + Len(inq'[Other(own[f])])
    <3>1. /\ Run(clientbuffer[f], Other(own[f]), Len(got[own[f]]))
          /\ sent[Other(own[f])] = Len(got[own[f]]) + Len(clientbuffer[f]) + Len(inq[Other(own[f])])
      BY <2>1, <2>3 DEF Flow
    <3>2. Len(got[own[f]]) \in Nat /\ Len(clientbuffer[f]) \in Nat
      BY <1>4, SeqTypes
    <3>3. CASE Other(own[f]) = e
      <4>1. sent[e] = Len(got[own[f]]) + Len(clientbuffer[f]) + Len(inq[e])
        BY <3>1, <3>3
      <4>2. sent'[e] = Len(got[own[f]]) + Len(clientbuffer[f]) + Len(inq'[e])
        <5>. DEFINE G == Len(got[own[f]])
                    B == Len(clientbuffer[f])
                    I == Len(inq[e])
        <5>1. sent'[e] = (G + B + I) + 1 /\ Len(inq'[e]) = I + 1
          BY <1>3, <4>1
        <5>2. G \in Nat /\ B \in Nat /\ I \in Nat
          BY <1>2, <3>2
        <5>. HIDE DEF G, B, I
        <5>3. (G + B + I) + 1 = G + B + (I + 1)
          BY <5>2
        <5>. QED
          BY <5>1, <5>3 DEF G, B, I
      <4>. QED
        BY <3>1, <3>3, <4>2
    <3>4. CASE Other(own[f]) # e
      BY <1>3, <2>1, <3>1, <3>4
    <3>. QED
      BY <3>3, <3>4
  <2>. QED
    BY <1>1, <2>1, <2>2, <2>3 DEF Flow
<1>5. ClosedEmpty'
  BY <1>1, <1>3 DEF Sound, ClosedEmpty, IsOpen
<1>. QED
  BY <1>1, <1>4, <1>5 DEF Sound, WaitOnce, IsOpen, OneFD, Flows, Received

LEMMA AcceptStreams ==
  ASSUME TypeOK, Sound, AcceptClient, backlog # <<>>, ~zeroUsed'
  PROVE  ClosedEmpty' /\ WaitOnce' /\ OneFD' /\ Flows' /\ Received'
<1>. DEFINE c == Head(backlog)
            s == <<c, "src">>
            d == <<c, "dst">>
<1>1. PICK src, dst \in 0..MAXSOCK :
        /\ IsLowestFree(src, {}) /\ IsLowestFree(dst, {src})
        /\ src < MAXSOCK /\ dst < MAXSOCK
        /\ own' = [own EXCEPT ![src] = s, ![dst] = d]
        /\ tainted' = tainted
              \cup (IF src \in {f \in FD : clientbuffer[f] # <<>>} THEN {s} ELSE {})
              \cup (IF dst \in {f \in FD : clientbuffer[f] # <<>>} THEN {d} ELSE {})
        /\ UNCHANGED <<clientbuffer, inq, got, sent, hup>>
  BY DEF AcceptClient, Fits, peers
<1>2. /\ src \in FD /\ dst \in FD /\ own[src] = Free /\ own[dst] = Free /\ src # dst
      /\ c \in Chan /\ s \in End /\ d \in End /\ s # d /\ Other(s) = d /\ Other(d) = s
  <2>1. src \in FD /\ dst \in FD /\ own[src] = Free /\ own[dst] = Free /\ src # dst
    BY <1>1 DEF IsLowestFree, FD
  <2>2. c \in Chan
    BY DEF TypeOK
  <2>. QED
    BY <2>1, <2>2 DEF End, Other
<1>3. /\ own'[src] = s /\ own'[dst] = d
      /\ \A f \in FD : f # src /\ f # dst => own'[f] = own[f]
  BY <1>1, <1>2 DEF TypeOK
<1>4. backlog \in Seq(Chan) /\ Len(backlog) \in Nat /\ Len(backlog) >= 1 /\ c = backlog[1]
  BY DEF TypeOK
<1>5. ~IsOpen(s) /\ ~IsOpen(d)
  <2>1. ~IsOpen(s)
    BY <1>4 DEF Sound, WaitOnce
  <2>2. ASSUME NEW f \in FD, own[f] = d PROVE FALSE
    <3>1. clientsocks[f] \in FD /\ own[clientsocks[f]] = Other(d)
      BY <1>2, <2>2, SeqTypes DEF Sound, Paired, PairsSymmetric
    <3>. QED
      BY <1>2, <2>1, <3>1 DEF IsOpen
  <2>. QED
    BY <2>1, <2>2 DEF IsOpen
<1>6. \A e \in {s, d} : got[e] = <<>> /\ inq[e] = <<>> /\ sent[e] = 0 /\ e \notin hup
  BY <1>2, <1>5 DEF Sound, ClosedEmpty
<1>7. OneFD'
  BY <1>2, <1>3, <1>5 DEF Sound, OneFD, IsOpen
<1>8. \A e \in End : IsOpen(e) => IsOpen(e)'
  BY <1>2, <1>3, Marks DEF IsOpen
<1>9. WaitOnce'
  <2>1. backlog' = Tail(backlog)
    BY DEF AcceptClient, TakeClient
  <2>2. Len(backlog') = Len(backlog) - 1 /\ \A i \in 1..(Len(backlog) - 1) : backlog'[i] = backlog[i + 1]
    BY <1>4, <2>1
  <2>3. ASSUME NEW i \in 1..Len(backlog') PROVE \A f \in FD : own'[f] # <<backlog'[i], "src">>
    <3>1. i + 1 \in 1..Len(backlog) /\ 1 \in 1..Len(backlog) /\ i + 1 # 1
      BY <1>4, <2>2
    <3>2. backlog'[i] # c /\ backlog'[i] = backlog[i + 1] /\ ~IsOpen(<<backlog[i + 1], "src">>)
      BY <1>4, <2>2, <3>1 DEF Sound, WaitOnce
    <3>3. <<backlog'[i], "src">> # s /\ <<backlog'[i], "src">> # d
      BY <3>2
    <3>4. <<backlog'[i], "src">> # Free /\ \A g \in FD : own[g] # <<backlog'[i], "src">>
      <4>1. backlog[i + 1] \in Chan
        BY <1>4, <3>1
      <4>. QED
        BY <3>2, <4>1, Marks DEF IsOpen, End
    <3>. QED
      BY <1>2, <1>3, <3>3, <3>4
  <2>4. ASSUME NEW i \in 1..Len(backlog'), NEW j \in 1..Len(backlog'), backlog'[i] = backlog'[j]
        PROVE  i = j
    <3>1. i + 1 \in 1..Len(backlog) /\ j + 1 \in 1..Len(backlog) /\ backlog[i + 1] = backlog[j + 1]
      BY <1>4, <2>2, <2>4
    <3>2. i + 1 = j + 1
      BY <3>1 DEF Sound, WaitOnce
    <3>. QED
      BY <1>4, <2>2, <3>2
  <2>. QED
    BY <2>3, <2>4 DEF WaitOnce, IsOpen
<1>10. ClosedEmpty'
  BY <1>1, <1>8 DEF Sound, ClosedEmpty
<1>11. ASSUME NEW f \in FD, own'[f] \in End PROVE Flow(f)'
  <2>1. CASE f \notin {src, dst}
    <3>1. Flow(f) /\ own'[f] = own[f] /\ tainted \subseteq tainted'
      BY <1>1, <1>3, <1>11, <2>1 DEF Sound, Flows
    <3>2. own[f] \notin (tainted \cup hup)' => own[f] \notin tainted \cup hup
      BY <1>1, <3>1
    <3>. QED
      BY <1>1, <3>1, <3>2 DEF Flow
  <2>2. CASE f \in {src, dst}
    <3>1. own'[f] \in {s, d} /\ Other(own'[f]) \in {s, d}
      BY <1>2, <1>3, <2>2
    <3>2. own'[f] \notin tainted' => clientbuffer[f] = <<>>
      <4>1. clientbuffer[src] # <<>> => s \in tainted'
        BY <1>1, <1>2
      <4>2. clientbuffer[dst] # <<>> => d \in tainted'
        BY <1>1, <1>2
      <4>. QED
        BY <1>3, <2>2, <4>1, <4>2
    <3>3. Len(<<>>) = 0
      OBVIOUS
    <3>4. /\ inq'[own'[f]] = <<>> /\ sent'[own'[f]] = 0 /\ got'[own'[f]] = <<>>
          /\ inq'[Other(own'[f])] = <<>> /\ sent'[Other(own'[f])] = 0 /\ clientbuffer' = clientbuffer
      BY <1>1, <1>6, <3>1
    <3>5. Run(inq'[own'[f]], own'[f], sent'[own'[f]] - Len(inq'[own'[f]]))
      BY <3>4, NoRun
    <3>6. own'[f] \notin tainted' =>
            /\ Run(clientbuffer'[f], Other(own'[f]), Len(got'[own'[f]]))
            /\ sent'[Other(own'[f])] = Len(got'[own'[f]]) + Len(clientbuffer'[f]) + Len(inq'[Other(own'[f])])
      BY <3>2, <3>3, <3>4, NoRun
    <3>. QED
      BY <3>5, <3>6 DEF Flow
  <2>. QED
    BY <2>1, <2>2
<1>12. Received'
  <2>1. tainted \subseteq tainted'
    BY <1>1
  <2>. QED
    BY <1>1, <2>1 DEF Sound, Received
<1>. QED
  BY <1>7, <1>9, <1>10, <1>11, <1>12 DEF Flows

LEMMA CloseStreams ==
  ASSUME TypeOK, Sound, NEW f \in FD, CloseChannel(f), UNCHANGED <<clientbuffer, backlog, hist>>
  PROVE  ClosedEmpty' /\ WaitOnce' /\ OneFD' /\ Flows' /\ Received'
<1>. DEFINE p == clientsocks[f]
            E == {own[g] : g \in {f, p} \cap Watched}
<1>1. p \in FD /\ 0 \in FD /\ UNCHANGED tainted
  BY Facts, SeqTypes DEF hist
<1>2. /\ own' = [g \in FD |-> IF g \in {f, p} THEN Free ELSE own[g]]
      /\ Shut(E)
  BY DEF CloseChannel, Close
<1>3. \A g \in FD : own'[g] = IF g \in {f, p} THEN Free ELSE own[g]
  BY <1>2
<1>4. /\ hup' = hup \ E
      /\ \A e \in End : /\ e \in E => inq'[e] = <<>> /\ got'[e] = <<>> /\ sent'[e] = 0
                        /\ e \notin E => inq'[e] = inq[e] /\ got'[e] = got[e] /\ sent'[e] = sent[e]
  BY <1>2 DEF Shut
<1>5. \A e \in End : IsOpen(e)' <=> IsOpen(e) /\ e \notin E
  <2>1. ASSUME NEW e \in End, NEW g \in FD, own'[g] = e PROVE IsOpen(e) /\ e \notin E
    <3>1. g \notin {f, p} /\ own[g] = e
      BY <1>3, <2>1, Marks
    <3>. QED
      BY <1>1, <2>1, <3>1 DEF IsOpen, Sound, OneFD, Watched
  <2>2. ASSUME NEW e \in End, NEW g \in FD, own[g] = e, e \notin E PROVE own'[g] = e
    BY <1>1, <1>3, <2>2 DEF Watched
  <2>. QED
    BY <2>1, <2>2 DEF IsOpen
<1>6. ClosedEmpty'
  BY <1>4, <1>5 DEF Sound, ClosedEmpty
<1>7. \A i \in 1..Len(backlog) : <<backlog[i], "src">> \in End
  BY SeqTypes DEF End
<1>8. WaitOnce'
  BY <1>5, <1>7 DEF Sound, WaitOnce
<1>9. OneFD'
  BY <1>3, Marks DEF Sound, OneFD
<1>10. ASSUME NEW g \in FD, own'[g] \in End PROVE Flow(g)'
  <2>1. g \notin {f, p} /\ own'[g] = own[g] /\ own[g] \in End
    BY <1>3, <1>10, Marks
  <2>2. clientsocks[g] \in FD /\ clientsocks[g] \notin {f, p} /\ own[clientsocks[g]] = Other(own[g])
    <3>1. clientsocks[g] \in FD /\ own[clientsocks[g]] = Other(own[g]) /\ clientsocks[clientsocks[g]] = g
      BY <2>1, SeqTypes DEF Sound, Paired, PairsSymmetric
    <3>2. own[clientsocks[g]] \in End
      BY <2>1, <3>1, OtherEnd
    <3>3. CASE own[f] \in End
      BY <1>1, <2>1, <3>1, <3>3 DEF Sound, Paired, PairsSymmetric
    <3>4. CASE own[f] \notin End
      <4>1. p = 0 /\ own[0] \notin End
        BY <3>4 DEF Sound, Paired, PairsSymmetric, ZeroApart
      <4>. QED
        BY <3>1, <3>2, <3>4, <4>1
    <3>. QED
      BY <3>3, <3>4
  <2>3. own[g] \notin E /\ Other(own[g]) \notin E /\ Other(own[g]) \in End
    BY <1>1, <2>1, <2>2, OtherEnd DEF Sound, OneFD, Watched
  <2>4. Flow(g)
    BY <2>1 DEF Sound, Flows
  <2>5. /\ inq'[own[g]] = inq[own[g]] /\ sent'[own[g]] = sent[own[g]] /\ got'[own[g]] = got[own[g]]
        /\ inq'[Other(own[g])] = inq[Other(own[g])] /\ sent'[Other(own[g])] = sent[Other(own[g])]
    BY <1>4, <2>1, <2>3
  <2>6. own[g] \notin (tainted \cup hup)' => own[g] \notin tainted \cup hup
    BY <1>1, <1>4, <2>3
  <2>. QED
    BY <2>1, <2>4, <2>5, <2>6 DEF Flow
<1>11. Received'
  BY <1>1, <1>4, NoRun DEF Sound, Received
<1>. QED
  BY <1>6, <1>8, <1>9, <1>10, <1>11 DEF Flows

\* What is read goes to the other end's buffer, what is sent leaves one's own.
LEMMA TransferStreams ==
  ASSUME TypeOK, TypeOK', Sound, NEW ev \in evs, Transfer(ev)
  PROVE  ClosedEmpty' /\ WaitOnce' /\ OneFD' /\ Flows' /\ Received'
<1>. DEFINE f == ev.fd
            e == own[f]
            p == clientsocks[f]
            read == IF ev.in THEN inq[e] ELSE <<>>
            full == [clientbuffer EXCEPT ![p] = @ \o read]
<1>1. f \in FD /\ p \in FD /\ ev.in \in BOOLEAN /\ ev.out \in BOOLEAN
  BY DEF Transfer, Visits, TypeOK, Event
<1>2. /\ ev.in => e \in End
      /\ inq' = IF ev.in THEN [inq EXCEPT ![e] = <<>>] ELSE inq
      /\ UNCHANGED <<own, clientsocks, backlog, sent, hup, tainted>>
  BY DEF Transfer, hist
<1>3. e \in End => own[p] = Other(e) /\ clientsocks[p] = f /\ Other(e) # e /\ Other(e) \in End /\ p # f
  BY <1>1, OtherEnd DEF Sound, Paired, PairsSymmetric
<1>4. \A b \in End : b # e \/ ~ev.in => inq'[b] = inq[b]
  BY <1>2 DEF TypeOK
<1>5. ev.in => inq'[e] = <<>>
  BY <1>2 DEF TypeOK
<1>6. /\ ev.in => full[p] = clientbuffer[p] \o inq[e]
      /\ ~ev.in => full[p] = clientbuffer[p]
      /\ \A g \in FD : g # p => full[g] = clientbuffer[g]
  <2>1. full[p] = clientbuffer[p] \o read /\ \A g \in FD : g # p => full[g] = clientbuffer[g]
    BY <1>1 DEF TypeOK
  <2>2. clientbuffer[p] \o <<>> = clientbuffer[p]
    BY <1>1, SeqTypes
  <2>. QED
    BY <1>1, <2>1, <2>2
<1>7. PICK k \in Nat :
        /\ ev.out => k \in 0..Len(full[f])
        /\ ~ev.out => clientbuffer' = full /\ got' = got
        /\ ev.out => /\ clientbuffer' = [full EXCEPT ![f] = Unsent(full[f], k)]
                     /\ got' = IF e \in End \ hup THEN [got EXCEPT ![e] = @ \o SubSeq(full[f], 1, k)] ELSE got
  <2>1. CASE ev.out
    <3>1. PICK k \in 0..Len(full[f]) :
                     /\ clientbuffer' = [full EXCEPT ![f] = Unsent(full[f], k)]
                     /\ got' = IF e \in End \ hup THEN [got EXCEPT ![e] = @ \o SubSeq(full[f], 1, k)] ELSE got
      BY <2>1 DEF Transfer
    <3>2. k \in Nat
      OBVIOUS
    <3>. WITNESS k \in Nat
    <3>. QED
      BY <2>1, <3>1
  <2>2. CASE ~ev.out
    <3>1. clientbuffer' = full /\ got' = got
      BY <2>2 DEF Transfer
    <3>2. 0 \in Nat
      OBVIOUS
    <3>. WITNESS 0 \in Nat
    <3>. QED
      BY <2>2, <3>1
  <2>. QED
    BY <2>1, <2>2
<1>8. \A g \in FD : g # f => clientbuffer'[g] = full[g]
  BY <1>1, <1>7 DEF TypeOK
<1>9. \A b \in End : b # e \/ b \in hup => got'[b] = got[b]
  <2>. DEFINE part == SubSeq(full[f], 1, k)
  <2>1. got' = got \/ (e \in End \ hup /\ got' = [got EXCEPT ![e] = @ \o part])
    BY <1>7, ev.out \/ ~ev.out
  <2>. HIDE DEF part
  <2>. QED
    BY <2>1 DEF TypeOK
<1>10. ev.out /\ e \in End \ hup => /\ k \in 0..Len(clientbuffer[f])
                                    /\ got'[e] = got[e] \o SubSeq(clientbuffer[f], 1, k)
                                    /\ clientbuffer'[f] = Unsent(clientbuffer[f], k)
  <2>. SUFFICES ASSUME ev.out, e \in End \ hup
                PROVE  /\ k \in 0..Len(clientbuffer[f])
                       /\ got'[e] = got[e] \o SubSeq(clientbuffer[f], 1, k)
                       /\ clientbuffer'[f] = Unsent(clientbuffer[f], k)
    OBVIOUS
  <2>1. full[f] = clientbuffer[f]
    BY <1>1, <1>3, <1>6
  <2>2. DOMAIN full = FD /\ DOMAIN got = End
    BY DEF TypeOK
  <2>3. /\ k \in 0..Len(full[f])
        /\ clientbuffer' = [full EXCEPT ![f] = Unsent(full[f], k)]
        /\ got' = [got EXCEPT ![e] = @ \o SubSeq(full[f], 1, k)]
    BY <1>7
  <2>. HIDE DEF full
  <2>. QED
    BY <1>1, <2>1, <2>2, <2>3
<1>11. ~ev.out /\ e \in End => clientbuffer'[f] = clientbuffer[f] /\ got'[e] = got[e]
  BY <1>1, <1>3, <1>6, <1>7
<1>. HIDE DEF full, read
<1>12. \A b \in End : IsOpen(b)' <=> IsOpen(b)
  BY <1>2 DEF IsOpen
<1>13. ClosedEmpty'
  <2>. SUFFICES ASSUME NEW b \in End, ~IsOpen(b)
                PROVE  got'[b] = <<>> /\ inq'[b] = <<>> /\ sent'[b] = 0 /\ b \notin hup'
    BY <1>12 DEF ClosedEmpty
  <2>1. b # e
    BY <1>1 DEF IsOpen
  <2>. QED
    BY <1>2, <1>4, <1>9, <2>1 DEF Sound, ClosedEmpty
<1>14. WaitOnce' /\ OneFD'
  BY <1>2 DEF Sound, WaitOnce, OneFD, IsOpen
<1>15. e \in End \ (hup \cup tainted) =>
         /\ Run(got'[e], Other(e), 0) /\ Run(clientbuffer'[f], Other(e), Len(got'[e]))
         /\ Len(got'[e]) + Len(clientbuffer'[f]) = Len(got[e]) + Len(clientbuffer[f])
  <2>. SUFFICES ASSUME e \in End, e \notin hup, e \notin tainted
                PROVE  /\ Run(got'[e], Other(e), 0) /\ Run(clientbuffer'[f], Other(e), Len(got'[e]))
                       /\ Len(got'[e]) + Len(clientbuffer'[f]) = Len(got[e]) + Len(clientbuffer[f])
    OBVIOUS
  <2>1. Run(got[e], Other(e), 0) /\ Run(clientbuffer[f], Other(e), Len(got[e]))
    BY <1>1 DEF Sound, Received, Flows, Flow
  <2>2. CASE ~ev.out
    BY <1>11, <2>1, <2>2
  <2>3. CASE ev.out
    <3>. DEFINE g == got[e]
                b == clientbuffer[f]
                o == Other(e)
    <3>1. g \in Seq(Message) /\ b \in Seq(Message) /\ o \in End /\ Len(g) \in Nat /\ Len(b) \in Nat
      BY <1>1, <1>3, SeqTypes
    <3>2. k \in 0..Len(b) /\ got'[e] = g \o SubSeq(b, 1, k) /\ clientbuffer'[f] = Unsent(b, k)
      BY <1>10, <2>3
    <3>3. Run(g, o, 0) /\ Run(b, o, Len(g))
      BY <2>1
    <3>. HIDE DEF g, b, o
    <3>4. /\ Run(SubSeq(b, 1, k), o, Len(g)) /\ Run(Unsent(b, k), o, Len(g) + k)
          /\ Len(SubSeq(b, 1, k)) = k /\ Len(Unsent(b, k)) = Len(b) - k
      <4>1. Len(g) \in Int
        BY <3>1
      <4>2. \A j \in 0..Len(b) : /\ Run(SubSeq(b, 1, j), o, Len(g)) /\ Run(Unsent(b, j), o, Len(g) + j)
                               /\ Len(SubSeq(b, 1, j)) = j /\ Len(Unsent(b, j)) = Len(b) - j
        BY ONLY <3>1, <3>3, <4>1, RunLemma
      <4>. QED
        BY <3>2, <4>2
    <3>5. SubSeq(b, 1, k) \in Seq(Message)
      BY <3>1, <3>2, PartTypes
    <3>6. Run(g \o SubSeq(b, 1, k), o, 0)
      <4>1. 0 + Len(g) = Len(g)
        BY <3>1
      <4>2. Run(SubSeq(b, 1, k), o, 0 + Len(g))
        BY <3>4, <4>1
      <4>3. Run(g, o, 0) /\ 0 \in Int
        BY <3>3
      <4>. DEFINE t == SubSeq(b, 1, k)
      <4>4. t \in Seq(Message) /\ Run(t, o, 0 + Len(g))
        BY <3>5, <4>2
      <4>. HIDE DEF t
      <4>5. Run(g \o t, o, 0)
        BY <3>1, <4>3, <4>4, RunLemma
      <4>. QED
        BY <4>5 DEF t
    <3>7. Len(g \o SubSeq(b, 1, k)) = Len(g) + k
      BY <3>1, <3>4, <3>5
    <3>8. (Len(g) + k) + (Len(b) - k) = Len(g) + Len(b)
      BY <3>1
    <3>9. /\ Run(got'[e], o, 0) /\ Run(clientbuffer'[f], o, Len(got'[e]))
          /\ Len(got'[e]) + Len(clientbuffer'[f]) = Len(g) + Len(b)
      BY <3>2, <3>4, <3>6, <3>7, <3>8
    <3>. QED
      BY <3>9 DEF g, b, o
  <2>. QED
    BY <1>1, <2>2, <2>3
<1>16. ASSUME NEW g \in FD, own[g] \in End PROVE Flow(g)'
  <2>. DEFINE b == own[g]
              o == Other(own[g])
  <2>1. /\ Run(inq[b], b, sent[b] - Len(inq[b])) /\ o \in End /\ o # b
        /\ b \notin tainted \cup hup => /\ Run(clientbuffer[g], o, Len(got[b]))
                                        /\ sent[o] = Len(got[b]) + Len(clientbuffer[g]) + Len(inq[o])
    BY <1>16, OtherEnd DEF Sound, Flows, Flow
  <2>2. Run(inq'[b], b, sent[b] - Len(inq'[b]))
    <3>1. CASE b = e /\ ev.in
      BY <1>5, <3>1, NoRun
    <3>2. CASE ~(b = e /\ ev.in)
      BY <1>4, <1>16, <2>1, <3>2
    <3>. QED
      BY <3>1, <3>2
  <2>3. ASSUME b \notin tainted \cup hup
        PROVE  /\ Run(clientbuffer'[g], o, Len(got'[b]))
               /\ sent[o] = Len(got'[b]) + Len(clientbuffer'[g]) + Len(inq'[o])
    <3>1. CASE g = f
      <4>1. inq'[o] = inq[o]
        BY <1>4, <2>1, <3>1
      <4>. QED
        BY <1>15, <1>16, <2>1, <2>3, <3>1, <4>1
    <3>2. CASE g # f /\ g = p /\ ev.in
      <4>1. b = Other(e) /\ o = e /\ got'[b] = got[b] /\ clientbuffer'[g] = clientbuffer[g] \o inq[e] /\ inq'[o] = <<>>
        BY <1>2, <1>3, <1>5, <1>6, <1>8, <1>9, <3>2, OtherEnd
      <4>2. Run(inq[e], e, sent[e] - Len(inq[e]))
        BY <1>1, <1>2, <3>2 DEF Sound, Flows, Flow
      <4>3. /\ inq[e] \in Seq(Message) /\ clientbuffer[g] \in Seq(Message) /\ got[b] \in Seq(Message)
        BY <1>2, <1>16, <3>2, SeqTypes
      <4>. DEFINE i == inq[e]
                  c == clientbuffer[g]
                  n == Len(got[b])
      <4>4. Len(i) \in Nat /\ Len(c) \in Nat /\ n \in Nat
        BY <4>3
      <4>5. Run(c, e, n) /\ sent[e] = n + Len(c) + Len(i) /\ Run(i, e, sent[e] - Len(i))
        BY <2>1, <2>3, <4>1, <4>2
      <4>6. i \in Seq(Message) /\ c \in Seq(Message) /\ e \in End
        BY <1>2, <3>2, <4>3
      <4>. HIDE DEF i, c, n
      <4>7. sent[e] - Len(i) = n + Len(c)
        BY <4>4, <4>5
      <4>8. Run(c \o i, e, n)
        BY <4>4, <4>5, <4>6, <4>7, RunLemma
      <4>9. Len(c \o i) = Len(c) + Len(i) /\ Len(<<>>) = 0
        BY <4>6
      <4>10. sent[e] = n + Len(c \o i) + Len(<<>>)
        BY <4>4, <4>5, <4>9
      <4>. QED
        BY <4>1, <4>8, <4>10 DEF i, c, n
    <3>3. CASE g # f /\ ~(g = p /\ ev.in)
      <4>1. clientbuffer'[g] = clientbuffer[g]
        BY <1>6, <1>8, <3>3
      <4>2. b # e
        BY <1>1, <1>16, <3>3 DEF Sound, OneFD
      <4>3. inq'[o] = inq[o]
        <5>1. CASE ev.in
          <6>1. o # e
            BY <1>1, <1>2, <1>3, <1>16, <3>3, <5>1, OtherEnd DEF Sound, OneFD
          <6>. QED
            BY <1>4, <2>1, <6>1
        <5>2. CASE ~ev.in
          BY <1>4, <2>1, <5>2
        <5>. QED
          BY <5>1, <5>2
      <4>4. got'[b] = got[b]
        BY <1>9, <1>16, <4>2
      <4>. QED
        BY <2>1, <2>3, <4>1, <4>3, <4>4
    <3>. QED
      BY <3>1, <3>2, <3>3
  <2>. QED
    BY <1>2, <2>2, <2>3 DEF Flow
<1>17. ASSUME NEW b \in End \ tainted PROVE Run(got'[b], Other(b), 0)
  <2>1. CASE b = e /\ b \notin hup
    BY <1>15, <1>17, <2>1
  <2>2. CASE ~(b = e /\ b \notin hup)
    BY <1>9, <1>17, <2>2 DEF Sound, Received
  <2>. QED
    BY <2>1, <2>2
<1>. QED
  BY <1>2, <1>13, <1>14, <1>16, <1>17 DEF Flows, Received

\* Steps that leave the ends, their descriptors and their bytes alone.
LEMMA QuietStreams ==
  ASSUME TypeOK, Sound, UNCHANGED <<clientbuffer, inq, got, sent, tainted>>, hup \subseteq hup',
         \A e \in hup' \ hup : IsOpen(e),
         \A f \in FD : own'[f] = own[f] \/ (own[f] \notin End /\ own'[f] \notin End)
  PROVE  /\ ClosedEmpty' /\ OneFD' /\ Flows' /\ Received'
         /\ \A e \in End : IsOpen(e)' <=> IsOpen(e)
<1>1. \A e \in End : IsOpen(e)' <=> IsOpen(e)
  BY DEF IsOpen
<1>2. ClosedEmpty'
  BY <1>1 DEF Sound, ClosedEmpty
<1>3. OneFD'
  BY DEF Sound, OneFD
<1>4. ASSUME NEW f \in FD, own'[f] \in End PROVE Flow(f)'
  <2>1. own'[f] = own[f] /\ Flow(f)
    BY <1>4 DEF Sound, Flows
  <2>2. own[f] \notin (tainted \cup hup)' => own[f] \notin tainted \cup hup
    OBVIOUS
  <2>. QED
    BY <2>1, <2>2 DEF Flow
<1>5. Received'
  BY DEF Sound, Received
<1>. QED
  BY <1>1, <1>2, <1>3, <1>4, <1>5 DEF Flows

\* The accept queue loses its first client or gets another.
LEMMA QueueStreams ==
  ASSUME TypeOK, Sound, \A e \in End : IsOpen(e)' <=> IsOpen(e),
         \/ backlog' = backlog
         \/ backlog # <<>> /\ backlog' = Tail(backlog)
         \/ \E c \in Chan : /\ backlog' = Append(backlog, c)
                            /\ c \notin ToSet(backlog) /\ ~IsOpen(<<c, "src">>)
  PROVE  WaitOnce'
<1>1. Len(backlog) \in Nat /\ \A i \in 1..Len(backlog) : backlog[i] \in Chan
  BY SeqTypes
<1>2. \A c \in Chan : <<c, "src">> \in End
  BY DEF End
<1>3. CASE backlog' = backlog
  BY <1>1, <1>2, <1>3 DEF Sound, WaitOnce, IsOpen
<1>. DEFINE Open(e) == \E f \in FD : own'[f] = e
<1>4. CASE backlog # <<>> /\ backlog' = Tail(backlog)
  <2>1. Len(backlog') = Len(backlog) - 1 /\ \A i \in 1..(Len(backlog) - 1) : backlog'[i] = backlog[i + 1]
    BY <1>4, SeqTypes
  <2>2. \A i \in 1..Len(backlog') : i + 1 \in 1..Len(backlog)
    BY <1>1, <2>1
  <2>3. \A i \in 1..Len(backlog') : ~Open(<<backlog'[i], "src">>)
    <3>. SUFFICES ASSUME NEW i \in 1..Len(backlog') PROVE ~Open(<<backlog'[i], "src">>)
      OBVIOUS
    <3>1. i + 1 \in 1..Len(backlog) /\ backlog'[i] = backlog[i + 1]
      BY <1>1, <2>1, <2>2
    <3>2. <<backlog[i + 1], "src">> \in End /\ ~IsOpen(<<backlog[i + 1], "src">>)
      BY <1>1, <1>2, <3>1 DEF Sound, WaitOnce
    <3>. QED
      BY <3>1, <3>2 DEF IsOpen
  <2>4. ASSUME NEW i \in 1..Len(backlog'), NEW j \in 1..Len(backlog'), backlog'[i] = backlog'[j]
        PROVE  i = j
    <3>1. backlog[i + 1] = backlog[j + 1]
      BY <2>1, <2>4
    <3>2. i + 1 = j + 1
      BY <2>2, <3>1 DEF Sound, WaitOnce
    <3>. QED
      BY <1>1, <2>1, <3>2
  <2>. QED
    BY <2>3, <2>4 DEF WaitOnce, IsOpen
<1>5. ASSUME NEW c \in Chan, backlog' = Append(backlog, c), c \notin ToSet(backlog), ~IsOpen(<<c, "src">>)
      PROVE  WaitOnce'
  <2>1. /\ Len(backlog') = Len(backlog) + 1 /\ backlog'[Len(backlog) + 1] = c
        /\ \A i \in 1..Len(backlog) : backlog'[i] = backlog[i]
    BY <1>5, SeqTypes
  <2>2. \A i \in 1..Len(backlog) : backlog[i] # c
    BY <1>5, SeqTypes DEF ToSet
  <2>3. \A i \in 1..Len(backlog') : i \in 1..Len(backlog) \/ i = Len(backlog) + 1
    BY <1>1, <2>1
  <2>4. \A i \in 1..Len(backlog') : ~Open(<<backlog'[i], "src">>)
    <3>. SUFFICES ASSUME NEW i \in 1..Len(backlog') PROVE ~Open(<<backlog'[i], "src">>)
      OBVIOUS
    <3>1. <<backlog'[i], "src">> \in End /\ ~IsOpen(<<backlog'[i], "src">>)
      <4>1. CASE i \in 1..Len(backlog)
        BY <1>1, <1>2, <2>1, <4>1 DEF Sound, WaitOnce
      <4>2. CASE i = Len(backlog) + 1
        BY <1>2, <1>5, <2>1, <4>2
      <4>. QED
        BY <2>3, <4>1, <4>2
    <3>. DEFINE b == backlog'[i]
    <3>. HIDE DEF b
    <3>. QED
      BY <3>1 DEF IsOpen, b
  <2>5. \A i, j \in 1..Len(backlog') : backlog'[i] = backlog'[j] => i = j
    BY <2>1, <2>2, <2>3 DEF Sound, WaitOnce
  <2>. QED
    BY <2>4, <2>5 DEF WaitOnce, IsOpen
<1>. QED
  BY <1>3, <1>4, <1>5

LEMMA RestartStreams ==
  ASSUME TypeOK, Sound, Restart
  PROVE  ClosedEmpty' /\ WaitOnce' /\ OneFD' /\ Flows' /\ Received'
<1>. DEFINE E == {own[f] : f \in Watched} \cup ToSet(backlog) \X {"src"}
<1>1. \A f \in FD : own'[f] \notin End
  BY Marks DEF Restart, StartOwn
<1>2. /\ hup' = hup \ E
      /\ \A e \in End : /\ e \in E => inq'[e] = <<>> /\ got'[e] = <<>> /\ sent'[e] = 0
                        /\ e \notin E => inq'[e] = inq[e] /\ got'[e] = got[e] /\ sent'[e] = sent[e]
  BY DEF Restart, Shut
<1>3. \A e \in End : IsOpen(e) => e \in E
  BY DEF IsOpen, Watched
<1>4. ClosedEmpty'
  BY <1>2, <1>3 DEF Sound, ClosedEmpty
<1>5. WaitOnce' /\ OneFD' /\ Flows'
  <2>1. backlog' = <<>>
    BY DEF Restart
  <2>. QED
    BY <1>1, <2>1 DEF WaitOnce, OneFD, Flows
<1>6. Received'
  <2>1. tainted' = tainted
    BY DEF Restart, hist
  <2>. QED
    BY <1>2, <2>1, NoRun DEF Sound, Received
<1>. QED
  BY <1>4, <1>5, <1>6

LEMMA StreamsStep ==
  ASSUME TypeOK, TypeOK', Called, Paired, Streams, [Next]_vars
  PROVE  Streams'
<1>. SUFFICES ASSUME ~zeroUsed' PROVE ClosedEmpty' /\ WaitOnce' /\ OneFD' /\ Flows' /\ Received'
  BY DEF Streams
<1>. DEFINE Goal == ClosedEmpty' /\ WaitOnce' /\ OneFD' /\ Flows' /\ Received'
<1>1. zeroUsed' = zeroUsed \/ AcceptClient
  BY DEF Next, Loop, EpollWait, RefuseClient, BlockInRecv, Disconnect, Transfer, Restart, Connect,
         PeerSends, PeerHangsUp, vars, hist
<1>2. Sound
  <2>1. AcceptClient => (zeroUsed => zeroUsed')
    BY DEF AcceptClient
  <2>2. ~zeroUsed
    BY <1>1, <2>1
  <2>. QED
    BY <2>2 DEF Streams, Sound
<1>3. CASE AcceptClient
  <2>1. backlog # <<>>
    BY <1>3 DEF AcceptClient, TakeClient, Called
  <2>. QED
    BY <1>2, <1>3, <2>1, AcceptStreams
<1>4. CASE RefuseClient
  <2>1. PICK dst \in 0..MAXSOCK : \E src \in 0..MAXSOCK :
          /\ IsLowestFree(dst, {src})
          /\ own' \in {own, [f \in FD |-> IF f = dst THEN Leaked ELSE own[f]]}
    BY <1>4 DEF RefuseClient
  <2>2. dst \in FD => own[dst] = Free
    BY <2>1 DEF IsLowestFree, FD
  <2>3. \A f \in FD : own'[f] = own[f] \/ (own[f] \notin End /\ own'[f] \notin End)
    BY <2>1, <2>2, Marks
  <2>4. /\ UNCHANGED <<clientbuffer, inq, got, sent, hup, tainted>>
        /\ backlog' = Tail(backlog) /\ backlog # <<>>
    BY <1>4 DEF RefuseClient, TakeClient, Called, arrays, peers, hist
  <2>. QED
    BY <1>2, <2>3, <2>4, QuietStreams, QueueStreams
<1>5. ASSUME NEW ev \in evs, Disconnect(ev) PROVE Goal
  <2>1. ev.fd \in FD /\ CloseChannel(ev.fd) /\ UNCHANGED <<clientbuffer, backlog, hist>>
    BY <1>5 DEF Disconnect, Visits, TypeOK, Event
  <2>. QED
    BY <1>2, <2>1, CloseStreams
<1>6. ASSUME NEW ev \in evs, Transfer(ev) PROVE Goal
  BY <1>2, <1>6, TransferStreams
<1>7. CASE Restart
  BY <1>2, <1>7, RestartStreams
<1>8. ASSUME NEW c \in Chan, Connect(c) PROVE Goal
  <2>1. /\ UNCHANGED <<own, clientbuffer, inq, got, sent, hup, tainted>>
        /\ backlog' = Append(backlog, c) /\ c \notin ToSet(backlog) /\ ~IsOpen(<<c, "src">>)
    BY <1>8 DEF Connect, arrays, peers, hist
  <2>. QED
    BY <1>2, <2>1, QuietStreams, QueueStreams
<1>9. ASSUME NEW e \in End, PeerSends(e) PROVE Goal
  BY <1>2, <1>9, SendStreams
<1>10. ASSUME NEW e \in End, PeerHangsUp(e) PROVE Goal
  <2>1. /\ UNCHANGED <<own, clientbuffer, inq, got, sent, tainted, backlog>>
        /\ hup' = hup \cup {e} /\ IsOpen(e)
    BY <1>10 DEF PeerHangsUp, arrays, hist
  <2>. QED
    BY <1>2, <2>1, QuietStreams, QueueStreams
<1>11. CASE EpollWait \/ (\E ev \in evs : BlockInRecv(ev)) \/ UNCHANGED vars
  <2>1. UNCHANGED <<own, clientbuffer, inq, got, sent, hup, tainted, backlog>>
    BY <1>11 DEF EpollWait, BlockInRecv, vars, arrays, peers, hist
  <2>. QED
    BY <1>2, <2>1, QuietStreams, QueueStreams
<1>. QED
  BY <1>3, <1>4, <1>5, <1>6, <1>7, <1>8, <1>9, <1>10, <1>11 DEF Next, Loop

-----------------------------------------------------------------------------
(* The results.                                                            *)

(* Every number the program uses as an index stays inside its arrays, and  *)
(* every variable keeps its type (正向代理.cpp, the test against MAXSOCK). *)
THEOREM TypeCorrect == Spec => []TypeOK
<1>1. Inv /\ [Next]_vars => Inv'
  BY TypesStep, PairsStep DEF Inv, Paired
<1>2. Inv => TypeOK
  BY DEF Inv
<1>. QED
  BY <1>1, <1>2, InitInv, PTL DEF Spec

(* However many channels there are, the two entries of clientsocks name    *)
(* each other as long as both ends are open, whatever is closed and in     *)
(* whatever order the numbers are handed out again.                        *)
THEOREM PairsSymmetricCorrect == Spec => []PairsSymmetric
<1>1. Inv /\ [Next]_vars => Inv'
  BY TypesStep, PairsStep DEF Inv, Paired
<1>2. Inv => PairsSymmetric
  BY DEF Inv
<1>. QED
  BY <1>1, <1>2, InitInv, PTL DEF Spec

LEMMA InitStreams == Init => Streams
<1>. SUFFICES ASSUME Init PROVE Streams
  OBVIOUS
<1>1. \A f \in FD : own[f] \notin End
  BY Marks DEF Init, StartOwn
<1>2. backlog = <<>> /\ hup = {} /\ \A e \in End : got[e] = <<>> /\ inq[e] = <<>> /\ sent[e] = 0
  BY DEF Init
<1>3. WaitOnce
  BY <1>2 DEF WaitOnce
<1>4. ClosedEmpty /\ OneFD /\ Flows /\ Received
  BY <1>1, <1>2, NoRun DEF ClosedEmpty, OneFD, Flows, Received
<1>. QED
  BY <1>3, <1>4 DEF Streams

LEMMA StreamsBytes == TypeOK /\ Streams => NoForeignBytes
<1>. SUFFICES ASSUME TypeOK, Received, NEW e \in End \ tainted, NEW i \in 1..Len(got[e])
              PROVE  got[e][i] = [from |-> Other(e), n |-> i]
  BY DEF Streams, NoForeignBytes
<1>1. got[e][i] = [from |-> Other(e), n |-> 0 + i]
  BY DEF Received, Run
<1>2. 0 + i = i
  OBVIOUS
<1>. QED
  BY <1>1, <1>2

(* No peer ever receives another channel's bytes, nor its own channel's    *)
(* out of order or with a gap, except through a buffer left behind by the  *)
(* previous user of its descriptor's number.                               *)
THEOREM NoForeignBytesCorrect == Spec => []NoForeignBytes
<1>. DEFINE All == Inv /\ Streams
<1>1. Init => All
  BY InitInv, InitStreams
<1>2. All /\ [Next]_vars => All'
  <2>1. Inv /\ [Next]_vars => Inv'
    BY TypesStep, PairsStep DEF Inv, Paired
  <2>2. Inv /\ Inv' /\ Streams /\ [Next]_vars => Streams'
    BY StreamsStep DEF Inv, Paired
  <2>. QED
    BY <2>1, <2>2
<1>3. All => NoForeignBytes
  BY StreamsBytes DEF Inv
<1>. QED
  BY <1>1, <1>2, <1>3, PTL DEF Spec

-----------------------------------------------------------------------------
(* The reverse proxy.                                                      *)

USE ProxyAssumption

-----------------------------------------------------------------------------
(* The shape of the state: RPTypeOK in parts, with what keeps it.          *)

Distinct == /\ \A c, d \in Relayed : pair[c] = pair[d] => c = d
            /\ \A c \in Relayed : pair[c] # cmdconnsock
            /\ \A c \in Relayed : c # srcsock
            /\ \A c \in Client : c \in Relayed \/ c = srcsock => client[c] \notin {"away", "waiting"}

Ends == /\ inner = "down" <=> cmdlink = Nil
        /\ inner = "down" => iend = {}
        /\ cmdlink # Nil => dstsock[cmdlink] = Nil
        /\ outer = "down" => queue = <<>> /\ \A l \in Link : oend[l] = "closed"

OutsideTypes ==
  /\ outer \in {"down", "start", "loop", "accept"}
  /\ cmdconnsock \in Link \cup {Nil}
  /\ cmdconnsock # Nil <=> outer \in {"loop", "accept"}
  /\ srcsock \in Client \cup {Nil}
  /\ srcsock # Nil <=> outer = "accept"
  /\ pair \in [Client -> Link \cup {Nil}]
  /\ reset \in {"no", "coming", "here"}
  /\ client \in [Client -> {"away", "waiting", "open", "talking", "left"}]
  /\ mishaps \in 0..MaxMishaps
  /\ surplus \in BOOLEAN

InsideTypes ==
  /\ inner \in {"down", "loop"} /\ cmdlink \in iend \cup {Nil}
  /\ dstsock \in [Link -> Range(Target) \cup {Nil}]
  /\ iend \subseteq Link
  /\ up \in [Link -> Seq({"beat", "bytes"} \cup Range(Target))]
  /\ \A l \in Link \ iend : up[l] = <<>> /\ dstsock[l] = Nil

Queued ==
  /\ queue \in Seq(Link)
  /\ \A i, j \in 1..Len(queue) : queue[i] = queue[j] => i = j
  /\ oend \in [Link -> {"queued", "open", "closed"}]
  /\ \A i \in 1..Len(queue) : oend[queue[i]] = "queued"
  /\ \A l \in Link : oend[l] = "queued" => \E i \in 1..Len(queue) : queue[i] = l

Opened ==
  /\ \A l \in Link : oend[l] = "open" => l = cmdconnsock \/ \E c \in Relayed : pair[c] = l
  /\ cmdconnsock # Nil => oend[cmdconnsock] = "open"
  /\ \A c \in Relayed : oend[pair[c]] = "open"

Shape == OutsideTypes /\ InsideTypes /\ Queued /\ Opened /\ Distinct /\ Ends

(* Nil is no link, client or target.                                       *)
LEMMA NilApart == Nil \notin Link /\ Nil \notin Client /\ Nil \notin Range(Target)
  BY DEF ProxyAssumption

(* Shape says what RPTypeOK says, element by element.                      *)
LEMMA ShapeTypes == Shape => RPTypeOK
<1>. SUFFICES ASSUME Shape PROVE RPTypeOK
  OBVIOUS
<1>1. IsInjective(queue)
  BY DEF Shape, Queued, IsInjective
<1>2. Range(queue) = {l \in Link : oend[l] = "queued"}
  <2>1. DOMAIN queue = 1..Len(queue) /\ \A i \in 1..Len(queue) : queue[i] \in Link
    BY DEF Shape, Queued
  <2>2. Range(queue) = {queue[i] : i \in 1..Len(queue)}
    BY <2>1 DEF Range
  <2>. QED
    BY <2>1, <2>2 DEF Shape, Queued
<1>3. {l \in Link : oend[l] = "open"} = (Range(pair) \cup {cmdconnsock}) \ {Nil}
  <2>1. Range(pair) \ {Nil} = {pair[c] : c \in Relayed} /\ \A c \in Relayed : pair[c] \in Link
    BY DEF Shape, OutsideTypes, Range, Relayed
  <2>2. ASSUME NEW l \in Link, oend[l] = "open"
        PROVE  l \in (Range(pair) \cup {cmdconnsock}) \ {Nil}
    BY <2>1, <2>2, NilApart DEF Shape, Opened
  <2>3. ASSUME NEW l \in (Range(pair) \cup {cmdconnsock}) \ {Nil}
        PROVE  l \in Link /\ oend[l] = "open"
    BY <2>1, <2>3 DEF Shape, OutsideTypes, Opened
  <2>. QED
    BY <2>2, <2>3
<1>. QED
  BY <1>1, <1>2, <1>3 DEF Shape, RPTypeOK, OutsideTypes, InsideTypes, Queued

(* Before either program runs the state is well formed.                    *)
LEMMA InitShape == RPInit => Shape
<1>. SUFFICES ASSUME RPInit PROVE Shape
  OBVIOUS
<1>1. OutsideTypes
  <2>1. reset \in {"no", "coming", "here"} /\ mishaps \in 0..MaxMishaps
    BY DEF RPInit, ProxyAssumption
  <2>3. surplus \in BOOLEAN
    BY Zenon DEF RPInit
  <2>2. /\ outer = "down" /\ cmdconnsock = Nil /\ srcsock = Nil
        /\ pair \in [Client -> Link \cup {Nil}]
        /\ client \in [Client -> {"away", "waiting", "open", "talking", "left"}]
    BY DEF RPInit
  <2>. QED
    BY <2>1, <2>2, <2>3 DEF OutsideTypes
<1>3. InsideTypes
  BY NilApart DEF RPInit, InsideTypes
<1>4. Queued
  BY DEF RPInit, Queued
<1>2. Opened /\ Distinct /\ Ends
  BY NilApart DEF RPInit, Opened, Distinct, Ends, Relayed
<1>. QED
  BY <1>1, <1>2, <1>3, <1>4 DEF Shape

-----------------------------------------------------------------------------
(* What the actions are made of.                                           *)

LEMMA NewLinkFacts ==
  ASSUME Unused # {}
  PROVE  NewLink \in Link /\ NewLink \notin iend /\ oend[NewLink] = "closed"
<1>. QED
  BY DEF NewLink, Unused

(* The first connection of the queue is taken.                             *)
LEMMA TakeFacts ==
  ASSUME Shape, queue # <<>>, queue' = Tail(queue),
         oend' = [oend EXCEPT ![Head(queue)] = "open"]
  PROVE  /\ Head(queue) \in Link /\ oend[Head(queue)] = "queued"
         /\ Head(queue) # cmdconnsock /\ \A c \in Relayed : pair[c] # Head(queue)
         /\ Queued'
         /\ \A l \in Link : oend'[l] = IF l = Head(queue) THEN "open" ELSE oend[l]
<1>1. Head(queue) = queue[1] /\ 1 \in 1..Len(queue) /\ Head(queue) \in Link
  BY DEF Shape, Queued
<1>2. oend[Head(queue)] = "queued"
  BY <1>1 DEF Shape, Queued
<1>3. Head(queue) # cmdconnsock /\ \A c \in Relayed : pair[c] # Head(queue)
  BY <1>1, <1>2, NilApart DEF Shape, Opened
<1>4. /\ queue' \in Seq(Link) /\ Len(queue') = Len(queue) - 1 /\ Len(queue) \in Nat
      /\ \A i \in 1..Len(queue') : queue'[i] = queue[i + 1] /\ i + 1 \in 1..Len(queue)
  BY DEF Shape, Queued
<1>5. oend' \in [Link -> {"queued", "open", "closed"}]
      /\ \A l \in Link : oend'[l] = IF l = Head(queue) THEN "open" ELSE oend[l]
  BY <1>1 DEF Shape, Queued
<1>6. \A i, j \in 1..Len(queue') : queue'[i] = queue'[j] => i = j
  <2>. SUFFICES ASSUME NEW i \in 1..Len(queue'), NEW j \in 1..Len(queue'), queue'[i] = queue'[j]
                PROVE  i = j
    OBVIOUS
  <2>1. i + 1 = j + 1
    BY <1>4 DEF Shape, Queued
  <2>. QED
    BY <2>1, <1>4
<1>7. \A i \in 1..Len(queue') : oend'[queue'[i]] = "queued"
  <2>. SUFFICES ASSUME NEW i \in 1..Len(queue') PROVE oend'[queue'[i]] = "queued"
    OBVIOUS
  <2>1. queue'[i] = queue[i + 1] /\ i + 1 \in 1..Len(queue) /\ i + 1 # 1
    BY <1>4
  <2>2. queue[i + 1] # Head(queue) /\ queue[i + 1] \in Link /\ oend[queue[i + 1]] = "queued"
    BY <2>1, <1>1 DEF Shape, Queued
  <2>. QED
    BY <2>1, <2>2, <1>5
<1>8. \A l \in Link : oend'[l] = "queued" => \E i \in 1..Len(queue') : queue'[i] = l
  <2>. SUFFICES ASSUME NEW l \in Link, oend'[l] = "queued"
                PROVE  \E i \in 1..Len(queue') : queue'[i] = l
    OBVIOUS
  <2>1. l # Head(queue) /\ oend[l] = "queued"
    BY <1>5
  <2>2. PICK i \in 1..Len(queue) : queue[i] = l
    BY <2>1 DEF Shape, Queued
  <2>3. i - 1 \in 1..Len(queue')
    BY <2>1, <2>2, <1>1, <1>4
  <2>4. queue'[i - 1] = queue[(i - 1) + 1] /\ (i - 1) + 1 = i
    BY <2>3, <1>4
  <2>. QED
    BY <2>2, <2>3, <2>4
<1>. QED
  BY <1>1, <1>2, <1>3, <1>4, <1>5, <1>6, <1>7, <1>8 DEF Queued

(* A new connection joins the queue when rinetd listens.                   *)
LEMMA ConnectFacts ==
  ASSUME Shape, NEW n \in Link, oend[n] = "closed", ConnectOut(n)
  PROVE  /\ Queued'
         /\ \A l \in Link : oend'[l] = IF l = n /\ outer # "down" THEN "queued" ELSE oend[l]
<1>1. CASE outer = "down"
  BY <1>1 DEF ConnectOut, Shape, Queued
<1>2. CASE outer # "down"
  <2>1. queue' = Append(queue, n) /\ oend' = [oend EXCEPT ![n] = "queued"]
    BY <1>2 DEF ConnectOut
  <2>2. /\ queue' \in Seq(Link) /\ Len(queue') = Len(queue) + 1 /\ Len(queue) \in Nat
        /\ \A i \in 1..Len(queue) : queue'[i] = queue[i]
        /\ queue'[Len(queue) + 1] = n
    BY <2>1 DEF Shape, Queued
  <2>3. \A i \in 1..Len(queue) : queue[i] # n /\ queue[i] \in Link /\ oend[queue[i]] = "queued"
    BY DEF Shape, Queued
  <2>4. \A i \in 1..Len(queue') : i \in 1..Len(queue) \/ i = Len(queue) + 1
    BY <2>2
  <2>5. oend' \in [Link -> {"queued", "open", "closed"}]
        /\ \A l \in Link : oend'[l] = IF l = n THEN "queued" ELSE oend[l]
    BY <2>1 DEF Shape, Queued
  <2>6. \A i, j \in 1..Len(queue') : queue'[i] = queue'[j] => i = j
    BY <2>2, <2>3, <2>4 DEF Shape, Queued
  <2>7. \A i \in 1..Len(queue') : oend'[queue'[i]] = "queued"
    BY <2>2, <2>3, <2>4, <2>5
  <2>8. \A l \in Link : oend'[l] = "queued" => \E i \in 1..Len(queue') : queue'[i] = l
    <3>. SUFFICES ASSUME NEW l \in Link, oend'[l] = "queued"
                  PROVE  \E i \in 1..Len(queue') : queue'[i] = l
      OBVIOUS
    <3>1. CASE l = n
      BY <3>1, <2>2
    <3>2. CASE l # n
      <4>1. PICK i \in 1..Len(queue) : queue[i] = l
        BY <3>2, <2>5 DEF Shape, Queued
      <4>. QED
        BY <4>1, <2>2
    <3>. QED
      BY <3>1, <3>2
  <2>. QED
    BY <1>2, <2>2, <2>5, <2>6, <2>7, <2>8 DEF Queued
<1>. QED
  BY <1>1, <1>2
-----------------------------------------------------------------------------
(* Every action keeps the shape of the state.                              *)

LEMMA ClientShape ==
  ASSUME Shape, NEW c \in Client, ClientConnects(c) \/ ClientSends(c) \/ ClientLeaves(c)
  PROVE  Shape'
<1>1. UNCHANGED <<outside, inside, net, reset, mishaps, surplus>>
  BY DEF ClientConnects, ClientSends, ClientLeaves
<1>6. /\ \A d \in Client \ {c} : client'[d] = client[d]
      /\ c \in Relayed \/ c = srcsock => client'[c] \notin {"away", "waiting"}
  BY DEF Shape, OutsideTypes, Distinct, ClientConnects, ClientSends, ClientLeaves
<1>2. client' \in [Client -> {"away", "waiting", "open", "talking", "left"}]
  BY DEF Shape, OutsideTypes, ClientConnects, ClientSends, ClientLeaves
<1>3. OutsideTypes'
  BY <1>1, <1>2 DEF Shape, OutsideTypes, outside
<1>4. InsideTypes' /\ Queued'
  BY <1>1 DEF Shape, InsideTypes, Queued, inside, net
<1>5. Opened' /\ Ends'
  BY <1>1 DEF Shape, Opened, Ends, Relayed, outside, inside, net
<1>7. Distinct'
  BY <1>1, <1>6 DEF Shape, Distinct, Relayed, outside
<1>. QED
  BY <1>3, <1>4, <1>5, <1>7 DEF Shape

(* The arrival of a reset, and a restart of rinetd.                        *)
LEMMA ResetShape ==
  ASSUME Shape, ResetArrives \/ OuterStart \/ UNCHANGED RPvars
  PROVE  Shape'
<1>1. UNCHANGED <<cmdconnsock, srcsock, pair, inside, net, client, surplus>>
  BY DEF ResetArrives, OuterStart, outside, RPvars
<1>2. /\ outer' = outer \/ (outer = "down" /\ outer' = "start")
      /\ reset' \in {"no", "coming", "here"} /\ mishaps' \in 0..MaxMishaps
  BY DEF Shape, OutsideTypes, ResetArrives, OuterStart, Mishap, RPvars, outside, ProxyAssumption
<1>3. OutsideTypes'
  BY <1>1, <1>2 DEF Shape, OutsideTypes
<1>4. InsideTypes' /\ Queued'
  BY <1>1 DEF Shape, InsideTypes, Queued, inside, net
<1>5. Opened' /\ Distinct' /\ Ends'
  BY <1>1, <1>2 DEF Shape, Opened, Distinct, Ends, Relayed, inside, net
<1>. QED
  BY <1>3, <1>4, <1>5 DEF Shape

(* rinetd ends, with everything that it had.                               *)
LEMMA OuterExitShape ==
  ASSUME Shape, OuterExit, mishaps' \in 0..MaxMishaps, UNCHANGED surplus
  PROVE  Shape'
<1>1. OutsideTypes'
  BY DEF Shape, OutsideTypes, OuterExit
<1>2. InsideTypes'
  BY DEF Shape, InsideTypes, OuterExit, inside
<1>3. Queued'
  BY DEF Shape, Queued, OuterExit
<1>4. Opened' /\ Distinct' /\ Ends'
  BY DEF Shape, Opened, Distinct, Ends, Relayed, OuterExit, inside
<1>. QED
  BY <1>1, <1>2, <1>3, <1>4 DEF Shape

(* send() on the command channel adds m, if it is received at all.         *)
LEMMA CommandShape ==
  ASSUME Shape, outer = "loop", NEW m \in {"beat", "bytes"} \cup Range(Target), SendCommand(m),
         UNCHANGED inside, iend' = iend
  PROVE  /\ InsideTypes' /\ reset' \in {"no", "coming", "here"}
         /\ \A l \in Link : up'[l] = IF l = cmdconnsock /\ l \in iend THEN Append(up[l], m) ELSE up[l]
<1>1. cmdconnsock \in Link
  BY DEF Shape, OutsideTypes
<1>4. /\ up' \in [Link -> Seq({"beat", "bytes"} \cup Range(Target))]
      /\ \A l \in Link : up'[l] = IF l = cmdconnsock /\ l \in iend THEN Append(up[l], m) ELSE up[l]
  <2>1. CASE cmdconnsock \in iend
    <3>1. up' = [up EXCEPT ![cmdconnsock] = Append(@, m)]
      BY <2>1 DEF SendCommand
    <3>2. Append(up[cmdconnsock], m) \in Seq({"beat", "bytes"} \cup Range(Target))
      BY <1>1 DEF Shape, InsideTypes
    <3>. QED
      BY <2>1, <3>1, <3>2, <1>1 DEF Shape, InsideTypes
  <2>2. CASE cmdconnsock \notin iend
    BY <2>2 DEF SendCommand, Shape, InsideTypes
  <2>. QED
    BY <2>1, <2>2
<1>2. InsideTypes'
  BY <1>4 DEF Shape, InsideTypes, inside
<1>3. reset' \in {"no", "coming", "here"}
  BY DEF Shape, OutsideTypes, SendCommand
<1>. QED
  BY <1>2, <1>3, <1>4

(* rinetd closes the channels of C.                                        *)
LEMMA CloseOutsideShape ==
  ASSUME Shape, outer = "loop", NEW C \in SUBSET Relayed, CloseOutside(C),
         UNCHANGED <<outer, cmdconnsock, srcsock, inside, queue, iend, surplus>>
  PROVE  /\ Queued' /\ Opened' /\ Distinct' /\ Ends'
         /\ pair' \in [Client -> Link \cup {Nil}]
         /\ client' \in [Client -> {"away", "waiting", "open", "talking", "left"}]
         /\ \A l \in Link : oend'[l] = IF \E c \in C : pair[c] = l THEN "closed" ELSE oend[l]
<1>1. /\ pair' \in [Client -> Link \cup {Nil}]
      /\ client' \in [Client -> {"away", "waiting", "open", "talking", "left"}]
      /\ \A c \in Client : pair'[c] = IF c \in C THEN Nil ELSE pair[c]
      /\ \A c \in Client \ C : client'[c] = client[c]
  BY DEF Shape, OutsideTypes, CloseOutside
<1>2. /\ oend' \in [Link -> {"queued", "open", "closed"}]
      /\ \A l \in Link : oend'[l] = IF \E c \in C : pair[c] = l THEN "closed" ELSE oend[l]
  BY DEF Shape, Queued, CloseOutside
<1>3. \A c \in Relayed : c \in Client /\ pair[c] \in Link /\ oend[pair[c]] = "open"
  BY DEF Shape, OutsideTypes, Opened, Relayed
<1>4. Queued'
  <2>1. \A i \in 1..Len(queue) : queue[i] \in Link /\ oend[queue[i]] = "queued" /\ oend'[queue[i]] = "queued"
    BY <1>2, <1>3 DEF Shape, Queued
  <2>2. \A l \in Link : oend'[l] = "queued" => oend[l] = "queued"
    BY <1>2
  <2>. QED
    BY <1>2, <2>1, <2>2 DEF Shape, Queued
<1>5. Distinct' /\ Ends'
  BY <1>1, NilApart DEF Shape, Distinct, Ends, Relayed, OutsideTypes, inside
<1>6. Opened'
  <2>1. \A c \in Relayed' : c \in Relayed /\ c \notin C /\ pair'[c] = pair[c]
    BY <1>1 DEF Relayed
  <2>2. \A c \in Relayed' : oend'[pair'[c]] = "open"
    BY <2>1, <1>2, <1>3 DEF Shape, Distinct
  <2>3. cmdconnsock # Nil => oend'[cmdconnsock] = "open"
    BY <1>2 DEF Shape, Distinct, Opened, OutsideTypes
  <2>4. \A l \in Link : oend'[l] = "open" => l = cmdconnsock \/ \E c \in Relayed' : pair'[c] = l
    BY <1>1, <1>2 DEF Shape, Opened, Relayed
  <2>. QED
    BY <2>2, <2>3, <2>4 DEF Opened
<1>. QED
  BY <1>1, <1>2, <1>4, <1>5, <1>6

(* The head of the queue becomes the command channel.                      *)
LEMMA ChannelShape == ASSUME Shape, OuterTakesCommandChannel PROVE Shape'
<1>1. /\ outer = "start" /\ queue # <<>> /\ outer' = "loop" /\ cmdconnsock' = Head(queue)
      /\ queue' = Tail(queue) /\ oend' = [oend EXCEPT ![Head(queue)] = "open"]
      /\ UNCHANGED <<srcsock, pair, inside, iend, up, reset, client, mishaps, surplus>>
  BY DEF OuterTakesCommandChannel
<1>2. /\ Head(queue) \in Link /\ oend[Head(queue)] = "queued"
      /\ Head(queue) # cmdconnsock /\ \A c \in Relayed : pair[c] # Head(queue)
      /\ Queued'
      /\ \A l \in Link : oend'[l] = IF l = Head(queue) THEN "open" ELSE oend[l]
  BY <1>1, TakeFacts
<1>3. OutsideTypes'
  BY <1>1, <1>2, NilApart DEF Shape, OutsideTypes
<1>4. InsideTypes'
  BY <1>1 DEF Shape, InsideTypes, inside
<1>5. cmdconnsock = Nil /\ \A c \in Relayed : c \in Client /\ pair[c] \in Link
  BY <1>1 DEF Shape, OutsideTypes, Relayed
<1>6. Opened'
  BY <1>1, <1>2, <1>5 DEF Shape, Opened, Relayed
<1>7. Distinct' /\ Ends'
  BY <1>1, <1>2 DEF Shape, Distinct, Ends, Relayed, inside
<1>. QED
  BY <1>2, <1>3, <1>4, <1>6, <1>7 DEF Shape

(* The head of the queue becomes the waiting client's link.                *)
LEMMA PairShape == ASSUME Shape, OuterPair PROVE Shape'
<1>1. /\ outer = "accept" /\ queue # <<>> /\ outer' = "loop" /\ srcsock' = Nil
      /\ pair' = [pair EXCEPT ![srcsock] = Head(queue)]
      /\ queue' = Tail(queue) /\ oend' = [oend EXCEPT ![Head(queue)] = "open"]
      /\ UNCHANGED <<cmdconnsock, inside, iend, up, reset, client, mishaps, surplus>>
  BY DEF OuterPair
<1>2. /\ Head(queue) \in Link /\ oend[Head(queue)] = "queued"
      /\ Head(queue) # cmdconnsock /\ \A c \in Relayed : pair[c] # Head(queue)
      /\ Queued'
      /\ \A l \in Link : oend'[l] = IF l = Head(queue) THEN "open" ELSE oend[l]
  BY <1>1, TakeFacts
<1>3. srcsock \in Client /\ cmdconnsock \in Link
  BY <1>1 DEF Shape, OutsideTypes
<1>4. /\ pair' \in [Client -> Link \cup {Nil}]
      /\ \A c \in Client : pair'[c] = IF c = srcsock THEN Head(queue) ELSE pair[c]
  BY <1>1, <1>2, <1>3 DEF Shape, OutsideTypes
<1>5. OutsideTypes'
  BY <1>1, <1>4 DEF Shape, OutsideTypes
<1>6. InsideTypes'
  BY <1>1 DEF Shape, InsideTypes, inside
<1>7. /\ \A c \in Relayed' : c \in Client /\ (c = srcsock \/ c \in Relayed)
      /\ \A c \in Relayed : c \in Client /\ pair[c] \in Link
  BY <1>4 DEF Shape, OutsideTypes, Relayed
<1>8. Distinct'
  <2>1. \A c, d \in Relayed' : pair'[c] = pair'[d] => c = d
    BY <1>2, <1>4, <1>7 DEF Shape, Distinct
  <2>2. \A c \in Relayed' : pair'[c] # cmdconnsock
    BY <1>2, <1>4, <1>7 DEF Shape, Distinct
  <2>3. \A c \in Relayed' : client[c] \notin {"away", "waiting"} /\ c # Nil
    BY <1>3, <1>7, NilApart DEF Shape, Distinct
  <2>4. \A c \in Client : c # Nil
    BY NilApart
  <2>. QED
    BY <2>1, <2>2, <2>3, <2>4, <1>1 DEF Distinct
<1>9. Opened'
  <2>1. \A c \in Relayed' : oend'[pair'[c]] = "open"
    BY <1>2, <1>4, <1>7 DEF Shape, Opened
  <2>2. oend'[cmdconnsock] = "open"
    BY <1>2, <1>3, NilApart DEF Shape, Opened
  <2>3. \A l \in Link : oend'[l] = "open" => l = cmdconnsock \/ \E c \in Relayed' : pair'[c] = l
    <3>. SUFFICES ASSUME NEW l \in Link, oend'[l] = "open", l # cmdconnsock
                  PROVE  \E c \in Relayed' : pair'[c] = l
      OBVIOUS
    <3>1. CASE l = Head(queue)
      BY <3>1, <1>2, <1>3, <1>4, NilApart DEF Relayed
    <3>2. CASE l # Head(queue)
      <4>1. PICK c \in Relayed : pair[c] = l
        BY <3>2, <1>2 DEF Shape, Opened
      <4>2. c # srcsock => pair'[c] = l /\ c \in Relayed'
        BY <4>1, <1>4, <1>7, NilApart DEF Relayed
      <4>3. c # srcsock
        BY <4>1 DEF Shape, Distinct
      <4>. QED
        BY <4>2, <4>3
    <3>. QED
      BY <3>1, <3>2
  <2>. QED
    BY <2>1, <2>2, <2>3, <1>1 DEF Opened
<1>10. Ends'
  BY <1>1 DEF Shape, Ends, inside
<1>. QED
  BY <1>2, <1>5, <1>6, <1>8, <1>9, <1>10 DEF Shape

(* The heartbeat and the idle channels of rinetd.                          *)
LEMMA TimerShape == ASSUME Shape, OuterTimer PROVE Shape'
<1>. PICK idle \in SUBSET Relayed : CloseOutside(idle)
  BY DEF OuterTimer
<1>1. /\ outer = "loop" /\ SendCommand("beat")
      /\ UNCHANGED <<outer, cmdconnsock, srcsock, inside, queue, iend, surplus>>
  BY DEF OuterTimer
<1>2. mishaps' \in 0..MaxMishaps
  BY DEF OuterTimer, Mishap, Shape, OutsideTypes, ProxyAssumption
<1>3. InsideTypes' /\ reset' \in {"no", "coming", "here"}
  BY <1>1, CommandShape
<1>4. /\ Queued' /\ Opened' /\ Distinct' /\ Ends'
      /\ pair' \in [Client -> Link \cup {Nil}]
      /\ client' \in [Client -> {"away", "waiting", "open", "talking", "left"}]
  BY <1>1, CloseOutsideShape
<1>. QED
  BY <1>1, <1>2, <1>3, <1>4 DEF Shape, OutsideTypes

(* A client is accepted and its command sent.                              *)
LEMMA AcceptShape == ASSUME Shape, NEW c \in Client, OuterAccept(c) PROVE Shape'
<1>1. /\ outer = "loop" /\ client[c] = "waiting" /\ SendCommand(Target[c])
      /\ outer' = "accept" /\ srcsock' = c /\ client' = [client EXCEPT ![c] = "open"]
      /\ UNCHANGED <<cmdconnsock, pair, inside, queue, oend, iend, mishaps, surplus>>
  BY DEF OuterAccept
<1>2. Target[c] \in Range(Target)
  BY DEF ProxyAssumption
<1>3. InsideTypes' /\ reset' \in {"no", "coming", "here"}
  BY <1>1, <1>2, CommandShape
<1>4. client' \in [Client -> {"away", "waiting", "open", "talking", "left"}]
      /\ \A d \in Client : client'[d] = IF d = c THEN "open" ELSE client[d]
  BY <1>1 DEF Shape, OutsideTypes
<1>5. OutsideTypes'
  BY <1>1, <1>3, <1>4, NilApart DEF Shape, OutsideTypes
<1>6. Queued' /\ Opened'
  BY <1>1 DEF Shape, Queued, Opened, Relayed
<1>7. Distinct'
  <2>1. \A d \in Relayed : d # c
    BY <1>1 DEF Shape, Distinct
  <2>. QED
    BY <1>1, <1>4, <2>1 DEF Shape, Distinct, Relayed
<1>8. Ends'
  BY <1>1 DEF Shape, Ends, inside
<1>. QED
  BY <1>3, <1>5, <1>6, <1>7, <1>8 DEF Shape

(* Bytes of a client go into its link.                                     *)
LEMMA RelayShape == ASSUME Shape, NEW c \in Client, OuterRelays(c) PROVE Shape'
<1>1. /\ c \in Relayed /\ client' = [client EXCEPT ![c] = "open"]
      /\ up' = IF pair[c] \in iend THEN [up EXCEPT ![pair[c]] = <<"bytes">>] ELSE up
      /\ UNCHANGED <<outside, inside, queue, oend, iend, reset, mishaps, surplus>>
  BY DEF OuterRelays
<1>2. client' \in [Client -> {"away", "waiting", "open", "talking", "left"}]
      /\ \A d \in Client : client'[d] = IF d = c THEN "open" ELSE client[d]
  BY <1>1 DEF Shape, OutsideTypes
<1>3. OutsideTypes'
  BY <1>1, <1>2 DEF Shape, OutsideTypes, outside
<1>4. InsideTypes'
  <2>1. <<"bytes">> \in Seq({"beat", "bytes"} \cup Range(Target))
    OBVIOUS
  <2>2. up' \in [Link -> Seq({"beat", "bytes"} \cup Range(Target))]
        /\ \A l \in Link \ iend : up'[l] = up[l]
    BY <1>1, <2>1 DEF Shape, InsideTypes
  <2>. QED
    BY <1>1, <2>2 DEF Shape, InsideTypes, inside
<1>5. Queued' /\ Opened' /\ Ends'
  BY <1>1 DEF Shape, Queued, Opened, Ends, Relayed, outside, inside
<1>6. Distinct'
  BY <1>1, <1>2 DEF Shape, Distinct, Relayed, outside
<1>. QED
  BY <1>3, <1>4, <1>5, <1>6 DEF Shape

(* One channel of rinetd ends.                                             *)
LEMMA DisconnectShape == ASSUME Shape, NEW c \in Client, OuterDisconnects(c) PROVE Shape'
<1>1. /\ outer = "loop" /\ {c} \in SUBSET Relayed /\ CloseOutside({c})
      /\ UNCHANGED <<outer, cmdconnsock, srcsock, inside, queue, iend, up, reset, mishaps, surplus>>
  BY DEF OuterDisconnects
<1>2. /\ Queued' /\ Opened' /\ Distinct' /\ Ends'
      /\ pair' \in [Client -> Link \cup {Nil}]
      /\ client' \in [Client -> {"away", "waiting", "open", "talking", "left"}]
  BY <1>1, CloseOutsideShape
<1>3. OutsideTypes' /\ InsideTypes'
  BY <1>1, <1>2 DEF Shape, OutsideTypes, InsideTypes, inside
<1>. QED
  BY <1>2, <1>3 DEF Shape

(* rinetdin ends, or loses some of its links.                              *)
LEMMA InnerExitShape ==
  ASSUME Shape, InnerExit, mishaps' \in 0..MaxMishaps, UNCHANGED surplus
  PROVE  Shape'
<1>1. /\ inner' = "down" /\ cmdlink' = Nil /\ dstsock' = [l \in Link |-> Nil]
      /\ iend' = {} /\ up' = [l \in Link |-> <<>>]
      /\ UNCHANGED <<outer, cmdconnsock, srcsock, pair, queue, oend, client>>
  BY DEF InnerExit, outside
<1>2. reset' \in {"no", "coming", "here"}
  BY DEF InnerExit, Shape, OutsideTypes
<1>3. OutsideTypes'
  BY <1>1, <1>2 DEF Shape, OutsideTypes
<1>4. InsideTypes'
  BY <1>1 DEF InsideTypes
<1>5. Queued' /\ Opened' /\ Distinct' /\ Ends'
  BY <1>1 DEF Shape, Queued, Opened, Distinct, Ends, Relayed
<1>. QED
  BY <1>3, <1>4, <1>5 DEF Shape

(* rinetdin closes links: never its command channel.                       *)
LEMMA CloseInsideShape ==
  ASSUME Shape, NEW L \in SUBSET {l \in Link : dstsock[l] # Nil}, CloseInside(L),
         UNCHANGED <<outside, inner, cmdlink, queue, oend, reset, client, mishaps, surplus>>
  PROVE  /\ Shape'
         /\ \A l \in Link : dstsock'[l] = IF l \in L THEN Nil ELSE dstsock[l]
         /\ \A l \in Link : up'[l] = IF l \in L THEN <<>> ELSE up[l]
         /\ cmdlink \notin L
<1>1. /\ dstsock' \in [Link -> Range(Target) \cup {Nil}]
      /\ \A l \in Link : dstsock'[l] = IF l \in L THEN Nil ELSE dstsock[l]
  BY DEF Shape, InsideTypes, CloseInside
<1>2. /\ up' \in [Link -> Seq({"beat", "bytes"} \cup Range(Target))]
      /\ \A l \in Link : up'[l] = IF l \in L THEN <<>> ELSE up[l]
  BY DEF Shape, InsideTypes, CloseInside
<1>3. cmdlink \notin L /\ iend' = iend \ L
  BY NilApart DEF Shape, Ends, CloseInside
<1>4. OutsideTypes'
  BY DEF Shape, OutsideTypes, outside
<1>5. InsideTypes'
  BY <1>1, <1>2, <1>3 DEF Shape, InsideTypes
<1>6. Queued' /\ Opened' /\ Distinct'
  BY DEF Shape, Queued, Opened, Distinct, Relayed, outside
<1>7. Ends'
  <2>1. cmdlink # Nil => cmdlink \in Link
    BY DEF Shape, InsideTypes
  <2>. QED
    BY <2>1, <1>1, <1>3 DEF Shape, Ends, outside
<1>. QED
  BY <1>1, <1>2, <1>3, <1>4, <1>5, <1>6, <1>7 DEF Shape

(* rinetdin reads a link empty.                                            *)
LEMMA ReadShape ==
  ASSUME Shape, NEW l \in Link, up' = [up EXCEPT ![l] = <<>>], mishaps' \in 0..MaxMishaps,
         UNCHANGED <<outside, inside, queue, oend, iend, reset, client, surplus>>
  PROVE  Shape'
<1>1. OutsideTypes'
  BY DEF Shape, OutsideTypes, outside
<1>2. InsideTypes'
  <2>1. <<>> \in Seq({"beat", "bytes"} \cup Range(Target))
    OBVIOUS
  <2>2. /\ up' \in [Link -> Seq({"beat", "bytes"} \cup Range(Target))]
        /\ \A k \in Link : up'[k] = IF k = l THEN <<>> ELSE up[k]
    BY <2>1 DEF Shape, InsideTypes
  <2>3. \A k \in Link \ iend : up'[k] = <<>> /\ dstsock[k] = Nil
    BY <2>2 DEF Shape, InsideTypes
  <2>. QED
    BY <2>2, <2>3 DEF Shape, InsideTypes, inside
<1>3. Queued' /\ Opened' /\ Distinct' /\ Ends'
  BY DEF Shape, Queued, Opened, Distinct, Ends, Relayed, outside, inside
<1>. QED
  BY <1>1, <1>2, <1>3 DEF Shape

(* A link that rinetdin has just made: nobody has it and nothing is in it. *)
LEMMA NewLinkApart ==
  ASSUME Shape, Unused # {}
  PROVE  /\ NewLink \in Link /\ NewLink \notin iend /\ oend[NewLink] = "closed"
         /\ NewLink # cmdlink /\ NewLink # cmdconnsock /\ NewLink # Nil
         /\ \A c \in Relayed : pair[c] # NewLink
         /\ \A i \in 1..Len(queue) : queue[i] # NewLink
         /\ up[NewLink] = <<>> /\ dstsock[NewLink] = Nil
<1>1. NewLink \in Link /\ NewLink \notin iend /\ oend[NewLink] = "closed" /\ NewLink # Nil
  BY NewLinkFacts, NilApart
<1>2. NewLink # cmdlink /\ up[NewLink] = <<>> /\ dstsock[NewLink] = Nil
  BY <1>1 DEF Shape, InsideTypes
<1>3. NewLink # cmdconnsock /\ \A c \in Relayed : pair[c] # NewLink
  BY <1>1 DEF Shape, Opened
<1>4. \A i \in 1..Len(queue) : queue[i] # NewLink
  BY <1>1 DEF Shape, Queued
<1>. QED
  BY <1>1, <1>2, <1>3, <1>4

(* A connection that is made opens no end at rinetd.                       *)
LEMMA NewLinkOpened ==
  ASSUME Shape, NEW n \in Link, oend[n] = "closed", ConnectOut(n), UNCHANGED outside
  PROVE  Opened'
<1>1. \A l \in Link : oend'[l] = IF l = n /\ outer # "down" THEN "queued" ELSE oend[l]
  BY ConnectFacts
<1>2. n # cmdconnsock /\ \A c \in Relayed : pair[c] # n
  BY DEF Shape, Opened
<1>3. \A c \in Relayed : pair[c] \in Link
  BY DEF Shape, OutsideTypes, Relayed
<1>4. cmdconnsock # Nil => cmdconnsock \in Link
  BY DEF Shape, OutsideTypes
<1>5. Relayed' = Relayed
  BY DEF Relayed, outside
<1>6. \A l \in Link : oend'[l] = "open" <=> oend[l] = "open"
  BY <1>1
<1>. QED
  BY <1>3, <1>4, <1>5, <1>6 DEF Shape, Opened, outside

(* rinetdin starts with a connection of its own.                           *)
LEMMA StartShape == ASSUME Shape, InnerStart PROVE Shape'
<1>1. /\ inner = "down" /\ outer # "down" /\ Unused # {} /\ inner' = "loop" /\ cmdlink' = NewLink
      /\ iend' = iend \cup {NewLink} /\ ConnectOut(NewLink)
      /\ UNCHANGED <<outside, dstsock, up, reset, client, mishaps, surplus>>
  BY DEF InnerStart
<1>2. /\ NewLink \in Link /\ oend[NewLink] = "closed" /\ dstsock[NewLink] = Nil /\ NewLink # Nil
  BY <1>1, NewLinkApart
<1>3. Queued' /\ Opened'
  BY <1>1, <1>2, ConnectFacts, NewLinkOpened
<1>4. OutsideTypes' /\ Distinct'
  BY <1>1 DEF Shape, OutsideTypes, Distinct, Relayed, outside
<1>5. InsideTypes'
  BY <1>1, <1>2 DEF Shape, InsideTypes
<1>6. Ends'
  BY <1>1, <1>2 DEF Shape, Ends, outside
<1>. QED
  BY <1>3, <1>4, <1>5, <1>6 DEF Shape

(* rinetdin answers, with the target of some command or with none.         *)
LEMMA ConnectShape ==
  ASSUME Shape, InnerConnects
  PROVE  /\ Shape'
         /\ \A l \in Link : up'[l] = IF l = cmdlink THEN <<>> ELSE up[l]
         /\ \A l \in Link \ {NewLink} : dstsock'[l] = dstsock[l]
         /\ \/ \E i \in Commands : dstsock'[NewLink] = Arrived[i]
            \/ dstsock'[NewLink] = Nil
<1>1. /\ inner = "loop" /\ up' = [up EXCEPT ![cmdlink] = <<>>] /\ Unused # {}
      /\ ConnectOut(NewLink) /\ surplus' = (surplus \/ Commands = {})
      /\ UNCHANGED <<outside, inner, cmdlink, reset, client>>
  BY DEF InnerConnects, Read
<1>2. /\ NewLink \in Link /\ oend[NewLink] = "closed" /\ dstsock[NewLink] = Nil /\ NewLink # cmdlink
      /\ up[NewLink] = <<>>
  BY <1>1, NewLinkApart
<1>3. Queued' /\ Opened'
  BY <1>1, <1>2, ConnectFacts, NewLinkOpened
<1>4. cmdlink \in iend /\ cmdlink \in Link
  BY <1>1 DEF Shape, Ends, InsideTypes
<1>5. /\ up' \in [Link -> Seq({"beat", "bytes"} \cup Range(Target))]
      /\ \A l \in Link : up'[l] = IF l = cmdlink THEN <<>> ELSE up[l]
  BY <1>1, <1>4 DEF Shape, InsideTypes
<1>6. /\ InsideTypes' /\ mishaps' \in 0..MaxMishaps
      /\ \A l \in Link \ {NewLink} : dstsock'[l] = dstsock[l]
      /\ \/ \E i \in Commands : dstsock'[NewLink] = Arrived[i]
         \/ dstsock'[NewLink] = Nil
  <2>1. CASE /\ iend' = iend \cup {NewLink} /\ UNCHANGED mishaps
             /\ \E first \in Commands : dstsock' = [dstsock EXCEPT ![NewLink] = Arrived[first]]
    <3>. PICK first \in Commands : dstsock' = [dstsock EXCEPT ![NewLink] = Arrived[first]]
      BY <2>1
    <3>1. Arrived[first] \in Range(Target)
      BY DEF Commands
    <3>2. /\ dstsock' \in [Link -> Range(Target) \cup {Nil}]
          /\ \A l \in Link : dstsock'[l] = IF l = NewLink THEN Arrived[first] ELSE dstsock[l]
      BY <1>2, <3>1 DEF Shape, InsideTypes
    <3>3. InsideTypes'
      BY <1>1, <1>2, <1>4, <1>5, <2>1, <3>2 DEF Shape, InsideTypes
    <3>4. mishaps' \in 0..MaxMishaps
      BY <2>1 DEF Shape, OutsideTypes
    <3>. QED
      BY <1>2, <3>2, <3>3, <3>4
  <2>2. CASE UNCHANGED <<iend, dstsock>> /\ mishaps' \in 0..MaxMishaps
    <3>1. InsideTypes'
      BY <1>1, <1>4, <1>5, <2>2 DEF Shape, InsideTypes
    <3>. QED
      BY <1>2, <2>2, <3>1
  <2>3. \/ /\ iend' = iend \cup {NewLink} /\ UNCHANGED mishaps
           /\ \E first \in Commands : dstsock' = [dstsock EXCEPT ![NewLink] = Arrived[first]]
        \/ UNCHANGED <<iend, dstsock>> /\ mishaps' \in 0..MaxMishaps
    BY DEF InnerConnects, Mishap, Shape, OutsideTypes, ProxyAssumption
  <2>. QED
    BY <2>1, <2>2, <2>3
<1>7. OutsideTypes'
  <2>1. surplus' \in BOOLEAN
    BY <1>1, Zenon DEF Shape, OutsideTypes
  <2>. QED
    BY <1>1, <1>6, <2>1 DEF Shape, OutsideTypes, outside
<1>8. Distinct'
  BY <1>1 DEF Shape, Distinct, Relayed, outside
<1>9. Ends'
  BY <1>1, <1>2, <1>3, <1>4, <1>6, ConnectFacts DEF Shape, Ends, outside, ConnectOut
<1>. QED
  BY <1>3, <1>5, <1>6, <1>7, <1>8, <1>9 DEF Shape

(* Every step keeps Shape.                                                 *)
LEMMA ShapeStep == Shape /\ [RPNext]_RPvars => Shape'
<1>. SUFFICES ASSUME Shape, [RPNext]_RPvars PROVE Shape'
  OBVIOUS
<1>0. Mishap \/ UNCHANGED mishaps => mishaps' \in 0..MaxMishaps
  BY DEF Mishap, Shape, OutsideTypes, ProxyAssumption
<1>1. CASE ResetArrives \/ OuterStart \/ UNCHANGED RPvars
  BY <1>1, ResetShape
<1>2. ASSUME NEW c \in Client, ClientConnects(c) \/ ClientSends(c) \/ ClientLeaves(c)
      PROVE  Shape'
  BY <1>2, ClientShape
<1>3. CASE OuterTakesCommandChannel
  BY <1>3, ChannelShape
<1>4. CASE OuterSendFails \/ OuterKilled
  BY <1>0, <1>4, OuterExitShape DEF OuterSendFails, OuterKilled
<1>5. CASE OuterPair
  BY <1>5, PairShape
<1>6. ASSUME NEW c \in Client, OuterAccept(c) PROVE Shape'
  BY <1>6, AcceptShape
<1>7. ASSUME NEW c \in Client, OuterRelays(c) PROVE Shape'
  BY <1>7, RelayShape
<1>8. ASSUME NEW c \in Client, OuterDisconnects(c) PROVE Shape'
  BY <1>8, DisconnectShape
<1>9. CASE OuterTimer
  BY <1>9, TimerShape
<1>10. CASE InnerStart
  BY <1>10, StartShape
<1>11. CASE InnerConnects
  BY <1>11, ConnectShape
<1>12. CASE InnerChannelEnds \/ InnerKilled
  BY <1>0, <1>12, InnerExitShape DEF InnerChannelEnds, InnerKilled
<1>13. CASE InnerHeartbeat \/ InnerConnectFails
  <2>1. cmdlink \in Link /\ up' = [up EXCEPT ![cmdlink] = <<>>]
    BY <1>13 DEF InnerHeartbeat, InnerConnectFails, Read, Shape, Ends, InsideTypes
  <2>. QED
    BY <1>0, <1>13, <2>1, ReadShape DEF InnerHeartbeat, InnerConnectFails
<1>14. ASSUME NEW l \in Link, InnerRelays(l) PROVE Shape'
  BY <1>0, <1>14, ReadShape DEF InnerRelays
<1>15. ASSUME NEW l \in Link, InnerDisconnects(l) PROVE Shape'
  BY <1>15, CloseInsideShape DEF InnerDisconnects
<1>16. CASE InnerTimer
  BY <1>16, CloseInsideShape DEF InnerTimer
<1>. QED
  BY <1>1, <1>2, <1>3, <1>4, <1>5, <1>6, <1>7, <1>8, <1>9, <1>10, <1>11, <1>12, <1>13, <1>14,
     <1>15, <1>16 DEF RPNext, Outer, Inner

-----------------------------------------------------------------------------
(* The answers.                                                            *)

Unanswered == \E i \in 1..Len(up[cmdlink]) : up[cmdlink][i] \in Range(Target)

Knocking == /\ up[cmdlink] = <<>>
            /\ queue # <<>> /\ queue[Len(queue)] = cmdlink
            /\ \A l \in Link : dstsock[l] = Nil

Serving == /\ Len(queue) <= 1
           /\ Unanswered => queue = <<>>
           /\ outer = "loop" => queue = <<>> /\ ~Unanswered
           /\ outer = "accept" =>
                /\ Unanswered => cmdlink = cmdconnsock
                /\ \A i \in 1..Len(up[cmdlink]) :
                      up[cmdlink][i] \in Range(Target) => up[cmdlink][i] = Target[srcsock]
                /\ queue # <<>> => dstsock[queue[1]] \in {Target[srcsock], Nil}

(* A rinetdin whose own connection is still queued has answered nothing,   *)
(* and that connection is the last of the queue.  Once rinetd has taken it *)
(* (or has closed it), there is at most one of these: a command it has not *)
(* read, or one connection in the queue; and while rinetd waits in         *)
(* accept() for a client, it is about that client.                         *)
OneAnswer == cmdlink # Nil => IF oend[cmdlink] = "queued" THEN Knocking ELSE Serving

Own == \A c \in Relayed : dstsock[pair[c]] \in {Target[c], Nil}

Answers == surplus \/ (OneAnswer /\ Own)

(* The types that the answers need.                                        *)
LEMMA LinkTypes ==
  ASSUME Shape
  PROVE  /\ cmdlink # Nil => cmdlink \in Link /\ Len(up[cmdlink]) \in Nat
         /\ queue \in Seq(Link) /\ Len(queue) \in Nat
         /\ \A c \in Relayed : c \in Client /\ pair[c] \in Link
<1>1. \A l \in Link : up[l] \in Seq({"beat", "bytes"} \cup Range(Target))
  BY DEF Shape, InsideTypes
<1>2. cmdlink # Nil => cmdlink \in Link
  BY DEF Shape, InsideTypes
<1>3. cmdlink # Nil => Len(up[cmdlink]) \in Nat
  BY <1>1, <1>2
<1>4. queue \in Seq(Link) /\ Len(queue) \in Nat
  BY DEF Shape, Queued
<1>5. \A c \in Relayed : c \in Client /\ pair[c] \in Link
  BY DEF Shape, OutsideTypes, Relayed
<1>. QED
  BY <1>2, <1>3, <1>4, <1>5

(* Nothing that matters to the command channel or the queue happens: no    *)
(* command is added, and links are closed at most.                         *)
LEMMA QuietAnswers ==
  ASSUME Shape, Shape', ~surplus, Answers,
         UNCHANGED <<cmdlink, queue, outer, cmdconnsock, srcsock>>,
         \A l \in Link : dstsock'[l] = dstsock[l] \/ dstsock'[l] = Nil,
         \A c \in Relayed' : c \in Relayed /\ pair'[c] = pair[c],
         cmdlink # Nil =>
           /\ oend'[cmdlink] = "queued" <=> oend[cmdlink] = "queued"
           /\ oend[cmdlink] = "queued" => up'[cmdlink] = <<>>
           /\ \A i \in 1..Len(up'[cmdlink]) : up'[cmdlink][i] \in Range(Target) =>
                \E j \in 1..Len(up[cmdlink]) : up[cmdlink][j] = up'[cmdlink][i]
  PROVE  OneAnswer' /\ Own'
<1>1. Own'
  BY LinkTypes DEF Answers, Own
<1>2. ASSUME cmdlink # Nil PROVE IF oend'[cmdlink] = "queued" THEN Knocking' ELSE Serving'
  <2>1. CASE oend[cmdlink] = "queued"
    BY <1>2, <2>1 DEF Answers, OneAnswer, Knocking
  <2>2. CASE oend[cmdlink] # "queued"
    <3>1. Serving
      BY <1>2, <2>2 DEF Answers, OneAnswer
    <3>2. Unanswered' => Unanswered
      BY <1>2 DEF Unanswered
    <3>3. \A l \in Link : \A t : dstsock[l] \in {t, Nil} => dstsock'[l] \in {t, Nil}
      OBVIOUS
    <3>4. queue # <<>> => queue[1] \in Link
      BY LinkTypes
    <3>5. outer = "accept" => \A i \in 1..Len(up'[cmdlink]) :
            up'[cmdlink][i] \in Range(Target) => up'[cmdlink][i] = Target[srcsock]
      BY <1>2, <3>1 DEF Serving
    <3>6. Serving'
      BY <3>1, <3>2, <3>3, <3>4, <3>5 DEF Serving
    <3>. QED
      BY <1>2, <2>2, <3>6
  <2>. QED
    BY <2>1, <2>2
<1>. QED
  BY <1>1, <1>2 DEF OneAnswer

(* The end of rinetd empties the queue.                                    *)
LEMMA OuterExitAnswers ==
  ASSUME Shape, ~surplus, Answers, OuterExit
  PROVE  OneAnswer' /\ Own'
<1>1. Own'
  BY DEF Own, OuterExit, Relayed
<1>2. OneAnswer'
  BY LinkTypes DEF OneAnswer, Serving, OuterExit, inside
<1>. QED
  BY <1>1, <1>2

(* When rinetd starts, nothing is queued yet.                              *)
LEMMA OuterStartAnswers ==
  ASSUME Shape, ~surplus, Answers, OuterStart
  PROVE  OneAnswer' /\ Own'
<1>1. /\ outer = "down" /\ outer' = "start"
      /\ UNCHANGED <<cmdconnsock, srcsock, pair, inside, queue, oend, up>>
  BY DEF OuterStart, net
<1>2. queue = <<>> /\ \A l \in Link : oend[l] = "closed"
  BY <1>1 DEF Shape, Ends
<1>3. Own'
  BY <1>1 DEF Answers, Own, Relayed, inside
<1>4. OneAnswer'
  BY <1>1, <1>2, LinkTypes DEF OneAnswer, Serving, inside
<1>. QED
  BY <1>3, <1>4

(* The end of rinetdin takes its links to the targets with it.             *)
LEMMA InnerExitAnswers ==
  ASSUME Shape, ~surplus, Answers, InnerExit
  PROVE  OneAnswer' /\ Own'
<1>1. Own'
  BY LinkTypes DEF Own, InnerExit, Relayed, outside
<1>2. OneAnswer'
  BY DEF OneAnswer, InnerExit
<1>. QED
  BY <1>1, <1>2

(* A new rinetdin knocks, and has no links to targets.                     *)
LEMMA InnerStartAnswers ==
  ASSUME Shape, ~surplus, Answers, InnerStart
  PROVE  OneAnswer' /\ Own'
<1>1. /\ inner = "down" /\ outer # "down" /\ Unused # {} /\ cmdlink' = NewLink
      /\ queue' = Append(queue, NewLink) /\ oend' = [oend EXCEPT ![NewLink] = "queued"]
      /\ UNCHANGED <<outside, dstsock, up>>
  BY DEF InnerStart, ConnectOut
<1>2. NewLink \in Link /\ up[NewLink] = <<>>
  BY <1>1, NewLinkApart
<1>3. \A l \in Link : dstsock[l] = Nil
  BY <1>1 DEF Shape, Ends, InsideTypes
<1>4. queue' # <<>> /\ queue'[Len(queue')] = NewLink
  BY <1>1, <1>2, LinkTypes
<1>5. Own'
  BY <1>1 DEF Answers, Own, Relayed, outside
<1>6. oend'[NewLink] = "queued"
  BY <1>1, <1>2 DEF Shape, Queued
<1>7. OneAnswer'
  BY <1>1, <1>2, <1>3, <1>4, <1>6 DEF OneAnswer, Knocking
<1>. QED
  BY <1>5, <1>7

(* What is left in the queue when rinetd has taken one connection.         *)
LEMMA TakenAnswers ==
  ASSUME Shape, Answers, ~surplus, queue # <<>>, cmdlink # Nil,
         outer = "start" \/ outer = "accept", outer' = "loop",
         queue' = Tail(queue), oend' = [oend EXCEPT ![Head(queue)] = "open"],
         UNCHANGED <<inside, up>>
  PROVE  IF oend'[cmdlink] = "queued" THEN Knocking' ELSE Serving'
<1>1. /\ cmdlink \in Link /\ Head(queue) = queue[1] /\ Len(queue) \in Nat /\ Len(queue) # 0
      /\ Len(queue') = Len(queue) - 1
      /\ \A i \in 1..Len(queue') : queue'[i] = queue[i + 1]
  BY LinkTypes
<1>2. \A l \in Link : oend'[l] = IF l = Head(queue) THEN "open" ELSE oend[l]
  BY TakeFacts
<1>3. CASE oend[cmdlink] = "queued"
  <2>1. Knocking
    BY <1>3 DEF Answers, OneAnswer
  <2>2. CASE Len(queue) = 1
    <3>4. Len(queue') <= 1
      BY <1>1, <2>2, LinkTypes
    <3>1. Head(queue) = cmdlink /\ queue' = <<>>
      BY <1>1, <2>1, <2>2, LinkTypes DEF Knocking
    <3>2. oend'[cmdlink] = "open"
      BY <1>1, <1>2, <3>1
    <3>3. ~Unanswered'
      BY <2>1 DEF Knocking, Unanswered, inside
    <3>5. Serving'
      BY <3>1, <3>3, <3>4 DEF Serving
    <3>. QED
      BY <3>2, <3>5
  <2>3. CASE Len(queue) # 1
    <3>3. Len(queue') \in 1..Len(queue') /\ Len(queue') + 1 = Len(queue)
      BY <1>1, <2>3
    <3>4. queue'[Len(queue')] = queue[Len(queue)]
      BY <1>1, <3>3
    <3>5. queue' # <<>>
      <4>1. Len(queue') # 0
        BY <1>1, <2>3
      <4>2. Len(<<>>) = 0
        OBVIOUS
      <4>. QED
        BY ONLY <4>1, <4>2
    <3>1. queue' # <<>> /\ queue'[Len(queue')] = cmdlink
      BY <2>1, <3>4, <3>5 DEF Knocking
    <3>2. cmdlink # Head(queue)
      BY <1>1, <2>1, <2>3 DEF Knocking, Shape, Queued
    <3>. QED
      BY <1>1, <1>2, <1>3, <2>1, <3>1, <3>2 DEF Knocking, inside
  <2>. QED
    BY <2>2, <2>3
<1>4. CASE oend[cmdlink] # "queued"
  <2>1. Serving
    BY <1>4 DEF Answers, OneAnswer
  <2>2. queue' = <<>> /\ Len(queue') <= 1
    BY <1>1, <2>1, LinkTypes DEF Serving
  <2>3. ~Unanswered'
    BY <2>1 DEF Serving, Unanswered, inside
  <2>4. oend'[cmdlink] # "queued"
    BY <1>1, <1>2, <1>4
  <2>. QED
    BY <2>2, <2>3, <2>4 DEF Serving
<1>. QED
  BY <1>3, <1>4

(* The connection is taken for the command channel.                        *)
LEMMA ChannelAnswers ==
  ASSUME Shape, ~surplus, Answers, OuterTakesCommandChannel
  PROVE  OneAnswer' /\ Own'
<1>1. /\ outer = "start" /\ queue # <<>> /\ outer' = "loop"
      /\ queue' = Tail(queue) /\ oend' = [oend EXCEPT ![Head(queue)] = "open"]
      /\ UNCHANGED <<pair, inside, up>>
  BY DEF OuterTakesCommandChannel
<1>2. OneAnswer'
  BY <1>1, TakenAnswers DEF OneAnswer, inside
<1>3. Own'
  BY <1>1 DEF Answers, Own, Relayed, inside
<1>. QED
  BY <1>2, <1>3

(* The heart of the matter: what rinetd takes from the queue leads to the  *)
(* target of the client it waits for, or nowhere.                          *)
LEMMA PairAnswers ==
  ASSUME Shape, ~surplus, Answers, OuterPair
  PROVE  OneAnswer' /\ Own'
<1>1. /\ outer = "accept" /\ queue # <<>> /\ outer' = "loop"
      /\ pair' = [pair EXCEPT ![srcsock] = Head(queue)]
      /\ queue' = Tail(queue) /\ oend' = [oend EXCEPT ![Head(queue)] = "open"]
      /\ UNCHANGED <<inside, iend, up>>
  BY DEF OuterPair
<1>2. OneAnswer'
  BY <1>1, TakenAnswers DEF OneAnswer, inside
<1>3. srcsock \in Client /\ Head(queue) = queue[1] /\ Head(queue) \in Link
  BY <1>1, LinkTypes DEF Shape, OutsideTypes
<1>4. dstsock[Head(queue)] \in {Target[srcsock], Nil}
  <2>1. CASE cmdlink = Nil
    BY <1>3, <2>1 DEF Shape, Ends, InsideTypes
  <2>2. CASE cmdlink # Nil
    BY <1>1, <1>3, <2>2 DEF Answers, OneAnswer, Knocking, Serving
  <2>. QED
    BY <2>1, <2>2
<1>5. \A c \in Client : pair'[c] = IF c = srcsock THEN Head(queue) ELSE pair[c]
  BY <1>1, <1>3 DEF Shape, OutsideTypes
<1>6. Own'
  BY <1>1, <1>4, <1>5 DEF Answers, Own, Relayed, inside
<1>. QED
  BY <1>2, <1>6

(* A command is sent only when no other waits for its answer.              *)
LEMMA AcceptAnswers ==
  ASSUME Shape, ~surplus, Answers, NEW c \in Client, OuterAccept(c)
  PROVE  OneAnswer' /\ Own'
<1>1. /\ outer = "loop" /\ SendCommand(Target[c]) /\ outer' = "accept" /\ srcsock' = c
      /\ UNCHANGED <<cmdconnsock, pair, inside, queue, oend, iend>>
  BY DEF OuterAccept
<1>2. Own'
  BY <1>1 DEF Answers, Own, Relayed, inside
<1>3. Target[c] \in Range(Target)
  BY DEF ProxyAssumption
<1>4. \A l \in Link : up'[l] = IF l = cmdconnsock /\ l \in iend THEN Append(up[l], Target[c]) ELSE up[l]
  BY <1>1, <1>3, CommandShape
<1>5. ASSUME cmdlink # Nil PROVE IF oend[cmdlink] = "queued" THEN Knocking' ELSE Serving'
  <2>1. cmdlink \in Link /\ cmdlink \in iend
    BY <1>5, LinkTypes DEF Shape, InsideTypes
  <2>2. CASE oend[cmdlink] = "queued"
    <3>1. cmdlink # cmdconnsock
      BY <1>5, <2>2 DEF Shape, Opened
    <3>. QED
      BY <1>1, <1>4, <1>5, <2>1, <2>2, <3>1 DEF Answers, OneAnswer, Knocking, inside
  <2>3. CASE oend[cmdlink] # "queued"
    <3>1. queue = <<>> /\ ~Unanswered
      BY <1>1, <1>5, <2>3 DEF Answers, OneAnswer, Serving
    <3>2. CASE cmdlink = cmdconnsock
      <4>1. up'[cmdlink] = Append(up[cmdlink], Target[c])
        BY <1>4, <2>1, <3>2
      <4>2. up[cmdlink] \in Seq({"beat", "bytes"} \cup Range(Target))
        BY <2>1 DEF Shape, InsideTypes
      <4>3. \A i \in 1..Len(up'[cmdlink]) :
              up'[cmdlink][i] \in Range(Target) => up'[cmdlink][i] = Target[c]
        BY <3>1, <4>1, <4>2 DEF Unanswered
      <4>. QED
        BY <1>1, <2>3, <3>1, <3>2, <4>3, LinkTypes DEF Serving, inside
    <3>3. CASE cmdlink # cmdconnsock
      <4>1. up'[cmdlink] = up[cmdlink]
        BY <1>4, <2>1, <3>3
      <4>2. ~Unanswered' /\ \A i \in 1..Len(up'[cmdlink]) : up'[cmdlink][i] \notin Range(Target)
        BY <1>1, <3>1, <4>1 DEF Unanswered, inside
      <4>. QED
        BY <1>1, <2>3, <3>1, <4>2, LinkTypes DEF Serving, inside
    <3>. QED
      BY <3>2, <3>3
  <2>. QED
    BY <2>2, <2>3
<1>6. OneAnswer'
  BY <1>1, <1>5 DEF OneAnswer, inside
<1>. QED
  BY <1>2, <1>6

(* rinetdin answers the one command there is.                              *)
LEMMA ConnectAnswers ==
  ASSUME Shape, ~surplus, ~surplus', Answers, InnerConnects
  PROVE  OneAnswer' /\ Own'
<1>1. /\ inner = "loop" /\ Unused # {} /\ ConnectOut(NewLink) /\ Commands # {}
      /\ UNCHANGED <<outside, inner, cmdlink>> /\ Arrived # <<>>
  BY DEF InnerConnects, Read
<1>2. /\ NewLink \in Link /\ oend[NewLink] = "closed" /\ dstsock[NewLink] = Nil /\ NewLink # cmdlink
      /\ \A c \in Relayed : pair[c] # NewLink
  BY <1>1, NewLinkApart
<1>3. /\ Shape' /\ \A l \in Link : up'[l] = IF l = cmdlink THEN <<>> ELSE up[l]
      /\ \A l \in Link \ {NewLink} : dstsock'[l] = dstsock[l]
      /\ (\E i \in Commands : dstsock'[NewLink] = Arrived[i]) \/ dstsock'[NewLink] = Nil
  BY ConnectShape
<1>4. \A l \in Link : oend'[l] = IF l = NewLink /\ outer # "down" THEN "queued" ELSE oend[l]
  BY <1>1, <1>2, ConnectFacts
<1>5. cmdlink # Nil /\ cmdlink \in Link
  BY <1>1, LinkTypes DEF Shape, Ends
<1>6. Unanswered /\ \A i \in Commands : i \in 1..Len(up[cmdlink]) /\ up[cmdlink][i] \in Range(Target)
  BY <1>1 DEF Unanswered, Commands, Arrived
<1>7. oend[cmdlink] # "queued" /\ Serving
  BY <1>1, <1>5 DEF Answers, OneAnswer, Knocking, Arrived
<1>8. queue = <<>> /\ outer # "loop"
  BY <1>6, <1>7 DEF Serving
<1>9. Own'
  BY <1>1, <1>2, <1>3, LinkTypes DEF Answers, Own, Relayed, outside
<1>10. ~Unanswered' /\ \A i \in 1..Len(up'[cmdlink]) : up'[cmdlink][i] \notin Range(Target)
  BY <1>1, <1>3, <1>5 DEF Unanswered
<1>11. queue' = <<>> \/ (queue' = <<NewLink>> /\ outer # "down")
  BY <1>1, <1>8 DEF ConnectOut
<1>12. outer = "accept" => dstsock'[NewLink] \in {Target[srcsock], Nil}
  BY <1>3, <1>6, <1>7 DEF Serving, Arrived
<1>13. Serving'
  <2>1. UNCHANGED <<outer, srcsock, cmdconnsock>>
    BY <1>1 DEF outside
  <2>2. Len(queue') <= 1 /\ (queue' # <<>> => queue'[1] = NewLink)
    BY <1>11
  <2>3. ~Unanswered' /\ outer' # "loop"
    BY <1>8, <1>10, <2>1
  <2>4. outer' = "accept" /\ queue' # <<>> => dstsock'[queue'[1]] \in {Target[srcsock'], Nil}
    BY <1>12, <2>1, <2>2
  <2>5. \A i \in 1..Len(up'[cmdlink']) :
           up'[cmdlink'][i] \in Range(Target) => up'[cmdlink'][i] = Target[srcsock']
    BY <1>1, <1>10
  <2>. QED
    BY <2>2, <2>3, <2>4, <2>5 DEF Serving
<1>14. oend'[cmdlink] # "queued"
  BY <1>2, <1>4, <1>5, <1>7
<1>. QED
  BY <1>1, <1>9, <1>13, <1>14 DEF OneAnswer

(* surplus is history: it is never reset.                                  *)
LEMMA SurplusStays == surplus /\ [RPNext]_RPvars => surplus'
<1>. SUFFICES ASSUME surplus, [RPNext]_RPvars PROVE surplus'
  OBVIOUS
<1>1. InnerConnects => surplus'
  BY Zenon DEF InnerConnects
<1>2. Outer \/ OuterTimer \/ OuterKilled \/ ResetArrives \/ UNCHANGED RPvars => surplus'
  BY Zenon DEF Outer, OuterTimer, OuterKilled, ResetArrives, RPvars, OuterStart, OuterSendFails,
     OuterTakesCommandChannel, OuterAccept, OuterPair, OuterRelays, OuterDisconnects
<1>3. InnerStart \/ InnerHeartbeat \/ InnerChannelEnds \/ InnerTimer \/ InnerConnectFails
      \/ InnerKilled => surplus'
  BY Zenon DEF InnerStart, InnerHeartbeat, InnerChannelEnds, InnerTimer, InnerConnectFails,
     InnerKilled
<1>4. \A l \in Link : InnerRelays(l) \/ InnerDisconnects(l) => surplus'
  BY Zenon DEF InnerRelays, InnerDisconnects
<1>5. \A c \in Client : ClientConnects(c) \/ ClientSends(c) \/ ClientLeaves(c) => surplus'
  BY Zenon DEF ClientConnects, ClientSends, ClientLeaves
<1>. QED
  BY <1>1, <1>2, <1>3, <1>4, <1>5, Zenon DEF RPNext, Inner

(* Every step keeps Answers.                                               *)
LEMMA AnswersStep == Shape /\ Shape' /\ Answers /\ [RPNext]_RPvars => Answers'
<1>. SUFFICES ASSUME Shape, Shape', Answers, [RPNext]_RPvars PROVE Answers'
  OBVIOUS
<1>. SUFFICES ASSUME ~surplus, ~surplus' PROVE OneAnswer' /\ Own'
  <2>1. surplus => surplus'
    BY SurplusStays
  <2>. QED
    BY <2>1, Zenon DEF Answers
<1>0. /\ cmdlink # Nil => cmdlink \in Link
      /\ \A l \in Link : \A i \in 1..Len(up[l]) : \E j \in 1..Len(up[l]) : up[l][j] = up[l][i]
  BY LinkTypes
<1>1. CASE ResetArrives \/ UNCHANGED RPvars
           \/ \E c \in Client : ClientConnects(c) \/ ClientSends(c) \/ ClientLeaves(c)
  <2>1. UNCHANGED <<outside, inside, net>>
    BY <1>1 DEF ResetArrives, RPvars, ClientConnects, ClientSends, ClientLeaves
  <2>2. oend[cmdlink] = "queued" /\ cmdlink # Nil => up[cmdlink] = <<>>
    BY DEF Answers, OneAnswer, Knocking
  <2>3. UNCHANGED <<cmdlink, queue, outer, cmdconnsock, srcsock, dstsock, oend, up>>
    BY <2>1 DEF outside, inside, net
  <2>4. \A c \in Relayed' : c \in Relayed /\ pair'[c] = pair[c]
    BY <2>1 DEF outside, Relayed
  <2>. QED
    BY <1>0, <2>2, <2>3, <2>4, QuietAnswers
<1>2. CASE OuterStart
  BY <1>2, OuterStartAnswers
<1>3. CASE OuterTakesCommandChannel
  BY <1>3, ChannelAnswers
<1>4. CASE OuterSendFails \/ OuterKilled
  BY <1>4, OuterExitAnswers DEF OuterSendFails, OuterKilled
<1>5. CASE OuterPair
  BY <1>5, PairAnswers
<1>6. ASSUME NEW c \in Client, OuterAccept(c) PROVE OneAnswer' /\ Own'
  BY <1>6, AcceptAnswers
<1>7. ASSUME NEW c \in Client, OuterRelays(c) PROVE OneAnswer' /\ Own'
  <2>1. /\ c \in Relayed /\ UNCHANGED <<outside, inside, queue, oend>>
        /\ up' = IF pair[c] \in iend THEN [up EXCEPT ![pair[c]] = <<"bytes">>] ELSE up
    BY <1>7 DEF OuterRelays
  <2>2. pair[c] \in Link /\ oend[pair[c]] = "open" /\ pair[c] # cmdconnsock
    BY <2>1, LinkTypes DEF Shape, Opened, Distinct
  <2>3. \A l \in Link : up'[l] = up[l] \/ (l = pair[c] /\ up'[l] = <<"bytes">>)
    BY <2>1, <2>2 DEF Shape, InsideTypes
  <2>4. \A i \in 1..Len(<<"bytes">>) : <<"bytes">>[i] \notin Range(Target)
    BY DEF ProxyAssumption
  <2>5. oend[cmdlink] = "queued" /\ cmdlink # Nil => up[cmdlink] = <<>>
    BY DEF Answers, OneAnswer, Knocking
  <2>. QED
    BY <1>0, <2>1, <2>2, <2>3, <2>4, <2>5, QuietAnswers DEF outside, inside, Relayed
<1>8. ASSUME outer = "loop", NEW C \in SUBSET Relayed, CloseOutside(C),
             UNCHANGED <<outer, cmdconnsock, srcsock, inside, queue, iend, surplus>>,
             UNCHANGED up \/ SendCommand("beat")
      PROVE  OneAnswer' /\ Own'
  <2>1. \A l \in Link : oend'[l] = IF \E c \in C : pair[c] = l THEN "closed" ELSE oend[l]
    BY <1>8, CloseOutsideShape
  <2>2. \A c \in C : oend[pair[c]] = "open"
    BY <1>8 DEF Shape, Opened
  <2>3. \A l \in Link : oend'[l] = "queued" <=> oend[l] = "queued"
    BY <2>1, <2>2
  <2>4. \A c \in Relayed' : c \in Relayed /\ pair'[c] = pair[c]
    BY <1>8 DEF Relayed, CloseOutside
  <2>5. \A l \in Link : up'[l] = up[l] \/ (l = cmdconnsock /\ up'[l] = Append(up[l], "beat"))
    BY <1>8, CommandShape
  <2>6. \A l \in Link : \A i \in 1..Len(up'[l]) : up'[l][i] \in Range(Target) =>
           \E j \in 1..Len(up[l]) : up[l][j] = up'[l][i]
    <3>. SUFFICES ASSUME NEW l \in Link, NEW i \in 1..Len(up'[l]), up'[l][i] \in Range(Target)
                  PROVE  \E j \in 1..Len(up[l]) : up[l][j] = up'[l][i]
      OBVIOUS
    <3>1. up[l] \in Seq({"beat", "bytes"} \cup Range(Target))
      BY DEF Shape, InsideTypes
    <3>2. CASE up'[l] = Append(up[l], "beat")
      <4>1. Len(Append(up[l], "beat")) = Len(up[l]) + 1
            /\ \A j \in 1..Len(up[l]) + 1 :
                 Append(up[l], "beat")[j] = IF j = Len(up[l]) + 1 THEN "beat" ELSE up[l][j]
        BY <3>1
      <4>2. "beat" \notin Range(Target)
        BY DEF ProxyAssumption
      <4>3. i # Len(up[l]) + 1 /\ i \in 1..Len(up[l]) + 1
        BY <3>2, <4>1, <4>2
      <4>. QED
        BY <3>1, <3>2, <4>1, <4>3
    <3>. QED
      BY <2>5, <3>2
  <2>7. oend[cmdlink] = "queued" /\ cmdlink # Nil => cmdlink # cmdconnsock /\ up[cmdlink] = <<>>
    BY DEF Answers, OneAnswer, Knocking, Shape, Opened
  <2>. QED
    BY <1>0, <1>8, <2>3, <2>4, <2>5, <2>6, <2>7, QuietAnswers DEF inside
<1>19. ASSUME NEW c \in Client, OuterDisconnects(c) PROVE OneAnswer' /\ Own'
  <2>1. {c} \in SUBSET Relayed
    BY <1>19 DEF OuterDisconnects
  <2>. QED
    BY <1>8, <1>19, <2>1 DEF OuterDisconnects
<1>9. CASE OuterTimer
  BY <1>8, <1>9 DEF OuterTimer
<1>10. CASE InnerStart
  BY <1>10, InnerStartAnswers
<1>11. CASE InnerConnects
  BY <1>11, ConnectAnswers
<1>12. CASE InnerChannelEnds \/ InnerKilled
  BY <1>12, InnerExitAnswers DEF InnerChannelEnds, InnerKilled
<1>13. ASSUME NEW l \in Link, up' = [up EXCEPT ![l] = <<>>],
              UNCHANGED <<outside, inside, queue, oend>>
       PROVE  OneAnswer' /\ Own'
  <2>1. \A k \in Link : up'[k] = IF k = l THEN <<>> ELSE up[k]
    BY <1>13 DEF Shape, InsideTypes
  <2>2. oend[cmdlink] = "queued" /\ cmdlink # Nil => up[cmdlink] = <<>>
    BY DEF Answers, OneAnswer, Knocking
  <2>. QED
    BY <1>0, <1>13, <2>1, <2>2, QuietAnswers DEF outside, inside, Relayed
<1>14. CASE InnerHeartbeat \/ InnerConnectFails
  <2>1. cmdlink \in Link /\ up' = [up EXCEPT ![cmdlink] = <<>>]
    BY <1>0, <1>14 DEF InnerHeartbeat, InnerConnectFails, Read, Shape, Ends, InsideTypes
  <2>. QED
    BY <1>13, <1>14, <2>1 DEF InnerHeartbeat, InnerConnectFails
<1>15. ASSUME NEW l \in Link, InnerRelays(l) PROVE OneAnswer' /\ Own'
  BY <1>13, <1>15 DEF InnerRelays
<1>16. ASSUME NEW L \in SUBSET {l \in Link : dstsock[l] # Nil}, CloseInside(L),
              UNCHANGED <<outside, inner, cmdlink, queue, oend, reset, client, mishaps, surplus>>
       PROVE  OneAnswer' /\ Own'
  <2>1. /\ \A l \in Link : dstsock'[l] = IF l \in L THEN Nil ELSE dstsock[l]
        /\ \A l \in Link : up'[l] = IF l \in L THEN <<>> ELSE up[l]
    BY <1>16, CloseInsideShape
  <2>2. oend[cmdlink] = "queued" /\ cmdlink # Nil => up[cmdlink] = <<>>
    BY DEF Answers, OneAnswer, Knocking
  <2>. QED
    BY <1>0, <1>16, <2>1, <2>2, QuietAnswers DEF outside, Relayed
<1>17. ASSUME NEW l \in Link, InnerDisconnects(l) PROVE OneAnswer' /\ Own'
  BY <1>16, <1>17 DEF InnerDisconnects
<1>18. CASE InnerTimer
  BY <1>16, <1>18 DEF InnerTimer
<1>. QED
  BY <1>1, <1>2, <1>3, <1>4, <1>5, <1>6, <1>7, <1>8, <1>9, <1>10, <1>11, <1>12, <1>14,
     <1>15, <1>17, <1>18, <1>19 DEF RPNext, Outer, Inner

-----------------------------------------------------------------------------
(* The results.                                                            *)

(* Whatever ends and starts again in whatever order, each end of a link is *)
(* in one place: in the queue of cmdlistensock, with one client, or the    *)
(* command channel (rinetd and rinetdin, their socket arrays).             *)
THEOREM RPTypeCorrect == RPSpec => []RPTypeOK
<1>. QED
  BY InitShape, ShapeStep, ShapeTypes, PTL DEF RPSpec

(* With any number of clients, ports and links, and any number of exits,   *)
(* restarts, lost commands and late answers, a client is relayed to the    *)
(* target of its own port, unless rinetdin has taken something else than a *)
(* command for one: that rinetd accepts one connection for each command,   *)
(* in order, is enough, although no connection says which it answers.      *)
THEOREM OwnTargetCorrect == RPSpec => []OwnTarget
<1>1. RPInit => Answers
  BY DEF RPInit, Answers, OneAnswer, Own, Relayed
<1>2. Shape /\ Answers => OwnTarget
  BY DEF Answers, Own, OwnTarget
<1>. QED
  BY <1>1, <1>2, InitShape, ShapeStep, AnswersStep, PTL DEF RPSpec

=============================================================================
