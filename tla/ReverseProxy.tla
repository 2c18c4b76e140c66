---------------------------- MODULE ReverseProxy ----------------------------
(***************************************************************************)
(* The reverse proxy: rinetd (反向代理.cpp) on the outside accepts clients, *)
(* rinetdin (反向代理2.cpp) on the inside connects to the targets.  Only   *)
(* the inside can open connections, so for every client the outside sends  *)
(* a command on the command channel and takes the next connection in the   *)
(* queue of cmdlistensock for the answer.  Nothing in that connection says *)
(* which command it answers.  Both programs run under procctl.             *)
(*                                                                         *)
(* A link is a connection between the two programs.  The relay loop, with  *)
(* its arrays and the numbers used again, is the one of module Relay: here *)
(* a pair is a pair, and bytes matter only where they may be taken for     *)
(* commands.                                                               *)
(*                                                                         *)
(* The names of this module are apart from those of Relay, because         *)
(* ProxyProofs extends both.                                               *)
(***************************************************************************)
EXTENDS Naturals, Sequences, SequencesExt

CONSTANTS Client,      \* those that connect to a port of vroute
          Target,      \* Client -> the dstip and dstport of that port
          Link,        \* bound: the connections there can be at a time
          MaxMishaps,  \* bound: exits, failed connections, delayed commands
          Nil

ASSUME ProxyAssumption == /\ Target \in [Client -> Range(Target)]
                          /\ {"beat", "bytes"} \cap Range(Target) = {}
                          /\ Nil \notin Link \cup Client \cup Range(Target)
                          /\ MaxMishaps \in Nat

VARIABLES
  \* rinetd
  outer,       \* where it is: down, start, loop, accept
  cmdconnsock, \* its end of the command channel
  srcsock,     \* the client for which it waits in accept()
  pair,        \* clientsocks: client -> link
  \* rinetdin
  inner,       \* down or loop
  cmdlink,     \* its cmdconnsock
  dstsock,     \* clientsocks: link -> the target at the other side
  \* the network
  queue,       \* connections to cmdlistensock not yet accepted
  oend,        \* rinetd's end of a link: queued, open or closed
  iend,        \* the links whose end at rinetdin is open
  up,          \* what rinetdin can read from a link
  reset,       \* a reset of the command channel: no, coming, here
  \* the clients
  client,      \* away, waiting, open, talking (rinetd can read something), left
  mishaps,
  surplus      \* history: rinetdin has connected without being told to

outside == <<outer, cmdconnsock, srcsock, pair>>
inside  == <<inner, cmdlink, dstsock>>
net     == <<queue, oend, iend, up>>
RPvars  == <<outside, inside, net, reset, client, mishaps, surplus>>

Unused == {l \in Link : l \notin iend /\ oend[l] = "closed"}
NewLink == CHOOSE l \in Unused : TRUE
Relayed == {c \in Client : pair[c] # Nil}
Mishap == mishaps < MaxMishaps /\ mishaps' = mishaps + 1

RPTypeOK == /\ outer \in {"down", "start", "loop", "accept"}
            /\ cmdconnsock \in Link \cup {Nil}
            /\ cmdconnsock # Nil <=> outer \in {"loop", "accept"}
            /\ srcsock \in Client \cup {Nil}
            /\ srcsock # Nil <=> outer = "accept"
            /\ pair \in [Client -> Link \cup {Nil}]
            /\ inner \in {"down", "loop"} /\ cmdlink \in iend \cup {Nil}
            /\ dstsock \in [Link -> Range(Target) \cup {Nil}]
            /\ queue \in Seq(Link) /\ IsInjective(queue)
            /\ oend \in [Link -> {"queued", "open", "closed"}]
            /\ Range(queue) = {l \in Link : oend[l] = "queued"}
            /\ {l \in Link : oend[l] = "open"} = (Range(pair) \cup {cmdconnsock}) \ {Nil}
            /\ iend \subseteq Link
            /\ up \in [Link -> Seq({"beat", "bytes"} \cup Range(Target))]
            /\ \A l \in Link \ iend : up[l] = <<>> /\ dstsock[l] = Nil
            /\ reset \in {"no", "coming", "here"}
            /\ client \in [Client -> {"away", "waiting", "open", "talking", "left"}]
            /\ mishaps \in 0..MaxMishaps
            /\ surplus \in BOOLEAN

RPInit == /\ outer = "down" /\ cmdconnsock = Nil /\ srcsock = Nil
          /\ pair = [c \in Client |-> Nil]
          /\ inner = "down" /\ cmdlink = Nil /\ dstsock = [l \in Link |-> Nil]
          /\ queue = <<>> /\ oend = [l \in Link |-> "closed"] /\ iend = {}
          /\ up = [l \in Link |-> <<>>] /\ reset = "no"
          /\ client = [c \in Client |-> "away"]
          /\ mishaps = 0 /\ surplus = FALSE

-----------------------------------------------------------------------------
(* The clients.  rinetd listens for them once it has its command channel.  *)

ClientConnects(c) == /\ client[c] = "away" /\ outer \in {"loop", "accept"}
                     /\ client' = [client EXCEPT ![c] = "waiting"]
                     /\ UNCHANGED <<outside, inside, net, reset, mishaps, surplus>>

ClientSends(c) == /\ client[c] = "open"
                  /\ client' = [client EXCEPT ![c] = "talking"]
                  /\ UNCHANGED <<outside, inside, net, reset, mishaps, surplus>>

ClientLeaves(c) == /\ client[c] = "open"
                   /\ client' = [client EXCEPT ![c] = "left"]
                   /\ UNCHANGED <<outside, inside, net, reset, mishaps, surplus>>

-----------------------------------------------------------------------------
(* rinetd, the outside.                                                    *)

\* EXIT() closes every socket; what the other side has not read stays there.
OuterExit == /\ outer' = "down" /\ cmdconnsock' = Nil /\ srcsock' = Nil
             /\ pair' = [c \in Client |-> Nil]
             /\ queue' = <<>> /\ oend' = [l \in Link |-> "closed"]
             /\ reset' = "no"
             /\ client' = [c \in Client |-> "away"]
             /\ UNCHANGED <<inside, iend, up>>

\* procctl starts it, and it listens for the inside.  By then, after the pause
\* of procctl, rinetdin has noticed that it was gone, or is late (a fault).
OuterStart == /\ outer = "down" /\ outer' = "start"
              /\ IF inner = "down" THEN UNCHANGED mishaps ELSE Mishap
              /\ UNCHANGED <<cmdconnsock, srcsock, pair, inside, net, reset, client,
                             surplus>>

\* The first connection is the command channel.
OuterTakesCommandChannel ==
  /\ outer = "start" /\ queue # <<>>
  /\ outer' = "loop" /\ cmdconnsock' = Head(queue)
  /\ queue' = Tail(queue) /\ oend' = [oend EXCEPT ![Head(queue)] = "open"]
  /\ UNCHANGED <<srcsock, pair, inside, iend, up, reset, client, mishaps, surplus>>

\* send() on the command channel.  The first one after the inside has closed
\* its end succeeds, and is answered by a reset.
SendCommand(m) ==
  /\ reset # "here"
  /\ IF cmdconnsock \in iend
       THEN up' = [up EXCEPT ![cmdconnsock] = Append(@, m)] /\ UNCHANGED reset
       ELSE reset' = "coming" /\ UNCHANGED up

ResetArrives == /\ reset = "coming" /\ reset' = "here"
                /\ UNCHANGED <<outside, inside, net, client, mishaps, surplus>>

\* Both ends of the channels of C are closed.
CloseOutside(C) == /\ pair' = [c \in Client |-> IF c \in C THEN Nil ELSE pair[c]]
                   /\ oend' = [l \in Link |-> IF \E c \in C : pair[c] = l THEN "closed" ELSE oend[l]]
                   /\ client' = [c \in Client |-> IF c \in C THEN "away" ELSE client[c]]

\* Every 20 seconds: a heartbeat, and the channels idle for 80 seconds.  That
\* the last one has not been read yet is a fault.
OuterTimer ==
  /\ outer = "loop" /\ SendCommand("beat")
  /\ IF up[cmdconnsock] = <<>> THEN UNCHANGED mishaps ELSE Mishap
  /\ \E idle \in SUBSET Relayed : CloseOutside(idle)
  /\ UNCHANGED <<outer, cmdconnsock, srcsock, inside, queue, iend, surplus>>

\* A send() that fails ends the program.
OuterSendUntested ==   \* Mutant: the result of send() is not tested.
  /\ outer = "loop" /\ reset = "here" /\ reset' = "no"
  /\ UNCHANGED <<outside, inside, net, client, mishaps, surplus>>
OuterSendFails == /\ outer = "loop" /\ reset = "here"
                  /\ OuterExit
                  /\ UNCHANGED <<mishaps, surplus>>

\* accept() of a client, the command for it, and accept() of the answer.
OuterAcceptAgain(c) ==   \* Mutant: rinetd does not wait for the answer.
  /\ outer \in {"loop", "accept"} /\ client[c] = "waiting" /\ SendCommand(Target[c])
  /\ outer' = "accept" /\ srcsock' = c
  /\ client' = [client EXCEPT ![c] = "open"]
  /\ UNCHANGED <<cmdconnsock, pair, inside, queue, oend, iend, mishaps, surplus>>
OuterAccept(c) ==
  /\ outer = "loop" /\ client[c] = "waiting" /\ SendCommand(Target[c])
  /\ outer' = "accept" /\ srcsock' = c
  /\ client' = [client EXCEPT ![c] = "open"]
  /\ UNCHANGED <<cmdconnsock, pair, inside, queue, oend, iend, mishaps, surplus>>

OuterPair == /\ outer = "accept" /\ queue # <<>>
             /\ pair' = [pair EXCEPT ![srcsock] = Head(queue)]
             /\ queue' = Tail(queue) /\ oend' = [oend EXCEPT ![Head(queue)] = "open"]
             /\ outer' = "loop" /\ srcsock' = Nil
             /\ UNCHANGED <<cmdconnsock, inside, iend, up, reset, client, mishaps, surplus>>

OuterRelays(c) ==
  /\ outer = "loop" /\ c \in Relayed /\ client[c] = "talking"
  /\ client' = [client EXCEPT ![c] = "open"]
  /\ up' = IF pair[c] \in iend THEN [up EXCEPT ![pair[c]] = <<"bytes">>] ELSE up
  /\ UNCHANGED <<outside, inside, queue, oend, iend, reset, mishaps, surplus>>

\* recv() returns 0 at either end of a channel.
OuterDisconnects(c) == /\ outer = "loop" /\ c \in Relayed
                       /\ client[c] = "left" \/ pair[c] \notin iend
                       /\ CloseOutside({c})
                       /\ UNCHANGED <<outer, cmdconnsock, srcsock, inside, queue, iend, up,
                                      reset, mishaps, surplus>>

OuterKilled == outer # "down" /\ Mishap /\ OuterExit /\ UNCHANGED surplus

-----------------------------------------------------------------------------
(* rinetdin, the inside.                                                   *)

\* EXIT().  What was not read makes the kernel reset the connection.
InnerExit == /\ inner' = "down" /\ cmdlink' = Nil
             /\ dstsock' = [l \in Link |-> Nil]
             /\ iend' = {} /\ up' = [l \in Link |-> <<>>]
             /\ reset' = IF cmdconnsock # Nil /\ up[cmdconnsock] # <<>> THEN "coming"
                         ELSE reset
             /\ UNCHANGED <<outside, queue, oend, client>>

\* connect() to rinetd; a refused one that does not block fails later.
ConnectOut(l) == IF outer = "down" THEN UNCHANGED <<queue, oend>>
                 ELSE queue' = Append(queue, l) /\ oend' = [oend EXCEPT ![l] = "queued"]

\* procctl starts it again until rinetd listens.
InnerStart == /\ inner = "down" /\ outer # "down" /\ Unused # {}
              /\ inner' = "loop" /\ cmdlink' = NewLink
              /\ iend' = iend \cup {NewLink} /\ ConnectOut(NewLink)
              /\ UNCHANGED <<outside, dstsock, up, reset, client, mishaps, surplus>>

\* One recv() takes all there is; only one heartbeat alone is known for one.
Arrived == up[cmdlink]
Read     == /\ inner = "loop" /\ Arrived # <<>>
            /\ up' = [up EXCEPT ![cmdlink] = <<>>]
InnerHeartbeat == /\ Read /\ Arrived = <<"beat">>
                  /\ UNCHANGED <<outside, inside, queue, oend, iend, reset, client, mishaps,
                                 surplus>>

\* The command that getxmlbuffer() finds is the first; without one the address
\* is empty, and the connection already made is closed again.
Commands == {i \in 1..Len(Arrived) : Arrived[i] \in Range(Target)}
InnerConnects ==
  /\ Read /\ Arrived # <<"beat">> /\ Unused # {}
  /\ ConnectOut(NewLink)
  /\ \/ /\ iend' = iend \cup {NewLink}
        /\ \E first \in Commands :
             /\ \A i \in Commands : first <= i
             /\ dstsock' = [dstsock EXCEPT ![NewLink] = Arrived[first]]
        /\ UNCHANGED mishaps
     \/ /\ IF Commands = {} THEN UNCHANGED mishaps ELSE Mishap
        /\ UNCHANGED <<iend, dstsock>>
  /\ surplus' = (surplus \/ Commands = {})
  /\ UNCHANGED <<outside, inner, cmdlink, reset, client>>

\* There is no socket for it, or no address of rinetd.
InnerConnectFails == /\ Read /\ Arrived # <<"beat">> /\ Mishap
                     /\ UNCHANGED <<outside, inside, queue, oend, iend, reset, client,
                                     surplus>>

\* The end of the command channel ends the program.
InnerChannelEnds == /\ inner = "loop" /\ Arrived = <<>> /\ oend[cmdlink] = "closed"
                    /\ InnerExit
                    /\ UNCHANGED <<mishaps, surplus>>

CloseInside(L) == /\ dstsock' = [l \in Link |-> IF l \in L THEN Nil ELSE dstsock[l]]
                  /\ iend' = iend \ L
                  /\ up' = [l \in Link |-> IF l \in L THEN <<>> ELSE up[l]]

InnerRelays(l) == /\ inner = "loop" /\ dstsock[l] # Nil /\ up[l] # <<>>
                  /\ up' = [up EXCEPT ![l] = <<>>]
                  /\ UNCHANGED <<outside, inside, queue, oend, iend, reset, client, mishaps,
                                 surplus>>

\* recv() returns 0 at a link that rinetd has closed, or at a target, which may
\* close at any time.
InnerDisconnects(l) == /\ inner = "loop" /\ dstsock[l] # Nil
                       /\ CloseInside({l})
                       /\ UNCHANGED <<outside, inner, cmdlink, queue, oend, reset, client,
                                      mishaps, surplus>>
InnerLinkEnds(l) == up[l] = <<>> /\ oend[l] = "closed" /\ InnerDisconnects(l)

\* Every 20 seconds: the channels idle for 80 seconds.
InnerTimer == /\ inner = "loop"
              /\ \E idle \in SUBSET {l \in Link : dstsock[l] # Nil} : CloseInside(idle)
              /\ UNCHANGED <<outside, inner, cmdlink, queue, oend, reset, client, mishaps,
                             surplus>>

InnerKilled == inner # "down" /\ Mishap /\ InnerExit /\ UNCHANGED surplus

-----------------------------------------------------------------------------
Outer == OuterStart \/ OuterTakesCommandChannel \/ OuterSendFails \/ OuterPair
         \/ \E c \in Client : OuterAccept(c) \/ OuterRelays(c) \/ OuterDisconnects(c)
Inner == InnerStart \/ InnerHeartbeat \/ InnerConnects \/ InnerChannelEnds
         \/ \E l \in Link : InnerRelays(l) \/ InnerDisconnects(l)
RPNext == Outer \/ OuterTimer \/ Inner \/ InnerTimer \/ ResetArrives
          \/ InnerConnectFails \/ OuterKilled \/ InnerKilled
          \/ \E c \in Client : ClientConnects(c) \/ ClientSends(c) \/ ClientLeaves(c)
RPSpec == RPInit /\ [][RPNext]_RPvars

\* procctl starts both programs, each handles its command channel, rinetdin its
\* links, and the timer of rinetd expires.
OuterStep == OuterStart \/ OuterTakesCommandChannel \/ OuterPair \/ OuterSendFails
InnerStep == InnerStart \/ InnerHeartbeat \/ InnerConnects \/ InnerChannelEnds
InnerLinkStep == \E l \in Link : InnerRelays(l) \/ InnerLinkEnds(l)

RPFairSpec == /\ RPSpec
              /\ WF_RPvars(OuterStep) /\ SF_RPvars(OuterTimer)
              /\ WF_RPvars(InnerStep) /\ WF_RPvars(InnerLinkStep)
              /\ WF_RPvars(ResetArrives)

-----------------------------------------------------------------------------
(* No client talks to the target of another's port: the link it was given  *)
(* leads to its own, unless rinetdin has taken something else than a       *)
(* command for one, and its connection is somebody's answer.               *)
OwnTarget == surplus \/ \A c \in Relayed : dstsock[pair[c]] \in {Target[c], Nil}

(* Whatever ends, and whatever is taken for the command channel, the two   *)
(* programs come to have one command channel for good; but rinetd may wait *)
(* in accept() for an answer that nobody sends.                            *)
Stuck == outer = "accept" /\ queue = <<>>
Recovers == <>[](cmdconnsock # Nil /\ cmdconnsock = cmdlink) \/ <>[]Stuck
=============================================================================
