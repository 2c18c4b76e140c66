---------------------------- MODULE FileTransfer -----------------------------
(***************************************************************************)
(* Transfer of files over TCP: tools/cpp/tcp上传.cpp (upload) and          *)
(* tcp下载.cpp (download) against 文件传输服务端.cpp, with the temporary    *)
(* files of cofile (public/_public.cpp).  In an upload the client sends,   *)
(* in a download it receives; the protocol is the same.                    *)
(*                                                                         *)
(* procctl starts the client again when it has ended, and each connection  *)
(* gets a server process of its own: a session is one client process, one  *)
(* server process and the two directions of their connection.  The server  *)
(* process of a session may outlive the client, and then works on the same *)
(* directories as that of the next session.                                *)
(*                                                                         *)
(* A file is chunks 1..LastChunk, sent in messages of a chunk each.  What  *)
(* was sent is read in order; when the other end has gone, the rest of it  *)
(* is read, or lost.  A delay of the network is one of the other process.  *)
(* Producers give each file a new name (their names carry the time).       *)
(***************************************************************************)
EXTENDS Naturals, Sequences, FiniteSets

CONSTANTS Files,
          LastChunk,    \* bound: the chunks of a file
          MaxSessions,  \* bound: the connections
          MaxFaults,    \* bound: what goes wrong, see Fault below
          Window,       \* bound: the messages in flight to a receiver
          None

ASSUME TransferAssumption == /\ None \notin Files
                             /\ \A S \in SUBSET (1..LastChunk) : S # None
                             /\ {LastChunk, MaxSessions, Window} \subseteq Nat \ {0}
                             /\ MaxFaults \in Nat

VARIABLES
  client,      \* "sender" in an upload, "receiver" in a download
  source,      \* the files in the sender's directory
  made,        \* the files ever produced there
  tmp,         \* the chunks in each <name>.tmp at the destination
  dst,         \* the chunks in each <name> at the destination
  session,     \* the last session
  sender,      \* the sending process of each session
  receiver,    \* the receiving process of each session
  data,        \* the messages sent to the receiver and not read
  replies,     \* the messages sent to the sender and not read
  faults,      \* how many faults there were
  overlapped,  \* the files opened by a receiver while another had them open
  unwritten    \* the files a chunk of which could not be written

files   == <<source, made, tmp, dst>>
streams == <<data, replies>>
history == <<overlapped, unwritten>>
vars    == <<client, files, session, sender, receiver, streams, faults, history>>

-----------------------------------------------------------------------------

Sessions == 1..MaxSessions
Chunks   == 1..LastChunk

(* Where a sender is:   down;                                              *)
(*                      scan,     cdir::opendir();                         *)
(*                      send,     the loop over the files found;           *)
(*                      content,  sendfile();                              *)
(*                      drain,    reading replies while there are any;     *)
(*                      final,    waiting for the replies that are missing;*)
(*                      idle,     nothing was found: sleep(timetvl);       *)
(*                      test,     activetest(), waiting for the reply.     *)
(* Where a receiver is: down;                                              *)
(*                      read,     the next request;                        *)
(*                      content,  recvfile();                              *)
(*                      rename,   closeandrename();                        *)
(*                      reply,    the file is where it should be: reply ok;*)
(*                      lost,     content is read as if it were requests.  *)
(* The inode that a receiver has open is under the temporary name (tmp),   *)
(* under the final one (dst), under none (gone), or there is none.         *)

Message(kind, f, k) == [kind |-> kind, file |-> f, chunk |-> k]
Reply(result, f)    == [result |-> result, file |-> f]

Header(f) == Message("header", f, 0)
Test      == Message("test", None, 0)

Uploading == client = "sender"

SenderUp(s)   == sender[s].at # "down"
ReceiverUp(s) == receiver[s].at # "down"
ClientUp(s)   == IF Uploading THEN SenderUp(s) ELSE ReceiverUp(s)

SenderDown   == [at |-> "down", todo |-> {}, file |-> None, next |-> 1, delayed |-> 0]
ReceiverDown == [at |-> "down", file |-> None, next |-> 1, inode |-> "none"]

Init == /\ client \in {"sender", "receiver"}
        /\ source = {} /\ made = {}
        /\ tmp = [f \in Files |-> None]
        /\ dst = [f \in Files |-> None]
        /\ session = 0
        /\ sender = [s \in Sessions |-> SenderDown]
        /\ receiver = [s \in Sessions |-> ReceiverDown]
        /\ data = [s \in Sessions |-> <<>>]
        /\ replies = [s \in Sessions |-> <<>>]
        /\ faults = 0
        /\ overlapped = {} /\ unwritten = {}

Fault == /\ faults < MaxFaults
         /\ faults' = faults + 1

-----------------------------------------------------------------------------
(* The world: producers, procctl and checkproc.                            *)

Produce(f) ==
  /\ f \notin made
  /\ made' = made \cup {f}
  /\ source' = source \cup {f}
  /\ UNCHANGED <<client, tmp, dst, session, sender, receiver, streams, faults, history>>

\* procctl starts the client; it connects, the server forks, and the login
\* tells the server's process which side it is.
Connect ==
  /\ session < MaxSessions
  /\ session > 0 => ~ClientUp(session)
  /\ session' = session + 1
  /\ sender' = [sender EXCEPT ![session + 1].at = "scan"]
  /\ receiver' = [receiver EXCEPT ![session + 1].at = "read"]
  /\ UNCHANGED <<client, files, streams, faults, history>>

-----------------------------------------------------------------------------
(* The sender: _tcpputfiles(), sendfile(), ackmessage() and activetest().  *)

SenderAt(s, at) == sender[s].at = at

SenderGoes(s, at) == sender' = [sender EXCEPT ![s].at = at]

\* The process exits; what was sent to it is lost.
SenderExits(s) ==
  /\ sender' = [sender EXCEPT ![s] = SenderDown]
  /\ replies' = [replies EXCEPT ![s] = <<>>]

\* A blocking write: it waits for room.
Send(s, m) == /\ ReceiverUp(s)
              /\ Len(data[s]) < Window
              /\ data' = [data EXCEPT ![s] = Append(@, m)]

Scan(s) ==
  /\ SenderAt(s, "scan")
  /\ sender' = [sender EXCEPT ![s].at = IF source = {} THEN "idle" ELSE "send",
                              ![s].todo = source, ![s].delayed = 0]
  /\ UNCHANGED <<client, files, session, receiver, streams, faults, history>>

SendHeader(s, f) ==
  /\ SenderAt(s, "send") /\ f \in sender[s].todo
  /\ Send(s, Header(f))
  /\ sender' = [sender EXCEPT ![s].at = "content", ![s].todo = @ \ {f},
                              ![s].file = f, ![s].next = 1]
  /\ UNCHANGED <<client, files, session, receiver, replies, faults, history>>

\* The file is opened before its first chunk is read, and stays readable.
SendContent(s) ==
  LET k == sender[s].next IN
  /\ SenderAt(s, "content")
  /\ k = 1 => sender[s].file \in source
  /\ Send(s, Message("content", sender[s].file, k))
  /\ sender' = IF k < LastChunk
               THEN [sender EXCEPT ![s].next = k + 1]
               ELSE [sender EXCEPT ![s].at = "drain", ![s].file = None, ![s].next = 1,
                                   ![s].delayed = @ + 1]
  /\ UNCHANGED <<client, files, session, receiver, replies, faults, history>>

\* Mutant: a file that cannot be opened is left out, its header being sent.
SourceOpenFailsSkipping(s) ==
  /\ SenderAt(s, "content") /\ sender[s].next = 1
  /\ sender[s].file \notin source
  /\ SenderGoes(s, "send")
  /\ UNCHANGED <<client, files, session, receiver, streams, faults, history>>

\* An acknowledgement of an earlier round, or another session, removed it.
SourceOpenFails(s) ==
  /\ SenderAt(s, "content") /\ sender[s].next = 1
  /\ sender[s].file \notin source
  /\ SenderExits(s)
  /\ UNCHANGED <<client, files, session, receiver, data, faults, history>>

SendFails(s) ==
  /\ ~ReceiverUp(s)
  /\ \/ SenderAt(s, "send") /\ sender[s].todo # {}
     \/ SenderAt(s, "content")
     \/ SenderAt(s, "idle")
  /\ SenderExits(s)
  /\ UNCHANGED <<client, files, session, receiver, data, faults, history>>

\* ackmessage(): the file named in an "ok" is removed, or moved away.
AckMessage(s) ==
  LET reply == Head(replies[s]) IN
  /\ replies[s] # <<>>
  /\ replies' = [replies EXCEPT ![s] = Tail(@)]
  /\ source' = IF reply.result = "ok" THEN source \ {reply.file} ELSE source

\* The loop over the replies that have come: the upload does not count them.
DrainReply(s) ==
  /\ SenderAt(s, "drain") /\ sender[s].delayed > 0
  /\ AckMessage(s)
  /\ sender' = [sender EXCEPT ![s].delayed = IF Uploading THEN @ ELSE @ - 1]
  /\ UNCHANGED <<client, made, tmp, dst, session, receiver, data, faults, history>>

NoReply(s) == replies[s] = <<>> \/ ~ReceiverUp(s)

DrainEnds(s) ==
  /\ SenderAt(s, "drain")
  /\ sender[s].delayed = 0 \/ NoReply(s)
  /\ SenderGoes(s, "send")
  /\ UNCHANGED <<client, files, session, receiver, streams, faults, history>>

AllSent(s) ==
  /\ SenderAt(s, "send") /\ sender[s].todo = {}
  /\ SenderGoes(s, "final")
  /\ UNCHANGED <<client, files, session, receiver, streams, faults, history>>

FinalReply(s) ==
  /\ SenderAt(s, "final") /\ sender[s].delayed > 0
  /\ AckMessage(s)
  /\ sender' = [sender EXCEPT ![s].delayed = @ - 1]
  /\ UNCHANGED <<client, made, tmp, dst, session, receiver, data, faults, history>>

\* Mutant: no timeout.
FinalEndsWithAll(s) ==
  /\ SenderAt(s, "final")
  /\ sender[s].delayed = 0
  /\ SenderGoes(s, "scan")
  /\ UNCHANGED <<client, files, session, receiver, streams, faults, history>>

\* All the replies are here, or none came for ten seconds.
FinalEnds(s) ==
  /\ SenderAt(s, "final")
  /\ sender[s].delayed = 0 \/ NoReply(s)
  /\ SenderGoes(s, "scan")
  /\ UNCHANGED <<client, files, session, receiver, streams, faults, history>>

SendTest(s) ==
  /\ SenderAt(s, "idle")
  /\ Send(s, Test)
  /\ SenderGoes(s, "test")
  /\ UNCHANGED <<client, files, session, receiver, replies, faults, history>>

\* Any message will do as the reply, an acknowledgement that is late too.
TestReply(s) ==
  /\ SenderAt(s, "test")
  /\ replies[s] # <<>>
  /\ replies' = [replies EXCEPT ![s] = Tail(@)]
  /\ SenderGoes(s, "scan")
  /\ UNCHANGED <<client, files, session, receiver, data, faults, history>>

\* There is no reply, or none within twenty seconds.
TestFails(s) ==
  /\ SenderAt(s, "test")
  /\ ~ReceiverUp(s) \/ (receiver[s].at = "lost" /\ replies[s] = <<>>)
  /\ SenderExits(s)
  /\ UNCHANGED <<client, files, session, receiver, data, faults, history>>

-----------------------------------------------------------------------------
(* The receiver: recvfilesmain() or _tcpgetfiles(), recvfile(), cofile.    *)

ReceiverAt(s, at) == receiver[s].at = at

HasOpen(r, f) == receiver[r].file = f /\ receiver[r].inode # "none"

\* The process exits, which closes its file and its connection.
ReceiverExits(s) ==
  /\ receiver' = [receiver EXCEPT ![s] = ReceiverDown]
  /\ data' = [data EXCEPT ![s] = <<>>]

\* The next message is m, and is read.
Receive(s, m) == /\ data[s] # <<>>
                 /\ m = Head(data[s])
                 /\ data' = [data EXCEPT ![s] = Tail(@)]

\* What a write of reply m does; without a reader it fails.
Answer(s, m) == /\ SenderUp(s)
                /\ replies' = [replies EXCEPT ![s] = Append(@, m)]

ReadTest(s) ==
  /\ ReceiverAt(s, "read")
  /\ Receive(s, Test)
  /\ Answer(s, Reply("alive", None))
  /\ UNCHANGED <<client, files, session, sender, receiver, faults, history>>

\* Mutant: the file is written under its own name, without a .tmp.
OpenInPlace(s, f) ==
  /\ ReceiverAt(s, "read")
  /\ Receive(s, Header(f))
  /\ dst' = [dst EXCEPT ![f] = {}]
  /\ receiver' = [receiver EXCEPT ![s] = [at |-> "content", file |-> f, next |-> 1,
                                          inode |-> "dst"]]
  /\ overlapped' = IF \E r \in Sessions : HasOpen(r, f) THEN overlapped \cup {f}
                   ELSE overlapped
  /\ UNCHANGED <<client, source, made, tmp, session, sender, replies, faults, unwritten>>

\* cofile::open(): a .tmp that is there is truncated and shared.
Open(s, f) ==
  /\ ReceiverAt(s, "read")
  /\ Receive(s, Header(f))
  /\ tmp' = [tmp EXCEPT ![f] = {}]
  /\ receiver' = [receiver EXCEPT ![s] = [at |-> "content", file |-> f, next |-> 1,
                                          inode |-> "tmp"]]
  /\ overlapped' = IF \E r \in Sessions : HasOpen(r, f) THEN overlapped \cup {f}
                   ELSE overlapped
  /\ UNCHANGED <<client, source, made, dst, session, sender, replies, faults, unwritten>>

\* recvfile() fails before it has read the content, which is then read as
\* requests: its first bytes are taken for the length of a message, far more
\* than will come.
OpenFails(s, f) ==
  /\ ReceiverAt(s, "read")
  /\ Fault
  /\ Receive(s, Header(f))
  /\ Answer(s, Reply("failed", f))
  /\ receiver' = [receiver EXCEPT ![s].at = "lost"]
  /\ UNCHANGED <<client, files, session, sender, history>>

\* The chunk is written where the inode of the receiver is.
Written(s, k) ==
  LET f == receiver[s].file IN
  /\ tmp' = IF receiver[s].inode = "tmp" THEN [tmp EXCEPT ![f] = @ \cup {k}] ELSE tmp
  /\ dst' = IF receiver[s].inode = "dst" THEN [dst EXCEPT ![f] = @ \cup {k}] ELSE dst

NextChunk(s) ==
  receiver' = [receiver EXCEPT ![s].at = IF @ = "content" /\ receiver[s].next = LastChunk
                                         THEN "rename" ELSE @,
                               ![s].next = @ + 1]

Write(s, m) ==
  /\ ReceiverAt(s, "content")
  /\ Receive(s, m)
  /\ Written(s, m.chunk)
  /\ NextChunk(s)
  /\ UNCHANGED <<client, source, made, session, sender, replies, faults, history>>

\* The result of cofile::write() is not tested.
WriteFails(s, m) ==
  /\ ReceiverAt(s, "content")
  /\ Fault
  /\ Receive(s, m)
  /\ NextChunk(s)
  /\ unwritten' = unwritten \cup {receiver[s].file}
  /\ UNCHANGED <<client, files, session, sender, replies, overlapped>>

\* What the inodes of file f become when move says where each one goes.
Inode(f, move) ==
  [r \in Sessions |-> IF receiver[r].file = f
                      THEN [receiver[r] EXCEPT !.inode = move[@]] ELSE receiver[r]]

Renaming == [none |-> "none", tmp |-> "dst", dst |-> "gone", gone |-> "gone"]
Removing == [none |-> "none", tmp |-> "gone", dst |-> "dst", gone |-> "gone"]

\* closeandrename(), by name, whosever the .tmp is now.  The result, which
\* is false when there is none, is not tested.
CloseAndRename(s) ==
  LET f     == receiver[s].file
      found == tmp[f] # None
      moved == IF found THEN Inode(f, Renaming) ELSE receiver
  IN /\ ReceiverAt(s, "rename")
     /\ dst' = IF found THEN [dst EXCEPT ![f] = tmp[f]] ELSE dst
     /\ tmp' = [tmp EXCEPT ![f] = None]
     /\ receiver' = [moved EXCEPT ![s].at = "reply", ![s].inode = "none"]
     /\ UNCHANGED <<client, source, made, session, sender, streams, faults, history>>

ReplyOk(s) ==
  /\ ReceiverAt(s, "reply")
  /\ Answer(s, Reply("ok", receiver[s].file))
  /\ receiver' = [receiver EXCEPT ![s].at = "read", ![s].file = None, ![s].next = 1]
  /\ UNCHANGED <<client, files, session, sender, data, faults, history>>

AnswerFails(s) ==
  /\ ~SenderUp(s)
  /\ ReceiverAt(s, "reply") \/ (ReceiverAt(s, "read") /\ data[s] # <<>>)
  /\ ReceiverExits(s)
  /\ UNCHANGED <<client, files, session, sender, replies, faults, history>>

\* The connection ends in the content: ~cofile() removes the .tmp, by name,
\* and the reply that the file failed has no reader.
EndOfContent(s) ==
  LET f == receiver[s].file
      moved == Inode(f, Removing)
  IN /\ ReceiverAt(s, "content")
     /\ ~SenderUp(s)
     /\ tmp' = [tmp EXCEPT ![f] = None]
     /\ receiver' = [moved EXCEPT ![s] = ReceiverDown]
     /\ data' = [data EXCEPT ![s] = <<>>]
     /\ UNCHANGED <<client, source, made, dst, session, sender, replies, faults, history>>

EndOfStream(s) ==
  /\ receiver[s].at \in {"read", "lost"}
  /\ ~SenderUp(s)
  /\ ReceiverExits(s)
  /\ UNCHANGED <<client, files, session, sender, replies, faults, history>>

Swallow(s) ==
  /\ ReceiverAt(s, "lost")
  /\ data[s] # <<>>
  /\ data' = [data EXCEPT ![s] = Tail(@)]
  /\ UNCHANGED <<client, files, session, sender, receiver, replies, faults, history>>

\* It reports no heartbeat any more.
CheckprocKills(s) ==
  /\ ReceiverAt(s, "lost")
  /\ ReceiverExits(s)
  /\ UNCHANGED <<client, files, session, sender, replies, faults, history>>

-----------------------------------------------------------------------------
(* Faults other than OpenFails and WriteFails: a process is killed, or     *)
(* waits for a message longer than it is ready to.                         *)

SenderFails(s) ==
  /\ SenderUp(s)
  /\ Fault
  /\ SenderExits(s)
  /\ UNCHANGED <<client, files, session, receiver, data, history>>

\* A signal runs no destructors: the .tmp stays.
ReceiverFails(s) ==
  /\ ReceiverUp(s)
  /\ Fault
  /\ ReceiverExits(s)
  /\ UNCHANGED <<client, files, session, sender, replies, history>>

-----------------------------------------------------------------------------

SenderStep(s) == \/ Scan(s) \/ SendContent(s) \/ SourceOpenFails(s) \/ SendFails(s)
                 \/ DrainReply(s) \/ DrainEnds(s) \/ AllSent(s) \/ FinalReply(s)
                 \/ FinalEnds(s) \/ SendTest(s) \/ TestReply(s) \/ TestFails(s)
                 \/ \E f \in Files : SendHeader(s, f)

Requests == {Header(f) : f \in Files}
Contents == {Message("content", f, k) : f \in Files, k \in Chunks}

ReceiverStep(s) == \/ ReadTest(s) \/ CloseAndRename(s) \/ ReplyOk(s) \/ AnswerFails(s)
                   \/ EndOfContent(s) \/ EndOfStream(s) \/ Swallow(s) \/ CheckprocKills(s)
                   \/ \E f \in Files : Open(s, f)
                   \/ \E m \in Requests \cup Contents \cup {Test} : Write(s, m)

Failure(s) == \/ SenderFails(s) \/ ReceiverFails(s)
              \/ \E f \in Files : OpenFails(s, f)
              \/ \E m \in Requests \cup Contents \cup {Test} : WriteFails(s, m)

Next == \/ \E f \in Files : Produce(f)
        \/ Connect
        \/ \E s \in Sessions : SenderStep(s) \/ ReceiverStep(s) \/ Failure(s)

Spec == Init /\ [][Next]_vars

(* The processes run, procctl starts the client again, and checkproc kills *)
(* a receiver that reports no heartbeat.  Nothing has to be produced, and  *)
(* nothing has to fail.                                                    *)
Fairness == /\ WF_vars(Connect)
            /\ \A s \in Sessions : /\ WF_vars(SenderStep(s))
                                   /\ WF_vars(ReceiverStep(s))
                                   /\ WF_vars(CheckprocKills(s))

FairSpec == Spec /\ Fairness

-----------------------------------------------------------------------------
(* Properties                                                              *)

(* The receiver finds its way through the stream without marks: what it    *)
(* reads as a request is one, and what it writes is the next chunk of the  *)
(* file it has open (recvfile() counts bytes, tcp上传.cpp:302-323 sends as  *)
(* many as the header said).                                               *)
InStep ==
  \A s \in Sessions : data[s] # <<>> =>
    LET m == Head(data[s]) IN
      /\ ReceiverAt(s, "content") => m = Message("content", receiver[s].file, receiver[s].next)
      /\ receiver[s].at \in {"read", "rename", "reply"} => m.kind # "content"

Spoilt == overlapped \cup unwritten

(* The transfer keeps the promise of FileDelivery across crashes, restarts,*)
(* late, repeated and lost acknowledgements: no file leaves the source     *)
(* before it is complete, and none is under its final name before that     *)
(* (cofile writes a .tmp and renames it).  What was spoilt counts as       *)
(* arrived.                                                                *)
Delivery == INSTANCE FileDelivery WITH
              waiting <- source,
              seen    <- made,
              visible <- Spoilt \cup {f \in Files : dst[f] # None},
              arrived <- Spoilt \cup {f \in Files : dst[f] = Chunks}

ImplementsDelivery == Delivery!FDSpec

(* Every file leaves the source in the end: a fault costs the session at   *)
(* most, and the next one sends again what was not acknowledged.           *)
FilesAreDelivered == \A f \in Files : f \in source ~> f \notin source

=============================================================================
