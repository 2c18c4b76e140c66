-------------------------- MODULE FileTransferProofs --------------------------
(***************************************************************************)
(* For any number of files, chunks, sessions and faults and any window:    *)
(* sender and receiver keep in step, and the transfer implements           *)
(* FileDelivery.                                                           *)
(*                                                                         *)
(* The stream of a session has no marks.  The invariant says of each       *)
(* message in it that it follows the one before, that the sender goes on   *)
(* after the last one and that the receiver is where the first one starts  *)
(* (Aligned).  A file that no two receivers had open and of which no write *)
(* failed then has in its .tmp what its one receiver has read (Whole), and *)
(* an "ok" is only for a file that arrived (Told).                         *)
(***************************************************************************)
EXTENDS FileTransfer, TLAPS, SequenceTheorems

Modes     == {"down", "scan", "send", "content", "drain", "final", "idle", "test"}
Messages  == [kind : {"header", "content", "test"}, file : Files \cup {None}, chunk : 0..LastChunk]
Results   == [result : {"ok", "failed", "alive"}, file : Files \cup {None}]
Contented == (SUBSET Chunks) \cup {None}

Senders   == [at : Modes, todo : SUBSET made, file : Files \cup {None}, next : Chunks, delayed : Nat]
Receivers == [at : {"down", "read", "content", "rename", "reply", "lost"},
              file : made \cup {None}, next : 1..(LastChunk + 1),
              inode : {"none", "tmp", "dst", "gone"}]

\* The files that are at the destination, those spoilt among them.
Arrived == Spoilt \cup {f \in Files : dst[f] = Chunks}

\* Headers are of files that were made, and an "ok" is for a file that arrived.
Known == {m \in Messages : m.kind = "header" => m.file \in made}
Told  == {r \in Results : r.result = "ok" => r.file \in Arrived}

Types ==
  /\ source \subseteq made /\ made \subseteq Files
  /\ tmp \in [Files -> Contented] /\ dst \in [Files -> Contented]
  /\ session \in 0..MaxSessions
  /\ sender \in [Sessions -> Senders] /\ receiver \in [Sessions -> Receivers]
  /\ data \in [Sessions -> Seq(Known)] /\ replies \in [Sessions -> Seq(Told)]
  /\ overlapped \subseteq made /\ unwritten \subseteq made

\* What a receiver has open goes with where it is.
Placed(s) ==
  /\ receiver[s].at \in {"down", "read", "lost"} <=> receiver[s].file = None
  /\ receiver[s].at \in {"content", "rename"} <=> receiver[s].inode # "none"
  /\ receiver[s].inode = "tmp" => tmp[receiver[s].file] # None
  /\ receiver[s].inode = "dst" => dst[receiver[s].file] # None
  /\ receiver[s].at = "content" => receiver[s].next \in Chunks
  /\ receiver[s].at = "rename" => receiver[s].next = LastChunk + 1
  /\ receiver[s].at = "down" => data[s] = <<>>

Control ==
  \A s \in Sessions :
    /\ sender[s].at = "content" => sender[s].file \in made
    /\ Placed(s)
    /\ s > session => sender[s].at = "down" /\ receiver[s].at = "down"

\* More content has to come after message m.
Unfinished(m) == m.kind # "test" /\ m.chunk < LastChunk

Follows(m, n) == IF Unfinished(m) THEN n = Message("content", m.file, m.chunk + 1)
                 ELSE n.kind # "content"

Chained(q) == \A i \in 1..(Len(q) - 1) : Follows(q[i], q[i + 1])

\* What the sender sends next follows the last message m.
SendsOn(s, m) == IF SenderAt(s, "content")
                 THEN /\ Unfinished(m) /\ m.file = sender[s].file
                      /\ m.chunk + 1 = sender[s].next
                 ELSE ~Unfinished(m)

\* The next message m is what the receiver takes it for.
ReadsOn(s, m) == IF ReceiverAt(s, "content")
                 THEN m = Message("content", receiver[s].file, receiver[s].next)
                 ELSE m.kind # "content"

\* With nothing between them, they are at the same place.
Meet(s) == /\ SenderAt(s, "content") <=> ReceiverAt(s, "content")
           /\ SenderAt(s, "content") => /\ sender[s].file = receiver[s].file
                                        /\ sender[s].next = receiver[s].next

Reading(s) == receiver[s].at \notin {"down", "lost"}

AlignedAt(s) ==
  /\ Chained(data[s])
  /\ data[s] # <<>> /\ SenderUp(s) => SendsOn(s, data[s][Len(data[s])])
  /\ data[s] # <<>> /\ Reading(s) => ReadsOn(s, Head(data[s]))
  /\ data[s] = <<>> /\ SenderUp(s) /\ Reading(s) => Meet(s)

Aligned == \A s \in Sessions : AlignedAt(s)

\* A file that is not spoilt has one receiver at most, whose .tmp holds the
\* chunks before the next one; and it is at the destination whole or not at all.
InOnePiece(f) ==
  /\ dst[f] \in {None, Chunks}
  /\ \A s \in Sessions : receiver[s].file = f =>
       /\ ReceiverAt(s, "reply") => dst[f] = Chunks
       /\ receiver[s].inode # "none" => /\ receiver[s].inode = "tmp"
                                        /\ tmp[f] = 1..(receiver[s].next - 1)
  /\ \A s, r \in Sessions : HasOpen(s, f) /\ HasOpen(r, f) => s = r

Whole == \A f \in Files \ Spoilt : InOnePiece(f)

IInv == Types /\ Control /\ Aligned /\ Whole

USE TransferAssumption DEF Sessions, Chunks

-----------------------------------------------------------------------------
(* Streams.                                                                *)

\* A message that is read leaves the rest of the stream as it was.
LEMMA Reads ==
  ASSUME NEW S, NEW q \in Seq(S), q # <<>>, Chained(q)
  PROVE  /\ Head(q) \in S /\ Tail(q) \in Seq(S) /\ Chained(Tail(q))
         /\ Tail(q) # <<>> => /\ Follows(Head(q), Head(Tail(q)))
                              /\ Tail(q)[Len(Tail(q))] = q[Len(q)]
         /\ Tail(q) = <<>> => q[Len(q)] = Head(q)
<1>1. /\ Head(q) \in S /\ Tail(q) \in Seq(S) /\ Len(q) \in Nat \ {0}
      /\ Len(Tail(q)) = Len(q) - 1 /\ Head(q) = q[1]
      /\ \A i \in 1..(Len(q) - 1) : Tail(q)[i] = q[i + 1]
  OBVIOUS
<1>2. Chained(Tail(q))
  BY <1>1 DEF Chained
<1>3. ASSUME Tail(q) # <<>> PROVE /\ Follows(Head(q), Head(Tail(q)))
                                  /\ Tail(q)[Len(Tail(q))] = q[Len(q)]
  <2>1. Len(q) > 1 /\ Head(Tail(q)) = q[2]
    BY <1>1, <1>3
  <2>. QED
    BY <1>1, <2>1 DEF Chained
<1>4. Tail(q) = <<>> => Len(q) = 1
  BY <1>1
<1>. QED
  BY <1>1, <1>2, <1>3, <1>4

\* A message that follows the last one is sent.
LEMMA Sends ==
  ASSUME NEW S, NEW q \in Seq(S), Chained(q), NEW m \in S,
         q # <<>> => Follows(q[Len(q)], m)
  PROVE  LET p == Append(q, m) IN
         /\ p \in Seq(S) /\ p # <<>> /\ p[Len(p)] = m /\ Chained(p)
         /\ Head(p) = IF q = <<>> THEN m ELSE Head(q)
<1>. DEFINE p == Append(q, m)
<1>1. /\ p \in Seq(S) /\ Len(p) = Len(q) + 1 /\ Len(q) \in Nat /\ p # <<>>
      /\ p[Len(q) + 1] = m /\ \A i \in 1..Len(q) : p[i] = q[i]
  OBVIOUS
<1>2. ASSUME NEW i \in 1..(Len(p) - 1) PROVE Follows(p[i], p[i + 1])
  <2>1. CASE i < Len(q)
    BY <1>1, <1>2, <2>1 DEF Chained
  <2>2. CASE i = Len(q)
    BY <1>1, <1>2, <2>2
  <2>. QED
    BY <1>1, <1>2, <2>1, <2>2
<1>3. Head(p) = IF q = <<>> THEN m ELSE Head(q)
  BY <1>1
<1>. QED
  BY <1>1, <1>2, <1>3 DEF Chained

\* Files and arrivals do not become fewer, so messages stay what they were.
LEMMA StaysKnown ==
  ASSUME made \subseteq made', NEW q \in Seq(Known)
  PROVE  q \in Seq(Known')
<1>1. Known \subseteq Known'
  BY DEF Known, Messages
<1>. QED
  BY <1>1, SeqMonotonic

\* Nor do the results that were told become wrong.
LEMMA StaysTold ==
  ASSUME Arrived \subseteq Arrived', NEW q \in Seq(Told)
  PROVE  q \in Seq(Told')
<1>1. Told \subseteq Told'
  BY DEF Told, Results
<1>. QED
  BY <1>1, SeqMonotonic

-----------------------------------------------------------------------------
(* The invariant.                                                          *)

\* The invariant holds before the first session.
LEMMA InitInv == Init => IInv
<1>. SUFFICES ASSUME Init PROVE IInv
  OBVIOUS
<1>1. SenderDown \in Senders /\ ReceiverDown \in Receivers
  BY DEF SenderDown, ReceiverDown, Senders, Receivers, Modes
<1>2. Types
  BY <1>1 DEF Init, Types, Contented
<1>3. Control
  BY DEF Init, Control, Placed, SenderDown, ReceiverDown
<1>4. Aligned
  <2>1. ASSUME NEW s \in Sessions PROVE Chained(data[s])
    BY <2>1 DEF Init, Chained
  <2>. QED
    BY <2>1 DEF Init, Aligned, AlignedAt, SenderDown, SenderUp
<1>5. Whole
  BY DEF Init, Whole, InOnePiece, ReceiverDown, HasOpen, ReceiverAt
<1>. QED
  BY <1>2, <1>3, <1>4, <1>5 DEF IInv

-----------------------------------------------------------------------------
(* The steps keep the promise of FileDelivery.                             *)

\* A step that leaves the source, the destination and the history alone.
Quiet == UNCHANGED <<source, made, dst, history>>

\* What a session does when nothing arrives, is spoilt or leaves the source.
LEMMA QuietSteps ==
  ASSUME NEW s \in Sessions,
         \/ Scan(s) \/ SendContent(s) \/ SourceOpenFails(s) \/ SendFails(s) \/ DrainEnds(s)
         \/ AllSent(s) \/ FinalEnds(s) \/ SendTest(s) \/ TestReply(s) \/ TestFails(s)
         \/ \E f \in Files : SendHeader(s, f) \/ OpenFails(s, f)
         \/ ReadTest(s) \/ ReplyOk(s) \/ AnswerFails(s) \/ EndOfContent(s) \/ EndOfStream(s)
         \/ Swallow(s) \/ CheckprocKills(s) \/ SenderFails(s) \/ ReceiverFails(s)
  PROVE  Quiet
<1>. USE DEF files, history, Quiet
<1>1. CASE \/ Scan(s) \/ SendContent(s) \/ SourceOpenFails(s) \/ SendFails(s) \/ DrainEnds(s)
           \/ AllSent(s) \/ FinalEnds(s) \/ SendTest(s) \/ TestReply(s) \/ TestFails(s)
           \/ SenderFails(s) \/ \E f \in Files : SendHeader(s, f)
  BY <1>1 DEF Scan, SendContent, SourceOpenFails, SendFails, DrainEnds, AllSent, FinalEnds,
              SendTest, TestReply, TestFails, SenderFails, SendHeader
<1>2. CASE \/ ReadTest(s) \/ ReplyOk(s) \/ AnswerFails(s) \/ EndOfContent(s) \/ EndOfStream(s)
           \/ Swallow(s) \/ CheckprocKills(s) \/ ReceiverFails(s)
           \/ \E f \in Files : OpenFails(s, f)
  BY <1>2 DEF ReadTest, ReplyOk, AnswerFails, EndOfContent, EndOfStream, Swallow,
              CheckprocKills, ReceiverFails, OpenFails
<1>. QED
  BY <1>1, <1>2

\* The file a receiver opens was made, for its header was sent.
LEMMA HeaderOfMade ==
  ASSUME Types, NEW s \in Sessions, NEW f \in Files, Receive(s, Header(f))
  PROVE  f \in made
<1>1. data[s] \in Seq(Known) /\ data[s] # <<>>
  BY DEF Types, Receive
<1>2. Head(data[s]) \in Known
  BY <1>1, HeadTailProperties
<1>. QED
  BY <1>2 DEF Receive, Known, Header, Message

\* What a receiver in the content reads is the next chunk of its file.
LEMMA ContentRead ==
  ASSUME IInv, NEW s \in Sessions, NEW m, ReceiverAt(s, "content"), Receive(s, m)
  PROVE  /\ m = Message("content", receiver[s].file, receiver[s].next)
         /\ receiver[s].file \in made /\ receiver[s].file \in Files
         /\ receiver[s].next \in Chunks
<1>1. receiver[s] \in Receivers /\ made \subseteq Files /\ receiver[s].file # None
  BY DEF IInv, Types, Control, Placed, ReceiverAt
<1>2. receiver[s].file \in made
  BY <1>1 DEF Receivers
<1>. QED
  BY <1>1, <1>2 DEF IInv, Aligned, AlignedAt, Control, Placed, ReadsOn, Receive, Reading, ReceiverAt

\* A write is into the .tmp, unless the file is spoilt already.
LEMMA Writes ==
  ASSUME IInv, NEW s \in Sessions, NEW m, Write(s, m)
  PROVE  /\ \A f \in Files \ Spoilt : dst'[f] = dst[f]
         /\ \A f \in Files \ {receiver[s].file} : dst'[f] = dst[f] /\ tmp'[f] = tmp[f]
         /\ tmp' \in [Files -> Contented] /\ dst' \in [Files -> Contented]
         /\ \A f \in Files : tmp[f] # None => tmp'[f] # None
         /\ \A f \in Files : dst[f] # None => dst'[f] # None
         /\ receiver[s].file \notin Spoilt =>
              tmp'[receiver[s].file] = 1..receiver[s].next
<1>. DEFINE g == receiver[s].file
            k == receiver[s].next
<1>1. m.chunk = k /\ g \in Files /\ k \in Chunks
  BY ContentRead DEF Write, Message
<1>2. /\ tmp' = IF receiver[s].inode = "tmp" THEN [tmp EXCEPT ![g] = @ \cup {k}] ELSE tmp
      /\ dst' = IF receiver[s].inode = "dst" THEN [dst EXCEPT ![g] = @ \cup {k}] ELSE dst
  BY <1>1 DEF Write, Written
<1>3. /\ tmp \in [Files -> Contented] /\ dst \in [Files -> Contented]
      /\ g \notin Spoilt => receiver[s].inode = "tmp" /\ tmp[g] = 1..(k - 1)
      /\ receiver[s].inode = "tmp" => tmp[g] \in SUBSET Chunks
      /\ receiver[s].inode = "dst" => dst[g] \in SUBSET Chunks
  BY <1>1 DEF IInv, Types, Control, Placed, Whole, InOnePiece, Write, ReceiverAt, Contented
<1>4. \A f \in Files \ {g} : dst'[f] = dst[f] /\ tmp'[f] = tmp[f]
  BY <1>2, <1>3
<1>5. tmp' \in [Files -> Contented] /\ dst' \in [Files -> Contented]
  BY <1>1, <1>2, <1>3 DEF Contented
<1>6. g \notin Spoilt => dst'[g] = dst[g] /\ tmp'[g] = 1..k
  <2>1. (1..(k - 1)) \cup {k} = 1..k
    BY <1>1
  <2>. QED
    BY <1>1, <1>2, <1>3, <2>1
<1>7. (tmp[g] # None => tmp'[g] # None) /\ (dst[g] # None => dst'[g] # None)
  BY <1>1, <1>2, <1>3
<1>. QED
  BY <1>4, <1>5, <1>6, <1>7

\* A rename is of the whole file, unless the file is spoilt already.
LEMMA Renames ==
  ASSUME IInv, NEW s \in Sessions, CloseAndRename(s)
  PROVE  LET f == receiver[s].file IN
         /\ f \in made /\ dst' \in [Files -> Contented]
         /\ tmp' = [tmp EXCEPT ![f] = None]
         /\ \A g \in Files \ {f} : dst'[g] = dst[g]
         /\ f \notin Spoilt => receiver[s].inode = "tmp" /\ tmp[f] = Chunks /\ dst'[f] = Chunks
         /\ dst'[f] = IF tmp[f] # None THEN tmp[f] ELSE dst[f]
<1>. DEFINE f == receiver[s].file
<1>1. f \in made /\ f \in Files
  BY DEF IInv, Types, Control, Placed, Receivers, CloseAndRename, ReceiverAt
<1>2. /\ tmp' = [tmp EXCEPT ![f] = None]
      /\ dst' = IF tmp[f] # None THEN [dst EXCEPT ![f] = tmp[f]] ELSE dst
  BY DEF CloseAndRename
<1>3. tmp \in [Files -> Contented] /\ dst \in [Files -> Contented]
  BY DEF IInv, Types
<1>4. f \notin Spoilt => receiver[s].inode = "tmp" /\ tmp[f] = Chunks
  <2>. SUFFICES ASSUME f \notin Spoilt PROVE receiver[s].inode = "tmp" /\ tmp[f] = Chunks
    OBVIOUS
  <2>1. receiver[s].inode # "none" /\ receiver[s].next = LastChunk + 1
    BY DEF IInv, Control, Placed, CloseAndRename, ReceiverAt
  <2>2. receiver[s].inode = "tmp" /\ tmp[f] = 1..(receiver[s].next - 1)
    BY <1>1, <2>1 DEF IInv, Whole, InOnePiece
  <2>. QED
    BY <2>1, <2>2
<1>. QED
  BY <1>1, <1>2, <1>3, <1>4

\* A file that an acknowledgement removes has arrived.
LEMMA Acknowledges ==
  ASSUME IInv, NEW s \in Sessions, AckMessage(s)
  PROVE  \/ source' = source
         \/ \E f \in source \cap Arrived : source' = source \ {f}
<1>1. replies[s] \in Seq(Told) /\ replies[s] # <<>>
  BY DEF IInv, Types, AckMessage
<1>2. Head(replies[s]) \in Told
  BY <1>1, HeadTailProperties
<1>3. Head(replies[s]).result = "ok" => Head(replies[s]).file \in Arrived
  BY <1>2 DEF Told
<1>. QED
  BY <1>3 DEF AckMessage

\* Every step of the transfer is one of FileDelivery, or is not seen.
LEMMA DeliveryStep == IInv /\ [Next]_vars => [Delivery!FDNext]_Delivery!fdVars
<1>. SUFFICES ASSUME IInv, [Next]_vars PROVE [Delivery!FDNext]_Delivery!fdVars
  OBVIOUS
<1>. DEFINE Seen == Spoilt \cup {f \in Files : dst[f] # None}
<1>0. made \subseteq Files /\ Chunks # None
  BY DEF IInv, Types
<1>1. ASSUME UNCHANGED <<source, made, dst, history>> PROVE UNCHANGED Delivery!fdVars
  BY <1>1 DEF Delivery!fdVars, Spoilt, history
<1>2. ASSUME NEW f \in Files, Produce(f) PROVE Delivery!Put(f)
  BY <1>2 DEF Produce, Delivery!Put, Spoilt, history
<1>3. ASSUME NEW f \in made, source' = source, made' = made,
             Arrived' = Arrived \cup {f}, Seen' = Seen \cup {f}
      PROVE  Delivery!FDNext
  BY <1>0, <1>3 DEF Delivery!FDNext, Delivery!Arrive, Arrived
<1>4. ASSUME NEW s \in Sessions, NEW f \in Files, Open(s, f)
      PROVE  [Delivery!FDNext]_Delivery!fdVars
  <2>1. f \in made
    BY <1>4, HeaderOfMade DEF Open, IInv
  <2>2. overlapped' \in {overlapped, overlapped \cup {f}}
        /\ UNCHANGED <<source, made, dst, unwritten>>
    BY <1>4 DEF Open
  <2>3. CASE overlapped' = overlapped
    BY <1>1, <2>2, <2>3 DEF history
  <2>4. CASE overlapped' = overlapped \cup {f}
    BY <1>3, <2>1, <2>2, <2>4 DEF Arrived, Spoilt
  <2>. QED
    BY <2>2, <2>3, <2>4
<1>5. ASSUME NEW s \in Sessions, NEW m, Write(s, m) PROVE UNCHANGED Delivery!fdVars
  <2>1. UNCHANGED <<source, made, history>> /\ \A f \in Files \ Spoilt : dst'[f] = dst[f]
    BY <1>5, Writes DEF Write
  <2>. QED
    BY <2>1 DEF Delivery!fdVars, Spoilt, history
<1>6. ASSUME NEW s \in Sessions, NEW m, WriteFails(s, m) PROVE Delivery!FDNext
  <2>1. receiver[s].file \in made
    BY <1>6, ContentRead DEF WriteFails
  <2>2. UNCHANGED <<source, made, dst, overlapped>> /\ unwritten' = unwritten \cup {receiver[s].file}
    BY <1>6 DEF WriteFails, files
  <2>. QED
    BY <1>3, <2>1, <2>2 DEF Arrived, Spoilt
<1>7. ASSUME NEW s \in Sessions, CloseAndRename(s) PROVE [Delivery!FDNext]_Delivery!fdVars
  <2>. DEFINE f == receiver[s].file
  <2>1. UNCHANGED <<source, made, history>> /\ f \in made
        /\ \A g \in Files \ {f} : dst'[g] = dst[g]
    BY <1>7, Renames DEF CloseAndRename
  <2>2. CASE f \in Spoilt
    BY <2>1, <2>2 DEF Delivery!fdVars, Spoilt, history
  <2>3. CASE f \notin Spoilt
    <3>1. dst'[f] = Chunks
      BY <1>7, <2>3, Renames
    <3>. QED
      BY <1>0, <1>3, <2>1, <3>1 DEF Arrived, Spoilt, history
  <2>. QED
    BY <2>2, <2>3
<1>8. ASSUME NEW s \in Sessions, DrainReply(s) \/ FinalReply(s)
      PROVE  [Delivery!FDNext]_Delivery!fdVars
  <2>1. UNCHANGED <<made, dst, history>> /\ AckMessage(s)
    BY <1>8 DEF DrainReply, FinalReply
  <2>2. CASE source' = source
    BY <1>1, <2>1, <2>2
  <2>3. ASSUME NEW f \in source \cap Arrived, source' = source \ {f} PROVE Delivery!FDNext
    BY <1>0, <2>1, <2>3 DEF Delivery!FDNext, Delivery!Retire, Arrived, Spoilt, history, IInv, Types
  <2>. QED
    BY <2>1, <2>2, <2>3, Acknowledges
<1>9. CASE Connect \/ UNCHANGED vars
  BY <1>1, <1>9 DEF Connect, vars, files
<1>10. ASSUME NEW s \in Sessions, SenderStep(s) \/ ReceiverStep(s) \/ Failure(s)
       PROVE  [Delivery!FDNext]_Delivery!fdVars
  <2>1. \/ Quiet \/ DrainReply(s) \/ FinalReply(s) \/ CloseAndRename(s)
        \/ \E f \in Files : Open(s, f)
        \/ \E m : Write(s, m) \/ WriteFails(s, m)
    BY <1>10, QuietSteps DEF SenderStep, ReceiverStep, Failure
  <2>. QED
    BY <2>1, <1>1, <1>4, <1>5, <1>6, <1>7, <1>8 DEF Quiet
<1>. QED
  BY <1>2, <1>9, <1>10 DEF Next, Delivery!FDNext

\* What arrived stays there.
LEMMA ArrivalsStay == IInv /\ [Next]_vars => made \subseteq made' /\ Arrived \subseteq Arrived'
  BY DeliveryStep DEF Delivery!FDNext, Delivery!fdVars, Delivery!Put, Delivery!Arrive,
                      Delivery!Retire, Arrived

-----------------------------------------------------------------------------
(* The steps of the sender keep the invariant.                             *)

\* The state that only a receiver changes.
receiving == <<made, tmp, dst, session, receiver, history>>

\* The types and the control of a step of the sender of session s.
LEMMA SenderTypes ==
  ASSUME IInv, NEW s \in Sessions, SenderUp(s), UNCHANGED receiving, source' \subseteq source,
         sender' \in [Sessions -> Senders], \A t \in Sessions \ {s} : sender'[t] = sender[t],
         sender'[s].at = "content" => sender'[s].file \in made,
         data' \in [Sessions -> Seq(Known)], replies' \in [Sessions -> Seq(Told)],
         \A t \in Sessions : receiver[t].at = "down" => data'[t] = data[t]
  PROVE  Types' /\ Control' /\ Whole'
<1>0. Types /\ Control /\ Whole
  BY DEF IInv
<1>1. s <= session
  BY <1>0 DEF Types, Control, Placed, SenderUp
<1>2. UNCHANGED <<made, tmp, dst, session, receiver, overlapped, unwritten>>
  BY DEF receiving, history
<1>3. Known' = Known /\ Told' = Told /\ Senders' = Senders /\ Receivers' = Receivers
  <2>1. Arrived' = Arrived
    BY <1>2 DEF Arrived, Spoilt
  <2>. QED
    BY <1>2, <2>1 DEF Known, Told, Senders, Receivers
<1>4. Types'
  BY <1>0, <1>2, <1>3 DEF Types
<1>5. Control'
  <2>1. ASSUME NEW t \in Sessions PROVE Placed(t)'
    <3>1. Placed(t) /\ (receiver[t].at = "down" => data'[t] = data[t])
      BY <1>0 DEF Control
    <3>. QED
      BY <1>2, <3>1 DEF Placed
  <2>2. \A t \in Sessions : sender'[t] = sender[t] \/ t = s
    OBVIOUS
  <2>. QED
    BY <1>0, <1>1, <1>2, <2>1, <2>2 DEF Control, Types
<1>6. Whole'
  BY <1>0, <1>2 DEF Whole, InOnePiece, Spoilt, ReceiverAt, HasOpen
<1>. QED
  BY <1>4, <1>5, <1>6

\* A sender that sends nothing is not in the content, before and after, or ends.
LEMMA SenderMoves ==
  ASSUME IInv, NEW s \in Sessions, SenderUp(s), UNCHANGED <<receiving, data>>,
         source' \subseteq source,
         sender' \in [Sessions -> Senders], \A t \in Sessions \ {s} : sender'[t] = sender[t],
         replies' \in [Sessions -> Seq(Told)],
         \/ sender'[s].at = "down"
         \/ sender[s].at # "content" /\ sender'[s].at # "content"
  PROVE  IInv'
<1>1. data' \in [Sessions -> Seq(Known)]
  BY DEF IInv, Types
<1>2. Types' /\ Control' /\ Whole'
  BY <1>1, SenderTypes
<1>3. Aligned'
  <2>1. ASSUME NEW t \in Sessions
        PROVE  AlignedAt(t)'
    <3>1. AlignedAt(t)
      BY DEF IInv, Aligned
    <3>2. UNCHANGED <<data, receiver>>
      BY DEF receiving
    <3>. QED
      BY <3>1, <3>2 DEF AlignedAt, SenderUp, SenderAt, ReceiverAt, SendsOn, ReadsOn, Reading, Meet
  <2>. QED
    BY <2>1 DEF Aligned, AlignedAt
<1>. QED
  BY <1>2, <1>3 DEF IInv

\* A message that is sent is the one that is due, and the sender goes on from it.
LEMMA SenderSends ==
  ASSUME IInv, NEW s \in Sessions, SenderUp(s), UNCHANGED <<receiving, source, replies>>,
         NEW m \in Known, Send(s, m),
         sender' \in [Sessions -> Senders], \A t \in Sessions \ {s} : sender'[t] = sender[t],
         sender'[s].at # "down", sender'[s].at = "content" => sender'[s].file \in made,
         IF SenderAt(s, "content")
         THEN m = Message("content", sender[s].file, sender[s].next) ELSE m.kind # "content",
         SendsOn(s, m)'
  PROVE  IInv'
<1>1. /\ data[s] \in Seq(Known) /\ Chained(data[s]) /\ data \in [Sessions -> Seq(Known)]
      /\ replies \in [Sessions -> Seq(Told)] /\ receiver[s].at # "down"
      /\ data' = [data EXCEPT ![s] = Append(data[s], m)]
  BY DEF IInv, Types, Aligned, AlignedAt, Send, ReceiverUp
<1>2. data[s] # <<>> => Follows(data[s][Len(data[s])], m)
  BY DEF IInv, Aligned, AlignedAt, SendsOn, Follows, SenderAt, Message
<1>3. /\ data'[s] \in Seq(Known) /\ data'[s] # <<>> /\ data'[s][Len(data'[s])] = m
      /\ Chained(data'[s]) /\ Head(data'[s]) = IF data[s] = <<>> THEN m ELSE Head(data[s])
  <2>. DEFINE q == data[s]
              p == Append(q, m)
  <2>1. q \in Seq(Known) /\ Chained(q) /\ (q # <<>> => Follows(q[Len(q)], m)) /\ data'[s] = p
    BY <1>1, <1>2
  <2>. HIDE DEF q
  <2>2. /\ p \in Seq(Known) /\ p # <<>> /\ p[Len(p)] = m /\ Chained(p)
        /\ Head(p) = IF q = <<>> THEN m ELSE Head(q)
    BY <2>1, Sends
  <2>. QED
    BY <2>1, <2>2 DEF q
<1>4. Types' /\ Control' /\ Whole'
  BY <1>1, <1>3, SenderTypes
<1>5. Reading(s) => ReadsOn(s, Head(data'[s]))
  <2>1. CASE data[s] = <<>>
    BY <1>3, <2>1 DEF IInv, Aligned, AlignedAt, Meet, ReadsOn, SenderAt, ReceiverAt, Message
  <2>2. CASE data[s] # <<>>
    BY <1>3, <2>2 DEF IInv, Aligned, AlignedAt
  <2>. QED
    BY <2>1, <2>2
<1>6. Aligned'
  <2>1. ASSUME NEW t \in Sessions \ {s} PROVE data'[t] = data[t] /\ sender'[t] = sender[t]
    BY <1>1
  <2>2. /\ Reading(s)' <=> Reading(s)
        /\ \A n : ReadsOn(s, n)' <=> ReadsOn(s, n)
    BY DEF Reading, ReadsOn, ReceiverAt, receiving
  <2>. SUFFICES ASSUME NEW t \in Sessions
                PROVE  AlignedAt(t)'
    BY DEF Aligned, AlignedAt
  <2>3. CASE t = s
    BY <1>3, <1>5, <2>2, <2>3 DEF AlignedAt
  <2>4. CASE t # s
    <3>1. AlignedAt(t) /\ data'[t] = data[t] /\ sender'[t] = sender[t] /\ receiver'[t] = receiver[t]
      BY <2>1, <2>4 DEF IInv, Aligned, receiving
    <3>. QED
      BY <3>1 DEF AlignedAt, SenderUp, SenderAt, ReceiverAt, SendsOn, ReadsOn, Reading, Meet
  <2>. QED
    BY <2>3, <2>4
<1>. QED
  BY <1>4, <1>6 DEF IInv

\* The sender of session s becomes x.
LEMMA SenderBecomes ==
  ASSUME Types, NEW s \in Sessions, NEW x \in Senders, sender' = [sender EXCEPT ![s] = x]
  PROVE  /\ sender' \in [Sessions -> Senders] /\ sender'[s] = x
         /\ \A t \in Sessions \ {s} : sender'[t] = sender[t]
  BY DEF Types

\* Every step of a sender keeps the invariant.
LEMMA SenderKeeps ==
  ASSUME IInv, NEW s \in Sessions, SenderStep(s) \/ SenderFails(s)
  PROVE  IInv'
<1>. USE DEF receiving, files, history, SenderAt, SenderUp
<1>1. /\ sender \in [Sessions -> Senders] /\ sender[s] \in Senders
      /\ replies \in [Sessions -> Seq(Told)] /\ source \subseteq made /\ made \subseteq Files
      /\ source \in SUBSET made
      /\ Types
  BY DEF IInv, Types
<1>2. ASSUME SenderExits(s)
      PROVE  /\ sender' \in [Sessions -> Senders] /\ sender'[s].at = "down"
             /\ \A t \in Sessions \ {s} : sender'[t] = sender[t]
             /\ replies' \in [Sessions -> Seq(Told)]
  <2>1. SenderDown \in Senders
    BY DEF SenderDown, Senders, Modes
  <2>2. <<>> \in Seq(Told)
    OBVIOUS
  <2>. QED
    BY <1>1, <1>2, <2>1, <2>2 DEF SenderExits, SenderDown
<1>3. CASE SourceOpenFails(s) \/ SendFails(s) \/ TestFails(s) \/ SenderFails(s)
  <2>1. SenderUp(s) /\ SenderExits(s) /\ UNCHANGED <<receiving, data, source>>
    BY <1>3 DEF SourceOpenFails, SendFails, TestFails, SenderFails
  <2>. QED
    BY <1>2, <2>1, SenderMoves
\* The steps from one loop to another, where no reply is read.
<1>4. ASSUME NEW at \in Modes \ {"content", "down"}, SenderGoes(s, at)
      PROVE  /\ sender' \in [Sessions -> Senders] /\ sender'[s].at = at
             /\ \A t \in Sessions \ {s} : sender'[t] = sender[t]
  BY <1>1, <1>4 DEF SenderGoes, Senders
<1>5. CASE DrainEnds(s) \/ AllSent(s) \/ FinalEnds(s)
  <2>1. /\ UNCHANGED <<receiving, data, source, replies>>
        /\ sender[s].at \in {"drain", "send", "final"}
        /\ \E at \in Modes \ {"content", "down"} : SenderGoes(s, at)
    BY <1>5 DEF DrainEnds, AllSent, FinalEnds, Modes, streams
  <2>. QED
    BY <1>1, <1>4, <2>1, SenderMoves
<1>6. CASE Scan(s)
  <2>1. /\ sender' \in [Sessions -> Senders] /\ sender'[s].at \in {"idle", "send"}
        /\ \A t \in Sessions \ {s} : sender'[t] = sender[t]
    BY <1>1, <1>6 DEF Scan, Senders, Modes
  <2>. QED
    BY <1>1, <1>6, <2>1, SenderMoves DEF Scan, streams
\* The steps that read a reply.
<1>7. replies[s] # <<>> => Tail(replies[s]) \in Seq(Told)
  BY <1>1, HeadTailProperties
<1>8. CASE TestReply(s)
  <2>1. replies' \in [Sessions -> Seq(Told)] /\ UNCHANGED <<receiving, data, source>>
    BY <1>1, <1>7, <1>8 DEF TestReply
  <2>. QED
    <3>1. SenderGoes(s, "scan") /\ sender[s].at = "test"
      BY <1>8 DEF TestReply
    <3>. QED
      BY <1>4, <2>1, <3>1, SenderMoves DEF Modes
<1>9. CASE DrainReply(s) \/ FinalReply(s)
  <2>1. replies' \in [Sessions -> Seq(Told)] /\ source' \subseteq source
    BY <1>1, <1>7, <1>9 DEF DrainReply, FinalReply, AckMessage
  <2>2. /\ sender' \in [Sessions -> Senders] /\ sender'[s].at = sender[s].at
        /\ sender[s].at \in {"drain", "final"}
        /\ \A t \in Sessions \ {s} : sender'[t] = sender[t]
    <3>1. /\ \E n \in Nat : sender' = [sender EXCEPT ![s].delayed = n]
          /\ sender[s].at \in {"drain", "final"}
      BY <1>1, <1>9 DEF DrainReply, FinalReply, Senders
    <3>2. PICK n \in Nat : sender' = [sender EXCEPT ![s].delayed = n]
      BY <3>1
    <3>. DEFINE x == [sender[s] EXCEPT !.delayed = n]
    <3>3. sender' = [sender EXCEPT ![s] = x]
      BY <1>1, <3>2
    <3>4. x \in Senders /\ x.at = sender[s].at
      BY <1>1 DEF Senders
    <3>. QED
      BY <1>1, <3>1, <3>3, <3>4, SenderBecomes
  <2>. QED
    BY <1>9, <2>1, <2>2, SenderMoves DEF DrainReply, FinalReply
\* The steps that send.
<1>10. ASSUME NEW f \in Files, SendHeader(s, f) PROVE IInv'
  <2>1. f \in made /\ Header(f) \in Known
    BY <1>1, <1>10 DEF SendHeader, Senders, Header, Message, Known, Messages
  <2>. DEFINE x == [at |-> "content", todo |-> sender[s].todo \ {f}, file |-> f, next |-> 1,
                    delayed |-> sender[s].delayed]
  <2>2. sender' = [sender EXCEPT ![s] = x] /\ x \in Senders
    BY <1>1, <1>10 DEF SendHeader, Senders, Modes
  <2>3. /\ sender' \in [Sessions -> Senders] /\ \A t \in Sessions \ {s} : sender'[t] = sender[t]
        /\ sender'[s].at = "content" /\ sender'[s].file = f /\ sender'[s].next = 1
    BY <1>1, <2>2, SenderBecomes
  <2>4. SendsOn(s, Header(f))' /\ Header(f).kind # "content"
    BY <2>3 DEF SendsOn, Unfinished, Header, Message
  <2>. QED
    BY <1>10, <2>1, <2>3, <2>4, SenderSends DEF SendHeader
<1>11. CASE SendContent(s)
  <2>0. PICK k, f : k = sender[s].next /\ f = sender[s].file
    OBVIOUS
  <2>. DEFINE m == Message("content", f, k)
  <2>1. k \in Chunks /\ f \in made /\ m \in Known
    BY <1>1, <1>11, <2>0 DEF SendContent, IInv, Control, Placed, Senders, Message, Known, Messages
  <2>2. /\ SenderAt(s, "content") /\ SenderUp(s) /\ Send(s, m)
        /\ UNCHANGED <<receiving, source, replies>>
    BY <1>11, <2>0 DEF SendContent
  <2>3. CASE k < LastChunk
    <3>1. /\ sender' \in [Sessions -> Senders] /\ sender'[s].next = k + 1
          /\ sender'[s].at = "content" /\ sender'[s].file = f
          /\ \A t \in Sessions \ {s} : sender'[t] = sender[t]
      <4>. DEFINE x == [sender[s] EXCEPT !.next = k + 1]
      <4>1. sender' = [sender EXCEPT ![s] = x] /\ k + 1 \in Chunks /\ sender[s].at = "content"
        BY <1>1, <1>11, <2>0, <2>1, <2>3 DEF SendContent
      <4>2. x \in Senders /\ x.at = "content" /\ x.file = f /\ x.next = k + 1
        BY <1>1, <2>0, <4>1 DEF Senders
      <4>. QED
        BY <1>1, <4>1, <4>2, SenderBecomes
    <3>2. SendsOn(s, m)'
      BY <2>1, <2>3, <3>1 DEF SendsOn, Unfinished, Message
    <3>. QED
      BY <2>0, <2>1, <2>2, <3>1, <3>2, SenderSends
  <2>4. CASE ~(k < LastChunk)
    <3>. DEFINE x == [at |-> "drain", todo |-> sender[s].todo, file |-> None, next |-> 1,
                      delayed |-> sender[s].delayed + 1]
    <3>1. sender' = [sender EXCEPT ![s] = x] /\ x \in Senders
      BY <1>1, <1>11, <2>0, <2>4 DEF SendContent, Senders, Modes
    <3>2. /\ sender' \in [Sessions -> Senders] /\ sender'[s].at = "drain"
          /\ \A t \in Sessions \ {s} : sender'[t] = sender[t]
      BY <1>1, <3>1, SenderBecomes
    <3>3. SendsOn(s, m)'
      BY <2>1, <2>4, <3>2 DEF SendsOn, Unfinished, Message
    <3>. QED
      BY <2>0, <2>1, <2>2, <3>2, <3>3, SenderSends
  <2>. QED
    BY <2>3, <2>4
<1>12. CASE SendTest(s)
  <2>1. Test \in Known /\ Test.kind # "content"
    BY DEF Test, Message, Known, Messages
  <2>2. SendsOn(s, Test)'
    BY <1>4, <1>12 DEF SendTest, SendsOn, Unfinished, Test, Message, Modes
  <2>. QED
    BY <1>4, <1>12, <2>1, <2>2, SenderSends DEF SendTest, Modes
<1>. QED
  BY <1>3, <1>5, <1>6, <1>8, <1>9, <1>10, <1>11, <1>12 DEF SenderStep

-----------------------------------------------------------------------------
(* The steps of the receiver keep the invariant.                           *)

\* Nothing is read, and a receiver that goes on is where it was, or between
\* two messages as it was.
LEMMA ReceiverStays ==
  ASSUME Aligned, UNCHANGED sender,
         \A t \in Sessions : \/ data'[t] = data[t]
                             \/ receiver'[t].at = "down" /\ data'[t] = <<>>,
         \A t \in Sessions :
           \/ receiver'[t].at \in {"down", "lost"}
           \/ {receiver[t].at, receiver'[t].at} \subseteq {"read", "rename", "reply"}
           \/ /\ receiver'[t].at = receiver[t].at /\ receiver'[t].file = receiver[t].file
              /\ receiver'[t].next = receiver[t].next
  PROVE  Aligned'
<1>. SUFFICES ASSUME NEW t \in Sessions
              PROVE  AlignedAt(t)'
  BY DEF Aligned, AlignedAt
<1>. USE DEF Aligned, AlignedAt, SenderUp, SenderAt, ReceiverAt, SendsOn, ReadsOn, Reading, Meet
<1>1. CASE receiver'[t].at = "down" /\ data'[t] = <<>>
  BY <1>1 DEF Chained
<1>2. CASE data'[t] = data[t]
  <2>1. CASE receiver'[t].at \in {"down", "lost"}
    BY <1>2, <2>1
  <2>2. CASE {receiver[t].at, receiver'[t].at} \subseteq {"read", "rename", "reply"}
    BY <1>2, <2>2
  <2>3. CASE /\ receiver'[t].at = receiver[t].at /\ receiver'[t].file = receiver[t].file
             /\ receiver'[t].next = receiver[t].next
    BY <1>2, <2>3
  <2>. QED
    BY <2>1, <2>2, <2>3
<1>. QED
  BY <1>1, <1>2

\* The receiver of session s reads m, and goes on with what follows m.
LEMMA ReceiverGoesOn ==
  ASSUME Types, Aligned, UNCHANGED sender, NEW s \in Sessions, NEW m, Receive(s, m),
         \A t \in Sessions \ {s} : receiver'[t] = receiver[t],
         Reading(s)' => \A n : Follows(m, n) => ReadsOn(s, n)',
         Reading(s)' /\ SenderUp(s) /\ SendsOn(s, m) => Meet(s)'
  PROVE  /\ Aligned'
         /\ data' \in [Sessions -> Seq(Known)]
         /\ \A t \in Sessions : receiver[t].at = "down" /\ t # s => data'[t] = data[t]
<1>. DEFINE q == data[s]
<1>1. /\ q \in Seq(Known) /\ q # <<>> /\ Chained(q) /\ m = Head(q)
      /\ data \in [Sessions -> Seq(Known)] /\ data' = [data EXCEPT ![s] = Tail(q)]
  BY DEF Types, Receive, Aligned, AlignedAt
<1>2. /\ Tail(q) \in Seq(Known) /\ Chained(Tail(q))
      /\ Tail(q) # <<>> => Follows(m, Head(Tail(q))) /\ Tail(q)[Len(Tail(q))] = q[Len(q)]
      /\ Tail(q) = <<>> => q[Len(q)] = m
  BY <1>1, Reads
<1>3. data'[s] = Tail(q) /\ \A t \in Sessions \ {s} : data'[t] = data[t]
  BY <1>1
<1>. SUFFICES ASSUME NEW t \in Sessions
              PROVE  AlignedAt(t)'
  BY <1>1, <1>2 DEF Aligned, AlignedAt
<1>4. CASE t # s
  <2>1. AlignedAt(t) /\ data'[t] = data[t] /\ receiver'[t] = receiver[t]
    BY <1>3, <1>4 DEF Aligned
  <2>. QED
    BY <2>1 DEF AlignedAt, SenderUp, SenderAt, ReceiverAt, SendsOn, ReadsOn, Reading, Meet
<1>5. CASE t = s
  <2>1. /\ \A n : SendsOn(s, n)' <=> SendsOn(s, n)
        /\ SenderUp(s)' <=> SenderUp(s)
    BY DEF SendsOn, SenderAt, SenderUp
  <2>2. SenderUp(s) => SendsOn(s, q[Len(q)])
    BY <1>1 DEF Aligned, AlignedAt
  <2>. HIDE DEF q
  <2>3. CASE Tail(q) = <<>>
    BY <1>2, <1>3, <1>5, <2>1, <2>2, <2>3 DEF AlignedAt
  <2>4. CASE Tail(q) # <<>>
    BY <1>2, <1>3, <1>5, <2>1, <2>2, <2>4 DEF AlignedAt
  <2>. QED
    BY <2>3, <2>4
<1>. QED
  BY <1>4, <1>5

\* Where the inodes of a file go: the other records stay.
LEMMA Moves ==
  ASSUME Types, NEW f, NEW move \in {Renaming, Removing}, NEW r \in Sessions
  PROVE  LET x == Inode(f, move)[r] IN
         /\ x \in Receivers /\ x.at = receiver[r].at /\ x.file = receiver[r].file
         /\ x.next = receiver[r].next
         /\ receiver[r].file # f => x.inode = receiver[r].inode
         /\ x.inode = "none" <=> receiver[r].inode = "none"
         /\ move = Removing => x.inode # "tmp" \/ receiver[r].file # f
         /\ move = Renaming => x.inode # "tmp" \/ receiver[r].file # f
         /\ x.inode = "dst" => receiver[r].inode = IF move = Removing \/ receiver[r].file # f
                                                   THEN "dst" ELSE "tmp"
<1>1. receiver[r] \in Receivers
  BY DEF Types
<1>2. Renaming["none"] = "none" /\ Renaming["tmp"] = "dst" /\ Renaming["dst"] = "gone"
      /\ Renaming["gone"] = "gone"
  BY DEF Renaming
<1>3. Removing["none"] = "none" /\ Removing["tmp"] = "gone" /\ Removing["dst"] = "dst"
      /\ Removing["gone"] = "gone"
  BY DEF Removing
<1>4. receiver[r].inode \in {"none", "tmp", "dst", "gone"}
  BY <1>1 DEF Receivers
<1>5. CASE receiver[r].file # f
  BY <1>1, <1>5 DEF Inode
<1>6. CASE receiver[r].file = f
  <2>. DEFINE c == move[receiver[r].inode]
  <2>1. Inode(f, move)[r] = [receiver[r] EXCEPT !.inode = c]
    BY <1>6 DEF Inode
  <2>2. /\ c \in {"none", "dst", "gone"}
        /\ c = "none" <=> receiver[r].inode = "none"
        /\ c = "dst" => receiver[r].inode = IF move = Removing THEN "dst" ELSE "tmp"
    BY <1>2, <1>3, <1>4
  <2>. HIDE DEF c
  <2>3. /\ Inode(f, move)[r] \in Receivers /\ Inode(f, move)[r].at = receiver[r].at
        /\ Inode(f, move)[r].file = receiver[r].file
        /\ Inode(f, move)[r].next = receiver[r].next
        /\ Inode(f, move)[r].inode = c
    BY <1>1, <2>1, <2>2 DEF Receivers
  <2>. QED
    BY <1>6, <2>2, <2>3
<1>. QED
  BY <1>5, <1>6

\* The types and the control of a step of one receiver, which makes no file of
\* another one vanish.
LEMMA ReceiverTypes ==
  ASSUME IInv, [Next]_vars, UNCHANGED <<source, made, session, sender>>,
         tmp' \in [Files -> Contented], dst' \in [Files -> Contented],
         receiver' \in [Sessions -> Receivers], data' \in [Sessions -> Seq(Known)],
         replies' \in [Sessions -> Seq(Told)], overlapped' \subseteq made, unwritten' \subseteq made
  PROVE  Types'
<1>1. Types
  BY DEF IInv
<1>2. Known' = Known /\ Senders' = Senders /\ Receivers' = Receivers
  BY DEF Known, Senders, Receivers
<1>3. replies' \in [Sessions -> Seq(Told')]
  <2>1. Arrived \subseteq Arrived'
    BY ArrivalsStay
  <2>. QED
    BY <2>1, StaysTold
<1>. QED
  BY <1>1, <1>2, <1>3 DEF Types

\* What a step of one receiver has to show of types and control.
LEMMA OneReceiver ==
  ASSUME IInv, [Next]_vars, NEW s \in Sessions, ReceiverUp(s),
         UNCHANGED <<source, made, session, sender>>,
         tmp' \in [Files -> Contented], dst' \in [Files -> Contented],
         \A f \in Files : (tmp[f] # None => tmp'[f] # None) /\ (dst[f] # None => dst'[f] # None),
         receiver' \in [Sessions -> Receivers], data' \in [Sessions -> Seq(Known)],
         \A t \in Sessions \ {s} : receiver'[t] = receiver[t] /\ data'[t] = data[t],
         replies' \in [Sessions -> Seq(Told)], overlapped' \subseteq made, unwritten' \subseteq made,
         Placed(s)'
  PROVE  Types' /\ Control'
<1>1. Types /\ Control
  BY DEF IInv
<1>2. s <= session
  BY <1>1 DEF Types, Control, ReceiverUp
<1>3. ASSUME NEW t \in Sessions \ {s} PROVE Placed(t)'
  <2>1. receiver[t] \in Receivers /\ made \subseteq Files /\ Placed(t)
    BY <1>1 DEF Types, Control
  <2>. QED
    BY <1>3, <2>1 DEF Placed, Receivers
<1>4. Control'
  BY <1>1, <1>2, <1>3 DEF Control, Types
<1>. QED
  BY <1>4, ReceiverTypes

\* The process of a receiver ends.
LEMMA ExitKeeps ==
  ASSUME IInv, [Next]_vars, NEW s \in Sessions, ReceiverUp(s), ReceiverExits(s),
         UNCHANGED <<files, session, sender, replies, history>>
  PROVE  IInv'
<1>. USE DEF files, history
<1>1. /\ data \in [Sessions -> Seq(Known)] /\ receiver \in [Sessions -> Receivers]
      /\ Types /\ Whole /\ Aligned
  BY DEF IInv, Types
<1>2. ReceiverDown \in Receivers /\ <<>> \in Seq(Known)
  BY DEF ReceiverDown, Receivers
<1>3. /\ receiver' \in [Sessions -> Receivers] /\ receiver'[s] = ReceiverDown
      /\ data' \in [Sessions -> Seq(Known)] /\ data'[s] = <<>>
      /\ \A t \in Sessions \ {s} : receiver'[t] = receiver[t] /\ data'[t] = data[t]
  BY <1>1, <1>2 DEF ReceiverExits
<1>4. Placed(s)'
  BY <1>3 DEF Placed, ReceiverDown
<1>5. Types' /\ Control'
  BY <1>1, <1>3, <1>4, OneReceiver DEF Types
<1>6. Aligned'
  BY <1>1, <1>3, ReceiverStays DEF ReceiverDown
<1>7. Whole'
  <2>1. ASSUME NEW f \in Files \ Spoilt', InOnePiece(f) PROVE InOnePiece(f)'
    <3>1. \A t \in Sessions : receiver'[t].file = f => receiver'[t] = receiver[t]
      BY <1>3, <2>1 DEF ReceiverDown
    <3>2. UNCHANGED <<tmp, dst>>
      OBVIOUS
    <3>. QED
      BY <2>1, <3>1, <3>2 DEF InOnePiece, HasOpen, ReceiverAt
  <2>. QED
    BY <1>1, <2>1 DEF Whole, Spoilt
<1>. QED
  BY <1>5, <1>6, <1>7 DEF IInv

\* A reply that tells what is true.
LEMMA AnswerTells ==
  ASSUME Types, NEW s \in Sessions, NEW r \in Told, Answer(s, r)
  PROVE  replies' \in [Sessions -> Seq(Told)]
<1>1. replies \in [Sessions -> Seq(Told)]
  BY DEF Types
<1>2. Append(replies[s], r) \in Seq(Told)
  BY <1>1
<1>. QED
  BY <1>1, <1>2 DEF Answer

\* The receiver reads on, with nothing but the stream to show for it.
LEMMA SkipKeeps ==
  ASSUME IInv, [Next]_vars, NEW s \in Sessions, ReadTest(s) \/ Swallow(s)
  PROVE  IInv'
<1>. USE DEF files, history
<1>0. Types /\ Control /\ Aligned /\ Whole
  BY DEF IInv
<1>1. PICK m : /\ Receive(s, m) /\ ReceiverUp(s)
               /\ ReceiverAt(s, "lost") \/ (ReceiverAt(s, "read") /\ m = Test)
  <2>1. CASE ReadTest(s)
    BY <2>1 DEF ReadTest, ReceiverUp, ReceiverAt
  <2>2. CASE Swallow(s)
    <3>1. Receive(s, Head(data[s])) /\ ReceiverUp(s) /\ ReceiverAt(s, "lost")
      BY <2>2 DEF Swallow, Receive, ReceiverUp, ReceiverAt
    <3>. QED
      BY <3>1
  <2>. QED
    BY <2>1, <2>2
<1>2. UNCHANGED <<files, session, sender, receiver, history>>
  BY DEF ReadTest, Swallow
<1>3. /\ Reading(s)' => \A n : Follows(m, n) => ReadsOn(s, n)'
      /\ Reading(s)' /\ SenderUp(s) /\ SendsOn(s, m) => Meet(s)'
  BY <1>1, <1>2 DEF Reading, ReceiverAt, SenderAt, Follows, ReadsOn, SendsOn, Meet, Unfinished, Test, Message
<1>4. /\ Aligned' /\ data' \in [Sessions -> Seq(Known)]
      /\ \A t \in Sessions \ {s} : receiver'[t] = receiver[t] /\ data'[t] = data[t]
  <2>1. \A t \in Sessions \ {s} : data'[t] = data[t]
    BY <1>0, <1>1 DEF Receive, Types
  <2>. QED
    BY <1>0, <1>1, <1>2, <1>3, <2>1, ReceiverGoesOn
<1>5. replies' \in [Sessions -> Seq(Told)]
  <2>1. Reply("alive", None) \in Told
    BY DEF Reply, Told, Results
  <2>2. CASE ReadTest(s)
    BY <1>0, <2>1, <2>2, AnswerTells DEF ReadTest
  <2>3. CASE Swallow(s)
    BY <1>0, <2>3 DEF Swallow, Types
  <2>. QED
    BY <2>2, <2>3
<1>6. Placed(s)'
  BY <1>0, <1>1, <1>2 DEF Control, Placed, ReceiverUp
<1>7. Types' /\ Control'
  BY <1>0, <1>1, <1>2, <1>4, <1>5, <1>6, OneReceiver DEF Types
<1>8. Whole'
  BY <1>0, <1>2 DEF Whole, InOnePiece, Spoilt, HasOpen, ReceiverAt
<1>. QED
  BY <1>4, <1>7, <1>8 DEF IInv

\* A header is read, and the file opened.
LEMMA OpenKeeps ==
  ASSUME IInv, [Next]_vars, NEW s \in Sessions, NEW f \in Files, Open(s, f)
  PROVE  IInv'
<1>. DEFINE x == [at |-> "content", file |-> f, next |-> 1, inode |-> "tmp"]
<1>0. Types /\ Control /\ Aligned /\ Whole
  BY DEF IInv
<1>1. f \in made
  BY <1>0, HeaderOfMade DEF Open
<1>2. /\ Receive(s, Header(f)) /\ receiver' = [receiver EXCEPT ![s] = x]
      /\ tmp' = [tmp EXCEPT ![f] = {}] /\ ReceiverAt(s, "read")
      /\ overlapped \subseteq overlapped' /\ overlapped' \subseteq overlapped \cup {f}
      /\ UNCHANGED <<source, made, dst, session, sender, replies, unwritten>>
  BY DEF Open
<1>3. /\ receiver' \in [Sessions -> Receivers] /\ receiver'[s] = x
      /\ \A t \in Sessions \ {s} : receiver'[t] = receiver[t]
  <2>1. x \in Receivers
    BY <1>1 DEF Receivers
  <2>. QED
    BY <1>0, <1>2, <2>1 DEF Types
<1>4. /\ tmp' \in [Files -> Contented] /\ tmp'[f] = {} /\ {} # None
      /\ \A g \in Files \ {f} : tmp'[g] = tmp[g]
  BY <1>0, <1>2 DEF Types, Contented
<1>5. /\ Reading(s)' => \A n : Follows(Header(f), n) => ReadsOn(s, n)'
      /\ Reading(s)' /\ SenderUp(s) /\ SendsOn(s, Header(f)) => Meet(s)'
  BY <1>2, <1>3 DEF ReceiverAt, SenderAt, Follows, ReadsOn, SendsOn, Meet, Unfinished, Header, Message
<1>6. /\ Aligned' /\ data' \in [Sessions -> Seq(Known)]
      /\ \A t \in Sessions \ {s} : data'[t] = data[t]
  <2>1. \A t \in Sessions \ {s} : data'[t] = data[t]
    BY <1>0, <1>2 DEF Receive, Types
  <2>. QED
    BY <1>0, <1>2, <1>3, <1>5, <2>1, ReceiverGoesOn
<1>7. Placed(s)'
  BY <1>3, <1>4, <1>0 DEF Placed, Types
<1>8. Types' /\ Control'
  <2>1. ReceiverUp(s) /\ overlapped' \subseteq made /\ unwritten' \subseteq made
        /\ dst' \in [Files -> Contented] /\ replies' \in [Sessions -> Seq(Told)]
    BY <1>0, <1>1, <1>2 DEF Types, ReceiverUp, ReceiverAt
  <2>2. \A g \in Files : (tmp[g] # None => tmp'[g] # None) /\ (dst[g] # None => dst'[g] # None)
    BY <1>2, <1>4
  <2>. QED
    BY <1>2, <1>3, <1>4, <1>6, <1>7, <2>1, <2>2, OneReceiver
<1>9. ASSUME NEW g \in Files \ Spoilt'
      PROVE  InOnePiece(g)'
  <2>1. g \notin Spoilt
    BY <1>2, <1>9 DEF Spoilt
  <2>2. CASE g # f
    BY <1>0, <1>2, <1>3, <1>4, <2>1, <2>2 DEF Whole, InOnePiece, HasOpen, ReceiverAt
  <2>3. CASE g = f
    <3>1. \A t \in Sessions : ~HasOpen(t, f)
      BY <1>9, <2>3 DEF Open, Spoilt
    <3>2. \A t \in Sessions : receiver'[t].file = f /\ receiver'[t].inode # "none" => t = s
      BY <1>3, <3>1 DEF HasOpen
    <3>3. \A t \in Sessions : receiver'[t].file = f /\ receiver'[t].at = "reply" => dst'[f] = Chunks
      BY <1>0, <1>2, <1>3, <2>1, <2>3 DEF Whole, InOnePiece, ReceiverAt
    <3>4. dst'[f] \in {None, Chunks}
      BY <1>0, <1>2, <2>1, <2>3 DEF Whole, InOnePiece
    <3>5. receiver'[s].inode = "tmp" /\ tmp'[f] = 1..(receiver'[s].next - 1)
      BY <1>3, <1>4
    <3>. QED
      BY <2>3, <3>2, <3>3, <3>4, <3>5 DEF InOnePiece, ReceiverAt, HasOpen
  <2>. QED
    BY <2>2, <2>3
<1>10. Whole'
  BY <1>9 DEF Whole, InOnePiece, ReceiverAt
<1>. QED
  BY <1>6, <1>8, <1>10 DEF IInv

\* A header is read, and the file cannot be opened.
LEMMA OpenFailsKeeps ==
  ASSUME IInv, [Next]_vars, NEW s \in Sessions, NEW f \in Files, OpenFails(s, f)
  PROVE  IInv'
<1>. DEFINE x == [receiver[s] EXCEPT !.at = "lost"]
<1>0. Types /\ Control /\ Aligned /\ Whole /\ receiver[s] \in Receivers /\ Placed(s)
  BY DEF IInv, Types, Control
<1>1. /\ Receive(s, Header(f)) /\ receiver' = [receiver EXCEPT ![s] = x]
      /\ ReceiverAt(s, "read") /\ Answer(s, Reply("failed", f))
      /\ UNCHANGED <<source, made, tmp, dst, session, sender, overlapped, unwritten>>
  BY <1>0 DEF OpenFails, files, history, Types
<1>2. x \in Receivers /\ x.at = "lost" /\ x.file = receiver[s].file /\ x.inode = receiver[s].inode
  BY <1>0 DEF Receivers
<1>3. /\ receiver' \in [Sessions -> Receivers] /\ receiver'[s] = x
      /\ \A t \in Sessions \ {s} : receiver'[t] = receiver[t]
  BY <1>0, <1>1, <1>2 DEF Types
<1>4. /\ Aligned' /\ data' \in [Sessions -> Seq(Known)]
      /\ \A t \in Sessions \ {s} : data'[t] = data[t]
  <2>1. \A t \in Sessions \ {s} : data'[t] = data[t]
    BY <1>0, <1>1 DEF Receive, Types
  <2>2. ~Reading(s)'
    BY <1>2, <1>3 DEF Reading
  <2>. QED
    BY <1>0, <1>1, <1>3, <2>1, <2>2, ReceiverGoesOn
<1>5. replies' \in [Sessions -> Seq(Told)]
  <2>1. Reply("failed", f) \in Told
    BY DEF Reply, Told, Results
  <2>. QED
    BY <1>0, <1>1, <2>1, AnswerTells
<1>6. Placed(s)'
  BY <1>0, <1>1, <1>2, <1>3 DEF Placed, ReceiverAt
<1>7. Types' /\ Control'
  <2>1. ReceiverUp(s) /\ overlapped' \subseteq made /\ unwritten' \subseteq made
        /\ tmp' \in [Files -> Contented] /\ dst' \in [Files -> Contented]
    BY <1>0, <1>1 DEF Types, ReceiverUp, ReceiverAt
  <2>. QED
    BY <1>1, <1>3, <1>4, <1>5, <1>6, <2>1, OneReceiver
<1>8. Whole'
  BY <1>0, <1>1, <1>2, <1>3 DEF Whole, InOnePiece, Spoilt, HasOpen, ReceiverAt
<1>. QED
  BY <1>4, <1>7, <1>8 DEF IInv

\* The file is acknowledged; it has arrived.
LEMMA ReplyOkKeeps ==
  ASSUME IInv, [Next]_vars, NEW s \in Sessions, ReplyOk(s)
  PROVE  IInv'
<1>. DEFINE x == [receiver[s] EXCEPT !.at = "read", !.file = None, !.next = 1]
<1>0. Types /\ Control /\ Aligned /\ Whole /\ receiver[s] \in Receivers /\ Placed(s)
  BY DEF IInv, Types, Control
<1>1. /\ receiver' = [receiver EXCEPT ![s] = x]
      /\ ReceiverAt(s, "reply") /\ Answer(s, Reply("ok", receiver[s].file))
      /\ UNCHANGED <<source, made, tmp, dst, session, sender, data, overlapped, unwritten>>
  <2>1. /\ receiver \in [Sessions -> Receivers]
        /\ receiver' = [receiver EXCEPT ![s].at = "read", ![s].file = None, ![s].next = 1]
    BY <1>0 DEF Types, ReplyOk
  <2>2. receiver' = [receiver EXCEPT ![s] = x]
    BY <2>1
  <2>. QED
    BY <2>2 DEF ReplyOk, files, history
<1>2. /\ x \in Receivers /\ x.at = "read" /\ x.file = None /\ x.next = 1
      /\ x.inode = receiver[s].inode
  <2>1. receiver[s] \in Receivers /\ 1 \in 1..(LastChunk + 1)
    BY <1>0
  <2>2. /\ x.at = "read" /\ x.file = None /\ x.next = 1 /\ x.inode = receiver[s].inode
    BY <2>1 DEF Receivers
  <2>. QED
    BY <2>1 DEF Receivers
<1>3. /\ receiver' \in [Sessions -> Receivers] /\ receiver'[s] = x
      /\ \A t \in Sessions \ {s} : receiver'[t] = receiver[t]
  BY <1>0, <1>1, <1>2 DEF Types
<1>4. Aligned'
  BY <1>0, <1>1, <1>2, <1>3, ReceiverStays DEF ReceiverAt
<1>5. replies' \in [Sessions -> Seq(Told)]
  <2>1. receiver[s].file \in made /\ made \subseteq Files
    BY <1>0, <1>1 DEF Placed, Receivers, ReceiverAt, Types
  <2>2. receiver[s].file \in Arrived
    BY <1>0, <1>1, <2>1 DEF Whole, InOnePiece, Arrived
  <2>3. Reply("ok", receiver[s].file) \in Told
    BY <2>1, <2>2 DEF Reply, Told, Results
  <2>. QED
    BY <1>0, <1>1, <2>3, AnswerTells
<1>6. Placed(s)'
  BY <1>0, <1>1, <1>2, <1>3 DEF Placed, ReceiverAt
<1>7. Types' /\ Control'
  <2>1. /\ ReceiverUp(s) /\ overlapped' \subseteq made /\ unwritten' \subseteq made
        /\ tmp' \in [Files -> Contented] /\ dst' \in [Files -> Contented]
        /\ data' \in [Sessions -> Seq(Known)]
    BY <1>0, <1>1 DEF Types, ReceiverUp, ReceiverAt
  <2>. QED
    BY <1>1, <1>3, <1>5, <1>6, <2>1, OneReceiver
<1>8. Whole'
  BY <1>0, <1>1, <1>2, <1>3 DEF Whole, InOnePiece, Spoilt, HasOpen, ReceiverAt
<1>. QED
  BY <1>4, <1>7, <1>8 DEF IInv

\* A chunk is read, and written where the file of the receiver is, or not.
LEMMA WriteKeeps ==
  ASSUME IInv, [Next]_vars, NEW s \in Sessions, NEW m, Write(s, m) \/ WriteFails(s, m)
  PROVE  IInv'
<1>. DEFINE g == receiver[s].file
            k == receiver[s].next
            x == [at |-> IF k = LastChunk THEN "rename" ELSE "content", file |-> g,
                  next |-> k + 1, inode |-> receiver[s].inode]
<1>0. /\ Types /\ Control /\ Aligned /\ Whole /\ receiver[s] \in Receivers /\ Placed(s)
      /\ ReceiverAt(s, "content") /\ Receive(s, m) /\ NextChunk(s)
      /\ UNCHANGED <<source, made, session, sender, replies, overlapped>>
  BY DEF IInv, Types, Control, Write, WriteFails, files, history
<1>1. m = Message("content", g, k) /\ g \in made /\ g \in Files /\ k \in Chunks
  BY <1>0, ContentRead
<1>2. receiver' = [receiver EXCEPT ![s] = x] /\ x \in Receivers
  <2>1. receiver \in [Sessions -> Receivers] /\ receiver[s].at = "content" /\ NextChunk(s)
    BY <1>0 DEF Types, ReceiverAt
  <2>2. receiver' = [receiver EXCEPT ![s] = x]
    BY <2>1 DEF NextChunk, Receivers
  <2>3. x \in Receivers
    BY <1>0, <1>1 DEF Receivers
  <2>. QED
    BY <2>2, <2>3
<1>3. /\ receiver' \in [Sessions -> Receivers] /\ receiver'[s] = x
      /\ \A t \in Sessions \ {s} : receiver'[t] = receiver[t]
  BY <1>0, <1>2 DEF Types
<1>4. /\ tmp' \in [Files -> Contented] /\ dst' \in [Files -> Contented]
      /\ \A f \in Files : tmp[f] # None => tmp'[f] # None
      /\ \A f \in Files : dst[f] # None => dst'[f] # None
      /\ \A f \in Files \ {g} : dst'[f] = dst[f] /\ tmp'[f] = tmp[f]
      /\ g \notin Spoilt' => dst'[g] = dst[g] /\ tmp'[g] = 1..k
      /\ Spoilt \subseteq Spoilt' /\ unwritten' \subseteq made
  <2>1. CASE Write(s, m)
    <3>1. unwritten' = unwritten /\ Spoilt' = Spoilt
      BY <1>0, <2>1 DEF Write, history, Spoilt
    <3>. QED
      BY <1>0, <1>1, <2>1, <3>1, Writes DEF Types
  <2>2. CASE WriteFails(s, m)
    <3>1. tmp' = tmp /\ dst' = dst /\ unwritten' = unwritten \cup {g}
      BY <2>2 DEF WriteFails, files
    <3>. QED
      BY <1>0, <1>1, <3>1 DEF Types, Spoilt
  <2>. QED
    BY <2>1, <2>2
<1>5. /\ Reading(s)' => \A n : Follows(m, n) => ReadsOn(s, n)'
      /\ Reading(s)' /\ SenderUp(s) /\ SendsOn(s, m) => Meet(s)'
  BY <1>0, <1>1, <1>3 DEF ReceiverAt, SenderAt, Follows, ReadsOn, SendsOn, Meet, Unfinished, Message
<1>6. /\ Aligned' /\ data' \in [Sessions -> Seq(Known)]
      /\ \A t \in Sessions \ {s} : data'[t] = data[t]
  <2>1. \A t \in Sessions \ {s} : data'[t] = data[t]
    BY <1>0 DEF Receive, Types
  <2>. QED
    BY <1>0, <1>3, <1>5, <2>1, ReceiverGoesOn
<1>7. Placed(s)'
  BY <1>0, <1>1, <1>3, <1>4 DEF Placed, ReceiverAt
<1>8. Types' /\ Control'
  <2>1. /\ ReceiverUp(s) /\ overlapped' \subseteq made /\ replies' \in [Sessions -> Seq(Told)]
    BY <1>0 DEF Types, ReceiverUp, ReceiverAt
  <2>. QED
    BY <1>0, <1>3, <1>4, <1>6, <1>7, <2>1, OneReceiver
<1>9. ASSUME NEW f \in Files \ Spoilt'
      PROVE  InOnePiece(f)'
  <2>1. f \notin Spoilt /\ dst'[f] = dst[f] /\ dst'[f] \in {None, Chunks}
    BY <1>0, <1>4, <1>9 DEF Whole, InOnePiece
  <2>2. \A t \in Sessions : HasOpen(t, f)' <=> HasOpen(t, f)
    BY <1>3 DEF HasOpen
  <2>3. \A t, r \in Sessions : HasOpen(t, f) /\ HasOpen(r, f) => t = r
    BY <1>0, <2>1 DEF Whole, InOnePiece
  <2>4. CASE f # g
    BY <1>0, <1>3, <1>4, <2>1, <2>2, <2>3, <2>4 DEF Whole, InOnePiece, ReceiverAt
  <2>5. CASE f = g
    <3>1. HasOpen(s, g) /\ receiver[s].inode = "tmp"
      BY <1>0, <2>1, <2>5 DEF Whole, InOnePiece, Placed, HasOpen, ReceiverAt
    <3>2. \A t \in Sessions \ {s} : receiver'[t].file = g => receiver'[t].inode = "none"
      BY <1>3, <2>3, <2>5, <3>1 DEF HasOpen
    <3>3. \A t \in Sessions \ {s} : receiver'[t].file = g /\ receiver'[t].at = "reply"
                                      => dst'[g] = Chunks
      BY <1>0, <1>3, <2>1, <2>5 DEF Whole, InOnePiece, ReceiverAt
    <3>4. receiver'[s].at # "reply" /\ tmp'[g] = 1..(receiver'[s].next - 1)
          /\ receiver'[s].inode = "tmp"
      BY <1>1, <1>3, <1>4, <1>9, <2>5, <3>1
    <3>. QED
      BY <2>1, <2>2, <2>3, <2>5, <3>2, <3>3, <3>4 DEF InOnePiece, ReceiverAt
  <2>. QED
    BY <2>4, <2>5
<1>10. Whole'
  BY <1>9 DEF Whole, InOnePiece, ReceiverAt
<1>. QED
  BY <1>6, <1>8, <1>10 DEF IInv

\* The .tmp is renamed, whosever it is, and the inodes of the file move.
LEMMA RenameKeeps ==
  ASSUME IInv, [Next]_vars, NEW s \in Sessions, CloseAndRename(s)
  PROVE  IInv'
<1>. DEFINE f == receiver[s].file
            found == tmp[f] # None
            x(t) == IF found THEN Inode(f, Renaming)[t] ELSE receiver[t]
<1>0. /\ Types /\ Control /\ Aligned /\ Whole
      /\ \A t \in Sessions : receiver[t] \in Receivers /\ Placed(t)
      /\ ReceiverAt(s, "rename") /\ UNCHANGED <<source, made, session, sender>>
      /\ UNCHANGED <<data, replies, overlapped, unwritten>>
  BY DEF IInv, Types, Control, CloseAndRename, streams, history
<1>1. /\ f \in made /\ f \in Files /\ tmp' = [tmp EXCEPT ![f] = None]
      /\ tmp' \in [Files -> Contented] /\ dst' \in [Files -> Contented]
      /\ \A g \in Files \ {f} : dst'[g] = dst[g] /\ tmp'[g] = tmp[g]
      /\ dst'[f] = IF found THEN tmp[f] ELSE dst[f]
      /\ f \notin Spoilt => receiver[s].inode = "tmp" /\ dst'[f] = Chunks
  <2>1. /\ f \in made /\ f \in Files /\ tmp' = [tmp EXCEPT ![f] = None]
        /\ dst' \in [Files -> Contented]
        /\ \A g \in Files \ {f} : dst'[g] = dst[g]
        /\ dst'[f] = IF found THEN tmp[f] ELSE dst[f]
        /\ f \notin Spoilt => receiver[s].inode = "tmp" /\ dst'[f] = Chunks
    BY <1>0, Renames DEF Types
  <2>. HIDE DEF f, found
  <2>2. tmp' \in [Files -> Contented] /\ \A g \in Files \ {f} : tmp'[g] = tmp[g]
    BY <1>0, <2>1 DEF Types, Contented
  <2>. QED
    BY <2>1, <2>2
\* Where the receivers are.
<1>2. \A t \in Sessions :
        /\ x(t) \in Receivers /\ x(t).at = receiver[t].at /\ x(t).file = receiver[t].file
        /\ x(t).next = receiver[t].next
        /\ x(t).inode = "none" <=> receiver[t].inode = "none"
        /\ receiver[t].file # f => x(t).inode = receiver[t].inode
        /\ receiver[t].file = f => /\ x(t).inode # "tmp"
                                   /\ x(t).inode = "dst" => dst'[f] # None
  <2>. TAKE t \in Sessions
  <2>1. CASE found
    <3>1. x(t) = Inode(f, Renaming)[t] /\ dst'[f] # None
      BY <1>1, <2>1
    <3>. HIDE DEF x, found
    <3>. QED
      BY <1>0, <3>1, Moves
  <2>2. CASE ~found
    <3>1. receiver[t].file = f => receiver[t].inode # "tmp"
      BY <1>0, <2>2 DEF Placed
    <3>2. receiver[t].file = f /\ receiver[t].inode = "dst" => dst'[f] # None
      BY <1>0, <1>1, <2>2 DEF Placed
    <3>. QED
      BY <1>0, <2>2, <3>1, <3>2
  <2>. QED
    BY <2>1, <2>2
<1>. DEFINE moved == IF found THEN Inode(f, Renaming) ELSE receiver
            y == [moved[s] EXCEPT !.at = "reply", !.inode = "none"]
<1>3. moved \in [Sessions -> Receivers] /\ \A t \in Sessions : moved[t] = x(t)
  <2>1. \A t \in Sessions : moved[t] = x(t)
    OBVIOUS
  <2>2. moved = [t \in Sessions |-> moved[t]]
    BY <1>0 DEF Inode, Types
  <2>. QED
    BY <1>2, <2>1, <2>2
<1>4. receiver' = [moved EXCEPT ![s] = y]
  <2>1. receiver' = [moved EXCEPT ![s].at = "reply", ![s].inode = "none"]
    BY DEF CloseAndRename
  <2>. HIDE DEF moved
  <2>. QED
    BY <1>3, <2>1
<1>. HIDE DEF x, found, moved
<1>5. y \in Receivers /\ y.at = "reply" /\ y.file = f /\ y.inode = "none"
  <2>1. moved[s] \in Receivers /\ moved[s].file = f
    BY <1>2, <1>3
  <2>. HIDE DEF f
  <2>. QED
    BY <2>1 DEF Receivers
<1>. HIDE DEF y
<1>6. /\ receiver' \in [Sessions -> Receivers] /\ receiver'[s] = y
      /\ \A t \in Sessions \ {s} : receiver'[t] = x(t)
  BY <1>3, <1>4, <1>5
\* The invariant.
<1>7. Aligned'
  <2>1. \A t \in Sessions :
          \/ {receiver[t].at, receiver'[t].at} \subseteq {"read", "rename", "reply"}
          \/ /\ receiver'[t].at = receiver[t].at /\ receiver'[t].file = receiver[t].file
             /\ receiver'[t].next = receiver[t].next
    BY <1>0, <1>2, <1>5, <1>6 DEF ReceiverAt
  <2>. QED
    BY <1>0, <2>1, ReceiverStays
<1>8. Types'
  <2>1. /\ data' \in [Sessions -> Seq(Known)] /\ replies' \in [Sessions -> Seq(Told)]
        /\ overlapped' \subseteq made /\ unwritten' \subseteq made
    BY <1>0 DEF Types
  <2>. QED
    BY <1>0, <1>1, <1>6, <2>1, ReceiverTypes
<1>9. Control'
  <2>1. ASSUME NEW t \in Sessions PROVE Placed(t)'
    <3>0. Placed(t) /\ receiver[t].file \in Files \cup {None}
      BY <1>0 DEF Receivers, Types
    <3>1. CASE t = s
      BY <1>0, <1>1, <1>5, <1>6, <3>0, <3>1 DEF Placed, ReceiverAt
    <3>2. CASE t # s
      <4>1. receiver'[t] = x(t)
        BY <1>6, <3>2
      <4>2. receiver'[t].inode = "tmp" => tmp'[receiver'[t].file] # None
        BY <1>1, <1>2, <3>0, <4>1 DEF Placed
      <4>3. receiver'[t].inode = "dst" => dst'[receiver'[t].file] # None
        BY <1>1, <1>2, <3>0, <4>1 DEF Placed
      <4>. QED
        BY <1>0, <1>2, <3>0, <4>1, <4>2, <4>3 DEF Placed
    <3>. QED
      BY <3>1, <3>2
  <2>2. s <= session
    BY <1>0 DEF IInv, Control, Types, ReceiverAt
  <2>3. \A t \in Sessions : t # s => receiver'[t].at = receiver[t].at
    BY <1>2, <1>6
  <2>. QED
    BY <1>0, <2>1, <2>2, <2>3 DEF Control, Types
<1>10. ASSUME NEW g \in Files \ Spoilt'
       PROVE  InOnePiece(g)'
  <2>1. g \notin Spoilt
    BY <1>0, <1>10 DEF Spoilt
  <2>2. CASE g # f
    <3>1. \A t \in Sessions : receiver'[t].file = g => t # s /\ receiver[t].file = g
      BY <1>2, <1>5, <1>6, <2>2
    <3>2. \A t \in Sessions : receiver'[t].file = g =>
            /\ receiver'[t].at = receiver[t].at /\ receiver'[t].inode = receiver[t].inode
            /\ receiver'[t].next = receiver[t].next
      BY <1>2, <1>6, <2>2, <3>1
    <3>. QED
      BY <1>0, <1>1, <2>1, <2>2, <3>1, <3>2 DEF Whole, InOnePiece, HasOpen, ReceiverAt
  <2>3. CASE g = f
    <3>1. HasOpen(s, f)
      BY <1>0, <1>1, <2>1, <2>3 DEF HasOpen
    <3>2. \A t \in Sessions \ {s} : receiver[t].file = f => receiver[t].inode = "none"
      BY <1>0, <2>1, <2>3, <3>1 DEF Whole, InOnePiece, HasOpen
    <3>3. \A t \in Sessions : receiver'[t].file = f => receiver'[t].inode = "none"
      BY <1>2, <1>5, <1>6, <3>2
    <3>. QED
      BY <1>1, <2>1, <2>3, <3>3 DEF InOnePiece, ReceiverAt, HasOpen
  <2>. QED
    BY <2>2, <2>3
<1>11. Whole'
  BY <1>10 DEF Whole, InOnePiece, ReceiverAt
<1>. QED
  BY <1>7, <1>8, <1>9, <1>11 DEF IInv

\* The connection ends in the content: the .tmp goes, whosever it is.
LEMMA EndOfContentKeeps ==
  ASSUME IInv, [Next]_vars, NEW s \in Sessions, EndOfContent(s)
  PROVE  IInv'
<1>. DEFINE f == receiver[s].file
            moved == Inode(f, Removing)
<1>0. /\ Types /\ Control /\ Aligned /\ Whole
      /\ \A t \in Sessions : receiver[t] \in Receivers /\ Placed(t)
      /\ ReceiverAt(s, "content") /\ UNCHANGED <<source, made, dst, session, sender>>
      /\ UNCHANGED <<replies, overlapped, unwritten>>
      /\ tmp' = [tmp EXCEPT ![f] = None] /\ receiver' = [moved EXCEPT ![s] = ReceiverDown]
      /\ data' = [data EXCEPT ![s] = <<>>]
  BY DEF IInv, Types, Control, EndOfContent, history
<1>1. \A t \in Sessions :
        /\ moved[t] \in Receivers /\ moved[t].at = receiver[t].at
        /\ moved[t].file = receiver[t].file /\ moved[t].next = receiver[t].next
        /\ moved[t].inode = "none" <=> receiver[t].inode = "none"
        /\ moved[t].inode = "dst" => receiver[t].inode = "dst"
        /\ receiver[t].file # f => moved[t].inode = receiver[t].inode
        /\ receiver[t].file = f => moved[t].inode # "tmp"
  BY <1>0, Moves
<1>2. moved \in [Sessions -> Receivers]
  BY <1>1 DEF Inode
<1>. HIDE DEF moved
<1>3. /\ receiver' \in [Sessions -> Receivers] /\ receiver'[s] = ReceiverDown
      /\ \A t \in Sessions \ {s} : receiver'[t] = moved[t]
  <2>1. ReceiverDown \in Receivers
    BY DEF ReceiverDown, Receivers
  <2>. QED
    BY <1>0, <1>2, <2>1
<1>4. /\ data' \in [Sessions -> Seq(Known)] /\ data'[s] = <<>>
      /\ \A t \in Sessions \ {s} : data'[t] = data[t]
  <2>1. data \in [Sessions -> Seq(Known)] /\ <<>> \in Seq(Known)
    BY <1>0 DEF Types
  <2>. QED
    BY <1>0, <2>1
<1>5. tmp' \in [Files -> Contented] /\ \A g \in Files \ {f} : tmp'[g] = tmp[g]
  BY <1>0 DEF Types, Contented
<1>6. Aligned'
  <2>1. \A t \in Sessions \ {s} :
          /\ receiver'[t].at = receiver[t].at /\ receiver'[t].file = receiver[t].file
          /\ receiver'[t].next = receiver[t].next
    BY <1>1, <1>3
  <2>2. receiver'[s].at = "down"
    BY <1>3 DEF ReceiverDown
  <2>. QED
    BY <1>0, <1>4, <2>1, <2>2, ReceiverStays
<1>7. Types'
  <2>1. /\ dst' \in [Files -> Contented] /\ replies' \in [Sessions -> Seq(Told)]
        /\ overlapped' \subseteq made /\ unwritten' \subseteq made
    BY <1>0 DEF Types
  <2>. QED
    BY <1>0, <1>3, <1>4, <1>5, <2>1, ReceiverTypes
<1>8. Control'
  <2>1. ASSUME NEW t \in Sessions PROVE Placed(t)'
    <3>1. CASE t = s
      BY <1>3, <1>4, <3>1 DEF Placed, ReceiverDown
    <3>2. CASE t # s
      <4>0. Placed(t) /\ receiver[t].file \in Files \cup {None}
        BY <1>0 DEF Receivers, Types
      <4>1. receiver'[t] = moved[t] /\ data'[t] = data[t]
        BY <1>3, <1>4, <3>2
      <4>2. moved[t].inode = "tmp" => tmp'[moved[t].file] # None
        BY <1>1, <1>5, <4>0 DEF Placed
      <4>3. moved[t].inode = "dst" => dst'[moved[t].file] # None
        BY <1>0, <1>1, <4>0 DEF Placed
      <4>. QED
        BY <1>1, <4>0, <4>1, <4>2, <4>3 DEF Placed
    <3>. QED
      BY <3>1, <3>2
  <2>2. s <= session
    BY <1>0 DEF Control, Types, ReceiverAt
  <2>3. \A t \in Sessions : t # s => receiver'[t].at = receiver[t].at
    BY <1>1, <1>3
  <2>4. session' = session /\ sender' = sender /\ session \in 0..MaxSessions
    BY <1>0 DEF Types
  <2>5. \A t \in Sessions : /\ sender[t].at = "content" => sender[t].file \in made'
                            /\ t > session => sender[t].at = "down" /\ receiver[t].at = "down"
    BY <1>0 DEF Control
  <2>. QED
    BY <2>1, <2>2, <2>3, <2>4, <2>5 DEF Control
<1>9. ASSUME NEW g \in Files \ Spoilt'
      PROVE  InOnePiece(g)'
  <2>1. g \notin Spoilt /\ dst'[g] = dst[g]
    BY <1>0, <1>9 DEF Spoilt
  <2>2. \A t \in Sessions : receiver'[t].file = g =>
          /\ t # s /\ receiver[t].file = g /\ receiver'[t].at = receiver[t].at
          /\ receiver'[t].next = receiver[t].next
          /\ g # f => receiver'[t].inode = receiver[t].inode
          /\ receiver'[t].inode = "none" <=> receiver[t].inode = "none"
    BY <1>1, <1>3 DEF ReceiverDown
  <2>3. CASE g # f
    <3>1. InOnePiece(g) /\ tmp'[g] = tmp[g]
      BY <1>0, <1>5, <2>1, <2>3 DEF Whole
    <3>. QED
      BY <2>1, <2>2, <2>3, <3>1 DEF InOnePiece, ReceiverAt, HasOpen
  <2>4. CASE g = f
    <3>1. HasOpen(s, f)
      BY <1>0 DEF HasOpen, Placed, ReceiverAt
    <3>2. \A t \in Sessions : receiver'[t].file = f => receiver'[t].inode = "none"
      BY <1>0, <2>1, <2>2, <2>4, <3>1 DEF Whole, InOnePiece, HasOpen
    <3>. QED
      BY <1>0, <2>1, <2>2, <2>4, <3>2 DEF Whole, InOnePiece, HasOpen, ReceiverAt
  <2>. QED
    BY <2>3, <2>4
<1>10. Whole'
  BY <1>9 DEF Whole, InOnePiece, ReceiverAt
<1>. QED
  BY <1>6, <1>7, <1>8, <1>10 DEF IInv

\* Every step of a receiver, and the failures, keep the invariant.
LEMMA ReceiverKeeps ==
  ASSUME IInv, [Next]_vars, NEW s \in Sessions, ReceiverStep(s) \/ Failure(s)
  PROVE  IInv'
<1>1. CASE AnswerFails(s) \/ EndOfStream(s) \/ CheckprocKills(s) \/ ReceiverFails(s)
  <2>1. /\ ReceiverUp(s) /\ ReceiverExits(s)
        /\ UNCHANGED <<files, session, sender, replies, history>>
    BY <1>1 DEF AnswerFails, EndOfStream, CheckprocKills, ReceiverFails, ReceiverUp, ReceiverAt
  <2>. QED
    BY <2>1, ExitKeeps
<1>2. CASE SenderFails(s)
  BY <1>2, SenderKeeps DEF SenderFails
<1>. QED
  BY <1>1, <1>2, SkipKeeps, OpenKeeps, OpenFailsKeeps, WriteKeeps, RenameKeeps, ReplyOkKeeps,
     EndOfContentKeeps DEF ReceiverStep, Failure

-----------------------------------------------------------------------------
(* The theorems.                                                           *)

\* Every step of the two programs, and every fault, keeps the invariant.
LEMMA StepInv == IInv /\ [Next]_vars => IInv'
<1>. SUFFICES ASSUME IInv, [Next]_vars PROVE IInv'
  OBVIOUS
<1>0. Types /\ Control /\ Aligned /\ Whole
  BY DEF IInv
<1>1. ASSUME NEW f \in Files, Produce(f) PROVE IInv'
  <2>1. /\ UNCHANGED <<tmp, dst, session, sender, receiver, data, replies, overlapped, unwritten>>
        /\ made' = made \cup {f} /\ source' = source \cup {f}
    BY <1>1 DEF Produce, streams, history
  <2>2. Senders \subseteq Senders' /\ Receivers \subseteq Receivers' /\ Known \subseteq Known'
    BY <2>1 DEF Senders, Receivers, Known
  <2>3. Told' = Told
    BY <2>1 DEF Told, Arrived, Spoilt
  <2>4. data' \in [Sessions -> Seq(Known')]
    BY <1>0, <2>1, StaysKnown DEF Types
  <2>5. Types'
    BY <1>0, <2>1, <2>2, <2>3, <2>4 DEF Types
  <2>6. Control'
    BY <1>0, <2>1 DEF Control, Placed
  <2>7. Aligned' /\ Whole'
    BY <1>0, <2>1 DEF Aligned, AlignedAt, Whole, InOnePiece, SenderUp, SenderAt, ReceiverAt, SendsOn, ReadsOn, Reading,
                      Meet, HasOpen, Spoilt
  <2>. QED
    BY <2>5, <2>6, <2>7 DEF IInv
<1>2. CASE Connect
  <2>0. PICK s : s = session + 1
    OBVIOUS
  <2>. DEFINE x == [sender[s] EXCEPT !.at = "scan"]
              y == [receiver[s] EXCEPT !.at = "read"]
  <2>1. /\ UNCHANGED <<source, made, tmp, dst, data, replies, overlapped, unwritten>>
        /\ session' = s /\ s \in Sessions
        /\ sender' = [sender EXCEPT ![s] = x] /\ receiver' = [receiver EXCEPT ![s] = y]
        /\ sender[s] \in Senders /\ receiver[s] \in Receivers
    BY <1>0, <1>2, <2>0 DEF Connect, files, streams, history, Types
  <2>2. sender[s].at = "down" /\ receiver[s].at = "down" /\ Placed(s) /\ data[s] = <<>>
    <3>1. s > session
      BY <1>0, <2>0 DEF Types
    <3>2. sender[s].at = "down" /\ receiver[s].at = "down" /\ Placed(s)
      BY <1>0, <2>1, <3>1 DEF Control
    <3>. QED
      BY <3>2 DEF Placed
  <2>3. x \in Senders /\ x.at = "scan"
    BY <2>1 DEF Senders, Modes
  <2>4. /\ y \in Receivers /\ y.at = "read" /\ y.file = receiver[s].file
        /\ y.inode = receiver[s].inode
    BY <2>1 DEF Receivers
  <2>. HIDE DEF x, y
  <2>5. /\ sender' \in [Sessions -> Senders] /\ sender'[s] = x
        /\ receiver' \in [Sessions -> Receivers] /\ receiver'[s] = y
        /\ \A t \in Sessions \ {s} : sender'[t] = sender[t] /\ receiver'[t] = receiver[t]
    BY <1>0, <2>1, <2>3, <2>4 DEF Types
  <2>6. Known' = Known /\ Told' = Told /\ Senders' = Senders /\ Receivers' = Receivers
    BY <2>1 DEF Known, Told, Arrived, Spoilt, Senders, Receivers
  <2>7. Types'
    BY <1>0, <2>1, <2>5, <2>6 DEF Types
  <2>8. Control'
    <3>1. ASSUME NEW t \in Sessions PROVE Placed(t)'
      BY <1>0, <2>1, <2>2, <2>4, <2>5 DEF Control, Placed
    <3>. QED
      BY <1>0, <2>0, <2>1, <2>3, <2>5, <3>1 DEF Control, Types
  <2>9. Aligned'
    <3>1. Chained(data[s]) /\ (data[s] = <<>>)'
      BY <1>0, <2>1, <2>2 DEF Aligned, AlignedAt
    <3>2. ASSUME NEW t \in Sessions
          PROVE  AlignedAt(t)'
      <4>1. CASE t = s
        BY <2>1, <2>3, <2>4, <2>5, <3>1, <4>1 DEF AlignedAt, Meet, SenderAt, ReceiverAt
      <4>2. CASE t # s
        BY <1>0, <2>1, <2>5, <4>2 DEF Aligned, AlignedAt, SenderUp, SenderAt, ReceiverAt, SendsOn, ReadsOn,
                                      Reading, Meet
      <4>. QED
        BY <4>1, <4>2
    <3>. QED
      BY <3>2 DEF Aligned, AlignedAt
  <2>10. Whole'
    <3>1. y.inode = "none" /\ y.file = None
      BY <2>2, <2>4 DEF Placed
    <3>. QED
      BY <1>0, <2>1, <2>4, <2>5, <3>1 DEF Whole, InOnePiece, Spoilt, HasOpen, ReceiverAt
  <2>. QED
    BY <2>7, <2>8, <2>9, <2>10 DEF IInv
<1>3. CASE UNCHANGED vars
  <2>1. UNCHANGED <<source, made, tmp, dst, session, sender, receiver, data, replies,
                    overlapped, unwritten>>
    BY <1>3 DEF vars, files, streams, history
  <2>2. Known' = Known /\ Told' = Told /\ Senders' = Senders /\ Receivers' = Receivers
    BY <2>1 DEF Known, Told, Arrived, Spoilt, Senders, Receivers
  <2>3. Types' /\ Control' /\ Whole'
    BY <1>0, <2>1, <2>2 DEF Types, Control, Placed, Whole, InOnePiece, Spoilt, HasOpen, ReceiverAt
  <2>4. Aligned'
    BY <1>0, <2>1 DEF Aligned, AlignedAt, SenderUp, SenderAt, ReceiverAt, SendsOn, ReadsOn, Reading, Meet
  <2>. QED
    BY <2>3, <2>4 DEF IInv
<1>. QED
  BY <1>1, <1>2, <1>3, SenderKeeps, ReceiverKeeps DEF Next, SenderUp

\* The types of the variables, and where each process has its file.
THEOREM TypeCorrect == Spec => [](Types /\ Control)
  BY InitInv, StepInv, PTL DEF Spec, IInv

\* What a receiver reads as a request is one, and what it writes is the next
\* chunk of the file it has open.
THEOREM InStepCorrect == Spec => []InStep
<1>1. IInv => InStep
  <2>. SUFFICES ASSUME IInv, NEW s \in Sessions, data[s] # <<>>
                PROVE  /\ ReceiverAt(s, "content") =>
                            Head(data[s]) = Message("content", receiver[s].file, receiver[s].next)
                       /\ receiver[s].at \in {"read", "rename", "reply"} =>
                            Head(data[s]).kind # "content"
    BY DEF InStep
  <2>. QED
    BY DEF IInv, Aligned, AlignedAt, ReadsOn, Reading, ReceiverAt
<1>. QED
  BY <1>1, InitInv, StepInv, PTL DEF Spec

\* The transfer implements FileDelivery.
THEOREM ImplementsDeliveryCorrect == Spec => ImplementsDelivery
<1>1. Init => Delivery!FDInit
  BY DEF Init, Delivery!FDInit, Spoilt, Chunks
<1>. QED
  BY <1>1, InitInv, StepInv, DeliveryStep, PTL DEF Spec, ImplementsDelivery, Delivery!FDSpec

=============================================================================
