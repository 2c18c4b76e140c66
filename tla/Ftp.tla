-------------------------------- MODULE Ftp ---------------------------------
(***************************************************************************)
(* cftpclient (_ftp.cpp) over ftplib.c: the commands on the control        *)
(* connection and their replies, the data connection of a transfer, and    *)
(* the checks by which get() and put() accept a file.  The server is one   *)
(* that keeps to the protocol: it answers each command in turn, a transfer *)
(* with a first reply (1xx) and a last.                                    *)
(*                                                                         *)
(* The file at the sender has Blocks blocks, and what is in a block tells  *)
(* the version of the file; a copy is a sequence of versions.  In a get()  *)
(* the sender is the server, in a put() the client.  A transfer and what   *)
(* comes after it is in DataCentre as one step, Get or Put.                *)
(***************************************************************************)
EXTENDS Naturals, Sequences

CONSTANTS Blocks,       \* the blocks of a file
          MaxVersions,  \* bound: the times that the file is written
          MaxCommands,  \* bound: the commands of a connection, but for its last call
          MaxFtpFaults  \* bound: refusals, connections that break, timeouts, full disks, crashes

ASSUME FtpAssumption == /\ Blocks \in Nat \ {0} /\ MaxVersions \in Nat
                        /\ MaxCommands \in Nat /\ MaxFtpFaults \in Nat

VARIABLES
  cmode,      \* FTPLIB_PASSIVE or FTPLIB_PORT
  ftpfaults,
  ftpclient,     \* its call, the next step of it, whether it waits for a reply, strmtime,
              \* and what the last reply told
  sent,       \* the commands sent on this connection
  response,   \* the reply read last: to which command, its first digit
  replies,    \* those on their way
  session,    \* the server: the command it has to answer, or "transfer"
  data,       \* the data connection: its state, the blocks in it, how many there were
  original,   \* the file at the sender
  tmpcopy, copy,  \* the file at the receiver, under its temporary and its final name
  cut,        \* a block of the transfer was lost
  unseen,     \* the file was rewritten during the call, within the second of its time
  accepted    \* what the last call that returned true left under the final name

fileVars   == <<original, tmpcopy, copy, cut, unseen, accepted>>
serverVars == <<replies, session, data>>
ftpVars    == <<cmode, ftpfaults, ftpclient, sent, response, serverVars, fileVars>>

Offline == [call |-> "none", step |-> "offline", waits |-> FALSE, mtime |-> 0, value |-> 0]
NoReply == [no |-> 0, code |-> "2"]
NoData  == [at |-> "none", blocks |-> <<>>, moved |-> 0]

FtpInit == /\ cmode \in {"passive", "port"} /\ ftpfaults = 0
           /\ ftpclient = Offline /\ sent = 0 /\ response = NoReply
           /\ replies = <<>> /\ session = "idle" /\ data = NoData
           /\ original = [version |-> 1, mtime |-> 1]
           /\ tmpcopy = <<>> /\ copy = <<>> /\ cut = FALSE /\ unseen = FALSE
           /\ accepted = {}

\* The first digit that the reply to a command must have.
Expects == [user |-> "3", pass |-> "2", mtime |-> "2", type |-> "2", port |-> "2",
            xfer |-> "1", mtime2 |-> "2", rename |-> "3", renameto |-> "2",
            typesize |-> "2", size |-> "2", remove |-> "2", removefinal |-> "2", other |-> "2"]
Commands == DOMAIN Expects

Goto(step) == ftpclient' = [ftpclient EXCEPT !.step = step, !.waits = FALSE]

\* The control connection is gone, and what was under way on it.
HungUp == /\ ftpclient' = Offline /\ sent' = 0 /\ response' = NoReply
          /\ replies' = <<>> /\ session' = "idle" /\ data' = NoData

-----------------------------------------------------------------------------
(* The control connection.                                                 *)

\* FtpConnect() and its greeting.
FtpConnect == /\ ftpclient.step = "offline"
              /\ ftpclient' = [Offline EXCEPT !.step = "user"]
              /\ UNCHANGED <<cmode, ftpfaults, sent, response, serverVars, fileVars>>

\* logout(), or the end of the process.
FtpQuit == /\ ftpclient.step = "ready" /\ HungUp
           /\ UNCHANGED <<cmode, ftpfaults, fileVars>>

\* A call of cftpclient; other stands for one that is a single command: chdir(),
\* mkdir(), rmdir(), ftpdelete(), site(), size().
Call == /\ ftpclient.step = "ready" /\ sent < MaxCommands
        /\ \/ ftpclient' = [ftpclient EXCEPT !.call = "get", !.step = "mtime"]
           \/ ftpclient' = [ftpclient EXCEPT !.call = "put", !.step = "type",
                                           !.mtime = original.mtime]
           \/ ftpclient' = [ftpclient EXCEPT !.call = "nlist", !.step = "type"]
           \/ ftpclient' = [ftpclient EXCEPT !.call = "other", !.step = "other"]
        /\ cut' = FALSE /\ unseen' = FALSE
        /\ UNCHANGED <<cmode, ftpfaults, sent, response, serverVars,
                       original, tmpcopy, copy, accepted>>

\* FtpSendCmd(), up to the reply.
SendCmd == /\ ftpclient.step \in Commands /\ ~ftpclient.waits
           /\ ftpclient' = [ftpclient EXCEPT !.waits = TRUE]
           /\ sent' = sent + 1 /\ session' = ftpclient.step
           /\ UNCHANGED <<cmode, ftpfaults, response, replies, data, fileVars>>

Reply(code, value) == Append(replies, [no |-> sent, code |-> code, value |-> value])

\* What the reply says: the time for MDTM, the length for SIZE.
Value(step) == IF step = "size" THEN Len(copy) ELSE original.mtime

\* FtpOpenPort(): the client listens for the server, or in passive mode connects to
\* the port that the server told it, which the server takes up with the transfer.
OpenPort == CASE session = "port" -> [NoData EXCEPT !.at = "listen"]
              [] session = "xfer" /\ cmode = "passive" -> [data EXCEPT !.at = "open"]
              [] OTHER -> data

\* The server does what it was told.
Obey ==
  /\ session \in Commands
  /\ \/ replies' = Reply(Expects[session], Value(session))
     \/ session = "user" /\ replies' = Reply("2", 0)     \* no password is needed
  /\ session' = IF session = "xfer" THEN "transfer" ELSE "idle"
  /\ data' = OpenPort
  /\ tmpcopy' = IF \/ session \in {"renameto", "remove"}
                   \/ session = "xfer" /\ ftpclient.call = "put"
                THEN <<>> ELSE tmpcopy
  /\ copy' = CASE session = "renameto" -> tmpcopy
               [] session = "removefinal" -> <<>>
               [] OTHER -> copy
  /\ UNCHANGED <<cmode, ftpfaults, ftpclient, sent, response, original, cut, unseen, accepted>>

Refuse == /\ session \in Commands
          /\ \E code \in {"4", "5"} : replies' = Reply(code, 0)
          /\ session' = "idle"
          /\ UNCHANGED <<ftpclient, sent, response, data, fileVars>>

\* The step after a command: FtpLogin(), FtpXfer() with FtpAccess(), and the calls of
\* cftpclient one after the other.
NextStep(step) ==
  CASE step = "user" -> "pass"
    [] step = "mtime" -> "type"
    [] step = "type" -> "port"
    [] step = "port" -> "xfer"
    [] step = "xfer" -> IF cmode = "port" THEN "accept" ELSE "move"
    [] step = "mtime2" -> "checktime"
    [] step = "rename" -> "renameto"
    [] step = "renameto" -> "typesize"
    [] step = "typesize" -> "size"
    [] step = "size" -> "checksize"
    [] OTHER -> "ready"

StepRefused(step, code) ==
  CASE step = "user" /\ code # "2" -> "offline"
    [] step = "pass" -> "offline"
    [] step = "xfer" -> "giveup"
    [] OTHER -> "ready"

ReadReply == /\ replies # <<>> /\ replies' = Tail(replies)
             /\ response' = [no |-> Head(replies).no, code |-> Head(replies).code]

\* readresp().
ReadResp ==
  LET reply == Head(replies)
      step  == ftpclient.step
      ok    == reply.code = Expects[step]
  IN
  /\ ftpclient.waits /\ step \in Commands /\ ReadReply
  /\ ftpclient' = [ftpclient EXCEPT
       !.waits = FALSE, !.value = reply.value,
       !.mtime = IF step = "mtime" THEN reply.value ELSE @,
       !.step  = IF ok THEN NextStep(step) ELSE StepRefused(step, reply.code)]
  /\ tmpcopy' = IF step = "mtime" /\ ok THEN <<>> ELSE tmpcopy    \* fopen()
  /\ UNCHANGED <<cmode, ftpfaults, sent, session, data, original, copy, cut, unseen, accepted>>

-----------------------------------------------------------------------------
(* The data connection.                                                    *)

\* PORT: the server connects,
Dial == /\ session = "transfer" /\ data.at = "listen"
        /\ data' = [data EXCEPT !.at = "open"]
        /\ UNCHANGED <<cmode, ftpfaults, ftpclient, sent, response, replies, session, fileVars>>

\* FtpAcceptConnection(): and is accepted,
AcceptData == /\ ftpclient.step = "accept" /\ data.at \in {"open", "ended", "broken"}
              /\ Goto("move")
              /\ UNCHANGED <<cmode, ftpfaults, sent, response, serverVars, fileVars>>

\* or a reply comes instead.
AcceptReply == /\ ftpclient.step = "accept" /\ data.at = "listen"
               /\ ReadReply
               /\ Goto("giveup")
               /\ UNCHANGED <<cmode, ftpfaults, sent, session, data, fileVars>>

Sends == data.at = "open" /\ data.moved < Blocks
Moved == [data EXCEPT !.blocks = Append(@, original.version), !.moved = @ + 1]
Took  == [data EXCEPT !.blocks = Tail(@)]

\* RETR and NLST.
ServerSends == /\ session = "transfer" /\ ftpclient.call # "put"
               /\ \/ Sends /\ data' = Moved /\ UNCHANGED <<replies, session>>
                  \/ /\ data.at = "open" /\ data.moved = Blocks
                     /\ data' = [data EXCEPT !.at = "ended"]
                     /\ replies' = Reply("2", 0) /\ session' = "idle"
               /\ UNCHANGED <<cmode, ftpfaults, ftpclient, sent, response, fileVars>>

\* FtpXfer() cannot tell the end of the data from an error (FtpRead() returns 0).
ClientReads == /\ ftpclient.step = "move" /\ ftpclient.call # "put"
               /\ \/ /\ data.blocks # <<>> /\ data' = Took /\ UNCHANGED ftpclient
                     /\ IF ftpclient.call = "get" THEN tmpcopy' = Append(tmpcopy, Head(data.blocks))
                                               ELSE UNCHANGED tmpcopy
                  \/ /\ data.blocks = <<>> /\ data.at \in {"ended", "broken"}
                     /\ Goto("close") /\ UNCHANGED <<data, tmpcopy>>
               /\ UNCHANGED <<cmode, ftpfaults, sent, response, replies, session,
                              original, copy, cut, unseen, accepted>>

\* STOR.  A write to a connection that is broken fails, or SIGPIPE ends the process.
ClientWrites == /\ ftpclient.step = "move" /\ ftpclient.call = "put"
                /\ \/ Sends /\ data' = Moved /\ UNCHANGED <<ftpclient, replies, session>>
                      /\ UNCHANGED <<sent, response>>
                   \/ data.at = "open" /\ data.moved = Blocks /\ Goto("close")
                      /\ UNCHANGED <<sent, response, serverVars>>
                   \/ data.at = "broken" /\ Goto("giveup")
                      /\ UNCHANGED <<sent, response, serverVars>>
                   \/ data.at = "broken" /\ HungUp
                /\ UNCHANGED <<cmode, ftpfaults, fileVars>>

ServerReads == /\ session = "transfer" /\ ftpclient.call = "put"
               /\ \/ /\ data.blocks # <<>> /\ data' = Took
                     /\ tmpcopy' = Append(tmpcopy, Head(data.blocks))
                     /\ UNCHANGED <<replies, session>>
                  \/ /\ data.blocks = <<>> /\ data.at = "ended"
                     /\ replies' = Reply("2", 0) /\ session' = "idle"
                     /\ UNCHANGED <<data, tmpcopy>>
               /\ UNCHANGED <<cmode, ftpfaults, ftpclient, sent, response,
                              original, copy, cut, unseen, accepted>>

\* The data connection broke, or there is none to connect to.
ServerAborts == /\ session = "transfer" /\ data.at \in {"broken", "none"}
                /\ replies' = Reply("4", 0) /\ session' = "idle"
                /\ UNCHANGED <<cmode, ftpfaults, ftpclient, sent, response, data, fileVars>>

\* The step after FtpClose().
AfterTransfer == CASE ftpclient.step = "close" /\ ftpclient.call = "get" -> "mtime2"
                   [] ftpclient.step = "close" /\ ftpclient.call = "put" -> "checklocal"
                   [] OTHER -> "ready"

\* The close of the client's end.
ClosedData == CASE data.at = "listen" -> NoData
                [] data.at = "open" -> [data EXCEPT !.at = IF ftpclient.step = "close"
                                                           THEN "ended" ELSE "broken"]
                [] OTHER -> data

\* Mutant: the last reply is left on the control connection.
CloseDataOnly ==
  /\ ftpclient.step \in {"close", "giveup"}
  /\ data' = ClosedData /\ Goto(AfterTransfer)
  /\ UNCHANGED <<cmode, ftpfaults, sent, response, replies, session, fileVars>>

\* FtpClose(): the last reply is read, unless the transfer was refused; what it says
\* is not looked at.
CloseData ==
  /\ ftpclient.step \in {"close", "giveup"} /\ ~ftpclient.waits
  /\ data' = ClosedData
  /\ IF response.code \in {"4", "5"} THEN Goto("ready")
                                     ELSE ftpclient' = [ftpclient EXCEPT !.waits = TRUE]
  /\ UNCHANGED <<cmode, ftpfaults, sent, response, replies, session, fileVars>>

LastReply == /\ ftpclient.step \in {"close", "giveup"} /\ ftpclient.waits /\ ReadReply
             /\ Goto(AfterTransfer)
             /\ UNCHANGED <<cmode, ftpfaults, sent, session, data, fileVars>>

-----------------------------------------------------------------------------
(* What get() and put() check.                                             *)

ReturnTrue(content) ==
  /\ Goto("ready")
  /\ accepted' = {[call |-> ftpclient.call, content |-> content, cut |-> cut, unseen |-> unseen]}

\* Mutant: the times are not compared.
CheckGetNot == /\ ftpclient.step = "checktime"
               /\ copy' = tmpcopy /\ tmpcopy' = <<>> /\ ReturnTrue(tmpcopy)
               /\ UNCHANGED <<cmode, ftpfaults, sent, response, serverVars, original, cut, unseen>>

CheckGet == /\ ftpclient.step = "checktime"
            /\ IF ftpclient.value = ftpclient.mtime
               THEN copy' = tmpcopy /\ tmpcopy' = <<>> /\ ReturnTrue(tmpcopy)
               ELSE Goto("ready") /\ UNCHANGED <<tmpcopy, copy, accepted>>
            /\ UNCHANGED <<cmode, ftpfaults, sent, response, serverVars, original, cut, unseen>>

CheckPut == /\ \/ ftpclient.step = "checklocal"
                  /\ Goto(IF original.mtime = ftpclient.mtime THEN "rename" ELSE "remove")
                  /\ UNCHANGED accepted
               \/ ftpclient.step = "checksize" /\ ftpclient.value # Blocks
                  /\ Goto("removefinal") /\ UNCHANGED accepted
               \/ ftpclient.step = "checksize" /\ ftpclient.value = Blocks /\ ReturnTrue(copy)
            /\ UNCHANGED <<cmode, ftpfaults, sent, response, serverVars,
                           original, tmpcopy, copy, cut, unseen>>

-----------------------------------------------------------------------------
(* The environment.                                                        *)

UnderWay == ftpclient.step \notin {"offline", "ready"}

\* Another program writes the file again, in place; a second has passed, or not.
Rewrite == /\ original.version < MaxVersions
           /\ \E second \in {0, 1} :
                /\ original' = [version |-> original.version + 1, mtime |-> original.mtime + second]
                /\ unseen' = (unseen \/ (UnderWay /\ second = 0))
           /\ UNCHANGED <<cmode, ftpfaults, ftpclient, sent, response, serverVars,
                          tmpcopy, copy, cut, accepted>>

\* What is in the data connection is lost.  The client of a get() may take the
\* break for the end of the data, the server of a put() does not.
BreakData ==
  /\ data.at = "open" \/ (data.at = "ended" /\ data.blocks # <<>>)
  /\ data' = [data EXCEPT !.blocks = <<>>,
                          !.at = IF ftpclient.call # "put" /\ @ = "ended" THEN @ ELSE "broken"]
  /\ cut' = TRUE
  /\ UNCHANGED <<ftpclient, sent, response, replies, session,
                 original, tmpcopy, copy, unseen, accepted>>

\* The server cannot reach the client's port; the client waits for it too long.
NoDial == /\ session = "transfer" /\ data.at = "listen"
          /\ replies' = Reply("4", 0) /\ session' = "idle"
          /\ UNCHANGED <<ftpclient, sent, response, data, fileVars>>

AcceptTimeout == /\ ftpclient.step = "accept" /\ data.at = "listen" /\ replies = <<>>
                 /\ response' = [no |-> 0, code |-> "t"] /\ data' = NoData
                 /\ Goto("giveup")
                 /\ UNCHANGED <<sent, replies, session, fileVars>>

\* fwrite() or the server fails to write a block; the client may not notice before
\* fclose(), whose result it does not look at.
DiskFull == /\ data.blocks # <<>> /\ cut' = TRUE
            /\ \/ /\ ftpclient.call # "put" /\ ftpclient.step = "move" /\ data' = Took
                  /\ UNCHANGED <<replies, session>> /\ (UNCHANGED ftpclient \/ Goto("giveup"))
               \/ /\ ftpclient.call = "put" /\ session = "transfer"
                  /\ data' = [data EXCEPT !.at = "broken", !.blocks = <<>>]
                  /\ replies' = Reply("4", 0) /\ session' = "idle" /\ UNCHANGED ftpclient
            /\ UNCHANGED <<sent, response, original, tmpcopy, copy, unseen, accepted>>

\* The process ends, or the control connection breaks, and with it the call.
Hangup == ftpclient.step # "offline" /\ HungUp /\ UNCHANGED fileVars

FtpFault == /\ ftpfaults < MaxFtpFaults /\ ftpfaults' = ftpfaults + 1
            /\ Refuse \/ BreakData \/ NoDial \/ AcceptTimeout \/ DiskFull \/ Hangup
            /\ UNCHANGED cmode

FtpNext == \/ FtpConnect \/ FtpQuit \/ Call
           \/ SendCmd \/ Obey \/ ReadResp
           \/ Dial \/ AcceptData \/ AcceptReply
           \/ ServerSends \/ ClientReads \/ ClientWrites \/ ServerReads \/ ServerAborts
           \/ CloseData \/ LastReply
           \/ CheckGet \/ CheckPut
           \/ Rewrite \/ FtpFault

FtpSpec == FtpInit /\ [][FtpNext]_ftpVars

-----------------------------------------------------------------------------
(* Properties.                                                             *)

\* Each reply that is judged answers the command that was sent last; when a command
\* is sent none is left of the one before, whatever became of its transfer; and who
\* waits for a reply is owed one.
RepliesInTurn ==
  IF ftpclient.waits
  THEN replies # <<>> \/ session # "idle"
  ELSE /\ response.no \in {0, sent}
       /\ ftpclient.step \in Commands \cup {"ready"} => replies = <<>> /\ session = "idle"

Whole(content) == Len(content) = Blocks /\ \A i \in 1..Blocks : content[i] = content[1]

\* A file for which get() or put() returns true is one version of the original from
\* the first block to the last.  Their checks do not see a file rewritten within the
\* second of its time.  get() looks at the time only, so that it takes a file of which
\* a block was lost, although the check is there "to ensure that a file is complete"
\* (_ftp.h:81); put() compares the size.
AcceptedIsWhole == \A a \in accepted :
  Whole(a.content) \/ a.unseen \/ (a.call = "get" /\ a.cut)

\* A reply is judged as the answer to its own command, and a file is taken for
\* whole only if it is: of these two is the trust in what the calls return made.
TransfersInStep == RepliesInTurn /\ AcceptedIsWhole
=============================================================================
