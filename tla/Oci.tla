-------------------------------- MODULE Oci ----------------------------------
(***************************************************************************)
(* The classes connection and sqlstatement of the Oracle wrapper           *)
(* (public/db/oracle/_ooci.cpp): what their states say, what they do to    *)
(* the transactions of the database, and the codes they leave in m_cda.    *)
(*                                                                         *)
(* The database is external: a session is made by OCILogon() and has one   *)
(* transaction; OCILogoff() commits what it finds uncommitted, and a       *)
(* session that is lost is rolled back.                                    *)
(*                                                                         *)
(* A program is taken to disconnect the statements of a connection before  *)
(* the connection: they hold copies of its handles (_ooci.cpp:397).        *)
(***************************************************************************)
EXTENDS Naturals, FiniteSets

CONSTANTS Connections, Statements,
          LastSession,   \* bound: the sessions
          LastChange,    \* bound: the changes
          MaxRows        \* bound: the rows of a result

ASSUME OciAssumption == LastSession \in Nat /\ LastChange \in Nat /\ MaxRows \in Nat

VARIABLES
  \* The objects of class connection.
  conn,       \* m_state, the session of m_cxt, m_autocommitopt, m_cda.rc
  \* The objects of class sqlstatement.
  stmt,       \* m_state, m_conn, the session of m_handle, m_autocommitopt,
              \* m_sqltype, m_cda.rc
  rows,       \* the rows of each statement not yet fetched
  \* The database.
  sessions,   \* how many there were
  live,       \* the sessions that are not closed or lost
  pending,    \* the changes of the transaction of each session
  committed,  \* the changes that are committed
  lastchange,
  \* History.
  asked,      \* the changes that were in a transaction whose commit was asked for
  told        \* the statements a call of which has failed since their result was made

ociVars == <<conn, stmt, rows, sessions, live, pending, committed, lastchange, asked, told>>

Sessions == 1..LastSession
NoSession == 0

\* 0, -1, 1017, 1403 (no more rows), 1405 (a null), and any other error.
Codes == {"ok", "closed", "denied", "end", "null", "error"}

-----------------------------------------------------------------------------

OciInit ==
  /\ conn = [c \in Connections |->
               [m_state |-> "disconnected", session |-> NoSession, auto |-> "off", rc |-> "closed"]]
  /\ stmt = [s \in Statements |->
               [m_state |-> "disconnected", m_conn |-> "none", session |-> NoSession, auto |-> "off",
                sqltype |-> "none", rc |-> "closed"]]
  /\ rows = [s \in Statements |-> 0]
  /\ sessions = 0
  /\ live = {}
  /\ pending = [n \in Sessions |-> {}]
  /\ committed = {}
  /\ lastchange = 0
  /\ asked = {}
  /\ told = {}

Connected(c)    == conn[c].m_state = "connected"
HasConnection(s) == stmt[s].m_state = "connected"

\* A call made on statement s returned code.
Returns(code, s) == told' = IF code = "ok" THEN told ELSE told \union {s}

\* The statement has no result yet, or a new one.
ResultMade(s) == told' = told \ {s}

database == <<sessions, live, pending, committed, lastchange, asked>>

-----------------------------------------------------------------------------
(* connection.                                                             *)

(* connecttodb() of a connection that is open does nothing.                *)
ConnectAgain(c, auto) == /\ Connected(c)
                         /\ UNCHANGED <<conn, stmt, rows, database, told>>

Logon(c, auto) == /\ ~Connected(c) /\ sessions < LastSession
                  /\ sessions' = sessions + 1
                  /\ live' = live \union {sessions'}
                  /\ conn' = [conn EXCEPT ![c] = [m_state |-> "connected", session |-> sessions',
                                                  auto |-> auto, rc |-> "ok"]]
                  /\ UNCHANGED <<stmt, rows, pending, committed, lastchange, asked, told>>

(* The environment cannot be made, or the logon is refused.                *)
LogonFails(c) == /\ ~Connected(c)
                 /\ \E code \in {"closed", "denied"} : conn' = [conn EXCEPT ![c].rc = code]
                 /\ UNCHANGED <<stmt, rows, database, told>>

ConnectToDB(c) == \/ \E auto \in {"on", "off"} : ConnectAgain(c, auto) \/ Logon(c, auto)
                  \/ LogonFails(c)

\* The code of a call of the database in session n.
Called(n) == IF n \in live THEN "ok" ELSE "error"

NotOpen(c) == /\ ~Connected(c)
              /\ conn' = [conn EXCEPT ![c].rc = "closed"]
              /\ UNCHANGED <<stmt, rows, database, told>>

Rollback(c) == /\ Connected(c)
               /\ LET n == conn[c].session
                  IN /\ conn' = [conn EXCEPT ![c].rc = Called(n)]
                     /\ pending' = [pending EXCEPT ![n] = {}]
               /\ UNCHANGED <<stmt, rows, sessions, live, committed, lastchange, asked, told>>

Commit(c) == /\ Connected(c)
             /\ LET n == conn[c].session
                IN /\ conn' = [conn EXCEPT ![c].rc = Called(n)]
                   /\ committed' = committed \union pending[n]
                   /\ pending' = [pending EXCEPT ![n] = {}]
                   /\ asked' = asked \union pending[n]
             /\ UNCHANGED <<stmt, rows, sessions, live, lastchange, told>>

\* Mutation, for the checks of the properties: without the rollback.
DisconnectKeeping(c) == /\ Connected(c)
                        /\ \A s \in Statements : HasConnection(s) => stmt[s].m_conn # c
                        /\ LET n == conn[c].session
                           IN /\ live' = live \ {n}
                              /\ committed' = committed \union pending[n]
                              /\ pending' = [pending EXCEPT ![n] = {}]
                              /\ conn' = [conn EXCEPT ![c].m_state = "disconnected",
                                                      ![c].session = NoSession, ![c].rc = Called(n)]
                        /\ UNCHANGED <<stmt, rows, sessions, lastchange, asked, told>>

(* rollback(), then OCILogoff() and the handles.                           *)
Disconnect(c) == /\ Connected(c)
                 /\ \A s \in Statements : HasConnection(s) => stmt[s].m_conn # c
                 /\ LET n == conn[c].session
                    IN /\ live' = live \ {n}
                       /\ pending' = [pending EXCEPT ![n] = {}]
                       /\ conn' = [conn EXCEPT ![c].m_state = "disconnected",
                                               ![c].session = NoSession, ![c].rc = Called(n)]
                 /\ UNCHANGED <<stmt, rows, sessions, committed, lastchange, asked, told>>

(* execute() of a connection that is not open: the statement it makes has  *)
(* no handle, and its error stays in the statement.                        *)
ExecuteClosed(c) == /\ ~Connected(c)
                    /\ UNCHANGED <<conn, stmt, rows, database, told>>

\* A change takes the next number.
Change(n) == /\ lastchange < LastChange
             /\ lastchange' = lastchange + 1
             /\ pending' = [pending EXCEPT ![n] = @ \union {lastchange'}]
             /\ UNCHANGED <<committed, asked>>

\* The commit takes all the changes of the session with it.
ChangeAndCommit(n) == /\ lastchange < LastChange
                      /\ lastchange' = lastchange + 1
                      /\ committed' = committed \union pending[n] \union {lastchange'}
                      /\ asked' = asked \union pending[n] \union {lastchange'}
                      /\ pending' = [pending EXCEPT ![n] = {}]

(* Without an error of the database, execute() does not touch m_cda.rc of  *)
(* the connection.                                                         *)
ExecuteOnce(c) == /\ Connected(c) /\ conn[c].session \in live
                  /\ IF conn[c].auto = "on" THEN ChangeAndCommit(conn[c].session) ELSE Change(conn[c].session)
                  /\ UNCHANGED <<conn, stmt, rows, sessions, live, told>>

ExecuteFails(c) == /\ Connected(c)
                   /\ conn' = [conn EXCEPT ![c].rc = "error"]
                   /\ UNCHANGED <<stmt, rows, database, told>>

ConnectionStep(c) == \/ ConnectToDB(c) \/ NotOpen(c) \/ Rollback(c) \/ Commit(c) \/ Disconnect(c)
                     \/ ExecuteClosed(c) \/ ExecuteOnce(c) \/ ExecuteFails(c)

-----------------------------------------------------------------------------
(* sqlstatement.                                                           *)

(* connect() of a statement that has a connection does nothing.            *)
StmtConnectAgain(s) == /\ HasConnection(s)
                       /\ Returns("ok", s)
                       /\ UNCHANGED <<conn, stmt, rows, database>>

StmtConnect(s, c) == /\ ~HasConnection(s) /\ Connected(c)
                     /\ stmt' = [stmt EXCEPT ![s] = [m_state |-> "connected", m_conn |-> c,
                                                     session |-> conn[c].session, auto |-> conn[c].auto,
                                                     sqltype |-> "none", rc |-> "ok"]]
                     /\ Returns("ok", s)
                     /\ UNCHANGED <<conn, rows, database>>

(* The connection is not open, or the database has no handle left.         *)
StmtConnectFails(s, c) == /\ ~HasConnection(s)
                           /\ stmt' = [stmt EXCEPT ![s].m_conn = c, ![s].rc = "closed"]
                           /\ Returns("closed", s)
                           /\ UNCHANGED <<conn, rows, database>>

StmtDisconnect(s) == /\ HasConnection(s)
                     /\ stmt' = [stmt EXCEPT ![s].m_state = "disconnected", ![s].session = NoSession,
                                             ![s].rc = "closed"]
                     /\ rows' = [rows EXCEPT ![s] = 0]
                     /\ Returns("ok", s)
                     /\ UNCHANGED <<conn, database>>

(* prepare(), execute() and next() of a statement without a connection.    *)
StmtNotOpen(s) == /\ ~HasConnection(s)
                  /\ stmt' = [stmt EXCEPT ![s].rc = "closed"]
                  /\ Returns("closed", s)
                  /\ UNCHANGED <<conn, rows, database>>

(* OCIStmtPrepare() accepts any text; the first word tells the type.       *)
Prepare(s) == /\ HasConnection(s)
              /\ \E type \in {"query", "change"} :
                   stmt' = [stmt EXCEPT ![s].sqltype = type, ![s].rc = "ok"]
              /\ rows' = [rows EXCEPT ![s] = 0]
              /\ ResultMade(s)
              /\ UNCHANGED <<conn, database>>

ExecuteQuery(s) == /\ HasConnection(s) /\ stmt[s].sqltype = "query" /\ stmt[s].session \in live
                   /\ stmt' = [stmt EXCEPT ![s].rc = "ok"]
                   /\ \E n \in 0..MaxRows : rows' = [rows EXCEPT ![s] = n]
                   /\ ResultMade(s)
                   /\ UNCHANGED <<conn, database>>

(* OCI_COMMIT_ON_SUCCESS for a change of a statement with autocommit.      *)
ExecuteChange(s) == /\ HasConnection(s) /\ stmt[s].sqltype = "change" /\ stmt[s].session \in live
                    /\ stmt' = [stmt EXCEPT ![s].rc = "ok"]
                    /\ IF stmt[s].auto = "on" THEN ChangeAndCommit(stmt[s].session)
                                              ELSE Change(stmt[s].session)
                    /\ Returns("ok", s)
                    /\ UNCHANGED <<conn, rows, sessions, live>>

(* err_report() leaves the code in the statement and in its connection.    *)
Fails(s, code) == /\ stmt' = [stmt EXCEPT ![s].rc = code]
                  /\ conn' = [conn EXCEPT ![stmt[s].m_conn].rc = code]
                  /\ Returns(code, s)
                  /\ UNCHANGED database

StmtExecuteFails(s) == /\ HasConnection(s)
                       /\ Fails(s, "error")
                       /\ rows' = [rows EXCEPT ![s] = 0]

(* next() asks the database only after a success.                          *)
Next1(s) == HasConnection(s) /\ stmt[s].rc = "ok" /\ stmt[s].sqltype = "query"

NextAgain(s) == /\ HasConnection(s) /\ stmt[s].rc # "ok"
                /\ Returns(stmt[s].rc, s)
                /\ UNCHANGED <<conn, stmt, rows, database>>

(* A statement is executed before its rows are asked for.                  *)
NextOfChange(s) == /\ HasConnection(s) /\ stmt[s].rc = "ok" /\ stmt[s].sqltype = "change"
                   /\ stmt' = [stmt EXCEPT ![s].rc = "closed"]
                   /\ Returns("closed", s)
                   /\ UNCHANGED <<conn, rows, database>>

NextRow(s) == /\ Next1(s) /\ rows[s] > 0 /\ stmt[s].session \in live
              /\ rows' = [rows EXCEPT ![s] = @ - 1]
              /\ Returns("ok", s)
              /\ UNCHANGED <<conn, stmt, database>>

\* Mutation, for the checks of the properties: the code of the null stays.
NextNullStays(s) == /\ Next1(s) /\ rows[s] > 0 /\ stmt[s].session \in live
                    /\ rows' = [rows EXCEPT ![s] = @ - 1]
                    /\ stmt' = [stmt EXCEPT ![s].rc = "null"]
                    /\ conn' = [conn EXCEPT ![stmt[s].m_conn].rc = "null"]
                    /\ Returns("ok", s)
                    /\ UNCHANGED database

(* A row with a null, or a value that was cut, is an error of OCI (1405,   *)
(* 1406) and a success of next(); the connection keeps the code.           *)
NextNull(s) == /\ Next1(s) /\ rows[s] > 0 /\ stmt[s].session \in live
               /\ rows' = [rows EXCEPT ![s] = @ - 1]
               /\ conn' = [conn EXCEPT ![stmt[s].m_conn].rc = "null"]
               /\ Returns("ok", s)
               /\ UNCHANGED <<stmt, database>>

(* No row is left, or the statement was not executed.                      *)
NextEnd(s) == /\ Next1(s) /\ rows[s] = 0 /\ stmt[s].session \in live
              /\ \E code \in {"end", "error"} : Fails(s, code)
              /\ UNCHANGED rows

(* Any other error of a fetch, of a session that lives or not: the rows    *)
(* that are left stay where they are.                                      *)
NextFails(s) == /\ Next1(s)
                /\ Fails(s, "error")
                /\ UNCHANGED rows

(* filetolob() and lobtofile() fail on the file or in the database, and    *)
(* leave their code where next() looks; one that succeeds leaves nothing.  *)
LobCopyFails(s) == /\ HasConnection(s)
                   /\ \/ /\ stmt' = [stmt EXCEPT ![s].rc = "closed"]
                         /\ Returns("closed", s)
                         /\ UNCHANGED <<conn, database>>
                      \/ Fails(s, "error")
                   /\ UNCHANGED rows

StatementStep(s) == \/ StmtConnectAgain(s)
                    \/ \E c \in Connections : StmtConnect(s, c) \/ StmtConnectFails(s, c)
                    \/ StmtDisconnect(s) \/ StmtNotOpen(s) \/ Prepare(s)
                    \/ ExecuteQuery(s) \/ ExecuteChange(s) \/ StmtExecuteFails(s)
                    \/ NextAgain(s) \/ NextOfChange(s)
                    \/ NextRow(s) \/ NextNull(s) \/ NextEnd(s) \/ NextFails(s)
                    \/ LobCopyFails(s)

-----------------------------------------------------------------------------

(* The session is lost; the connection does not notice.                    *)
LoseSession(n) == /\ n \in live
                  /\ live' = live \ {n}
                  /\ pending' = [pending EXCEPT ![n] = {}]
                  /\ UNCHANGED <<conn, stmt, rows, sessions, committed, lastchange, asked, told>>

OciNext == \/ \E c \in Connections : ConnectionStep(c)
           \/ \E s \in Statements : StatementStep(s)
           \/ \E n \in Sessions : LoseSession(n)

OciSpec == OciInit /\ [][OciNext]_ociVars

-----------------------------------------------------------------------------

ConnectionState == [m_state : {"connected", "disconnected"}, session : Sessions \union {NoSession},
                    auto : {"on", "off"}, rc : Codes]
StatementState  == [m_state : {"connected", "disconnected"}, m_conn : Connections \union {"none"},
                    session : Sessions \union {NoSession}, auto : {"on", "off"},
                    sqltype : {"none", "query", "change"}, rc : Codes]

\* An open connection has a session of its own.
ConnectionTypes == /\ conn \in [Connections -> ConnectionState]
                   /\ \A c \in Connections : Connected(c) <=> conn[c].session # NoSession
                   /\ \A c, d \in Connections : Connected(c) /\ conn[c].session = conn[d].session => c = d

StatementTypes == /\ stmt \in [Statements -> StatementState]
                  /\ \A s \in Statements : IF HasConnection(s) THEN stmt[s].m_conn \in Connections
                                                             ELSE rows[s] = 0
                  /\ rows \in [Statements -> 0..MaxRows]

DatabaseTypes == /\ sessions \in 0..LastSession /\ live \subseteq Sessions
                 /\ pending \in [Sessions -> SUBSET (1..LastChange)]
                 /\ committed \subseteq 1..LastChange /\ asked \subseteq 1..LastChange
                 /\ lastchange \in 0..LastChange

OciTypes == /\ ConnectionTypes /\ StatementTypes /\ DatabaseTypes
            /\ told \subseteq Statements

(* What is not committed when a connection is closed, by the program or by *)
(* a loss, is rolled back: a change is committed only when commit() was    *)
(* called after it, or with autocommit (_ooci.h:118, _ooci.cpp:251).       *)
CommittedWhenAsked == committed \subseteq asked

(* A statement commits exactly what its connection was opened to commit,   *)
(* for as long as it has the connection, however often connecttodb() is    *)
(* called (_ooci.cpp:192-194, 406).                                        *)
SameAutocommit == \A s \in Statements :
                    HasConnection(s) => LET c == stmt[s].m_conn
                                        IN /\ Connected(c)
                                           /\ stmt[s].session = conn[c].session
                                           /\ stmt[s].auto = conn[c].auto

(* Exactly what a program asked for is committed, on each of its handles.  *)
CommitsAsAsked == CommittedWhenAsked /\ SameAutocommit

(* While rows of a result are left, next() goes on asking the database for *)
(* them exactly until a call made on that statement has told the program   *)
(* of a failure: a null, a cut value, a loss the statement has not met, or *)
(* what happens to the connection and to its other statements does not end *)
(* the reading, and a failure, of a LOB copy too, is never read over       *)
(* (_ooci.cpp:697-735, 788-974).                                           *)
RowsReadable == \A s \in Statements :
                  rows[s] > 0 => /\ stmt[s].sqltype = "query"
                                 /\ stmt[s].rc = "ok" <=> s \notin told

(* What the handles believe of the session agrees with what the database   *)
(* has: in the changes that it keeps, and in the rows that it gives.       *)
HandlesAgree == CommitsAsAsked /\ RowsReadable
=============================================================================
