# TLA+ models of the reactor network library and the data-centre tools

The repository holds a multi-reactor TCP server library with a sample bank
service (`src/reactor`), a utility library (`src/public`) and the programs of a
meteorological data centre built on it (`src/tools/cpp`, `src/idc`). This
directory holds TLA+ modules of the parts whose correctness rests on the order
in which threads, processes and the kernel take their steps, TLC
configurations that check them on small instances, and proofs, checked by
TLAPS, that the main properties hold for every value of the constants.

Line numbers in the modules are those of the source files. Names of variables
and actions follow the source (`taskqueue_`, `stop_`, `clientsocks`, ...).

## 1. Inventory

### Reactor library (`src/reactor`)

| Part | State | Operations | Who runs it |
|---|---|---|---|
| Worker pool (`ThreadPool.cpp`) | `taskqueue_`, `mutex_`, `condition_`, `stop_` | the worker loop, `addtask()`, `stop()` | N workers, any caller |
| Event loop (`EventLoop.cpp`) | `taskqueue_`, `mutex_`, `wakeupfd_`, `timerfd_`, `stop_`, `conns_` | `run()`, `queueinloop()`, `handlewakeup()`, `handletimer()`, `newconnection()`, `stop()` | one thread per loop; other threads push, insert and stop |
| Epoll registration (`Epoll.cpp`, `Channel.cpp`) | the kernel's tree, `inepoll_`, `events_` | `updatechannel()`, `removechannel()`, `loop()`, `handleevent()` | the loop's thread; the main thread for a new connection |
| Connection (`Connection.cpp`) | `disconnect_`, buffers, `lastatime_` | constructor, `onmessage()`, `send()`, `sendinloop()`, `writecallback()`, `closecallback()`, `timeout()` | sub-loop's thread; workers call `send()` |
| TCP server (`TcpServer.cpp`, `Acceptor.cpp`, `Socket.cpp`) | `conns_` keyed by descriptor | `newconnection()`, `closeconnection()`, `removeconn()`, `stop()` | main loop's thread and the sub-loops' |
| Bank service (`BankServer.cpp`) | `usermap_` keyed by descriptor, login state | `HandleNewConnection()`, `HandleClose()`, `HandleMessage()`, `OnMessage()`, `HandleRemove()`, `Stop()` | main loop, sub-loops and workers |
| Framing (`Buffer.cpp`) | a byte buffer | `appendwithsep()`, `pickmessage()` | the loop's thread |

How they interact. The main loop's thread accepts a client, constructs its
`Connection` (whose constructor already puts the descriptor in the epoll tree of
a sub-loop), and then enters it in three maps: `TcpServer::conns_`,
`EventLoop::conns_` and `BankServer::usermap_`. From the constructor on, the
sub-loop's thread can report events of it. A request goes from the sub-loop to
the worker pool with a shared pointer to the Connection; the reply comes back
through the sub-loop's task queue with a raw pointer. A client that closes is
removed from two of the maps by the sub-loop, from the third by the idle sweep.
The kernel uses a descriptor again as soon as the last shared pointer is gone.

What must hold. A task is run once and in order, and a sleeping thread is woken
for it; `stop()` returns; a map entry always belongs to the client that owns the
descriptor; nothing is destroyed while it is used; what is closed is in the end
released; messages are cut where the client put their ends, and each gets one
reply, whatever the edges epoll reports.

### Utility library (`src/public`)

`cpactive` and `csemp` (heartbeats in shared memory under a System V
semaphore), `cofile` (write to `name.tmp`, then rename), `ctcpserver` /
`ctcpclient` with length-prefixed messages and timeouts, `cftpclient`, and
helpers for strings, times and directories. The correctness of the first is
about processes that start, die and reuse process numbers; that of `cofile` and
`cftpclient` about a reader that must never see an incomplete file. `clogfile` is
a log file that the threads of a program share under a spin lock and that renames
itself to a backup when it is too large: no line may be torn or lost. `squeue`
is a queue in a circular array, without pointers, so that it can lie in shared
memory. `connection` and `sqlstatement` (`db/oracle/_ooci.cpp`) wrap Oracle's
handles: statements copy the session and the options of their connection,
failures and losses of the session come at any call, and `filetolob()` and
`lobtofile()` copy in pieces.

### Data-centre tools (`src/tools/cpp`)

| Part | State | What it does | What is hard |
|---|---|---|---|
| `tcp上传.cpp`, `tcp下载.cpp`, `文件传输服务端.cpp` | directories, the stream, counters of acknowledgements | file transfer over TCP | crash between receipt, rename, acknowledgement and removal; late acknowledgements; two sessions on one `.tmp` |
| `守护进程.cpp` (checkproc), `调度程序.cpp` (procctl) | the shared memory of `cpactive` | ends processes whose heartbeat stopped; restarts what exits | slots reused between check, kill and clear |
| `正向代理.cpp` (inetd) | `clientsocks`, `clientbuffer`, epoll | forward proxy | events of a descriptor closed and reused in the same turn; bytes left in a buffer |
| `反向代理.cpp` (rinetd), `反向代理2.cpp` (rinetdin) | as above, and the command channel | reverse proxy | restarts of either side; which connection answers which command |
| `接口web.cpp` | `clientmap`, `m_rq`, `m_sq`, `m_exit` | web server: receive, worker and send threads | one unsynchronised map, replies to a client that has gone, exit of the threads |
| `数据抽取(正式).cpp`, `ftp上传.cpp`, `ftp下载.cpp`, `xml正式入库.cpp` | the greatest key extracted, lists of files sent and fetched, directories, a table | moves rows from one database to another | a crash between any two steps; keys that commit out of order |
| `增量同步.cpp`, `刷新同步.cpp`, `数据迁移.cpp`, `清理数据 .cpp` | tables | copy, refresh, move and delete rows in batches | commit points, batches that are not full, rowids used again |

### Weather stations (`src/idc`, `src/myidc`) and what the tools share

| Part | State | What it does | What is hard |
|---|---|---|---|
| `站点参数入库csv.cpp`, `站点参数入库xml.cpp`, `参数入库.cpp` (obtcodetodb) | `stcodelist`, a transaction | saves the list of stations | a list replaced while a pass runs; passes cut short; releases that go on after an error |
| `crtsurfdata.cpp`, `生成数据进文件.cpp` | `stlist`, `datalist`, a file for each minute and format | makes observations | a disk that is full in the middle of a file |
| `观测数据入库(封装).cpp` with `idcapp.cpp`, `观测数据入库.cpp` (obtmindtodb) | a listing, a transaction | loads observations | files removed before the commit; titles, cut lines, rows that are there already |
| the columns: `_tools.cpp`, `crtsql()`, `preparesql()`, `splitbuffer()` of the loader; `dminingoracle()` of the extraction | `tcols`, `vcolvalue`, two statements | takes values from fields to columns | two orders of the same columns, places counted by hand, a variable used for all columns |
| `_ftp.cpp` over `ftplib.c` | the control connection and its replies, the data connection, a temporary file | FTP client | which reply answers which command; an end of the data that may be a break |

A release of `src/myidc` differs from the later one in places that matter (what it does
with a file it has read, with a statement that failed, with the order of the columns), so
the two are two values of a variable of one module and are checked side by side.

The rest: sample clients, the other earlier copies in `src/myidc`, `src/tools/cpp/bak` and
`webserver备份.cpp`, examples.

`PROJECT.json` lists every component with its status, and every hazard at its
line with the properties that watch it.

## 2. Plan

In order of what matters to the system, and where each stands:

| Module | Checked | Proved |
|---|---|---|
| `TaskQueue`, `ThreadPool`, `EventLoop` | yes | types, safety, refinement |
| `TcpServer` | yes | types, safety |
| `FileTransfer`, `FileDelivery` | yes, with the refinement | safety, refinement |
| `Heartbeat` | yes | types, safety |
| `LogFile` | yes | types, safety |
| `BoundedQueue`, `Ring` | yes, with the refinement | types, refinement |
| `Oci`, `OciLob` | yes | types, safety |
| `Relay` | yes | types, safety |
| `ReverseProxy` | yes | types, safety |
| `Dataflow` | yes | types, safety |
| `WebServer` | yes | safety |
| `DataCentre` | yes | types, safety |
| `DbTables`, `DbSync`, `DbMigrate`, `Database` | yes | types, safety |
| `Stations`, `Surfdata` | yes | types, safety |
| `Ftp` | yes | types, safety |
| `Columns` | yes | – |

Further on: the order of the two `stop()` calls in `BankServer::Stop()`, several sub-loops,
and proofs about `Columns`.

Modules meant for proofs use no recursive operators; their constants carry named
assumptions. Abstract specifications: `TaskQueue` (both queues implement it),
`FileDelivery` and `BoundedQueue`; what the database tools promise is said by `Kept`,
`SkipsNothing` and `CatchesUp`.

## 3. Modules

**`TaskQueue`** – what both queues of the reactor promise: first in, first
started, once, at most `Limit` at a time.

**`ThreadPool`** – `ThreadPool.cpp`. One action per step between two points at
which another thread can run. `worker[w]` is the line a worker stands at:
`TestStop` (13), `Lock` (18, and the reacquisition in `wait()`), `CheckEmpty` /
`CheckStopped` / `Pop` (the predicate and what follows it, under `mutex_`),
`Sleep` (release and wait in one step, as `condition_variable` guarantees),
`SpuriousWakeup`, `RunTask`. `Push` and `NotifyOne` are the two halves of
`addtask()`; `SetStop`, `NotifyAll`, `JoinAll` are `stop()`. `stop_` is written
without the mutex, so `CheckEmpty` and `Sleep` are two steps. A worker that comes back to
`TestStop` after `SetStop` leaves there, before it looks at the queue: what is queued by
then is not run unless a worker was already past that line.

**`EventLoop`** – `EventLoop.cpp` seen from its queue: `run()` as `TestStop`,
`Poll`, the handlers of the events of a turn in the order epoll chose, and
`handlewakeup()` as `ReadWakeup`, `LockQueue`, `PopTask`, `RunTask`,
`UnlockQueue`. The queued functions run with `mutex_` held, as in the code.

**`TcpServer`** – `TcpServer.cpp`, `Connection.cpp`, `Channel.cpp`, `Epoll.cpp`,
`Acceptor.cpp`, `Socket.cpp`, `EventLoop::newconnection()` / `handletimer()`,
`BankServer.cpp`. A `Connection` is one object, constructed once; `fd[c]` is its
descriptor while a shared pointer to it exists (`Held` is the set of shared
pointers, `Release` the destructor). `main.at`, `io.at`, `worker[w].at` are the
lines the three kinds of thread stand at, so every map access is a step of its
own. What the C++ standard or the kernel leaves open is an outcome: `Fail` with
a reason (use of a destroyed Channel, `exit(-1)` after a failed `epoll_ctl()`,
an erased iterator, a null user, a data race on a map, callbacks not set yet).
The error path of a Connection takes the same steps as the close path
(`HandleError()` calls `HandleClose()`), so one set of actions stands for both.
`stranded` collects the descriptors of Connections that the sweep evicted between
`AddLoop` (`TcpServer.cpp:70`) and `AddUser` (72): `HandleRemove()` finds no user to
erase, the user is entered afterwards, and stays in `usermap_` for the next owner of the
number until that owner's own `AddUser`.

**`Dataflow`** – the bytes of one connection, from the client's `write()` to the
reply it reads: `Connection.cpp`, `Buffer.cpp`, `Channel.cpp`, the login state and
the replies of `BankServer.cpp`. The stream is cut into units, so that it can be
cut inside a header; epoll is edge-triggered, with `ready` the kernel's list and
`short` the memory of a `send()` that found too little space. `turn`, `revents_`,
`readto` and `picking` are where `handleevent()` and `onmessage()` stand; the loop
over `pickmessage()` hands over one message at a step, so that a worker may answer
the first while the next is still in the buffer. Ownership of the
Connection is left to `TcpServer`, locking to the two queue modules. A reply read
after `OnMessage()` returned may be `Junk`.

**`FileDelivery`** – what the file transfer promises: a file arrives at least
once, and goes from the source directory only after it arrived.

**`FileTransfer`** – `tcp上传.cpp`, `tcp下载.cpp`, `文件传输服务端.cpp`, `cofile`.
The upload and the download are one protocol with the roles of client and server
exchanged (`_tcpputfiles()`, `sendfile()`, `ackmessage()` on one side, the
receive loop and `recvfile()` on the other); `client` says which it is, and the
lines at which the two differ use it: who is restarted by procctl (`Connect`) and
whether the loop that drains replies counts them (`DrainReply`). A session is a
connection with its two processes: `sender[s]` and `receiver[s]` hold the line
they stand at and their local variables (`todo` the directory listing, `delayed`,
`file`, `next` the bytes done), `data[s]` and `replies[s]` the two directions.
A server process may outlive its client, so the receivers of several sessions
share `tmp` and `dst`. These are file contents by name; `receiver[s].inode` says
where the inode of an open file is now, since `rename()`, `remove()` and a
second `open()` work by name and writes go to the inode. A receiver whose
`open()` failed reads content as requests: the first four bytes are taken for a
length that never comes, so it swallows what is sent until its connection ends
or checkproc kills it.

**`Heartbeat`** – `cpactive` and `csemp` in `_public.cpp`, `守护进程.cpp`,
`调度程序.cpp`. `shm` is the shared memory, a slot holding a process number and
whether its time is late; `proc[a]` the process of program `a`, at a line of
`addpinfo()`; `check` checkproc at a line of its loop, with its copy of a record.
`addpinfo()` takes the semaphore between its search for an old record and the
choice of a slot; checkproc and the destructor do not take it, so they
interleave with everything. A process may die at each line, which releases the
semaphore (`SEM_UNDO`), except that one dying between `semget()` and `SETVAL`
leaves its value at 0 for good. The kernel uses numbers again, but not while
checkproc is looking at them.

**`LogFile`** – `clogfile` and its spin lock. `at[t]` is the line of `write()` or
`backup()` a thread stands at; the current file and the backups, one name for
each second, are sequences of pieces, two for a line (time and text). The tests
of `backup()` that need no lock are single steps. `EXIT` is the signal handler of
a program: it interrupts one of the threads, which goes no further, and writes to
the same log before it ends the process.

**`BoundedQueue`, `Ring`** – what a bounded queue promises, and `squeue` as it
keeps it: an array with head, tail and length. `Initialise` is `init()`, the
first call of a process on the memory.

**`Oci`** – `connection` and `sqlstatement`: what each handle believes (`m_state`,
the session, the option, the code of the last call) beside what the database
knows (`live` sessions, changes `pending` in each and `committed`). Every call
can fail, and a session can be lost, which the handles learn only from their
next call. `asked` collects the changes some `commit()`, or the option, has
covered, `told` the statements a call of which has failed since their result was made.
A fetch can fail for any reason on a session that lives (`NextFails`), and so can
`filetolob()` and `lobtofile()` (`LobCopyFails`); each leaves its code where `next()`
looks (706), so that the rows that are left are not read. A null (1405) and a cut value
(1406) are set back to 0 (726).

**`OciLob`** – `filetolob()` and `lobtofile()`: the loop over pieces, with
`done` and `remainder` the lengths it counts, the kind of piece it tells Oracle,
the code it gets back, and a failure at each call.

**`Relay`** – `正向代理.cpp`: accept, connect, and the relay loop that the two
halves of the reverse proxy share. An end of a channel is told apart from the
descriptor number it occupies (`own`), because the kernel hands the lowest free
number out again (`IsLowestFree`). `evs` are the events of one `epoll_wait()`
not yet handled, so that an event can outlive its descriptor. The quirks are
kept: 0 means both "no peer" and descriptor 0, which is a socket's once the log
file was closed through it (`zeroUsed`); `clientbuffer` is not emptied on close
(`tainted`); a blocking `recv()` on the client's side (`BlockInRecv`).

**`ReverseProxy`** – `反向代理.cpp` outside, `反向代理2.cpp` inside: the two
listening queues, the command channel, the links, the timers, the exits and
restarts. rinetd sends a command and takes the next connection in the queue of
`cmdlistensock` for its answer; rinetdin takes what one `recv()` returned for one
command unless it equals `<activetest>`. Descriptor arrays are in `Relay`.

**`WebServer`** – `接口web.cpp`: `recvfunc()`, `workfunc()`, `sendfunc()`, the
pipes that wake them, `EXIT()`. `worker[w]`, `receiver` and `sender` are lines;
`own` says whose a descriptor number is; `m_rq` and `m_sq` hold numbers, not
clients, as in the code. What `bizmain()` reads from the database is the reply to
the request. A client sends its next request when it has the reply to the last, as
HTTP clients that do not pipeline do; two requests that are read
together would be queued as one (163).

**`DataCentre`** – `数据抽取(正式).cpp`, `ftp上传.cpp`, `ftp下载.cpp`,
`xml正式入库.cpp` in a row, each a process that may die at each step and is
started again. The state that survives is what the code keeps: the greatest key
(`incfile`, a file that is truncated before it is written, or a table), the
directories (`outpath`, `server`, `xmlpath`, `xmlpathbak`, `xmlpatherr`), the
lists of files transferred (`upokfile`, `downokfile`) and the table. A setup says
where the key is kept, which FTP tools remove what they sent, and how many rows a file
has. Rows are fetched in any order, since the select has no `order by`. A fetch that
fails ends the loop like the end of the result (131): the last file is renamed with what
was read, and the greatest key read is saved (`FetchFails`); `unread` collects the rows
below it. `get()` takes a copy that a broken data connection cut for whole when the time
of the file has not changed (`GetCut`); `lacks` says which rows the copy of a file is
without, `missing` which rows any copy was.

**`DbTables`, `DbSync`, `DbMigrate`, `Database`** – the tools that `start.sh`
runs on `T_ZHOBTMIND1`. `DbTables` is the table as sessions see it: rows stand
at rowids, which are used again; keys are drawn when a row is inserted and
committed in another order; rows age; `deletetable.sql` deletes the old ones.
`DbSync` is `增量同步.cpp` and `刷新同步.cpp`, `DbMigrate` is `数据迁移.cpp` and
`清理数据 .cpp`; `Database` composes them with the writers, the script and the
faults in six deployments (`setup`), and with `rowid` or a column as the key.

**`Stations`** – the programs that save the list of stations, told apart by `program`.
`stcode` holds every list `stcode.ini` has held, so that `pass.number` and `codes` can
say which list a record is from; `pass` is the process between `loadstcode()` and
`commit()`, `newcodes` its transaction. The two programs that read lines read the whole
list before they connect; `站点参数入库xml.cpp` reads a record, inserts it, and reads the
next (82-104), so a list that is not replaced by `rename()` but written in place goes on
in another one under it (`WriteInPlace`, which sets `mixed`).

**`Surfdata`** – the generator and the loader of observations, `site` saying of which
directory. A file is the sequence of lines that `readline()` returns. `crt` and `obt` are
the two processes at a line; `newrows` is the loader's transaction and `mind` the table.
`finished` and `unsaved` record what became of each file. The process that deletes old
files (`CleanUp`, `删除过期文件.cpp`) acts at any time.

**`Columns`** – one row from the result set of the extraction to the table. `Columns`,
`InsertPlaces` and `UpdatePlaces` are the statements that `crtsql()` writes,
`InsertBinds` and `UpdateBinds` what `preparesql()` binds to their places, by two loops
of their own; `Bound` puts the two together. `Split`, `Clean`, `PickNumber` and
`GetXmlBuffer` take the values from a record. `work` is the table as the loader's
transaction sees it, `tab` as committed; `due` collects the records that the table
should show. `RejectXml`, `OpenXml`, `ExecsqlFails`, `LoadRecord`, `CommitXml`, `MoveXml`
are the loader's loop, with `execsql` and `uptbz`, for the return values 0, 1, 3 and 4 of
`_xmltodb()`; 2 and 5 end the process (`LoadFault`).

**`Ftp`** – `cftpclient` over `ftplib.c`. `ftpclient.step` is the command whose turn it is
or the place in a transfer, `waits` whether its reply is awaited; replies carry the
number of the command they answer, which the code does not see. The data connection is
opened by either side (`cmode`), ends or breaks, and `FtpClose()` reads the last reply or
not. The server keeps to the protocol. `original` is written again by other programs.

`MC*` modules give the constants; `*Proofs` modules hold the theorems. Four of
them are about components that stand beside each other: `EventLoopProofs` about
`EventLoop` and `Dataflow`, `ProxyProofs` about
`Relay` and `ReverseProxy`, `DataCentreProofs` about `DataCentre`,
`WebServer`, `Stations`, `Surfdata` and `Ftp`, `PublicProofs` about `Heartbeat`, `LogFile`,
`Ring`, `Oci` and `OciLob`; there the definitions have names of their own (`RPInit`,
`WSNext`, `LogSpec`), so that all can be extended. Five MC modules check such components
side by side too (`MCPublic`, `MCEventLoop`, `MCDataCentre`, `MCLoaders`, and `MCServices`
with the worker pool and the reverse proxy): they share no variable, so each behaviour
takes one of them, chosen at the start, and leaves the others as they begin.

## 4. What the runs check

| Run | Instance | Shows |
|---|---|---|
| `services` | in each behaviour one of: 2 workers, 2 callers, 3 tasks, one stop; 2 clients of 2 ports, 4 links, 1 fault | the pool implements `TaskQueue`; queued tasks run unless the pool is stopped (`QueuedTasksRun`); `stop()` returns when it met no worker between predicate and sleep (`StopReturnsWithoutRace`). A client of the reverse proxy gets the link to its own target (`OwnTarget`); the two programs come to have one command channel (`ReverseRecovers`) |
| `tasks_left_by_stop` | the pool of `services` | violation: a task that was queued when `stop()` was called is in the queue when it has returned (`StopEmptiesQueue`), although `ThreadPool.cpp:26` says that the remaining tasks are executed before a worker leaves |
| `eventloop` | in each behaviour one of: 2 callers, 3 tasks, timer, one stop; 3 requests (login, query, logout; one without content), headers of 2 units, 2 workers, window of 1 | no push leaves the loop asleep (`NoLostWakeup`); the queue implements `TaskQueue`; queued tasks run unless the loop stops (`QueuedTasksRun`). Messages are picked whole and each has one framed reply (`StreamsFramed`); a client that waits is answered in order, from the login state it made (`OneAtATimeInOrder`); every reply leaves (`Answered`) |
| `tcpserver` | 2 clients on 1 descriptor, 1 worker, 1 request each | the three maps agree, whoever is served or answered gets its own user or none, also while `newconnection()` still enters it, unless its number is `stranded`; removals are one's own, nothing is out of the sweep's reach (`MapsSafe`); a client that closes gives its descriptor back (`HangUpFrees`) |
| `dangling_reply` | the connection of `eventloop` | violation: a client receives what freed memory holds (`RepliesIntact`; `Connection.cpp:127`) |
| `filetransfer` | 2 files of 2 chunks, 3 sessions, 1 fault, upload and download | sender and receiver keep in step in a stream without marks (`InStep`); the transfer implements `FileDelivery` (`ImplementsDelivery`); every file is delivered (`FilesAreDelivered`) |
| `relay` | 2 clients, descriptors 0 to 4, 1 message per end, 1 fault | the arrays agree with the kernel (`PairsSymmetric`); nobody gets another channel's bytes (`NoForeignBytes`); channels do not linger (`ChannelsEnd`) |
| `public` | in each behaviour one of: 2 programs, 2 slots, 3 process numbers, 2 faults; 2 threads of 2 log lines, a file rotated beyond one line, 2 seconds, a signal; a queue of 3 places; a connection over 2 sessions, 2 statements, a change, results of 2 rows; LOBs of up to 7 bytes in pieces of 3 | a running process's slot is its own (`SlotsOwned`); checkproc ends only what is late (`OnlyLateAreKilled`); what the dead leave is reclaimed (`Reclaimed`); lines of the log stay whole and are lost in one way only (`LinesKept`); `write()` returns (`WritesReturn`); `squeue` is a bounded queue (`ImplementsQueue`); exactly what a program asked for is committed, on each handle, and a result is read on exactly until a call on its statement has told of a failure (`HandlesAgree`); copies of LOBs are exact (`CopyIsExact`) |
| `datacentre` | in each behaviour one of: 2 rows, files of 1 or of up to 2 rows, 3 files, 2 setups, 1 fault (a death, a lost session, a rejected file, a failed fetch, a cut copy); 2 clients, 2 descriptors, 2 workers, 1 request of at most 1 full piece each | the saved key skips no row but those a failed fetch left unread and late ones (`NothingSkipped`); what is backed up is loaded, but for rows its copy lacked (`BackedUpIsLoaded`); rows arrive (`Delivered`). A client of the web server gets its own replies in order (`OwnReplies`); complete requests are answered, and the threads return on `EXIT()` (`AnsweredThenEnds`) |
| `loaders` | in each behaviour one of: 2 files of at most 2 records, 2 tables, 3 parameter files, 2 releases, 1 fault; 12 commands, files of 2 blocks, 2 versions, active and passive, 1 fault; 2 stations, 3 lists, 3 programs, 2 faults; 2 stations, 2 minutes, 2 sites, 1 refused row, 1 fault | a value arrives in its own column of its own row, inserted or updated, and there are no other rows (`ValuesKeepTheirColumns`); each FTP reply is judged for its own command and a file that is accepted is whole (`TransfersInStep`); a pass saves its list of stations together (`OnePass`); a file of observations that is done with is in the table (`FinishedIsLoaded`) |
| `absent_column` | as `loaders` | violation: a column that is not in the file gets the value of the column before it (`AbsentIsNull`; `xml正式入库.cpp:563`) |
| `database` | 3 rows on 3 rowids, batches of 2, 1 fault, 6 deployments | a row is in the table or the history, never both, until it may go (`Kept`); no key is skipped (`SkipsNothing`); when the writers rest the tables agree for good (`CatchesUp`) |

Each property has a mutant of the code in `PROJECT.json` under which its run
finds it violated. The type invariants are theorems (section 6) for all
modules but `Columns`, and no run repeats them.

**Exceptions, by name.** Where the code lets a property fail other than in the
three violations, the model has the outcome and the property excepts exactly it.
Each is a history variable or a state, so that a reader sees how wide it is:

| Name | What it excepts |
|---|---|
| the premise of `StopReturnsWithoutRace` | `stop()` notified while a worker stood between predicate and sleep: it may never return (`ThreadPool.cpp:56`) |
| `stranded` | descriptors whose last Connection was evicted between `TcpServer.cpp:70` and 72: its user is entered when nobody is left to erase it, and the next client of the number is served with it until its own user is entered |
| `Junk` | the reply of a worker that returned first (`Connection.cpp:127`) |
| `Spoilt` (`overlapped`, `unwritten`) | a file whose `.tmp` two receivers had open, or a chunk of which could not be written: it is acknowledged all the same |
| `raced` | a slot was written while checkproc dealt with it |
| `rotations` | the log file was rotated twice within one second: both threads had found it too large before either took the lock (`_public.cpp:805`), and the second rename replaces the backup of the first, although `_public.h:516` allows rotation with several threads |
| `SelfDeadlock` | `EXIT()` writes to the log (`接口web.cpp:566`) on the thread that holds its spin lock, and the program stays |
| `failed` | a copy of a LOB during which a call failed: from the second piece on, `lobtofile()` does not tell a failure from the end (`_ooci.cpp:968`) and leaves the part of the file that it has |
| `zeroUsed`, `tainted`, `stale` | number 0 was a channel's; a number was handed over with bytes left in its buffer; or with an event of the turn pending |
| `surplus`, `Stuck` | a connection that answers no command; rinetd waiting in `accept()` for an answer nobody sends |
| `tainted`, `missed` of `WebServer` | a number was handed over with a reply on its way; a worker that was not asleep when told to exit |
| `told` of `Oci` | statements a call of which has failed: the rows that are left of the result are not read |
| `late`, `unread` of `DataCentre` | a row that committed after a greater key was extracted; rows below the greatest key read when a fetch failed (`数据抽取(正式).cpp:131`): the key is saved (187) and they are never extracted |
| `missing`, `spoiled` of `DataCentre` | rows that a copy was without because the transfer broke off (`_ftp.cpp:76-97`); files of a commit whose result was not tested |
| `mixed` of `Stations` | a pass of `参数入库.cpp` that went on after a statement failed; a pass of `站点参数入库xml.cpp` under which the list was written in place |
| `unsaved` of `Surfdata` | a file whose loader's session broke, or that was removed by a loader that then died before its commit (`观测数据入库(封装).cpp:140-141`) |
| `misled`, `Fits` of `Columns` | a table that got a file of another kind (`findxmltotable()` of `xml入库.cpp` leaves the parameters of the last file), or one without its key; tables for which the earlier release's bindings, which take the first column for the key, do not fit |
| `unseen`, `cut` of `Ftp` | a file rewritten within the second of its time; for `get()`, a file of which a block was lost, since it compares the times only, although `_ftp.h:81` says the check ensures that the file is complete |
| `excused`, `swept` | rows below a key that was copied, or of a failed commit; rows at a rowid selected for another row |

Outcomes in the models that no property forbids, because the code does not
exclude them: a null user in `OnMessage()`, `inepoll_` true for a Channel that
left epoll, an event before the callbacks are set, a sweep that meets an insert,
`accept4()` failed and untested (all in `TcpServer`), a semaphore left at 0, an `incfile`
left empty.

**Bounds.** Three tasks for two workers let both workers run while one task waits,
which is what a duplicated pop, a lost notification and a stop with work queued
need; two callers let two notifications race. One descriptor for two clients
forces its reuse, the situation every property of `TcpServer` is about; a third
client adds no new owner of the one descriptor, because the second is only
accepted once the first is destroyed. In `Dataflow` a header of two units can be
cut in the middle, a request of no content is a message that ends with its
header, and a window of one unit makes every reply be sent in pieces.

In `FileTransfer` two chunks let a file be torn, two files let an acknowledgement
be taken for that of another, and one message in flight to the receiver
(`Window`; replies are not bounded) leaves a dead session something unread. One
fault ends a session; a late acknowledgement can end another, because the file it
removes is then missing from the listing of the next round; so the third session
is the one that must deliver.

Three process numbers for two programs let a dead process's number come back in
another program; two faults are two dead processes that fill the slots, a crash or a
hang-up and a reuse, or two processes that hang. A second line of each of two threads finds the file too large, so that
both can be between the test and the lock. Seven bytes are two full pieces and
one in part, and six the case of a last piece that is full; three places let the
tail pass the end of the array. One change is enough for `HandlesAgree`, which
is about each change by itself; two sessions are one before and one after a
disconnect, two statements one that works and one that disconnects. In `Relay` descriptors 1 to 4 are two channels, so that both
numbers of a closed one are handed out in the turn that closed it, and 0 comes
into play only through the code's own close of it. Four links are a command
channel, two channels and a surplus connection. In `DataCentre` files of one row
make two files of two rows, and the third lets rows be written again after a
crash; a fetch that fails after the greater of two rows leaves the other unread, in a
file that was full or in one that was not. Batches of two among three rows give a full and a part batch; when two
tools share the local table, `MaxShared` limits the rows to two. In
`Columns` two files of two records give an update in the same file, in a later file, and
after a kill; one table has a key of one column in front and a field of a type the tools
pass over in the middle, the other a key of two columns and both columns that the
database fills in. Twelve commands are more than any call takes, so that a call follows
one that failed anywhere. Two lists after the first let a pass overtake the
replacement of its list, and two faults cut it short twice. The proofs of section 6 need
none of these bounds.

Deadlock checking is on for `eventloop` (a loop that was stopped stutters there) and off
where the system may stop: a stopped pool, a process that failed, sessions used up,
clients that stay away, bounds that are reached.

## 5. Fairness

Threads that can take a step are scheduled (`WF` of each thread's next step); a
task that was started returns; a thread inside `addtask()`, `queueinloop()` or
`stop()` comes to its notification or write. Nobody has to submit, connect,
send, close or stop. Faults never have to happen.

- `TcpServer`: time passes, so the timer expires and a Connection without
  requests becomes idle. `Lock` and `LockQueue` of the queues need no strong
  fairness: every other holder releases the mutex within a bounded number of its
  own steps, and a push holds it for one.
- `Dataflow`: what was sent arrives, the client reads, the loop and the workers
  run. Without the client's reading no reply can leave.
- `FileTransfer`: both processes of a session run, procctl starts a client that
  has ended (`Connect`), and checkproc kills a receiver that reports no heartbeat
  because it waits for a message that never comes.
- `Heartbeat`: checkproc runs its rounds, a program that is not hung takes its
  steps, and the record of one that is dead or hung becomes late (`Old`).
- `LogFile`: a thread that is not blocked and not interrupted runs, and so does
  the signal handler. The spin lock is not fair; each thread writes a bounded
  number of lines, so that nobody is overtaken for ever, and `WritesReturn` says
  nothing of programs that log without pause. `Ring`, `Oci`, `OciLob` and the modules of
  `loaders` have no liveness property.
- `Relay`: the loop does not rest while `epoll_wait()` has something to report
  (one `WF` for the loop, not one per descriptor: level-triggered events come
  back, and the loop visits all of a turn).
- `ReverseProxy`: each program takes its steps, and rinetd's timer strongly fair:
  it expires every twenty seconds however often the loop was elsewhere between.
- `WebServer`: the receive, the send and each worker thread run.
- `DataCentre`, `Database`: the scheduler starts each tool again (`WF` of each).
  `syncinc` has `SF`: its insert may wait for a row another session holds,
  again and again, and gets it in the order of asking when that session commits.

## 6. What is proved

For every value of the constants that satisfies the named assumptions of the
modules (finite sets of threads, a `None` that is none of them, bounds that are
naturals).

- `ThreadPoolProofs`: `TypeCorrect`, `TasksAreNotDuplicated`,
  `WakeupsAlwaysSuffice`, `StopBoundsWorkCorrect`, `ImplementsTaskQueueCorrect`.
  `MutexHeld` (only the holder of the mutex is at lines 21-31) and
  `BlocksOnEmpty` (a worker about to sleep saw an empty queue, and no push can
  have come since, because it holds the mutex) are the strengthenings.
  `WakeupsSuffice` is a counting argument: a push adds a task and a thread that
  owes the queue a look; `NotifyOne` passes that debt to a sleeper; a pop takes
  a task and a looker away. `StopBoundsWork`, no property of a run, says how much of the
  promise of line 26 is kept: after `stop()` at most one more task per worker leaves the
  queue. Its proof charges each such task to a worker that can no longer reach the queue;
  the charging function is the strengthening.
- `EventLoopProofs`: `TypeCorrect`, `WakeupsAreNotLost`,
  `StopAlwaysWakesLoop`, `TasksAreNotDuplicated`, `ImplementsTaskQueueCorrect`.
- `EventLoopProofs`, one connection: `FlowInvariantCorrect`,
  `StreamsFramedCorrect`, `OneAtATimeInOrderCorrect`. Every `pickmessage()` starts
  where a request ends (`PickedIsNext`), the stream of replies grows only by
  `handlewakeup()`, a whole reply at a time (`Framed`), a request that was picked is in
  exactly one place: the pool, a worker, the loop's queue, the output, or
  answered (`Counted`), and for a client that waits it is the only one
  (`OnlyNext`), so that login states are read in order (`Ordered`). Where message
  n begins is a sum over those before it; what the proof needs of the sum is an
  induction over message numbers, done by taking the least counterexample
  in the well-founded order of the naturals (`AllNumbers`).
- `TcpServerProofs`: `TypeCorrect`, `MapsAgreeCorrect`, `UserBelongsCorrect`,
  `NoLeakCorrect`, `RemovalsAreOwnCorrect`, and from them `MapsSafeCorrect`. The
  inductive invariant `IInv` is types; ownership (a Connection has a descriptor
  exactly while something holds it); `FdsDiffer` (two live Connections have
  different descriptors); `MapsAgree`; and `Control`, which says what each thread
  holds at each line. `MapsAgree` alone is not inductive: that an entry outlives
  its Connection is excluded only because the entry is itself a shared pointer
  (`Ownership`). `UserBelongs` makes no exception for the Connection that
  `newconnection()` is entering: it needs that the users in the map are those of living
  Connections or at stranded numbers (`UsersKept`), and that so is the user a thread has
  looked up (`UsersServed`, `UsersAnswered`). `NoLeak` is inductive relative to `IInv`
  through `InLoop`, which adds the entry a `newconnection()` in progress owes.
- `PublicProofs`, supervision: `TypeCorrect`, `SlotsOwnedCorrect`,
  `OnlyLateAreKilledCorrect`. A record and the process it is about point to each
  other (`Owned`, `Single`, `Distinct`), and from each of its reads on checkproc
  works on the record of a process that is dead or hung (`Checked`); all of that
  while not `raced`. `Renewed`, that the record of a process that is not hung is
  not late, holds by itself and carries `Checked`.
- `PublicProofs`, log file: `LogTypesCorrect`, `WholeLinesCorrect`,
  `LossIsSameSecondCorrect`, and from both `LinesKeptCorrect`. Who is between
  `lock()` and `unlock()` holds the lock, a thread that was interrupted there
  included (`LockHeld`); the file is then at rest, or lacks exactly the text its
  holder is about to write (`Unfinished`, `Finished`). A line that is written is
  in a file as long as no second was used twice (`AllFound`), because a rename
  moves a whole file to a name that does not exist.
- `PublicProofs`, queue: `RingTypesCorrect`, `ImplementsQueueCorrect`. The tail is
  the length past the head, in the circle (`RingInv`); each call then maps to a
  call of `BoundedQueue` (`RingStep`), by lemmas about places counted across the
  end of the array.
- `PublicProofs`, Oracle wrapper: `OciTypesCorrect`, `CommittedWhenAskedCorrect`,
  `SameAutocommitCorrect`, `CommitsAsAskedCorrect`, `RowsReadableCorrect`, and from them
  `HandlesAgreeCorrect`. Sessions are
  numbered as they are opened, so that an open connection's is its own
  (`Numbered`); a statement's copies of the session and the option agree with
  its connection as long as it has one. While a statement has rows, its code is 0 exactly
  if no call on it has failed since the result was made, whatever its connection and the
  other statements go through.
- `PublicProofs`, LOBs: `LobTypesCorrect`, `LobHoldsFileCorrect`,
  `FileHoldsLobCorrect`, `CopyIsExactCorrect`. At each line of the loop, what is at the target,
  the piece in the buffer and what is left are consecutive parts of the source
  (`ToLob`, `ToFile`), and the two directions share no line (`Ways`).
- `ProxyProofs`, forward proxy: `TypeCorrect` (with it, that no array is indexed outside its
  bounds), `PairsSymmetricCorrect`, `NoForeignBytesCorrect`. The pairing is
  inductive once 0 is known to be no channel's (`ZeroApart`) and an event of the
  listening socket to stand for a client that waits (`Called`). For the bytes,
  each end's messages are numbered, and what its peer got, what
  `clientbuffer` holds and what is still in the socket are consecutive parts of
  one run of numbers (`Flow`); a close must reach both ends, or the bytes of a
  dead channel would meet a new one.
- `ProxyProofs`, reverse proxy: `RPTypeCorrect`, `OwnTargetCorrect`. A command
  carries no name of the client it is for, and neither does the connection that
  answers it: that the right client gets the link follows only from there being
  at most one command or answer on its way, and that for the client rinetd stands
  in `accept()` for (`OneAnswer`, in its cases `Knocking` and `Serving`). The
  rest (`Shape`) is where each end of a link can be: queued, with one client, the
  command channel, or nowhere.
- `FileTransferProofs`: `TypeCorrect`, `InStepCorrect`,
  `ImplementsDeliveryCorrect`. The stream has no marks that say where a file
  begins, so `InStep` needs that what the sender has sent, what is in the stream
  and what the receiver has are consecutive (`Aligned`), and which places of the
  two programs go together (`Control`). The refinement needs `Whole`: a file that
  is not spoilt has at most one receiver with it open, whose `.tmp` holds exactly
  the chunks before the next; a receiver about to rename has them all; an "ok" on
  its way is for a file that is complete. It is here that `None` must be no set of
  chunks (`TransferAssumption`).
- `DatabaseProofs`: `TypeCorrect`, `KeptCorrect`, `SkipsNothingCorrect`. No
  two rows are at a rowid or ever will be (`Apart`); what migration has inserted
  in the history is what it is about to delete, and it deletes nothing else that
  could come back (`Moving`); a row of the history is not in the table, and one
  that is not old is in one of them (`History`). For `SkipsNothing`, every row
  below one that is copied, or is being copied, is so too or has its excuse
  (`Copying`), and refreshing in batches deletes nothing that it does not insert
  again (`Refreshing`); that a set of keys has a greatest one comes from the
  well-founded order of the naturals.
- `DataCentreProofs`, web server: `OwnRepliesCorrect`. Both queues know a client
  by its descriptor alone. For a number whose owner began with nothing on its
  way, the request is in one place (`m_rq`, a worker, `m_sq`, `sendbuffer`:
  `Single`), is its owner's latest (`Carries`), and no second one is in the
  socket while it is on its way (`Paced`); the replies received are then counted
  by the requests (`Counted`). `Paced` rests on clients that wait for a reply
  before they ask again, as section 3 says.
- `DataCentreProofs`, extraction and loading: `TypeCorrect` (with it, that no file is lost),
  `NothingSkippedCorrect`, `BackedUpIsLoadedCorrect`. The invariant says what
  each tool still owes: the extraction the rows between the saved key and the
  greatest it has read (`ExtractOK`), the FTP tools the files sent and not yet
  recorded or removed (`ToolsOK`), the loader the rows of its file, less those its copy
  lacks (`LoadOK`). After a failed fetch `extract.left` holds what will be passed over, and
  the step that saves the key moves it to `unread`.
- `DataCentreProofs`, stations: `OnePassCorrect`. A pass works on one of the lists that
  `stcode.ini` has held, nothing in the table is from a newer one, and its transaction has
  exactly the stations it has gone through, unless one was passed over or the list went on
  in another (`mixed`; `PassOK`); the lists that were replaced do not change. So what it commits is one whole list.
- `DataCentreProofs`, observations: `FinishedIsLoadedCorrect`. What the loader has read of
  the file it has open is in its transaction, but for refused rows and the title
  (`ReadUpTo`), while its session holds; a file that the generator will not write any more
  (`Settled`) does not change, so what was loaded once stays the whole of it, whether the
  file was removed or is listed again. A title can only be the first line of a csv file
  (`LoaderOK`), which is why throwing the first line away loses no row.
- `DataCentreProofs`, FTP: `FtpTypesCorrect`, `TransfersInStepCorrect`. For each step of
  the client the invariant says what is on its way on the control connection (`ControlOK`):
  one reply to its command, two when a transfer has ended before its first reply is read,
  and its last reply (`Owed`) from there to `FtpClose()`. So none is left when the next
  command is sent, also after a transfer that was given up. Of the files it says that,
  while the file has the time that the client has of it (`Current`), all that was sent is
  of one version, in the data connection or the temporary file (`TransferOK`), and that
  times only grow (`TimeOK`): the same time told by a second MDTM means that nothing was
  rewritten in between (`GotOK`), and the length of the renamed file that nothing of it is
  missing (`PutOK`).

The refinement theorems show that the initial states map to initial states of
`TaskQueue`, `FileDelivery` or `BoundedQueue` and each step to a step of it or a stutter.

Model-checked only:

- every liveness property (TLAPS 1.4 has neither `ENABLED` nor fairness);
- `ValuesKeepTheirColumns`: the places of a statement come from the standard module's
  `SelectSeq`, a recursive definition, about which the provers know nothing
  without an induction over data;
- the three violations.

## 7. What is not modelled

In the modelled parts:

- Reactor: `TcpServer::stop()` and `BankServer::Stop()` (`BankServer.cpp:31`
  stops the workers before the loops that still queue requests for them; each
  `stop()` by itself is in the queue modules), a server without workers (in which
  `OnMessage()` runs in the sub-loop's thread), more than one sub-loop (a
  descriptor always selects the same one, so sub-loops share no connection), the
  separators of `Buffer` that no program uses.
- `FileTransfer`: clocks (so neither the length of the timeouts nor the ten
  seconds an upload waits too long because `tcp上传.cpp:270-277` does not count
  its acknowledgements is compared with `timetvl+10`), a source file that is
  changed or cannot be read while it is sent, files of no bytes, a file produced
  twice under one name, a directory with more than the 10000 files `opendir()`
  lists, the login, and the backup directory.
- `Heartbeat`: a process number used again within the seconds checkproc spends
  on one record; several checkproc.
- `LogFile`: one signal (a SIGTERM during the `EXIT()` of a SIGINT would nest),
  `operator<<`, logs of several processes, which `_public.h:478-480` excludes from
  rotation.
- `Ring`: memory that is not zero before the first use (`init()` reads
  `m_inited` before anything has set it; static objects and shared memory are
  zero). No program of the repository uses `squeue` yet.
- `Oci`: the texts of errors, and the binding of variables, which is in `Columns` by
  places alone; statements are
  disconnected before their connection is (the code copies handles, 397, and
  checks nothing; the programs use no statement of a connection they closed). Failures that leave
  no code are not told apart: `execute()` of a connection that is not open returns
  -1 and `m_cda` of the connection stays as it was (275), although `_ooci.h:125`
  says the code is there. Which value was cut is not modelled: `_ooci.h:245` gives a
  variable that is too small as a reason for `next()` to fail, but the code sets 1406 back
  to 0 (726), and the row counts as read.
- `Relay`, `ReverseProxy`: full socket buffers on the client's blocking side,
  parsing of the route file, the buffer of `dstip`, the inside's limit of
  descriptors.
- `WebServer`: the SQL of `bizmain()` and its HTTP text. (A worker whose session
  broke answers each request with "wrong user name or password" and does not
  connect again; no step of another thread has a part in that.)
- `DataCentre`: a file name used twice within one second, and `压缩文件.cpp` on the same
  directories.
- `Columns`: lengths of values (a value that is too long is cut to the column by
  `getxmlbuffer()`), several processes on one table, and an xml file that is cut, as `get()`
  may leave one (`Ftp`): `readline()` returns only records that end with `<endl/>`, so
  such a file is one with fewer records, and which rows it costs is in `DataCentre`.
- `Ftp`: a server that does not keep to the protocol, replies of several lines other
  than as one, two clients that write the same temporary name (`DataCentre` runs one of
  each tool).
- `Stations`, `Surfdata`: the format of lines; two processes of one program at once; a list
  that is written in place while one of the programs that read lines reads it, which takes
  a moment and is done before the first statement.
- `Database`: the `where` filters, the window of `starttime`, the lists of
  columns.

Components without a module are listed in `PROJECT.json` with the reason. They
are the string, time and directory helpers (called by one thread, nothing kept
that a tool depends on), sample clients and examples, and those earlier copies of the
tools that do the same as the later ones. The map covers about three in ten of all
lines. The rest is mostly what this list names, and in each tool
the help text, the parsing of the xml parameters and the logging, in which no
order of steps can go wrong.
