----------------------------- MODULE DataCentre -----------------------------
(***************************************************************************)
(* The way of a row of data through the exchange tools of tools/cpp: the   *)
(* extraction (数据抽取(正式).cpp) writes the new rows of a table to xml   *)
(* files, the upload (ftp上传.cpp) puts them on an ftp server, the         *)
(* download (ftp下载.cpp) gets them, and the loader (xml正式入库.cpp)      *)
(* inserts their rows in the table of the data centre.  Each is a process  *)
(* that the scheduler starts again when it has ended; what it has done is  *)
(* remembered only by files and tables: the greatest key extracted, the    *)
(* list of files sent, the list of files fetched, the backup directory.    *)
(*                                                                         *)
(* Files are numbered in the order of their names.  cofile writes to a     *)
(* temporary name and renames (closeandrename()), get() and put() do so    *)
(* too: what is left under a temporary name after a crash is never read    *)
(* and is not here.  The extraction renames what it has when a fetch fails *)
(* and get() what it has when a transfer breaks off (module Ftp), so that  *)
(* a file may lack rows; put() compares the sizes.                         *)
(***************************************************************************)
EXTENDS Naturals, FiniteSets

CONSTANTS Rows,       \* the keys of the source table's rows
          Bad,        \* those whose data the destination refuses
          Setups,     \* where the greatest key is kept, which ftp tools remove
                      \* files, and how many rows a file has
          MaxFiles,   \* bound: the files ever extracted
          MaxFaults   \* bound: crashes, losses of the database, files rejected,
                      \* fetches that fail, transfers that break off

ASSUME CentreAssumption == /\ IsFiniteSet(Rows) /\ Rows \subseteq Nat \ {0}
                           /\ Bad \subseteq Rows
                           /\ Setups \subseteq [incindb : BOOLEAN, remove : SUBSET {"upload", "download"},
                                               maxcount : Nat \ {0}]
                           /\ MaxFiles \in Nat /\ MaxFaults \in Nat

Files == 1..MaxFiles

VARIABLES
  incindb,     \* whether the greatest key is kept in a table, or in a file
  remove,      \* the ftp tools that remove a file they have sent (ptype 2, 3)
  maxcount,    \* starg.maxcount: the rows of a file
  faults,
  \* The source, and the process that extracts.
  source,      \* the rows committed
  late,        \* those committed after a greater key was extracted
  unread,      \* those that a failed fetch left unread below a key that was saved
  incfile,     \* the greatest key saved: {} while the file is empty
  extract,     \* where the process is, and the rows it has yet to write; when it
               \* saves, those it did not read below the greatest key that it did
  imaxincvalue,
  \* Directories: the files in them.
  rows,        \* the rows of each file
  outpath, server, xmlpath, xmlpathbak, xmlpatherr,
  uploads,     \* how often each file was put: its time on the server
  \* The ftp tools.
  upload, download,       \* the files they have to send, and the one just sent
  upokfile, downokfile,   \* starg.okfilename: the files sent, with their time
  lacks,       \* the rows that the last copy of each file is without
  missing,     \* the rows that any copy was without
  \* The loader.
  load,        \* where it is, its list of files, the one it works on
  lost,        \* its database session is broken
  inserted,    \* the rows of its transaction
  table,       \* the rows of the destination
  spoiled      \* the files whose commit failed

config == <<incindb, remove, maxcount>>
mine   == <<source, late, unread, incfile, extract, imaxincvalue>>
copies == <<lacks, missing>>
ftp    == <<upload, download, upokfile, downokfile, uploads, copies>>
loader == <<load, lost, inserted, table, spoiled>>
dirs   == <<rows, outpath, server, xmlpath, xmlpathbak, xmlpatherr>>
vars   == <<config, faults, mine, dirs, ftp, loader>>

Down == [at |-> "down", left |-> {}]
Ended == [left |-> {}, sent |-> {}]
Stopped == [at |-> "down", files |-> {}, file |-> 0]
Made == {f \in Files : rows[f] # {}}

Init == /\ \E setup \in Setups : /\ incindb = setup.incindb /\ remove = setup.remove
                                 /\ maxcount = setup.maxcount
        /\ faults = 0 /\ source = {} /\ late = {} /\ unread = {} /\ incfile = {0}
        /\ extract = Down /\ imaxincvalue = 0
        /\ rows = [f \in Files |-> {}] /\ uploads = [f \in Files |-> 0]
        /\ lacks = [f \in Files |-> {}] /\ missing = {}
        /\ outpath = {} /\ server = {} /\ xmlpath = {} /\ xmlpathbak = {} /\ xmlpatherr = {}
        /\ upload = Ended /\ download = Ended /\ upokfile = {} /\ downokfile = {}
        /\ load = Stopped
        /\ lost = FALSE /\ inserted = {} /\ table = {} /\ spoiled = {}

-----------------------------------------------------------------------------
(* The source table and the extraction.                                    *)

IsGreatest(m, S) == m \in S /\ \A k \in S : k <= m

\* A greater key was extracted, by a process that runs or by one that saved it.
Passed(r) == \E k \in {imaxincvalue} \cup extract.left \cup incfile : r < k

\* Another program commits a row, not always in the order of the keys.
CommitRow(r) ==
  /\ r \notin source
  /\ source' = source \cup {r}
  /\ late' = IF Passed(r) THEN late \cup {r} ELSE late
  /\ UNCHANGED <<config, faults, unread, incfile, extract, imaxincvalue, dirs, ftp, loader>>

\* The process starts: readincfield() and the query.  One that finds the file
\* empty dies in stol(); one whose query finds nothing saves nothing.
QueryAndSave ==
  /\ extract.at = "down"
  /\ \E saved \in incfile, m \in source :
       LET found == {r \in source : r > saved} IN
       /\ IsGreatest(m, found)
       /\ extract' = [at |-> "write", left |-> found]
       /\ imaxincvalue' = saved
       /\ incfile' = {m}
  /\ UNCHANGED <<config, faults, source, late, unread, dirs, ftp, loader>>

Query ==
  /\ extract.at = "down"
  /\ \E saved \in incfile :
       LET found == {r \in source : r > saved} IN
       /\ found # {}
       /\ extract' = [at |-> "write", left |-> found]
       /\ imaxincvalue' = saved
  /\ UNCHANGED <<config, faults, source, late, unread, incfile, dirs, ftp, loader>>

NewFile(part) == \E f \in Files : /\ f = Cardinality(Made) + 1
                                  /\ rows' = [rows EXCEPT ![f] = part]
                                  /\ outpath' = outpath \cup {f}

\* The next rows of the result, in whatever order, fill a file; it is renamed.
WriteFile ==
  /\ extract.at = "write"
  /\ \E m \in Rows \cup {0}, part \in SUBSET extract.left :
       /\ part = extract.left \/ Cardinality(part) = maxcount
       /\ Cardinality(part) <= maxcount
       /\ NewFile(part)
       /\ IsGreatest(m, {imaxincvalue} \cup part) /\ imaxincvalue' = m
       /\ extract' = [at |-> IF part = extract.left THEN "save" ELSE "write",
                      left |-> extract.left \ part]
  /\ UNCHANGED <<config, faults, source, late, unread, incfile, server, xmlpath, xmlpathbak, xmlpatherr,
                 ftp, loader>>

\* writeincfield(): a transaction, or a file that is truncated and then written.
SaveInc ==
  /\ \/ /\ extract.at \in IF incindb THEN {"save"} ELSE {"truncated"}
        /\ incfile' = {imaxincvalue} /\ extract' = Down /\ imaxincvalue' = 0
        /\ unread' = unread \cup extract.left
     \/ /\ extract.at = "save" /\ ~incindb
        /\ incfile' = {} /\ extract' = [extract EXCEPT !.at = "truncated"]
        /\ UNCHANGED <<imaxincvalue, unread>>
  /\ UNCHANGED <<config, faults, source, late, dirs, ftp, loader>>

-----------------------------------------------------------------------------
(* The ftp tools.  One that fails to send a file ends, as in a crash.      *)

\* loadlocalfile(), loadokfile(), compmap(), writetookfile().
UploadList ==
  /\ upload.left = {}
  /\ LET ok == IF "upload" \in remove THEN {} ELSE upokfile \cap outpath IN
       /\ outpath \ ok # {}
       /\ upload' = [left |-> outpath \ ok, sent |-> {}]
       /\ upokfile' = ok
  /\ UNCHANGED <<config, faults, mine, dirs, download, downokfile, uploads, copies, loader>>

Put ==
  /\ upload.sent = {}
  /\ \E f \in upload.left :
       /\ server' = server \cup {f}
       /\ uploads' = [uploads EXCEPT ![f] = @ + 1]
       /\ upload' = [upload EXCEPT !.sent = {f}]
  /\ UNCHANGED <<config, faults, mine, rows, outpath, xmlpath, xmlpathbak, xmlpatherr,
                 download, upokfile, downokfile, copies, loader>>

\* The file is done with; a tool that has none left ends.
Rest(tool) == [left |-> tool.left \ tool.sent, sent |-> {}]

PutDone ==
  /\ upload.sent # {}
  /\ upload' = Rest(upload)
  /\ IF "upload" \in remove
     THEN outpath' = outpath \ upload.sent /\ UNCHANGED upokfile
     ELSE upokfile' = upokfile \cup upload.sent /\ UNCHANGED outpath
  /\ UNCHANGED <<config, faults, mine, rows, server, xmlpath, xmlpathbak, xmlpatherr,
                 download, downokfile, uploads, copies, loader>>

\* nlist() and loadlistfile(), with the times; then as in the upload.
DownloadListRecords ==
  /\ download.left = {}
  /\ LET listed == {<<f, uploads[f]>> : f \in server}
         ok == IF "download" \in remove THEN {} ELSE downokfile \cap listed IN
       /\ listed \ ok # {}
       /\ download' = [left |-> listed \ ok, sent |-> {}]
       /\ downokfile' = IF "download" \in remove THEN {} ELSE listed
  /\ UNCHANGED <<config, faults, mine, dirs, upload, upokfile, uploads, copies, loader>>

DownloadList ==
  /\ download.left = {}
  /\ LET listed == {<<f, uploads[f]>> : f \in server}
         ok == IF "download" \in remove THEN {} ELSE downokfile \cap listed IN
       /\ listed \ ok # {}
       /\ download' = [left |-> listed \ ok, sent |-> {}]
       /\ downokfile' = ok
  /\ UNCHANGED <<config, faults, mine, dirs, upload, upokfile, uploads, copies, loader>>

Deliver(file, gone) ==
  /\ download.sent = {}
  /\ xmlpath' = xmlpath \cup {file[1]}
  /\ lacks' = [lacks EXCEPT ![file[1]] = gone]
  /\ download' = [download EXCEPT !.sent = {file}]

Get ==
  /\ \E file \in download.left : Deliver(file, {})
  /\ UNCHANGED <<config, faults, mine, rows, outpath, server, xmlpathbak, xmlpatherr,
                 upload, upokfile, downokfile, uploads, missing, loader>>

\* A second record of a file takes the place of the first (loadokfile()).
GetDone ==
  /\ download.sent # {}
  /\ download' = Rest(download)
  /\ LET done == {file[1] : file \in download.sent} IN
     IF "download" \in remove
     THEN server' = server \ done /\ UNCHANGED downokfile
     ELSE /\ downokfile' = {file \in downokfile : file[1] \notin done} \cup download.sent
          /\ UNCHANGED server
  /\ UNCHANGED <<config, faults, mine, rows, outpath, xmlpath, xmlpathbak, xmlpatherr,
                 upload, upokfile, uploads, copies, loader>>

-----------------------------------------------------------------------------
(* The loader.                                                             *)

\* opendir(), sorted by name; a new process has a new session, one that runs
\* keeps what isopen() takes for an open one.
ListXml ==
  /\ load.at \in {"down", "list"} /\ xmlpath # {}
  /\ load' = [at |-> "file", files |-> xmlpath, file |-> 0]
  /\ lost' = (lost /\ load.at = "list")
  /\ UNCHANGED <<config, faults, mine, dirs, ftp, inserted, table, spoiled>>

IsNext(f) == f \in load.files /\ \A g \in load.files : f <= g
After(f) == LET files == load.files \ {f} IN
            [at |-> IF files = {} THEN "list" ELSE "file", files |-> files, file |-> 0]

\* The rows that the first file has, up to the commit.  A lost session is noticed by
\* the data dictionary (310) or an insert (368): the process ends.
LoadRows ==
  /\ load.at = "file"
  /\ \/ lost /\ load' = Stopped /\ UNCHANGED inserted
     \/ /\ ~lost
        /\ \E f \in load.files :
             /\ IsNext(f)
             /\ load' = [load EXCEPT !.at = "commit", !.file = f]
             /\ inserted' = rows[f] \ (Bad \cup lacks[f])
  /\ UNCHANGED <<config, faults, mine, dirs, ftp, lost, table, spoiled>>

\* Its result is not looked at.
CommitNothing ==
  /\ load.at = "commit"
  /\ load' = [load EXCEPT !.at = "move"]
  /\ UNCHANGED <<config, faults, mine, dirs, ftp, lost, inserted, table, spoiled>>

Commit ==
  /\ load.at = "commit"
  /\ load' = [load EXCEPT !.at = "move"]
  /\ inserted' = {}
  /\ IF lost THEN spoiled' = spoiled \cup {load.file} /\ UNCHANGED table
             ELSE table' = table \cup inserted /\ UNCHANGED spoiled
  /\ UNCHANGED <<config, faults, mine, dirs, ftp, lost>>

\* xmltobakerr() to the backup directory.
MoveToBak ==
  /\ load.at = "move"
  /\ load' = After(load.file)
  /\ xmlpath' = xmlpath \ {load.file} /\ xmlpathbak' = xmlpathbak \cup {load.file}
  /\ UNCHANGED <<config, faults, mine, rows, outpath, server, xmlpatherr, ftp,
                 lost, inserted, table, spoiled>>

-----------------------------------------------------------------------------
(* Faults.                                                                 *)

Crash ==
  \/ /\ extract.at # "down" /\ extract' = Down /\ imaxincvalue' = 0
     /\ UNCHANGED <<source, late, unread, incfile, dirs, ftp, loader>>
  \/ /\ upload.left # {} /\ upload' = Ended
     /\ UNCHANGED <<mine, dirs, download, upokfile, downokfile, uploads, copies, loader>>
  \/ /\ download.left # {} /\ download' = Ended
     /\ UNCHANGED <<mine, dirs, upload, upokfile, downokfile, uploads, copies, loader>>
  \/ /\ load.at # "down" /\ load' = Stopped /\ inserted' = {} /\ lost' = FALSE
     /\ UNCHANGED <<mine, dirs, ftp, table, spoiled>>

\* The session breaks; the server rolls the transaction back.
LoseDatabase == /\ load.at # "down" /\ ~lost
                /\ lost' = TRUE /\ inserted' = {}
                /\ UNCHANGED <<mine, dirs, ftp, load, table, spoiled>>

\* No parameters for the file, no table, or execsql fails: to the error directory.
Reject == /\ load.at = "file" /\ ~lost
          /\ \E f \in load.files :
               /\ IsNext(f) /\ load' = After(f)
               /\ xmlpath' = xmlpath \ {f} /\ xmlpatherr' = xmlpatherr \cup {f}
          /\ UNCHANGED <<mine, rows, outpath, server, xmlpathbak, ftp, lost, inserted, table, spoiled>>

\* next() fails on a row of the result: what was read of it fills a last file,
\* which is renamed, and the greatest key read is saved, if a row was read.
FetchFails ==
  /\ extract.at = "write"
  /\ \E m \in Rows \cup {0}, part \in SUBSET extract.left :
       /\ part # extract.left /\ Cardinality(part) < maxcount
       /\ IF part = {} THEN UNCHANGED <<rows, outpath>> ELSE NewFile(part)
       /\ IsGreatest(m, {imaxincvalue} \cup part)
       /\ IF m \in incfile
          THEN extract' = Down /\ imaxincvalue' = 0
          ELSE /\ extract' = [at |-> "save", left |-> {r \in extract.left \ part : r <= m}]
               /\ imaxincvalue' = m
  /\ UNCHANGED <<source, late, unread, incfile, server, xmlpath, xmlpathbak, xmlpatherr, ftp, loader>>

\* The data connection breaks while a file is fetched: the copy lacks rows, and
\* get() renames it because the file's time on the server is what it was.
GetCut ==
  /\ \E file \in download.left : \E gone \in SUBSET rows[file[1]] :
       gone # {} /\ Deliver(file, gone) /\ missing' = missing \cup gone
  /\ UNCHANGED <<mine, rows, outpath, server, xmlpathbak, xmlpatherr,
                 upload, upokfile, downokfile, uploads, loader>>

Fault == /\ faults < MaxFaults /\ faults' = faults + 1
         /\ Crash \/ LoseDatabase \/ Reject \/ FetchFails \/ GetCut
         /\ UNCHANGED config

Extract  == Query \/ WriteFile \/ SaveInc
Upload   == UploadList \/ Put \/ PutDone
Download == DownloadList \/ Get \/ GetDone
Load     == ListXml \/ LoadRows \/ Commit \/ MoveToBak

Next == \/ \E r \in Rows : CommitRow(r)
        \/ Extract \/ Upload \/ Download \/ Load
        \/ Fault

Spec == Init /\ [][Next]_vars

\* The scheduler starts each program again and again.
FairSpec == Spec /\ WF_vars(Extract) /\ WF_vars(Upload) /\ WF_vars(Download) /\ WF_vars(Load)

-----------------------------------------------------------------------------
(* Properties.                                                             *)

\* The types of the state, and every file is where a tool can find it or was
\* moved aside: none is removed before its copy is made (ftp下载.cpp:131-160).
TypeOK ==
  /\ [incindb |-> incindb, remove |-> remove, maxcount |-> maxcount] \in Setups
  /\ faults \in 0..MaxFaults
  /\ late \cup unread \subseteq source /\ source \subseteq Rows
  /\ incfile \in {{}} \cup {{k} : k \in Rows \cup {0}} /\ imaxincvalue \in Rows \cup {0}
  /\ rows \in [Files -> SUBSET source]
  /\ lacks \in [Files -> SUBSET missing] /\ missing \subseteq source
  /\ outpath \cup server \cup xmlpath \cup xmlpathbak \cup xmlpatherr = Made
  /\ upokfile \subseteq outpath
  /\ \A file \in downokfile : file[1] \in xmlpath \cup xmlpathbak \cup xmlpatherr
  /\ table \cup inserted \subseteq source \ Bad
  /\ spoiled \subseteq Made

\* Whenever a crash comes, the key that the next extraction starts from is not
\* beyond what has been written: passed over is only a row that committed after
\* a greater key was extracted, or one that a failed fetch left unread below the
\* greatest key read (数据抽取(正式).cpp:131, 167-187).
NothingSkipped ==
  \A saved \in incfile :
    {r \in source \ (late \cup unread) : r <= saved} \subseteq UNION {rows[f] : f \in Files}

\* A file in the backup directory has been loaded, but for rows with bad data,
\* for rows its copy came without and for commits that failed unseen
\* (xml正式入库.cpp:210-218, 375; _ftp.cpp:76-97).
BackedUpIsLoaded == \A f \in xmlpathbak \ spoiled : rows[f] \ (Bad \cup missing) \subseteq table

\* However often each process dies and starts again, a row of the source comes
\* to the destination, unless it committed late, a failed fetch left it unread,
\* a copy of its file was cut, its data is bad, a commit of its file failed or
\* an operator has to look at it, or the process that extracts died while it
\* wrote the file of the greatest key.
Delivered ==
  []<>(\/ incfile = {}
       \/ source \ (late \cup unread \cup missing \cup Bad) \subseteq
            table \cup UNION {rows[f] : f \in spoiled \cup xmlpatherr})

=============================================================================
