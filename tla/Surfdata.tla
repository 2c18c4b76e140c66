------------------------------ MODULE Surfdata ------------------------------
(***************************************************************************)
(* The observations of the weather stations, from the program that makes   *)
(* them (crtsurfdata.cpp) to the table T_ZHOBTMIND (obtmindtodb, which is  *)
(* 观测数据入库(封装).cpp with idcapp.cpp).  Both exist twice: site is     *)
(* "idc" for the programs of src/idc and "myidc" for the earlier ones of   *)
(* src/myidc (生成数据进文件.cpp, 观测数据入库.cpp).  They differ in what  *)
(* the loader does with a file it has read, and in what a write that fails *)
(* leads to.                                                               *)
(*                                                                         *)
(* A file is the sequence of lines that readline() returns; what follows   *)
(* the last end of a line, "</data>" or a line that was cut, it drops.     *)
(* A row is a station and the minute of its observation, the primary key   *)
(* of the table: to insert it again fails and changes nothing.  The        *)
(* transfer between the directory of the generator and that of the loader  *)
(* is in DataCentre; here they are one.                                    *)
(***************************************************************************)
EXTENDS Naturals, Sequences

CONSTANTS Observers,      \* the stations
          Lists,          \* the lists of stations that stcode.ini may hold
          Refused,        \* the rows whose data the table refuses
          MaxMinutes,     \* bound: the runs of the generator
          MaxSurfFaults   \* bound: crashes, sessions lost, full disks

ASSUME SurfAssumption == /\ Lists \subseteq Seq(Observers)
                         /\ MaxMinutes \in Nat /\ MaxSurfFaults \in Nat

SurfFiles == {"csv", "xml"} \X (1..MaxMinutes)
Title == <<"title", 0>>

VARIABLES
  site,
  surffaults,
  crt,         \* crtsurfdata: the formats it has yet to write, its stlist
  minute,      \* strddatetime
  lines,       \* what a file holds
  surfdata,    \* the files in the directory
  obt,         \* obtmindtodb: its line, the files of the listing, the open one, the next line
  broken,      \* its session is lost
  newrows,     \* the rows of its transaction
  mind,        \* T_ZHOBTMIND
  finished,    \* the files it is done with
  unsaved      \* those of them whose rows were not committed

crtVars  == <<crt, minute, lines>>
obtVars  == <<obt, broken, newrows, mind, finished, unsaved>>
surfVars == <<site, surffaults, crtVars, surfdata, obtVars>>

CrtDown == [formats |-> {}, stlist |-> <<>>]
ObtDown == [at |-> "down", todo |-> {}, file |-> <<"none", 0>>, pos |-> 1]

SurfInit == /\ site \in {"idc", "myidc"} /\ surffaults = 0
            /\ crt = CrtDown /\ minute = 0 /\ lines = [f \in SurfFiles |-> <<>>]
            /\ surfdata = {}
            /\ obt = ObtDown /\ broken = FALSE /\ newrows = {} /\ mind = {}
            /\ finished = {} /\ unsaved = {}

-----------------------------------------------------------------------------
(* crtsurfdata.                                                            *)

\* loadstcode(), and crtsurfdata() with a time no other run has.
CrtStart == /\ crt.formats = {} /\ minute < MaxMinutes
            /\ minute' = minute + 1
            /\ \E list \in Lists :
                 crt' = [formats |-> IF site = "idc" THEN {"csv", "xml"} ELSE {"xml"},
                         stlist  |-> list]
            /\ UNCHANGED <<site, surffaults, lines, surfdata, obtVars>>

\* What crtsurffile() writes, line by line; only the csv file has a title.  (A
\* json file is written as well, for others to fetch.)
Content(format) ==
  LET data == [i \in 1..Len(crt.stlist) |-> <<crt.stlist[i], minute>>]
  IN  IF format = "csv" THEN <<Title>> \o data ELSE data

NextFormat(format) == format \in crt.formats /\ ("csv" \in crt.formats => format = "csv")

\* closeandrename(): all lines are in the file when it gets its name.
Named(format, content) == /\ lines' = [lines EXCEPT ![<<format, minute>>] = content]
                          /\ surfdata' = surfdata \cup {<<format, minute>>}

CrtFile == \E format \in crt.formats :
  /\ NextFormat(format)
  /\ Named(format, Content(format))
  /\ crt' = [crt EXCEPT !.formats = @ \ {format}]
  /\ UNCHANGED <<site, surffaults, minute, obtVars>>

\* The disk is full after n lines, and the file gets its name all the same: nobody
\* looks at the result of writeline(), nor at that of the last write, which
\* close() makes.  The earlier program returns when a writeline() fails, and the
\* destructor of cofile removes the temporary file.
CrtFileCut == \E format \in crt.formats :
  /\ NextFormat(format)
  /\ \/ \E n \in 0..Len(crt.stlist) :
          n < Len(Content(format)) /\ Named(format, SubSeq(Content(format), 1, n))
     \/ site = "myidc" /\ UNCHANGED <<lines, surfdata>>
  /\ crt' = [crt EXCEPT !.formats = @ \ {format}]
  /\ UNCHANGED <<minute, obtVars>>

-----------------------------------------------------------------------------
(* obtmindtodb.                                                            *)

\* opendir().  A process connects once; isopen() is then true for good.
ObtList == /\ obt.at = "down" /\ surfdata # {}
           /\ obt' = [ObtDown EXCEPT !.at = "file", !.todo = surfdata]
           /\ broken' = FALSE
           /\ UNCHANGED <<site, surffaults, crtVars, surfdata,
                          newrows, mind, finished, unsaved>>

\* Mutant: the first line of every file is thrown away.
SecondLine(f) == 2

\* The title of a csv file is thrown away.
FirstLine(f) == IF f[1] = "csv" THEN 2 ELSE 1

\* A file that has gone since it was listed ends the process.
ObtOpen == /\ obt.at = "file"
           /\ \E f \in obt.todo :
                obt' = IF f \in surfdata
                       THEN [obt EXCEPT !.at = "rows", !.file = f, !.pos = FirstLine(f)]
                       ELSE ObtDown
           /\ UNCHANGED <<site, surffaults, crtVars, surfdata,
                          broken, newrows, mind, finished, unsaved>>

\* splitbuffer() and inserttable().  A row that cannot be inserted is passed over.
ObtRow == /\ obt.at = "rows" /\ obt.pos <= Len(lines[obt.file])
          /\ LET row == lines[obt.file][obt.pos] IN
             newrows' = IF broken \/ row \in Refused THEN newrows ELSE newrows \cup {row}
          /\ obt' = [obt EXCEPT !.pos = @ + 1]
          /\ UNCHANGED <<site, surffaults, crtVars, surfdata,
                         broken, mind, finished, unsaved>>

\* closeandremove(), before the commit.  The earlier program keeps its files.
ObtRemove == /\ obt.at = "rows" /\ obt.pos > Len(lines[obt.file])
             /\ obt' = [obt EXCEPT !.at = "commit"]
             /\ IF site = "idc"
                THEN surfdata' = surfdata \ {obt.file}
                ELSE UNCHANGED surfdata
             /\ UNCHANGED <<site, surffaults, crtVars, broken, newrows, mind, finished, unsaved>>

AfterFile(f) == IF obt.todo = {f} THEN ObtDown
                ELSE [ObtDown EXCEPT !.at = "file", !.todo = obt.todo \ {f}]

\* Its result is not looked at.
ObtCommit == /\ obt.at = "commit"
             /\ obt' = AfterFile(obt.file)
             /\ newrows' = {} /\ mind' = mind \cup newrows
             /\ finished' = finished \cup {obt.file}
             /\ unsaved' = IF broken THEN unsaved \cup {obt.file} ELSE unsaved \ {obt.file}
             /\ UNCHANGED <<site, surffaults, crtVars, surfdata, broken>>

\* deletefiles removes what is old, whoever has it open.
CleanUp == /\ \E f \in surfdata : f[2] < minute /\ surfdata' = surfdata \ {f}
           /\ UNCHANGED <<site, surffaults, crtVars, obtVars>>

-----------------------------------------------------------------------------
(* Faults, and the rest.                                                   *)

\* A signal, which EXIT() ends with a rollback, or a kill.
ProcessDies ==
  \/ /\ crt.formats # {} /\ crt' = CrtDown
     /\ UNCHANGED <<minute, lines, surfdata, obtVars>>
  \/ /\ obt.at # "down" /\ obt' = ObtDown /\ newrows' = {}
     /\ LET gone == IF obt.at = "commit" /\ site = "idc" THEN {obt.file} ELSE {} IN
        finished' = finished \cup gone /\ unsaved' = unsaved \cup gone
     /\ UNCHANGED <<crtVars, surfdata, broken, mind>>

\* The session of the loader breaks, and the server rolls its transaction back.
SessionBreaks == /\ obt.at # "down" /\ ~broken
                 /\ broken' = TRUE /\ newrows' = {}
                 /\ UNCHANGED <<crtVars, surfdata, obt, mind, finished, unsaved>>

SurfFault == /\ surffaults < MaxSurfFaults /\ surffaults' = surffaults + 1
             /\ CrtFileCut \/ ProcessDies \/ SessionBreaks
             /\ UNCHANGED site

Crtsurfdata == CrtStart \/ CrtFile
Obtmindtodb == ObtList \/ ObtOpen \/ ObtRow \/ ObtRemove \/ ObtCommit

SurfNext == Crtsurfdata \/ Obtmindtodb \/ CleanUp \/ SurfFault

SurfSpec == SurfInit /\ [][SurfNext]_surfVars

-----------------------------------------------------------------------------
SurfTypes ==
  /\ site \in {"idc", "myidc"} /\ surffaults \in Nat
  /\ crt \in [formats : SUBSET {"csv", "xml"}, stlist : Seq(Observers)] /\ minute \in 0..MaxMinutes
  /\ lines \in [SurfFiles -> Seq((Observers \X Nat) \cup {Title})]
  /\ surfdata \subseteq SurfFiles
  /\ obt \in [at : {"down", "file", "rows", "commit"}, todo : SUBSET SurfFiles,
              file : SurfFiles \cup {<<"none", 0>>}, pos : Nat \ {0}]
  /\ broken \in BOOLEAN
  /\ finished \subseteq SurfFiles /\ unsaved \subseteq SurfFiles

\* The rows of a file.
DataOf(f) == {lines[f][i] : i \in 1..Len(lines[f])} \ {Title}

\* A file that the loader is done with (and has removed for good, in idc) has its
\* rows in the table, but for those the table refuses: no title, no line cut off,
\* no row that is there already and no restart makes it lose one.  Only a session
\* that broke, or a death between the removal and the commit (140-141), does.
FinishedIsLoaded == \A f \in finished \ unsaved : DataOf(f) \ Refused \subseteq mind
=============================================================================
