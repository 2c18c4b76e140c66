------------------------------ MODULE MCLoaders ------------------------------
(* The columns of the rows that the tools exchange, the FTP client that    *)
(* carries their files, and the two loaders of the weather stations.  The  *)
(* parts share no variable, so a behaviour takes one part, chosen at the   *)
(* start, and leaves the others as they begin.                             *)
EXTENDS Columns, Ftp, Stations, Surfdata, TLC

CONSTANTS s1, s2    \* two weather stations

MCStations == {s1, s2}
MCLists == {<<s1, s2>>, <<s1>>}
MCRefused == {<<s1, 1>>}

\* A table whose key is its first column and a field of no known type in the
\* middle, and one with a key of two columns and both columns that the database
\* fills in.
Col(name, type, pkseq) == [name |-> name, type |-> type, pkseq |-> pkseq]
MCTables ==
  [code |-> <<Col("obtid", "char", 1), Col("pic", "blob", 0), Col("city", "char", 0),
              Col("height", "number", 0), Col("keyid", "number", 0)>>,
   mind |-> <<Col("obtid", "char", 1), Col("ddatetime", "date", 2), Col("t", "number", 0),
              Col("upttime", "date", 0), Col("keyid", "number", 0)>>]

Digits(n) == <<"digits", n>>
Text(n)   == <<"text", n>>
Code(obtid, city, height) == [obtid |-> obtid, city |-> city, height |-> height]
Mind(obtid, ddatetime, t) == [obtid |-> obtid, ddatetime |-> ddatetime, t |-> t]

\* All fields; a record without a field of the table; and observations.
MCTasks ==
  {[kind |-> "ZHOBTCODE", fieldstr |-> <<"obtid", "city", "height">>,
    source |-> {Code(Digits(1), Text(1), Digits(5)), Code(Digits(1), Text(2), <<"signed", 5>>),
                Code(Digits(2), Text(1), Digits(9))}],
   [kind |-> "ZHOBTCODE", fieldstr |-> <<"obtid", "height">>,
    source |-> {Code(Digits(1), Text(1), Digits(5))}],
   [kind |-> "ZHOBTMIND", fieldstr |-> <<"obtid", "ddatetime", "t">>,
    source |-> {Mind(Digits(1), Digits(1), Digits(5)), Mind(Digits(1), Digits(2), Digits(5)),
                Mind(Digits(1), Digits(2), Digits(6))}]}

Line(filename, tname, uptbz, execsql) ==
  [filename |-> filename, tname |-> tname, uptbz |-> uptbz, execsql |-> execsql]

\* Both orders of the tables, with and without execsql and uptbz; a table that the
\* dictionary does not know.
MCConfigs == {<<Line({"ZHOBTCODE"}, "code", 1, TRUE), Line({"ZHOBTMIND"}, "mind", 2, FALSE)>>,
              <<Line({"ZHOBTMIND"}, "mind", 1, FALSE), Line({"ZHOBTCODE"}, "code", 1, FALSE)>>,
              <<Line({"ZHOBTCODE"}, "none", 1, FALSE)>>}
MCUnfit == {Digits(9)}

-----------------------------------------------------------------------------
VARIABLE part

LoadersInit ==
  /\ part \in {"columns", "ftp", "stations", "surfdata"}
  /\ ColumnsInit /\ FtpInit /\ StationsInit /\ SurfInit
  /\ part # "columns"  => release = "tools" /\ Len(xmltotable) = 1
  /\ part # "ftp"      => cmode = "port"
  /\ part # "stations" => program = "csv" /\ Len(stcode[1]) = 1
  /\ part # "surfdata" => site = "idc"

Others(parts) == UNCHANGED parts /\ part' = part

LoadersNext ==
  \/ part = "columns"  /\ ColumnsNext  /\ Others(<<ftpVars, stationVars, surfVars>>)
  \/ part = "ftp"      /\ FtpNext      /\ Others(<<columnVars, stationVars, surfVars>>)
  \/ part = "stations" /\ StationsNext /\ Others(<<columnVars, ftpVars, surfVars>>)
  \/ part = "surfdata" /\ SurfNext     /\ Others(<<columnVars, ftpVars, stationVars>>)

LoadersSpec ==
  LoadersInit /\ [][LoadersNext]_<<part, columnVars, ftpVars, stationVars, surfVars>>
=============================================================================
