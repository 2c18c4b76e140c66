------------------------------ MODULE Columns -------------------------------
(***************************************************************************)
(* The columns of a row on its way through the exchange tools: the         *)
(* extraction writes the fields of its result set to an xml file, and the  *)
(* loader builds an insert and an update from the data dictionary, binds   *)
(* variables to their places and takes the values out of the file by the   *)
(* names of the columns.  Both programs exist twice: release is "tools"    *)
(* for those of src/tools/cpp (数据抽取(正式).cpp, xml正式入库.cpp) and    *)
(* "myidc" for the earlier ones of src/myidc/db (数据抽取.cpp,             *)
(* xml入库.cpp).  What becomes of a file as a whole is in DataCentre.      *)
(*                                                                         *)
(* A value is its text as picknumber() sees it: digits, digits with a sign *)
(* or a dot, or text without digits.  What the database itself fills in,   *)
(* upttime and keyid, is not a part of the rows.                           *)
(***************************************************************************)
EXTENDS Naturals, Sequences

CONSTANTS Tables,       \* the columns of each table, in the order of column_id
          Tasks,        \* extractions: a kind of file, fieldstr and the rows of the source
          Configs,      \* what the file of the parameters may hold
          Unfit,        \* values that no column takes: too large a number
          MaxXmls,      \* bound: the files extracted
          MaxRecords,   \* bound: the records of a file
          MaxColFaults  \* bound: the processes killed, the sessions lost, failed execsql()

Names == DOMAIN Tables
Specials == {"upttime", "keyid"}
Null == <<"null", 0>>

ASSUME ColumnsAssumption ==
  /\ \A t \in Names : Tables[t] \in Seq([name : STRING, type : STRING, pkseq : Nat])
  /\ \A config \in Configs : config # <<>>
  /\ MaxXmls \in Nat /\ MaxRecords \in Nat /\ MaxColFaults \in Nat

VARIABLES
  release, xmltotable,  \* the programs and the lines of their parameters
  colfaults,
  xmls,         \* the files: their kind, the fields and the rows they were made from
  dirlist,      \* the numbers of those in the directory
  dest,         \* the loader: where it is, its listing, its file, the next record
  stxmltotable, \* the parameters of the file
  work, tab,    \* the rows of the tables: as its transaction sees them, as committed
  due, duecommitted, \* the records that they should show, the same
  misled        \* tables that got a file of another kind, or one without the keys

configVars == <<release, xmltotable>>
tabVars    == <<work, tab, due, duecommitted, misled>>
columnVars == <<configVars, colfaults, xmls, dirlist, dest, stxmltotable, tabVars>>

Idle == [at |-> "down", list |-> {}, xml |-> 0, pos |-> 1]
LastLine == xmltotable[Len(xmltotable)]

ColumnsInit == /\ release \in {"tools", "myidc"} /\ xmltotable \in Configs
               /\ colfaults = 0 /\ xmls = <<>> /\ dirlist = {} /\ dest = Idle
               /\ stxmltotable = LastLine
               /\ work = [t \in Names |-> {}] /\ tab = work
               /\ due = work /\ duecommitted = work /\ misled = {}

-----------------------------------------------------------------------------
(* The extraction.                                                         *)

\* The fields whose values are written.  The earlier program binds each variable
\* one place too low, which leaves the last one out.
Fields(fieldstr) ==
  {fieldstr[i] : i \in 1..(IF release = "tools" THEN Len(fieldstr) ELSE Len(fieldstr) - 1)}

\* A record of the file; the earlier program adds two fields of its own.
Record(fieldstr, row) ==
  LET own == IF release = "tools" THEN {} ELSE {"height", "uptime"} IN
  [c \in Fields(fieldstr) \cup own |-> IF c \in Fields(fieldstr) THEN row[c] ELSE <<"digits", 110>>]

ExtractXml ==
  /\ Len(xmls) < MaxXmls
  /\ \E task \in Tasks, n \in 1..MaxRecords : \E rows \in [1..n -> task.source] :
       xmls' = Append(xmls, [kind |-> task.kind, fieldstr |-> task.fieldstr, rows |-> rows])
  /\ dirlist' = dirlist \cup {Len(xmls) + 1}
  /\ UNCHANGED <<configVars, colfaults, dest, stxmltotable, tabVars>>

-----------------------------------------------------------------------------
(* What the loader makes of the data dictionary.                           *)

\* ctcols: the columns of the types it knows.
Columns(t) == SelectSeq(Tables[t], LAMBDA col : col.type \in {"char", "date", "number"})
HasColumns(t) == t \in Names /\ Columns(t) # <<>>

Plain(col) == col.name \notin Specials
IsKey(col) == col.pkseq # 0
IsSet(col) == ~IsKey(col) /\ Plain(col)

\* The positions of some columns, in their order.
Positions(cols, Chosen(_)) == SelectSeq([i \in 1..Len(cols) |-> i], LAMBDA i : Chosen(cols[i]))

\* crtsql(): which column each place of a statement stands for.
InsertPlaces(cols) == Positions(cols, Plain)
UpdatePlaces(cols) == Positions(cols, IsSet) \o Positions(cols, IsKey)

\* Mutant: the variables are bound in the order of the columns.
UpdateBindsInOrder(cols) == Positions(cols, Plain)

\* preparesql(): which vcolvalue is bound to each place.  The earlier program takes
\* the first column for the key and the last for keyid.
InsertBinds(cols) == Positions(cols, Plain)
UpdateBinds(cols) ==
  IF release = "tools" THEN Positions(cols, IsSet) \o Positions(cols, IsKey)
  ELSE [p \in 1..(Len(cols) - 1) |-> IF p = Len(cols) - 1 THEN 1 ELSE p + 1]

-----------------------------------------------------------------------------
(* A record.                                                               *)

\* picknumber() keeps the digits and, if asked to, signs and dots.
PickNumber(v, signs) == CASE v[1] = "text" -> Null
                          [] v[1] = "signed" /\ ~signs -> <<"digits", v[2]>>
                          [] OTHER -> v

\* The earlier program asks for "date" twice and leaves numbers as they are.
Clean(type, v) == CASE type = "date" -> PickNumber(v, FALSE)
                    [] type = "number" /\ release = "tools" -> PickNumber(v, TRUE)
                    [] OTHER -> v

\* getxmlbuffer() leaves value as it is when there is no such field.
GetXmlBuffer(record, name, value) == IF name \in DOMAIN record THEN record[name] ELSE value

\* splitbuffer(): strtemp goes from column to column.
Split(cols, record) ==
  LET strtemp[i \in 0..Len(cols)] ==
        IF i = 0 THEN Null
        ELSE Clean(cols[i].type, GetXmlBuffer(record, cols[i].name, strtemp[i - 1]))
  IN  [i \in 1..Len(cols) |-> strtemp[i]]

\* The columns of a statement and the values of the variables bound to them.
Bound(cols, places, binds, vcolvalue) ==
  LET place(c) == CHOOSE p \in 1..Len(places) : cols[places[p]].name = c IN
  [c \in {cols[places[p]].name : p \in 1..Len(places)} |-> vcolvalue[binds[place(c)]]]

Suits(type, v) == \/ v = Null \/ type = "char"
                  \/ v[1] \in (IF type = "date" THEN {"digits"} ELSE {"digits", "signed"})

\* The database takes the values: none that is unfit, and none missing in the key.
Takes(cols, row) == \A i \in 1..Len(cols) :
  LET v == row[cols[i].name] IN
  cols[i].name \in DOMAIN row => /\ v \notin Unfit /\ Suits(cols[i].type, v)
                                 /\ IsKey(cols[i]) => v # Null

KeyNames(cols) == {cols[i].name : i \in {k \in 1..Len(cols) : IsKey(cols[k])}}
SameKey(cols, r, s) == \A i \in 1..Len(cols) : IsKey(cols[i]) =>
  LET value(row) == Clean(cols[i].type, row[cols[i].name]) IN value(r) = value(s)

\* It fails with a place that has no variable, and may find no row.
Updated(cols, rows, vcolvalue) ==
  LET places == UpdatePlaces(cols)
      new    == Bound(cols, places, UpdateBinds(cols), vcolvalue)
      Change(r) == [c \in DOMAIN r |-> IF c \in DOMAIN new THEN new[c] ELSE r[c]]
  IN  IF Len(UpdateBinds(cols)) < Len(places) \/ ~Takes(cols, new) THEN rows
      ELSE {IF SameKey(cols, r, new) THEN Change(r) ELSE r : r \in rows}

-----------------------------------------------------------------------------
(* The loader.                                                             *)

\* opendir(); a process that starts reads its parameters, and the last of them
\* stays in stxmltotable.
ListXmls ==
  /\ dest.at = "down" \/ (dest.at = "list" /\ dest.list = {} /\ release = "tools")
  /\ dirlist # {}
  /\ dest' = [Idle EXCEPT !.at = "list", !.list = dirlist]
  /\ stxmltotable' = IF dest.at = "down" THEN LastLine ELSE stxmltotable
  /\ UNCHANGED <<configVars, colfaults, xmls, dirlist, tabVars>>

\* The earlier program ends; it keeps its files, and loads them again next time.
EndLoad == /\ dest.at = "list" /\ dest.list = {} /\ release = "myidc"
           /\ dest' = Idle
           /\ UNCHANGED <<configVars, colfaults, xmls, dirlist, stxmltotable, tabVars>>

\* By name, which has the kind and then the time.
NextXml(x) == x \in dest.list /\ \A y \in dest.list : xmls[y].kind = xmls[x].kind => x <= y
Without(x) == [Idle EXCEPT !.at = "list", !.list = dest.list \ {x}]

\* findxmltotable(): the lines that match, the first of them counts.
Matching(kind) == SelectSeq(xmltotable, LAMBDA line : kind \in line.filename)
Parameters(kind) == IF Matching(kind) # <<>> THEN Matching(kind)[1] ELSE stxmltotable

\* No parameters, or no table: the file is moved to the error directory.  The
\* earlier program only reports the first, and ends on the second.
RejectXml == \E x \in dest.list :
  /\ dest.at = "list" /\ NextXml(x)
  /\ stxmltotable' = Parameters(xmls[x].kind)
  /\ IF release = "tools"
     THEN /\ Matching(xmls[x].kind) = <<>> \/ ~HasColumns(stxmltotable'.tname)
          /\ dest' = Without(x) /\ dirlist' = dirlist \ {x}
     ELSE /\ ~HasColumns(stxmltotable'.tname)
          /\ dest' = Idle /\ UNCHANGED dirlist
  /\ UNCHANGED <<configVars, colfaults, xmls, tabVars>>

WithoutKeys(x, t) == ~(KeyNames(Columns(t)) \subseteq Fields(xmls[x].fieldstr))

\* Otherwise its records will go to the table, after execsql(), which deletes what
\* the table has; the earlier program has no execsql().
OpenXml == \E x \in dest.list :
  LET line == Parameters(xmls[x].kind) IN
  /\ dest.at = "list" /\ NextXml(x)
  /\ HasColumns(line.tname) /\ (release = "tools" => Matching(xmls[x].kind) # <<>>)
  /\ stxmltotable' = line
  /\ IF line.execsql /\ release = "tools"
     THEN work' = [work EXCEPT ![line.tname] = {}] /\ due' = [due EXCEPT ![line.tname] = {}]
     ELSE UNCHANGED <<work, due>>
  /\ misled' = IF Matching(xmls[x].kind) = <<>> \/ WithoutKeys(x, line.tname)
               THEN misled \cup {line.tname} ELSE misled
  /\ dest' = [dest EXCEPT !.at = "row", !.xml = x, !.pos = 1]
  /\ UNCHANGED <<configVars, colfaults, xmls, dirlist, tab, duecommitted>>

\* execsql() fails; so does the statement, which leaves the table as it was.  The file
\* is moved to the error directory, and the session goes on.
ExecsqlFails == \E x \in dest.list :
  /\ dest.at = "list" /\ NextXml(x) /\ release = "tools"
  /\ Matching(xmls[x].kind) # <<>>
  /\ stxmltotable' = Parameters(xmls[x].kind)
  /\ HasColumns(stxmltotable'.tname) /\ stxmltotable'.execsql
  /\ colfaults < MaxColFaults /\ colfaults' = colfaults + 1
  /\ dest' = Without(x) /\ dirlist' = dirlist \ {x}
  /\ UNCHANGED <<configVars, xmls, tabVars>>

\* What the table should show for a record: the source's row, as far as it is in
\* the file.
Due(xml) == [fields |-> Fields(xml.fieldstr), row |-> xml.rows[dest.pos]]

\* The insert; for a row that exists (ORA-00001) the update, if uptbz says so.  A
\* record the database does not take is passed over.
LoadRecord ==
  LET xml  == xmls[dest.xml]
      t    == stxmltotable.tname
      cols == Columns(t)
      vcolvalue == Split(cols, Record(xml.fieldstr, xml.rows[dest.pos]))
      new  == Bound(cols, InsertPlaces(cols), InsertBinds(cols), vcolvalue)
      same == {r \in work[t] : SameKey(cols, r, new)}
  IN
  /\ dest.at = "row" /\ dest.pos <= Len(xml.rows)
  /\ dest' = [dest EXCEPT !.pos = @ + 1]
  /\ work' = [work EXCEPT ![t] =
       IF ~Takes(cols, new) THEN @
       ELSE IF same = {} THEN @ \cup {new}
       ELSE IF stxmltotable.uptbz = 1 THEN Updated(cols, @, vcolvalue) ELSE @]
  /\ due' = [due EXCEPT ![t] =
       IF t \in misled \/ ~Takes(cols, new) \/ (same # {} /\ stxmltotable.uptbz # 1) THEN @
       ELSE {a \in @ : ~SameKey(cols, a.row, xml.rows[dest.pos])} \cup {Due(xml)}]
  /\ UNCHANGED <<configVars, colfaults, xmls, dirlist, stxmltotable, tab, duecommitted, misled>>

CommitXml ==
  /\ dest.at = "row" /\ dest.pos > Len(xmls[dest.xml].rows)
  /\ tab' = work /\ duecommitted' = due
  /\ dest' = IF release = "tools" THEN [dest EXCEPT !.at = "move"] ELSE Without(dest.xml)
  /\ UNCHANGED <<configVars, colfaults, xmls, dirlist, stxmltotable, work, due, misled>>

\* xmltobakerr().
MoveXml == /\ dest.at = "move"
           /\ dest' = Without(dest.xml) /\ dirlist' = dirlist \ {dest.xml}
           /\ UNCHANGED <<configVars, colfaults, xmls, stxmltotable, tabVars>>

\* The process is killed, or its session breaks and it ends: what it has not
\* committed is rolled back.
LoadFault == /\ colfaults < MaxColFaults /\ colfaults' = colfaults + 1
             /\ dest.at # "down" /\ dest' = Idle
             /\ work' = tab /\ due' = duecommitted
             /\ UNCHANGED <<configVars, xmls, dirlist, stxmltotable, tab, duecommitted, misled>>

ColumnsNext == \/ ExtractXml
               \/ ListXmls \/ EndLoad \/ RejectXml \/ OpenXml \/ ExecsqlFails
               \/ LoadRecord \/ CommitXml \/ MoveXml
               \/ LoadFault

ColumnsSpec == ColumnsInit /\ [][ColumnsNext]_columnVars

-----------------------------------------------------------------------------
(* Properties.                                                             *)

\* Tables for which the places and the variables of the earlier program's update
\* agree: the key is the first column and keyid, or upttime, the last.
Fits(cols) == /\ \A i \in 1..Len(cols) : IsKey(cols[i]) <=> i = 1
              /\ \A i \in 1..Len(cols) : ~Plain(cols[i]) <=> i = Len(cols)

\* A row shows a record: every value that came from the source is in the column of
\* its name.
Shows(cols, row, a) ==
  \A i \in 1..Len(cols) : Plain(cols[i]) /\ cols[i].name \in a.fields =>
    row[cols[i].name] = Clean(cols[i].type, a.row[cols[i].name])

\* A value that leaves the source in a column arrives in that column, of the row
\* with its key, whatever columns the table has and which of them are in the file,
\* whether the row is inserted or updated, and however often the loader is killed
\* and loads the file again; and there are no other rows.
ValuesKeepTheirColumns == \A t \in Names \ misled :
  LET cols == Columns(t) IN
  release = "tools" \/ Fits(cols) =>
    /\ \A row \in tab[t] : \E a \in duecommitted[t] : Shows(cols, row, a)
    /\ \A a \in duecommitted[t] : \E row \in tab[t] : Shows(cols, row, a)
    /\ \A r, s \in tab[t] : SameKey(cols, r, s) => r = s

\* 6) of _xmltodb() takes "the value of each field" from the line that was read
\* (xml正式入库.cpp:339), so a column that is not in the record has none.
AbsentIsNull == \A t \in Names \ misled :
  LET cols == Columns(t) IN
  release = "tools" => \A row \in tab[t], a \in duecommitted[t] : Shows(cols, row, a) =>
    \A i \in 1..Len(cols) : Plain(cols[i]) /\ cols[i].name \notin a.fields =>
      row[cols[i].name] = Null
=============================================================================
