------------------------------ MODULE Stations ------------------------------
(***************************************************************************)
(* obtcodetodb: the list of the weather stations in stcode.ini goes to the *)
(* table T_ZHOBTCODE, as one transaction, while an operator may replace    *)
(* the list.  The program exists three times: 站点参数入库csv.cpp, the     *)
(* earlier 参数入库.cpp of src/myidc, and 站点参数入库xml.cpp, which reads *)
(* an xml file record by record and inserts only.                          *)
(***************************************************************************)
EXTENDS Naturals, Sequences

CONSTANTS StationIds,
          Inis,          \* what stcode.ini may hold: sequences of stations
          MaxEdits,      \* bound: the times that it is replaced
          MaxCodeFaults  \* bound: statements that fail, sessions lost, processes killed

ASSUME StationsAssumption == /\ Inis # {} /\ Inis \subseteq Seq(StationIds)
                             /\ MaxEdits \in Nat /\ MaxCodeFaults \in Nat

VARIABLES
  program,     \* "csv", "myidc" or "xml"
  codefaults,
  stcode,      \* the lists that stcode.ini has held, the last of them now
  codes,       \* T_ZHOBTCODE: from which list the record of a station is, 0 for none
  pass,        \* the process: its stcodelist, the number of that list, the next station
  newcodes,    \* the stations its transaction has inserted or updated
  mixed        \* a pass went on after a statement that failed, or the list was
               \* written in place while a pass read it

stationVars == <<program, codefaults, stcode, codes, pass, newcodes, mixed>>

NoPass == [at |-> "down", stcodelist |-> <<>>, number |-> 0, pos |-> 1]

StationsInit == /\ program \in {"csv", "myidc", "xml"} /\ codefaults = 0
                /\ stcode \in {<<list>> : list \in Inis}
                /\ codes = [s \in StationIds |-> 0]
                /\ pass = NoPass /\ newcodes = {} /\ mixed = FALSE

EditIni == /\ Len(stcode) <= MaxEdits
           /\ \E list \in Inis : stcode' = Append(stcode, list)
           /\ UNCHANGED <<program, codefaults, codes, pass, newcodes, mixed>>

\* The program that reads xml has the file open while it inserts (82-104): of a list
\* that is not replaced but written in place it reads on, from somewhere, in the new.
WriteInPlace == /\ Len(stcode) <= MaxEdits
                /\ program = "xml" /\ pass.at = "rows"
                /\ \E list \in Inis : \E k \in 1..Len(list) + 1 :
                     /\ stcode' = Append(stcode, list)
                     /\ pass' = [pass EXCEPT !.stcodelist = SubSeq(@, 1, pass.pos - 1)
                                                           \o SubSeq(list, k, Len(list))]
                /\ mixed' = TRUE
                /\ UNCHANGED <<program, codefaults, codes, newcodes>>

\* loadstcode(), which leaves out the title and other lines that are no station,
\* and connecttodb().
LoadList == /\ pass.at = "down"
            /\ pass' = [at |-> "rows", stcodelist |-> stcode[Len(stcode)],
                        number |-> Len(stcode), pos |-> 1]
            /\ UNCHANGED <<program, codefaults, stcode, codes, newcodes, mixed>>

HasRow == pass.at = "rows" /\ pass.pos <= Len(pass.stcodelist)
Station == pass.stcodelist[pass.pos]
Exists(s) == codes[s] # 0 \/ s \in newcodes

NextRow == pass' = [pass EXCEPT !.pos = @ + 1]

\* EXIT(-1): the transaction is rolled back.
GiveUp == pass' = NoPass /\ newcodes' = {}

\* The insert, or for a station that exists (ORA-00001) the update.
SaveStation == /\ HasRow
               /\ program = "xml" => ~Exists(Station)
               /\ newcodes' = newcodes \cup {Station} /\ NextRow
               /\ UNCHANGED <<program, codefaults, stcode, codes, mixed>>

\* Mutant: every program goes on.
FailsNever == NextRow /\ UNCHANGED <<newcodes, mixed>>

\* A statement fails: the programs of src/idc give up, the earlier one goes on.
Fails == IF program = "myidc" THEN NextRow /\ mixed' = TRUE /\ UNCHANGED newcodes
                              ELSE GiveUp /\ UNCHANGED mixed

\* The program that reads xml has no update.
SaveAgainFails == /\ HasRow
                  /\ program = "xml" /\ Exists(Station)
                  /\ GiveUp
                  /\ UNCHANGED <<program, codefaults, stcode, codes, mixed>>

\* commit() at the end of the list, its result is not looked at.
CommitList == /\ pass.at = "rows" /\ ~HasRow
              /\ codes' = [s \in StationIds |-> IF s \in newcodes THEN pass.number ELSE codes[s]]
              /\ GiveUp
              /\ UNCHANGED <<program, codefaults, stcode, mixed>>

\* A statement is refused; or the process is killed, or its session broke: the
\* statements that follow fail, and so does the commit, and nothing is saved.
CodeFault == /\ codefaults < MaxCodeFaults /\ codefaults' = codefaults + 1
             /\ \/ HasRow /\ Fails
                \/ pass.at # "down" /\ GiveUp /\ UNCHANGED mixed
             /\ UNCHANGED <<program, stcode, codes>>

StationsNext == \/ EditIni \/ WriteInPlace \/ LoadList \/ SaveStation
                \/ SaveAgainFails \/ CommitList \/ CodeFault

StationsSpec == StationsInit /\ [][StationsNext]_stationVars

-----------------------------------------------------------------------------
StationsTypes ==
  /\ program \in {"csv", "myidc", "xml"} /\ codefaults \in Nat
  /\ stcode \in Seq(Inis) /\ stcode # <<>>
  /\ codes \in [StationIds -> Nat] /\ newcodes \subseteq StationIds /\ mixed \in BOOLEAN
  /\ pass \in [at : {"down", "rows"}, stcodelist : Seq(StationIds), number : Nat, pos : Nat \ {0}]

Listed(s, n) == \E i \in 1..Len(stcode[n]) : stcode[n][i] = s

\* What a pass saves it saves together: where one station's record is from a list,
\* those of all stations of that list are from it, or from a later one, wherever
\* passes were cut short and whenever the list was replaced under them.  Only a
\* pass of the earlier program that went on after an error, or one of the program
\* that reads xml under which the list was written in place, leaves a mixture.
OnePass == mixed \/ \A s \in StationIds : codes[s] # 0 =>
                        /\ codes[s] <= Len(stcode) /\ Listed(s, codes[s])
                        /\ \A t \in StationIds : Listed(t, codes[s]) => codes[t] >= codes[s]
=============================================================================
