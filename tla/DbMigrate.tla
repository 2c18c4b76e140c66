----------------------------- MODULE DbMigrate ------------------------------
(* migratetable, which moves old rows to a history table in transactions of *)
(* maxcount rows, and deletetable, which deletes older ones and commits each*)
(* statement; both select keys first and use them later, by starg.keycol.   *)
EXTENDS DbTables

VARIABLES
  his,    \* how often the history table T_ZHOBTMIND1_HIS has the row
  mig,    \* migratetable
  del,    \* deletetable
  swept   \* rows deleted at a rowid that was another row's when selected

move == <<his, mig, del, swept>>

MigIdle == [at |-> "off", todo |-> {}, batch |-> {}, ins |-> {}, gone |-> {}]
DelIdle == [at |-> "off", todo |-> {}]

MoveInit == /\ his = [k \in Keys |-> 0]
            /\ mig = MigIdle
            /\ del = DelIdle
            /\ swept = {}

KeysOf(B) == {r.key : r \in B}

\* The rowids that `where keycol in (...)` finds now.
Hit(B) == IF keycol = "rowid" THEN {s \in {r.slot : r \in B} : tab[s] # None}
          ELSE {s \in Slots : tab[s] \in KeysOf(B)}

Without(S) == [s \in Slots |-> IF s \in S THEN None ELSE tab[s]]

\* Rows at S that are not those of the batch.
Others(S, B) == {tab[s] : s \in S} \ KeysOf(B)

-----------------------------------------------------------------------------
(* migratetable                                                            *)

MigSelect ==
  /\ setup = "migrate" /\ mig.at = "off"
  /\ LET old == {k \in Rows : age[k] >= 1}
     IN old # {} /\ mig' = [mig EXCEPT !.at = "insert", !.todo = Found(old)]
  /\ UNCHANGED <<tab, his, del, swept>>

\* Mutant: the session commits each statement, as deletetable's does.
MigInsertAuto ==
  /\ mig.at = "insert"
  /\ \E B \in Batches(mig.todo) :
       /\ mig' = [mig EXCEPT !.at = "delete", !.batch = B]
       /\ his' = [k \in Keys |-> IF k \in {tab[s] : s \in Hit(B)} THEN his[k] + 1 ELSE his[k]]
  /\ UNCHANGED <<tab, del, swept>>

MigInsert ==
  /\ mig.at = "insert"
  /\ \E B \in Batches(mig.todo) :
       mig' = [mig EXCEPT !.at = "delete", !.batch = B, !.ins = {tab[s] : s \in Hit(B)}]
  /\ UNCHANGED <<tab, his, del, swept>>

MigDelete ==
  /\ mig.at = "delete"
  /\ mig' = [mig EXCEPT !.at = "commit", !.gone = Hit(mig.batch)]
  /\ UNCHANGED <<tab, his, del, swept>>

MigNext == LET rest == mig.todo \ mig.batch
           IN mig' = [MigIdle EXCEPT !.at = IF rest = {} THEN "off" ELSE "insert",
                                     !.todo = rest]

MigCommit ==
  /\ mig.at = "commit"
  /\ his' = [k \in Keys |-> IF k \in mig.ins THEN his[k] + 1 ELSE his[k]]
  /\ tab' = Without(mig.gone)
  /\ swept' = swept \cup (Others(mig.gone, mig.batch) \ mig.ins)
  /\ MigNext
  /\ UNCHANGED del

\* Not tested either; the rows are those of the next run.
MigCommitFails == /\ mig.at = "commit"
                  /\ MigNext
                  /\ UNCHANGED <<tab, his, del, swept>>

MigEnds == /\ mig.at # "off"
           /\ mig' = MigIdle
           /\ UNCHANGED <<tab, his, del, swept>>

MigStep == MigSelect \/ MigInsert \/ MigDelete \/ MigCommit

MigFault == MigCommitFails \/ MigEnds

-----------------------------------------------------------------------------
(* deletetable, of the history table or of the table itself                *)

OldRows == IF setup = "clean" THEN Found({k \in Rows : age[k] = 2})
           ELSE {[slot |-> None, key |-> k] : k \in {k \in Keys : his[k] > 0 /\ age[k] = 2}}

DelSelect ==
  /\ setup \in {"migrate", "clean"} /\ del.at = "off"
  /\ OldRows # {}
  /\ del' = [at |-> "delete", todo |-> OldRows]
  /\ UNCHANGED <<tab, his, mig, swept>>

\* Nobody else deletes in the history table, whose rowids keep their rows.
DelBatch ==
  /\ del.at = "delete"
  /\ \E B \in Batches(del.todo) :
       /\ IF setup = "clean"
          THEN /\ tab' = Without(Hit(B))
               /\ swept' = swept \cup Others(Hit(B), B)
               /\ UNCHANGED his
          ELSE /\ his' = [k \in Keys |-> IF k \in KeysOf(B) THEN 0 ELSE his[k]]
               /\ UNCHANGED <<tab, swept>>
       /\ del' = IF del.todo = B THEN DelIdle ELSE [del EXCEPT !.todo = @ \ B]
  /\ UNCHANGED mig

DelEnds == /\ del.at # "off"
           /\ del' = DelIdle
           /\ UNCHANGED <<tab, his, mig, swept>>

DelStep == DelSelect \/ DelBatch

MoveType ==
  /\ his \in [Keys -> 0..2]
  /\ mig.at \in {"off", "insert", "delete", "commit"}
  /\ mig.at = "insert" => mig.todo # {}
  /\ mig.batch \subseteq mig.todo
  /\ mig.ins \subseteq Keys /\ mig.gone \subseteq Slots
  /\ mig.ins = {} \/ mig.at \in {"delete", "commit"}
  /\ del.at \in {"off", "delete"} /\ (del.at = "delete" <=> del.todo # {})
  /\ swept \subseteq Keys
=============================================================================
