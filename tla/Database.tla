------------------------------ MODULE Database ------------------------------
(* The tools of the data centre on T_ZHOBTMIND1, one deployment at a time,  *)
(* with the writers of the table, the SQL script and the faults.            *)
EXTENDS DbSync, DbMigrate

vars == <<tables, sync, move>>

Init == TablesInit /\ SyncInit /\ MoveInit

\* The writers and time.
Writer ==
  \/ Insert(mig.gone) /\ UNCHANGED <<sync, move>>
  \/ \E p \in pend : /\ CommitRow(p)
                     /\ excused' = excused \cup Late(p.key)
                     /\ UNCHANGED <<loc, inc, ref, move>>
  \/ (\E p \in pend : RollbackRow(p)) /\ UNCHANGED <<sync, move>>
  \/ (\E k \in Keys : Update(k) \/ Grow(k)) /\ UNCHANGED <<sync, move>>
  \/ SqlClean(mig.gone) /\ UNCHANGED <<sync, move>>

Inc     == IncStep /\ UNCHANGED <<tables, move>>
Refresh == RefStep /\ UNCHANGED <<tables, move>>

Same == UNCHANGED <<setup, keycol, pend, drawn, age, val, faults, sync>>

Migrate == MigStep /\ Same
Clean   == DelStep /\ Same

Fault == /\ Faulty
         /\ \/ (IncFault \/ RefFault) /\ UNCHANGED <<tab, move>>
            \/ (MigFault \/ DelEnds) /\ UNCHANGED sync

Next == Writer \/ Inc \/ Refresh \/ Migrate \/ Clean \/ Fault

Spec == Init /\ [][Next]_vars

\* procctl starts each tool again; a session that waits for a row gets it when
\* the holder commits, before who asks later.
FairSpec == /\ Spec
            /\ SF_vars(Inc)
            /\ WF_vars(Refresh)
            /\ WF_vars(Migrate)
            /\ WF_vars(Clean)

-----------------------------------------------------------------------------
\* Types; a program that is to insert has rows to insert; no two sessions hold
\* the same new key; and what syncinc is about to commit is not there yet.
TypeOK == TablesType /\ SyncType /\ MoveType

\* A committed row is in the table or in the history, never in both, until it
\* is old enough to be deleted: whatever migratetable, deletetable, the script
\* and the faults do between them.  Excepted, when the key column is rowid, is
\* a row put at the rowid of a selected one after that was deleted.
Copies(k) == his[k] + IF k \in Rows THEN 1 ELSE 0

Kept ==
  setup \in {"migrate", "clean"} =>
    \A k \in Keys :
      age[k] # None =>
        /\ Copies(k) <= 1
        /\ age[k] < 2 /\ ~(keycol = "rowid" /\ k \in swept) => Copies(k) = 1

\* syncinc goes past no row of the table: one with a key below the greatest
\* local one is in the local table.  Excepted are a row that committed after a
\* greater key had been selected or copied, one below a key that syncref or
\* another row's rowid brought, and the rows of a commit that failed.
SkipsNothing ==
  setup \in {"inc", "inc_batches"} =>
    \A k \in Rows : k < Greatest(DOMAIN loc) => k \in DOMAIN loc \cup excused

\* When the writers rest, the tables come to agree and stay so, whatever failed
\* before: syncinc has copied each row not excused, the recent rows are as
\* syncref finds them, a refreshed table is the table, old rows have left for
\* the history and older ones have left both.  The last batch of a result is
\* executed though it is not full, and what a failure undid is done again.
Settled ==
  /\ setup \in {"inc", "inc_batches"} => Rows \subseteq DOMAIN loc \cup excused
  /\ setup \in {"batches", "inc_batches"} =>
       \A k \in Rows : age[k] = 0 => k \in DOMAIN loc /\ loc[k] = val[k]
  /\ setup = "refresh" => loc = Values(Rows)
  /\ setup = "migrate" => \A k \in Rows : age[k] = 0
  /\ setup \in {"migrate", "clean"} => \A k \in Keys : age[k] = 2 => Copies(k) = 0

CatchesUp == <>[]Settled
=============================================================================
