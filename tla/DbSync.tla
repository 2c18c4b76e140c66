------------------------------- MODULE DbSync -------------------------------
(* syncinc, which copies the rows whose key is beyond the greatest of the   *)
(* local table, and syncref, which deletes local rows and inserts them      *)
(* afresh.  A session's inserts and deletes are seen by the others when it  *)
(* commits; the insert of a key another session holds waits for it, and     *)
(* fails if the key is there (the documented unique key of the local table).*)
EXTENDS DbTables

VARIABLES
  loc,      \* the local table: its keys' values
  inc,      \* syncinc
  ref,      \* syncref
  excused   \* rows the keys went past for a reason that SkipsNothing names

sync == <<loc, inc, ref, excused>>

Idle == [at |-> "off", max |-> 0, sel |-> {}, batch |-> {}, ins |-> << >>]
RefIdle == [at |-> "off", sel |-> {}, batch |-> {}, del |-> {}, ins |-> << >>]

SyncInit == /\ loc = << >>
            /\ inc = Idle
            /\ ref = RefIdle
            /\ excused = {}

Greatest(S) == CHOOSE k \in S \cup {0} : \A j \in S : j <= k

Values(R) == [k \in R |-> val[k]]

\* A table with what was inserted in it.
With(ins, l) == [k \in DOMAIN ins \cup DOMAIN l |->
                   IF k \in DOMAIN ins THEN ins[k] ELSE l[k]]

\* What the rows of T1 below a key that is, or will be, in the local table and
\* that are not there have missed.
Past(S, l) == {k \in Rows \ DOMAIN l : k < Greatest(S)}

-----------------------------------------------------------------------------
(* syncinc                                                                 *)

\* A row that commits when a greater key was copied or is on its way.
Late(k) ==
  IF k < Greatest(DOMAIN loc \cup {inc.max} \cup {r.key : r \in inc.sel} \cup DOMAIN inc.ins)
  THEN {k} ELSE {}

IncStart == /\ inc.at = "off"
            /\ inc' = [inc EXCEPT !.at = "load"]
            /\ UNCHANGED <<loc, ref, excused>>

LoadMaxKey == /\ inc.at = "load"
              /\ inc' = [inc EXCEPT !.at = "select", !.max = Greatest(DOMAIN loc)]
              /\ UNCHANGED <<loc, ref, excused>>

IncSelect ==
  /\ inc.at = "select"
  /\ LET sel == Found({k \in Rows : k > inc.max})
     IN inc' = [inc EXCEPT !.at = IF sel = {} THEN "load" ELSE "insert", !.sel = sel]
  /\ UNCHANGED <<loc, ref, excused>>

\* Mutant: no order by.
Unordered == Batches(inc.sel)

\* order by keyid.
Ordered == {B \in Batches(inc.sel) : \A a \in B, b \in inc.sel \ B : a.key < b.key}

\* What stands at the rowids now.
IncInsert ==
  /\ inc.at = "insert"
  /\ \E B \in Ordered :
       LET rows == {tab[r.slot] : r \in B} \ {None}
       IN /\ rows \cap (DOMAIN ref.ins \cup ref.del) = {}
          /\ IF rows \cap DOMAIN loc # {} THEN inc' = Idle
             ELSE inc' = [inc EXCEPT !.at = "commit", !.batch = B, !.ins = Values(rows)]
  /\ UNCHANGED <<loc, ref, excused>>

\* The next batch; after the last one the next round starts at once.
IncNext == LET rest == inc.sel \ inc.batch
           IN inc' = [Idle EXCEPT !.at = IF rest = {} THEN "load" ELSE "insert",
                                  !.sel = rest]

\* Rows that stand at the rowid of a selected one make the key jump.
IncCommit ==
  /\ inc.at = "commit"
  /\ loc' = With(inc.ins, loc)
  /\ excused' = excused \cup Past(DOMAIN inc.ins \ {r.key : r \in inc.batch}, loc')
  /\ IncNext
  /\ UNCHANGED ref

\* The result of commit() is not tested: the rows are rolled back, and the next
\* batch goes past them.
IncCommitFails ==
  /\ inc.at = "commit"
  /\ excused' = excused \cup DOMAIN inc.ins
  /\ IncNext
  /\ UNCHANGED <<loc, ref>>

\* A failed statement, a signal, kill -9: the session's changes are undone.
IncEnds == /\ inc.at # "off"
           /\ inc' = Idle
           /\ UNCHANGED <<loc, ref, excused>>

IncStep == /\ setup \in {"inc", "inc_batches"}
           /\ IncStart \/ LoadMaxKey \/ IncSelect \/ IncInsert \/ IncCommit

IncFault == setup \in {"inc", "inc_batches"} /\ (IncCommitFails \/ IncEnds)

-----------------------------------------------------------------------------
(* syncref                                                                 *)

\* synctype 1: all the rows in one transaction.
RefDeleteAll ==
  /\ setup = "refresh" /\ ref.at = "off"
  /\ ref' = [ref EXCEPT !.at = "insert", !.del = DOMAIN loc, !.batch = Keys]
  /\ UNCHANGED <<loc, inc, excused>>

\* synctype 2: the keys of the recent rows, in no order.
RefSelect ==
  /\ setup \in {"batches", "inc_batches"} /\ ref.at = "off"
  /\ LET sel == {k \in Rows : age[k] = 0}
     IN sel # {} /\ ref' = [ref EXCEPT !.at = "delete", !.sel = sel]
  /\ UNCHANGED <<loc, inc, excused>>

RefDelete ==
  /\ ref.at = "delete"
  /\ \E B \in Batches(ref.sel) :
       ref' = [ref EXCEPT !.at = "insert", !.batch = B, !.del = B \cap DOMAIN loc]
  /\ UNCHANGED <<loc, inc, excused>>

\* A key that came after the delete makes the insert, and the program, fail.
RefInsert ==
  /\ ref.at = "insert"
  /\ LET rows == ref.batch \cap Rows
     IN /\ rows \cap DOMAIN inc.ins = {}
        /\ IF rows \cap (DOMAIN loc \ ref.del) # {} THEN ref' = RefIdle
           ELSE ref' = [ref EXCEPT !.at = "commit", !.ins = Values(rows)]
  /\ UNCHANGED <<loc, inc, excused>>

RefNext == LET rest == ref.sel \ ref.batch
           IN ref' = [RefIdle EXCEPT !.at = IF rest = {} THEN "off" ELSE "delete",
                                     !.sel = rest]

RefCommit ==
  /\ ref.at = "commit"
  /\ loc' = With(ref.ins, [k \in DOMAIN loc \ ref.del |-> loc[k]])
  /\ excused' = excused \cup Past(DOMAIN ref.ins, loc')
  /\ RefNext
  /\ UNCHANGED inc

RefCommitFails == /\ ref.at = "commit"
                  /\ RefNext
                  /\ UNCHANGED <<loc, inc, excused>>

RefEnds == /\ ref.at # "off"
           /\ ref' = RefIdle
           /\ UNCHANGED <<loc, inc, excused>>

RefStep == RefDeleteAll \/ RefSelect \/ RefDelete \/ RefInsert \/ RefCommit

RefFault == RefCommitFails \/ RefEnds

SyncType ==
  /\ DOMAIN loc \subseteq Keys
  /\ inc.at \in {"off", "load", "select", "insert", "commit"}
  /\ inc.at = "insert" => inc.sel # {}
  /\ DOMAIN inc.ins \subseteq Keys \ DOMAIN loc
  /\ ref.at \in {"off", "delete", "insert", "commit"}
  /\ DOMAIN ref.ins \cap DOMAIN loc \subseteq ref.del
  /\ DOMAIN ref.ins \cap DOMAIN inc.ins = {}
  /\ excused \subseteq Keys
=============================================================================
