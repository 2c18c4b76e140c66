------------------------------ MODULE DbTables ------------------------------
(* The table T_ZHOBTMIND1 as the tools that start.sh runs on it see it.     *)
(* Rows are put there by transactions that draw their keyid from a sequence *)
(* when they insert and may commit in another order; they grow old, and the *)
(* SQL script deletes the old ones.  A row stands at a rowid, which the     *)
(* database gives to another row once the first is gone (and which is the   *)
(* key, or not, of the tools' statements).                                  *)
EXTENDS Integers, FiniteSets

CONSTANTS
  MaxKey,     \* rows of a behaviour
  MaxShared,  \* rows of one where two tools write the local table
  Slots,      \* rowids
  MaxCount,   \* starg.maxcount, rows of a batch
  MaxFaults,  \* faults of a behaviour
  None

ASSUME TablesAssumption ==
  /\ MaxKey \in Nat /\ MaxShared \in 0..MaxKey /\ MaxCount \in Nat \ {0} /\ MaxFaults \in Nat
  /\ IsFiniteSet(Slots) /\ None \notin Slots \cup Nat

Keys == 1..MaxKey

\* Which tools are started on the table: incremental synchronisation, alone
\* or with refreshing in batches; refreshing at once; migration and the
\* cleaning of its target; cleaning of the table itself.
Setups == {"inc", "inc_batches", "batches", "refresh", "migrate", "clean"}

VARIABLES
  setup,
  keycol,   \* starg.keycol of migration and cleaning, rowid or keyid
  tab,      \* the committed row at each rowid
  pend,     \* inserted and not committed
  drawn,    \* the sequence of keyid
  age,      \* of a committed row: 0 recent, 1 to be migrated, 2 to be deleted
  val,      \* what the row's other columns hold; one row changes, once
  faults

tables == <<setup, keycol, tab, pend, drawn, age, val, faults>>

Rows == {tab[s] : s \in Slots} \ {None}

\* One row as select finds it.
Found(R) == {[slot |-> s, key |-> tab[s]] : s \in {s \in Slots : tab[s] \in R}}

\* Mutant: only full batches are executed.
BatchesFull(S) == {B \in SUBSET S : Cardinality(B) = MaxCount}

\* The next rows of a result, in no order: maxcount of them, or the rest.
Batches(S) ==
  {B \in SUBSET S : Cardinality(B) = IF Cardinality(S) < MaxCount THEN Cardinality(S)
                                     ELSE MaxCount}

TablesInit ==
  /\ setup \in Setups
  /\ keycol \in IF setup \in {"migrate", "clean"} THEN {"rowid", "keyid"} ELSE {"keyid"}
  /\ tab = [s \in Slots |-> None]
  /\ pend = {}
  /\ drawn = 0
  /\ age = [k \in Keys |-> None]
  /\ val = [k \in Keys |-> 0]
  /\ faults = 0

\* Where nobody goes by rowid it does not matter which one a row gets.
Free(locked) ==
  LET free == {s \in Slots \ locked : tab[s] = None /\ \A p \in pend : p.slot # s}
  IN IF free = {} \/ setup \in {"inc", "inc_batches"} \/ keycol = "rowid" THEN free
     ELSE {CHOOSE s \in free : TRUE}

\* A rowid whose deletion is not committed (locked) is not used again.
Insert(locked) ==
  /\ drawn < IF setup = "inc_batches" THEN MaxShared ELSE MaxKey
  /\ drawn' = drawn + 1
  /\ \E s \in Free(locked) : pend' = pend \cup {[slot |-> s, key |-> drawn + 1]}
  /\ UNCHANGED <<setup, keycol, tab, age, val, faults>>

CommitRow(p) ==
  /\ tab' = [tab EXCEPT ![p.slot] = p.key]
  /\ age' = [age EXCEPT ![p.key] = 0]
  /\ pend' = pend \ {p}
  /\ UNCHANGED <<setup, keycol, drawn, val, faults>>

\* The number drawn is not used again.
RollbackRow(p) ==
  /\ pend' = pend \ {p}
  /\ UNCHANGED <<setup, keycol, tab, drawn, age, val, faults>>

Update(k) ==
  /\ setup \in {"batches", "refresh"}
  /\ k \in Rows /\ \A j \in Keys : val[j] = 0
  /\ val' = [val EXCEPT ![k] = 1]
  /\ UNCHANGED <<setup, keycol, tab, pend, drawn, age, faults>>

\* Only migration tells 1 from 2.
Grow(k) ==
  /\ age[k] \in {0, 1}
  /\ age' = [age EXCEPT ![k] = IF setup = "migrate" THEN @ + 1 ELSE 2]
  /\ UNCHANGED <<setup, keycol, tab, pend, drawn, val, faults>>

\* One statement and its commit; it waits for rows somebody has deleted.
SqlClean(locked) ==
  LET old == {s \in Slots : tab[s] # None /\ age[tab[s]] = 2}
  IN /\ old # {} /\ old \cap locked = {}
     /\ tab' = [s \in Slots |-> IF s \in old THEN None ELSE tab[s]]
     /\ UNCHANGED <<setup, keycol, pend, drawn, age, val, faults>>

Faulty == /\ faults < MaxFaults
          /\ faults' = faults + 1
          /\ UNCHANGED <<setup, keycol, pend, drawn, age, val>>

TablesType ==
  /\ setup \in Setups /\ keycol \in {"rowid", "keyid"}
  /\ tab \in [Slots -> Keys \cup {None}]
  /\ pend \subseteq [slot : Slots, key : Keys]
  /\ \A p \in pend : tab[p.slot] = None /\ age[p.key] = None
  /\ drawn \in 0..MaxKey
  /\ age \in [Keys -> {None, 0, 1, 2}] /\ \A k \in Rows : age[k] # None
  /\ val \in [Keys -> {0, 1}]
  /\ faults \in 0..MaxFaults
=============================================================================
