--------------------------- MODULE DatabaseProofs ---------------------------
(***************************************************************************)
(* For any number of rows, rowids and faults and any size of a batch: no   *)
(* row is lost, or twice, between a table and its history (Kept), and      *)
(* syncinc goes past no row (SkipsNothing).                                *)
(*                                                                         *)
(* What the tools selected is used later, when other rows may stand at its *)
(* rowids.  The invariant says that no row comes back or changes its rowid *)
(* (Selected), so that what a batch inserted and what it deletes are the   *)
(* same rows but for those that came to one of its rowids (Moving), and    *)
(* that below each row still to be copied all rows are copied, excused or  *)
(* to be copied too (Copying).                                             *)
(***************************************************************************)
EXTENDS Database, TLAPS, WellFoundedInduction

Picks   == [slot : Slots, key : Keys]
Partial == UNION {[S -> {0, 1}] : S \in SUBSET Keys}

Incs == [at : {"off", "load", "select", "insert", "commit"}, max : 0..MaxKey,
         sel : SUBSET Picks, batch : SUBSET Picks, ins : Partial]
Refs == [at : {"off", "delete", "insert", "commit"}, sel : SUBSET Keys,
         batch : SUBSET Keys, del : SUBSET Keys, ins : Partial]
Migs == [at : {"off", "insert", "delete", "commit"}, todo : SUBSET Picks,
         batch : SUBSET Picks, ins : SUBSET Keys, gone : SUBSET Slots]
Dels == [at : {"off", "delete"}, todo : SUBSET [slot : Slots \cup {None}, key : Keys]]

SyncRecords == loc \in Partial /\ inc \in Incs /\ ref \in Refs
MoveRecords == mig \in Migs /\ del \in Dels

Types == TypeOK /\ SyncRecords /\ MoveRecords

\* A row was ever in the table.
Known(k) == age[k] # None

\* No two rows are at a rowid, nor will be, and a key is drawn once.
Apart ==
  /\ \A s, t \in Slots : tab[s] = tab[t] /\ tab[s] # None => s = t
  /\ \A p, q \in pend : p.slot = q.slot \/ p.key = q.key => p = q
  /\ \A k \in Keys : Known(k) => k <= drawn
  /\ \A p \in pend : p.key <= drawn

\* What was selected is still at its rowid, or gone for ever.
Selected(P) == \A r \in P : Known(r.key) /\ \A s \in Slots : tab[s] = r.key => s = r.slot

\* Migration: what it inserted in the history it is about to delete, and of
\* what it selected it deletes nothing else.
Moving ==
  /\ (setup # "migrate" => mig.at = "off") /\ (mig.at = "off" => mig.todo = {})
  /\ Selected(mig.todo)
  /\ mig.at \in {"delete", "commit"} =>
       /\ \A s \in Slots : tab[s] # None /\ tab[s] \in KeysOf(mig.batch) => tab[s] \in mig.ins
       /\ \A k \in mig.ins : his[k] = 0 /\ Known(k)
  /\ mig.at = "delete" => \A s \in Slots : tab[s] \in mig.ins => s \in Hit(mig.batch)
  /\ mig.at = "commit" => \A s \in Slots : tab[s] \in mig.ins => s \in mig.gone
  /\ \A s \in mig.gone : tab[s] # None /\ (keycol = "keyid" => tab[s] \in KeysOf(mig.batch))
  /\ mig.at # "commit" => mig.gone = {}
  /\ \A r \in del.todo : age[r.key] = 2 /\ (setup = "clean" => r \in Picks)

\* The history has rows that were in the table and are not.
History ==
  /\ \A k \in Keys : his[k] \in {0, 1} /\ (his[k] = 1 => Known(k) /\ k \notin Rows)
  /\ setup \in {"migrate", "clean"} =>
       \A k \in Keys : Known(k) /\ age[k] < 2 /\ ~(keycol = "rowid" /\ k \in swept)
                         => his[k] = 1 \/ k \in Rows

\* Copied, or excused from being copied.
Done(k) == k \in DOMAIN loc \cup excused

\* Synchronisation: a row below one that is copied, or to be copied, is so too.
Copying ==
  /\ Selected(inc.sel) /\ inc.batch \subseteq inc.sel
  /\ inc.at \in {"off", "load", "select"} => inc.sel = {}
  /\ inc.max # 0 => Known(inc.max)
  /\ \A k \in DOMAIN loc \cup DOMAIN inc.ins \cup DOMAIN ref.ins : Known(k)
  /\ \A k \in Rows : k <= inc.max => Done(k)
  /\ \A k \in Rows, r \in inc.sel : k < r.key => Done(k) \/ k \in KeysOf(inc.sel)
  /\ inc.at = "commit" =>
       /\ \A r \in inc.batch : r.key \in Rows => r.key \in DOMAIN inc.ins
       /\ \A a \in inc.batch, b \in inc.sel \ inc.batch : a.key < b.key
  /\ \A k \in Rows, j \in DOMAIN loc : k < j => Done(k)

\* Refreshing in batches deletes no row that it does not insert again.
Refreshing ==
  /\ ref.at # "commit" => DOMAIN ref.ins = {}
  /\ ref.at # "off" => setup \in {"refresh", "batches", "inc_batches"}
  /\ setup # "refresh" =>
       /\ ref.del \subseteq ref.batch
       /\ \A k \in ref.sel \cup ref.batch : Known(k)
       /\ ref.at = "commit" => \A k \in Rows \cap ref.batch : k \in DOMAIN ref.ins

IInv ==
  /\ Types /\ Apart /\ Moving /\ History /\ Refreshing
  /\ setup \in {"inc", "inc_batches"} => Copying

USE TablesAssumption

-----------------------------------------------------------------------------
(* Facts about the operators.                                              *)

\* A set of keys, empty or not, has a greatest element, or 0.
LEMMA GreatestFact ==
  ASSUME NEW S \in SUBSET (0..MaxKey)
  PROVE  /\ Greatest(S) \in S \cup {0} /\ Greatest(S) \in 0..MaxKey
         /\ \A j \in S : j <= Greatest(S)
<1>. DEFINE T == {MaxKey - k : k \in S \cup {0}}
<1>1. T \subseteq Nat /\ T # {}
  OBVIOUS
<1>2. PICK m \in T : \A y \in T : ~(<<y, m>> \in OpToRel(<, Nat))
  BY <1>1, NatLessThanWellFounded, WFMin
<1>3. PICK g \in S \cup {0} : m = MaxKey - g
  OBVIOUS
<1>4. \A j \in S \cup {0} : j <= g
  <2>1. SUFFICES ASSUME NEW j \in S \cup {0}, ~(j <= g) PROVE FALSE
    OBVIOUS
  <2>2. MaxKey - j \in T /\ MaxKey - j < m /\ MaxKey - j \in Nat /\ m \in Nat
    BY <1>1, <1>3, <2>1
  <2>3. <<MaxKey - j, m>> \in OpToRel(<, Nat)
    BY <2>2 DEF OpToRel
  <2>. QED
    BY <1>2, <2>2, <2>3
<1>5. \E k \in S \cup {0} : \A j \in S : j <= k
  BY <1>4
<1>6. PICK g2 : g2 = Greatest(S)
  OBVIOUS
<1>7. g2 \in S \cup {0} /\ \A j \in S : j <= g2
  BY <1>5, <1>6 DEF Greatest
<1>. QED
  BY <1>6, <1>7

\* The empty function is a partial one, and partial functions put together are.
LEMMA PartialFacts ==
  /\ << >> \in Partial /\ DOMAIN << >> = {}
  /\ \A f \in Partial : DOMAIN f \in SUBSET Keys
  /\ \A f, g \in Partial : With(f, g) \in Partial /\ DOMAIN With(f, g) = DOMAIN f \cup DOMAIN g
<1>1. << >> \in [{} -> {0, 1}] /\ DOMAIN << >> = {}
  OBVIOUS
<1>2. << >> \in Partial
  BY <1>1 DEF Partial
<1>3. \A f \in Partial : DOMAIN f \in SUBSET Keys /\ f \in [DOMAIN f -> {0, 1}]
  BY DEF Partial
<1>4. ASSUME NEW f \in Partial, NEW g \in Partial
      PROVE With(f, g) \in Partial /\ DOMAIN With(f, g) = DOMAIN f \cup DOMAIN g
  <2>. DEFINE D == DOMAIN f \cup DOMAIN g
  <2>1. With(f, g) \in [D -> {0, 1}] /\ DOMAIN With(f, g) = D
    BY <1>3 DEF With
  <2>2. D \in SUBSET Keys
    BY <1>3
  <2>. QED
    BY <2>1, <2>2 DEF Partial
<1>. QED
  BY <1>1, <1>2, <1>3, <1>4

\* The values of rows are a partial function.
LEMMA ValuesFacts ==
  ASSUME val \in [Keys -> {0, 1}], NEW R \in SUBSET Keys
  PROVE  Values(R) \in Partial /\ DOMAIN Values(R) = R
<1>1. Values(R) \in [R -> {0, 1}] /\ DOMAIN Values(R) = R
  BY DEF Values
<1>. QED
  BY <1>1 DEF Partial

\* The invariant holds of empty tables and programs not yet started.
LEMMA InitInv == Init => IInv
<1>. SUFFICES ASSUME Init PROVE IInv
  OBVIOUS
<1>1. Rows = {} /\ \A k \in Keys : ~Known(k)
  BY DEF Init, TablesInit, Rows, Known
<1>2. TablesType
  <2>1. drawn \in 0..MaxKey /\ faults \in 0..MaxFaults
    BY DEF Init, TablesInit
  <2>2. setup \in Setups /\ keycol \in {"rowid", "keyid"}
    BY DEF Init, TablesInit
  <2>3. tab \in [Slots -> Keys \cup {None}] /\ age \in [Keys -> {None, 0, 1, 2}] /\ val \in [Keys -> {0, 1}]
    BY DEF Init, TablesInit
  <2>. QED
    BY <1>1, <2>1, <2>2, <2>3 DEF TablesType, Init, TablesInit
<1>3. SyncRecords /\ SyncType
  BY PartialFacts DEF Init, SyncInit, Idle, RefIdle, SyncRecords, SyncType, Incs, Refs
<1>4. MoveRecords /\ MoveType
  BY DEF Init, MoveInit, MigIdle, DelIdle, MoveRecords, MoveType, Migs, Dels
<1>5. Apart
  BY DEF Init, TablesInit, Apart, Known
<1>6. Moving
  BY DEF Init, MoveInit, MigIdle, DelIdle, Moving, Selected
<1>7. History
  BY <1>1 DEF Init, MoveInit, History
<1>8. Refreshing
  BY PartialFacts DEF Init, SyncInit, RefIdle, Refreshing
<1>9. Copying
  BY <1>1, PartialFacts DEF Init, SyncInit, Idle, RefIdle, Copying, Selected
<1>. QED
  BY <1>2, <1>3, <1>4, <1>5, <1>6, <1>7, <1>8, <1>9 DEF IInv, Types, TypeOK

-----------------------------------------------------------------------------
(* What a step leaves alone keeps its part of the invariant.               *)

Fewer     == \A s \in Slots : tab'[s] = tab[s] \/ tab'[s] = None
Remembers == \A k \in Keys : Known(k) => Known(k)'

\* Where rows only go, those left are where they were.
LEMMA FewerFacts ==
  ASSUME Fewer
  PROVE  /\ Rows' \subseteq Rows
         /\ \A s \in Slots : tab'[s] # None => tab'[s] = tab[s]
  BY DEF Fewer, Rows

\* Rows that go leave a selection valid: they do not come back.
LEMMA SelectedKeeps ==
  ASSUME Fewer, Remembers, NEW P \in SUBSET [slot : Slots \cup {None}, key : Keys], Selected(P)
  PROVE  Selected(P)'
<1>1. SUFFICES ASSUME NEW r \in P
      PROVE Known(r.key)' /\ \A s \in Slots : tab'[s] = r.key => s = r.slot
  BY DEF Selected
<1>2. r.key \in Keys /\ Known(r.key) /\ r.key # None
  BY DEF Selected, Keys
<1>3. Known(r.key)'
  BY <1>2 DEF Remembers, Known
<1>. QED
  BY <1>2, <1>3 DEF Selected, Fewer

\* A step that leaves the table alone keeps its types and its rowids.
LEMMA TablesKeeps ==
  ASSUME IInv, UNCHANGED tables
  PROVE  TablesType' /\ Apart'
  BY DEF IInv, Types, TypeOK, TablesType, Apart, tables, Rows, Known

\* A step that leaves the two synchronisations alone keeps their types.
LEMMA SyncKeeps ==
  ASSUME IInv, UNCHANGED sync
  PROVE  SyncRecords' /\ SyncType'
  BY DEF IInv, Types, TypeOK, SyncRecords, SyncType, sync

\* A step that leaves migration and cleaning alone keeps their types.
LEMMA MoveKeeps ==
  ASSUME IInv, UNCHANGED move
  PROVE  MoveRecords' /\ MoveType'
  BY DEF IInv, Types, TypeOK, MoveRecords, MoveType, move

\* Rows may go, unless migration's session has deleted them.
LEMMA MovingKeeps ==
  ASSUME IInv, Fewer, Remembers, UNCHANGED <<setup, keycol, mig>>,
         \A s \in mig.gone : tab'[s] = tab[s],
         \A k \in Keys : his[k] = 0 => his'[k] = 0,
         \A r \in del'.todo : age'[r.key] = 2 /\ (setup = "clean" => r \in Picks)
  PROVE  Moving'
<1>1. /\ mig.todo \in SUBSET Picks /\ mig.batch \in SUBSET Picks
      /\ mig.ins \in SUBSET Keys /\ mig.gone \in SUBSET Slots
  BY DEF IInv, Types, MoveRecords, Migs, Dels
<1>2. Selected(mig.todo)'
  <2>1. mig.todo \in SUBSET [slot : Slots \cup {None}, key : Keys] /\ Selected(mig.todo)
    BY <1>1 DEF IInv, Moving, Picks
  <2>2. PICK P : P = mig.todo
    OBVIOUS
  <2>3. Selected(P)'
    BY <2>1, <2>2, SelectedKeeps
  <2>. QED
    BY <2>2, <2>3 DEF Selected
<1>3. \A s \in Slots : tab'[s] # None => tab'[s] = tab[s]
  BY FewerFacts
<1>4. \A k \in mig.ins : Known(k) => Known(k)'
  BY <1>1 DEF Remembers
<1>5. None \notin mig.ins
  BY <1>1 DEF Keys
<1>6. KeysOf(mig.batch)' = KeysOf(mig.batch)
  BY DEF KeysOf
<1>7. ((setup # "migrate" => mig.at = "off") /\ (mig.at = "off" => mig.todo = {}))'
  BY DEF IInv, Moving
<1>8. (mig.at \in {"delete", "commit"} =>
       /\ \A s \in Slots : tab[s] # None /\ tab[s] \in KeysOf(mig.batch) => tab[s] \in mig.ins
       /\ \A k \in mig.ins : his[k] = 0 /\ Known(k))'
  BY <1>1, <1>3, <1>4, <1>6 DEF IInv, Moving
<1>9. (mig.at = "delete" => \A s \in Slots : tab[s] \in mig.ins => s \in Hit(mig.batch))'
  <2>1. SUFFICES ASSUME mig.at = "delete", NEW s \in Slots, tab'[s] \in mig.ins
        PROVE s \in Hit(mig.batch)'
    OBVIOUS
  <2>2. tab'[s] = tab[s] /\ tab[s] # None /\ s \in Hit(mig.batch)
    BY <1>3, <1>5, <2>1 DEF IInv, Moving
  <2>. QED
    BY <1>6, <2>2 DEF Hit
<1>10. (mig.at = "commit" => \A s \in Slots : tab[s] \in mig.ins => s \in mig.gone)'
  BY <1>3, <1>5 DEF IInv, Moving
<1>11. (\A s \in mig.gone : tab[s] # None /\ (keycol = "keyid" => tab[s] \in KeysOf(mig.batch)))'
  BY <1>6 DEF IInv, Moving
<1>12. (mig.at # "commit" => mig.gone = {})'
  BY DEF IInv, Moving
<1>. QED
  BY <1>2, <1>7, <1>8, <1>9, <1>10, <1>11, <1>12 DEF Moving

\* The same when no row goes.
LEMMA MovingSame ==
  ASSUME IInv, UNCHANGED <<setup, keycol, tab, mig, del, his>>, Remembers,
         \A k \in Keys : age[k] = 2 => age'[k] = 2
  PROVE  Moving'
<1>1. \A r \in del.todo : r.key \in Keys /\ age[r.key] = 2 /\ (setup = "clean" => r \in Picks)
  BY DEF IInv, Moving, Types, MoveRecords, Migs, Dels
<1>2. \A r \in del'.todo : age'[r.key] = 2 /\ (setup = "clean" => r \in Picks)
  BY <1>1
<1>. QED
  BY <1>2, MovingKeeps DEF Fewer

\* Rowids stay apart when rows go.
LEMMA ApartKeeps ==
  ASSUME IInv, Fewer, UNCHANGED <<pend, drawn, age>>
  PROVE  Apart'
  BY FewerFacts DEF IInv, Apart, Known

\* The table keeps its type when rows go.
LEMMA TablesTypeKeeps ==
  ASSUME IInv, Fewer, UNCHANGED <<setup, keycol, pend, drawn, age, val>>,
         tab' \in [Slots -> Keys \cup {None}], faults' \in 0..MaxFaults
  PROVE  TablesType'
<1>1. TablesType
  BY DEF IInv, Types, TypeOK
<1>2. \A p \in pend : tab'[p.slot] = None /\ age[p.key] = None
  BY <1>1 DEF TablesType, Fewer
<1>3. \A k \in Rows' : age[k] # None
  BY <1>1, FewerFacts DEF TablesType
<1>. QED
  BY <1>1, <1>2, <1>3 DEF TablesType

\* The history agrees with the table while neither changes.
LEMMA HistoryKeeps ==
  ASSUME IInv, UNCHANGED <<setup, keycol, tab, age, his, swept>>
  PROVE  History'
  BY DEF IInv, History, Rows, Known

\* syncref has nothing more to insert when rows go.
LEMMA RefreshingKeeps ==
  ASSUME IInv, Fewer, Remembers, UNCHANGED <<setup, ref>>
  PROVE  Refreshing'
<1>1. Rows' \subseteq Rows
  BY FewerFacts
<1>2. ref.sel \cup ref.batch \subseteq Keys
  BY DEF IInv, Types, SyncRecords, Incs, Refs
<1>. QED
  BY <1>1, <1>2 DEF IInv, Refreshing, Remembers

\* syncinc has nothing more to copy when rows go.
LEMMA CopyingKeeps ==
  ASSUME IInv, Copying, Fewer, Remembers, UNCHANGED <<loc, inc, ref>>, excused \subseteq excused'
  PROVE  Copying'
<1>1. Rows' \subseteq Rows
  BY FewerFacts
<1>2. \A k \in Rows : Done(k) => Done(k)'
  BY DEF Done
<1>3. loc \in Partial /\ inc.ins \in Partial /\ ref.ins \in Partial /\ inc.sel \in SUBSET Picks
      /\ inc.max \in 0..MaxKey
  BY DEF IInv, Types, SyncRecords, Incs, Refs
<1>4. DOMAIN loc \cup DOMAIN inc.ins \cup DOMAIN ref.ins \subseteq Keys
  BY <1>3, PartialFacts
<1>5. Selected(inc.sel)'
  <2>1. PICK P : P = inc.sel
    OBVIOUS
  <2>2. P \in SUBSET [slot : Slots \cup {None}, key : Keys] /\ Selected(P)
    BY <1>3, <2>1 DEF Copying, Picks
  <2>3. Selected(P)'
    BY <2>2, SelectedKeeps
  <2>. QED
    BY <2>1, <2>3 DEF Selected
<1>6. inc.max # 0 => Known(inc.max)'
  BY <1>3 DEF Copying, Remembers, Keys
<1>7. \A k \in DOMAIN loc \cup DOMAIN inc.ins \cup DOMAIN ref.ins : Known(k)'
  BY <1>4 DEF Copying, Remembers
<1>8. \A k \in Rows', r \in inc.sel : k < r.key => Done(k)' \/ k \in KeysOf(inc.sel)
  BY <1>1, <1>2 DEF Copying
<1>9. (\A k \in Rows : k <= inc.max => Done(k))' /\ (\A k \in Rows, j \in DOMAIN loc : k < j => Done(k))'
  BY <1>1, <1>2 DEF Copying
<1>10. (inc.at = "commit" =>
         /\ \A r \in inc.batch : r.key \in Rows => r.key \in DOMAIN inc.ins
         /\ \A a \in inc.batch, b \in inc.sel \ inc.batch : a.key < b.key)'
  BY <1>1 DEF Copying
<1>11. inc'.batch \subseteq inc'.sel /\ (inc.at \in {"off", "load", "select"} => inc.sel = {})'
  BY DEF Copying
<1>. QED
  BY <1>5, <1>6, <1>7, <1>8, <1>9, <1>10, <1>11 DEF Copying, KeysOf

-----------------------------------------------------------------------------
(* The writers and time.                                                   *)

\* A new row takes a rowid and a key that nobody has.
LEMMA InsertInv ==
  ASSUME IInv, Insert(mig.gone), UNCHANGED <<sync, move>>
  PROVE  IInv'
<1>. USE DEF IInv, Insert
<1>1. PICK s \in Free(mig.gone) : pend' = pend \cup {[slot |-> s, key |-> drawn + 1]}
  OBVIOUS
<1>2. s \in Slots /\ tab[s] = None /\ \A p \in pend : p.slot # s
  BY <1>1 DEF Free
<1>3. TablesType
  BY DEF Types, TypeOK
<1>4. drawn + 1 \in Keys /\ drawn \in 0..MaxKey /\ drawn + 1 \in 0..MaxKey
  BY <1>3 DEF TablesType, Keys
<1>5. age[drawn + 1] = None
  BY <1>4 DEF Apart, Known
<1>6. TablesType'
  <2>1. pend' \subseteq [slot : Slots, key : Keys] /\ \A p \in pend' : tab[p.slot] = None /\ age[p.key] = None
    BY <1>1, <1>2, <1>3, <1>4, <1>5 DEF TablesType
  <2>. QED
    BY <1>3, <1>4, <2>1 DEF TablesType, Rows
<1>7. Apart'
  <2>1. \A p \in pend : p.key <= drawn /\ p.key \in Int
    BY <1>3 DEF Apart, TablesType, Keys
  <2>2. \A p \in pend : p.key # drawn + 1
    BY <2>1, <1>4
  <2>3. \A p, q \in pend' : p.slot = q.slot \/ p.key = q.key => p = q
    BY <1>1, <1>2, <2>2 DEF Apart
  <2>4. \A k \in Keys : Known(k)' => k <= drawn'
    BY <1>4 DEF Apart, Known, Keys
  <2>5. \A p \in pend' : p.key <= drawn'
    BY <1>1, <1>4, <2>1
  <2>. QED
    BY <2>3, <2>4, <2>5 DEF Apart
<1>8. Fewer /\ Remembers
  BY DEF Fewer, Remembers, Known
<1>9. SyncRecords' /\ SyncType' /\ MoveRecords' /\ MoveType'
  BY SyncKeeps, MoveKeeps
<1>10. Moving' /\ History' /\ Refreshing'
  BY <1>8, MovingSame, HistoryKeeps, RefreshingKeeps DEF sync, move
<1>11. Copying => Copying'
  BY <1>8, CopyingKeeps DEF sync
<1>. QED
  BY <1>6, <1>7, <1>9, <1>10, <1>11 DEF Types, TypeOK

\* A row rolled back was nobody's.
LEMMA RollbackInv ==
  ASSUME IInv, NEW p \in pend, RollbackRow(p), UNCHANGED <<sync, move>>
  PROVE  IInv'
<1>. USE DEF IInv, RollbackRow
<1>1. TablesType' /\ Apart'
  BY DEF Types, TypeOK, TablesType, Apart, Rows, Known
<1>2. Fewer /\ Remembers
  BY DEF Fewer, Remembers, Known
<1>3. SyncRecords' /\ SyncType' /\ MoveRecords' /\ MoveType'
  BY SyncKeeps, MoveKeeps
<1>4. Moving' /\ History' /\ Refreshing'
  BY <1>2, MovingSame, HistoryKeeps, RefreshingKeeps DEF sync, move
<1>5. Copying => Copying'
  BY <1>2, CopyingKeeps DEF sync
<1>. QED
  BY <1>1, <1>3, <1>4, <1>5 DEF Types, TypeOK

\* Who changes a value changes no key.
LEMMA UpdateInv ==
  ASSUME IInv, NEW k \in Keys, Update(k), UNCHANGED <<sync, move>>
  PROVE  IInv'
<1>. USE DEF IInv, Update
<1>1. TablesType'
  BY DEF Types, TypeOK, TablesType, Rows
<1>2. Apart'
  BY DEF Apart, Known
<1>3. Fewer /\ Remembers
  BY DEF Fewer, Remembers, Known
<1>4. SyncRecords' /\ SyncType' /\ MoveRecords' /\ MoveType'
  BY SyncKeeps, MoveKeeps
<1>5. Moving' /\ History' /\ Refreshing'
  BY <1>3, MovingSame, HistoryKeeps, RefreshingKeeps DEF sync, move
<1>6. Copying => Copying'
  BY <1>3, CopyingKeeps DEF sync
<1>. QED
  BY <1>1, <1>2, <1>4, <1>5, <1>6 DEF Types, TypeOK

\* A row that grows old stays known.
LEMMA GrowInv ==
  ASSUME IInv, NEW k \in Keys, Grow(k), UNCHANGED <<sync, move>>
  PROVE  IInv'
<1>. USE DEF IInv, Grow
<1>1. TablesType
  BY DEF Types, TypeOK
<1>2. age'[k] \in {1, 2} /\ \A j \in Keys \ {k} : age'[j] = age[j]
  BY <1>1 DEF TablesType
<1>3. age' \in [Keys -> {None, 0, 1, 2}]
  BY <1>1, <1>2 DEF TablesType
<1>4. age[k] # None /\ age'[k] # None
  BY <1>2
<1>5. \A j \in Keys : Known(j) <=> Known(j)'
  BY <1>2, <1>4 DEF Known
<1>6. TablesType'
  <2>1. \A p \in pend : age'[p.key] = None
    BY <1>1, <1>2, <1>4 DEF TablesType
  <2>2. \A j \in Rows : j \in Keys /\ age'[j] # None
    BY <1>1, <1>2, <1>4 DEF TablesType, Rows
  <2>. QED
    BY <1>1, <1>3, <2>1, <2>2 DEF TablesType, Rows
<1>7. Apart'
  BY <1>5 DEF Apart
<1>8. Fewer /\ Remembers
  BY <1>5 DEF Fewer, Remembers
<1>9. SyncRecords' /\ SyncType' /\ MoveRecords' /\ MoveType'
  BY SyncKeeps, MoveKeeps
<1>10. Moving'
  <2>1. \A j \in Keys : age[j] = 2 => age'[j] = 2
    BY <1>2
  <2>. QED
    BY <1>8, <2>1, MovingSame DEF move
<1>11. History'
  <2>1. \A j \in Keys : Known(j) /\ age'[j] < 2 => age[j] < 2
    BY <1>1, <1>2 DEF TablesType
  <2>. QED
    BY <1>5, <2>1 DEF History, move, Rows
<1>12. Refreshing' /\ (Copying => Copying')
  BY <1>8, RefreshingKeeps, CopyingKeeps DEF sync
<1>. QED
  BY <1>6, <1>7, <1>9, <1>10, <1>11, <1>12 DEF Types, TypeOK

\* A row below a key that is copied, or on its way, commits too late.
LEMMA LateFacts ==
  ASSUME IInv, NEW k \in Keys
  PROVE  /\ k < inc.max => k \in Late(k)
         /\ \A j \in DOMAIN loc : k < j => k \in Late(k)
         /\ \A r \in inc.sel : k < r.key => k \in Late(k)
         /\ Late(k) \subseteq {k}
<1>. DEFINE S == DOMAIN loc \cup {inc.max} \cup {r.key : r \in inc.sel} \cup DOMAIN inc.ins
<1>1. loc \in Partial /\ inc.ins \in Partial /\ inc.sel \in SUBSET Picks /\ inc.max \in 0..MaxKey
  BY DEF IInv, Types, SyncRecords, Incs, Refs
<1>2. \A r \in inc.sel : r.key \in Keys
  BY <1>1 DEF Picks
<1>3. S \in SUBSET (0..MaxKey)
  BY <1>1, <1>2, PartialFacts DEF Keys
<1>4. Greatest(S) \in 0..MaxKey /\ \A j \in S : j <= Greatest(S)
  BY <1>3, GreatestFact
<1>5. \A j \in S : k < j => k < Greatest(S)
  <2>1. ASSUME NEW g, g \in 0..MaxKey, NEW j \in 0..MaxKey, j <= g, k < j PROVE k < g
    BY <2>1 DEF Keys
  <2>. HIDE DEF S
  <2>. QED
    BY <1>3, <1>4, <2>1
<1>6. Late(k) = IF k < Greatest(S) THEN {k} ELSE {}
  BY DEF Late
<1>. QED
  BY <1>5, <1>6

\* A row that commits is a new one.
LEMMA CommitFacts ==
  ASSUME IInv, NEW p \in pend, CommitRow(p)
  PROVE  /\ p.slot \in Slots /\ p.key \in Keys /\ p.key # None
         /\ ~Known(p.key) /\ Known(p.key)' /\ tab[p.slot] = None
         /\ tab'[p.slot] = p.key /\ \A s \in Slots \ {p.slot} : tab'[s] = tab[s]
         /\ \A k \in Keys \ {p.key} : age'[k] = age[k]
         /\ Rows' = Rows \cup {p.key} /\ p.key \notin Rows
         /\ Remembers
<1>1. TablesType
  BY DEF IInv, Types, TypeOK
<1>2. p.slot \in Slots /\ p.key \in Keys /\ tab[p.slot] = None /\ age[p.key] = None
  BY <1>1 DEF TablesType
<1>3. p.key # None /\ 0 # None
  BY <1>2 DEF Keys
<1>4. tab'[p.slot] = p.key /\ \A s \in Slots \ {p.slot} : tab'[s] = tab[s]
  BY <1>1, <1>2 DEF CommitRow, TablesType
<1>5. age'[p.key] = 0 /\ \A k \in Keys \ {p.key} : age'[k] = age[k]
  BY <1>1, <1>2 DEF CommitRow, TablesType
<1>6. Rows' = Rows \cup {p.key}
  BY <1>2, <1>3, <1>4 DEF Rows
<1>7. p.key \notin Rows
  BY <1>1, <1>2 DEF TablesType
<1>. QED
  BY <1>2, <1>3, <1>4, <1>5, <1>6, <1>7 DEF Known, Remembers

\* A row that commits is in no selection made before.
LEMMA CommitSelected ==
  ASSUME IInv, NEW p \in pend, CommitRow(p),
         NEW P \in SUBSET Picks, Selected(P)
  PROVE  Selected(P)' /\ p.key \notin KeysOf(P)
<1>1. SUFFICES ASSUME NEW r \in P
      PROVE Known(r.key)' /\ p.key # r.key /\ \A s \in Slots : tab'[s] = r.key => s = r.slot
  BY DEF Selected, KeysOf
<1>2. r.key \in Keys /\ Known(r.key)
  BY DEF Picks, Selected
<1>. QED
  BY <1>2, CommitFacts DEF Selected, Remembers

\* A row that commits, at whatever rowid, is not one that migration has inserted.
LEMMA CommitMoving ==
  ASSUME IInv, NEW p \in pend, CommitRow(p), UNCHANGED move
  PROVE  Moving'
<1>1. /\ mig.todo \in SUBSET Picks /\ mig.batch \in SUBSET Picks
      /\ mig.ins \in SUBSET Keys /\ mig.gone \in SUBSET Slots /\ mig.batch \subseteq mig.todo
      /\ del.todo \in SUBSET [slot : Slots \cup {None}, key : Keys]
  BY DEF IInv, Types, TypeOK, MoveRecords, MoveType, Migs, Dels
<1>2. UNCHANGED <<setup, keycol, mig, del, his>>
  BY DEF CommitRow, move
<1>3. Selected(mig.todo)' /\ p.key \notin KeysOf(mig.batch)
  <2>1. PICK P : P = mig.todo
    OBVIOUS
  <2>2. P \in SUBSET Picks /\ Selected(P)
    BY <1>1, <2>1 DEF IInv, Moving
  <2>3. Selected(P)' /\ p.key \notin KeysOf(P)
    BY <2>2, CommitSelected
  <2>. QED
    BY <1>1, <1>2, <2>1, <2>3 DEF Selected, KeysOf
<1>4. KeysOf(mig.batch)' = KeysOf(mig.batch)
  BY <1>2 DEF KeysOf
<1>5. mig.at \in {"delete", "commit"} => p.key \notin mig.ins
  BY CommitFacts DEF IInv, Moving
<1>6. (mig.at \in {"delete", "commit"} =>
       /\ \A s \in Slots : tab[s] # None /\ tab[s] \in KeysOf(mig.batch) => tab[s] \in mig.ins
       /\ \A k \in mig.ins : his[k] = 0 /\ Known(k))'
  BY <1>1, <1>2, <1>3, <1>4, CommitFacts DEF IInv, Moving, Remembers
<1>7. (mig.at = "delete" => \A s \in Slots : tab[s] \in mig.ins => s \in Hit(mig.batch))'
  <2>1. SUFFICES ASSUME mig.at = "delete", NEW s \in Slots, tab'[s] \in mig.ins
        PROVE s \in Hit(mig.batch)'
    BY <1>2
  <2>2. tab'[s] = tab[s] /\ s \in Hit(mig.batch)
    BY <1>5, <2>1, CommitFacts DEF IInv, Moving
  <2>. QED
    BY <1>2, <1>4, <2>2 DEF Hit
<1>8. (mig.at = "commit" => \A s \in Slots : tab[s] \in mig.ins => s \in mig.gone)'
  BY <1>2, <1>5, CommitFacts DEF IInv, Moving
<1>9. (\A s \in mig.gone : tab[s] # None /\ (keycol = "keyid" => tab[s] \in KeysOf(mig.batch)))'
  <2>1. \A s \in mig.gone : s \in Slots /\ tab'[s] = tab[s]
    BY <1>1, CommitFacts DEF IInv, Moving
  <2>. QED
    BY <1>2, <1>4, <2>1 DEF IInv, Moving
<1>10. (\A r \in del.todo : age[r.key] = 2 /\ (setup = "clean" => r \in Picks))'
  <2>1. \A r \in del.todo : r.key \in Keys /\ age[r.key] = 2 /\ 2 # None /\ (setup = "clean" => r \in Picks)
    BY <1>1 DEF IInv, Moving
  <2>. QED
    BY <1>2, <2>1, CommitFacts DEF Known
<1>11. /\ ((setup # "migrate" => mig.at = "off") /\ (mig.at = "off" => mig.todo = {}))'
       /\ (mig.at # "commit" => mig.gone = {})'
  BY <1>2 DEF IInv, Moving
<1>. QED
  BY <1>3, <1>6, <1>7, <1>8, <1>9, <1>10, <1>11 DEF Moving

\* A row that commits below what syncinc copies is excused.
LEMMA CommitCopying ==
  ASSUME IInv, Copying, NEW p \in pend, CommitRow(p), excused' = excused \cup Late(p.key),
         UNCHANGED <<loc, inc, ref>>
  PROVE  Copying'
<1>1. loc \in Partial /\ inc.ins \in Partial /\ ref.ins \in Partial /\ inc.sel \in SUBSET Picks
      /\ inc.max \in 0..MaxKey
  BY DEF IInv, Types, SyncRecords, Incs, Refs
<1>2. DOMAIN loc \cup DOMAIN inc.ins \cup DOMAIN ref.ins \subseteq Keys
  BY <1>1, PartialFacts
<1>3. Rows' = Rows \cup {p.key} /\ p.key \in Keys /\ ~Known(p.key) /\ Remembers
  BY CommitFacts
<1>4. Selected(inc.sel)' /\ p.key \notin KeysOf(inc.sel)
  <2>1. PICK P : P = inc.sel
    OBVIOUS
  <2>2. P \in SUBSET Picks /\ Selected(P)
    BY <1>1, <2>1 DEF Copying
  <2>3. Selected(P)' /\ p.key \notin KeysOf(P)
    BY <2>2, CommitSelected
  <2>. QED
    BY <2>1, <2>3 DEF Selected, KeysOf
<1>5. \A k : Done(k) => Done(k)'
  BY DEF Done
<1>6. \A k \in Late(p.key) : Done(k)'
  BY DEF Done
<1>7. (\A k \in Rows : k <= inc.max => Done(k))'
  <2>1. p.key <= inc.max => p.key < inc.max
    BY <1>1, <1>3 DEF Copying, Keys
  <2>. QED
    BY <1>3, <1>5, <1>6, <2>1, LateFacts DEF Copying
<1>8. (\A k \in Rows, r \in inc.sel : k < r.key => Done(k) \/ k \in KeysOf(inc.sel))'
  BY <1>3, <1>5, <1>6, LateFacts DEF Copying, KeysOf
<1>9. (\A k \in Rows, j \in DOMAIN loc : k < j => Done(k))'
  BY <1>3, <1>5, <1>6, LateFacts DEF Copying
<1>10. (inc.at = "commit" =>
         /\ \A r \in inc.batch : r.key \in Rows => r.key \in DOMAIN inc.ins
         /\ \A a \in inc.batch, b \in inc.sel \ inc.batch : a.key < b.key)'
  BY <1>3, <1>4 DEF Copying, KeysOf
<1>11. (inc.max # 0 => Known(inc.max))'
  BY <1>1, <1>3 DEF Copying, Remembers, Keys
<1>12. (\A k \in DOMAIN loc \cup DOMAIN inc.ins \cup DOMAIN ref.ins : Known(k))'
  BY <1>2, <1>3 DEF Copying, Remembers
<1>13. (inc.batch \subseteq inc.sel /\ (inc.at \in {"off", "load", "select"} => inc.sel = {}))'
  BY DEF Copying
<1>. QED
  BY <1>4, <1>7, <1>8, <1>9, <1>10, <1>11, <1>12, <1>13 DEF Copying

\* A row that commits breaks nothing.
LEMMA CommitInv ==
  ASSUME IInv, NEW p \in pend, CommitRow(p), excused' = excused \cup Late(p.key),
         UNCHANGED <<loc, inc, ref, move>>
  PROVE  IInv'
<1>1. TablesType
  BY DEF IInv, Types, TypeOK
<1>2. pend' = pend \ {p} /\ UNCHANGED <<setup, keycol, drawn, val, faults>>
  BY DEF CommitRow
<1>3. \A q \in pend' : q.slot # p.slot /\ q.key # p.key /\ q.slot \in Slots /\ q.key \in Keys
                       /\ tab[q.slot] = None /\ age[q.key] = None
  BY <1>1, <1>2 DEF IInv, Apart, TablesType
<1>4. TablesType'
  <2>1. tab' \in [Slots -> Keys \cup {None}] /\ age' \in [Keys -> {None, 0, 1, 2}]
    BY <1>1, CommitFacts DEF CommitRow, TablesType
  <2>2. \A q \in pend' : tab'[q.slot] = None /\ age'[q.key] = None
    BY <1>3, CommitFacts
  <2>3. \A k \in Rows' : age'[k] # None
    <3>1. \A k \in Rows : k \in Keys
      BY <1>1 DEF TablesType, Rows
    <3>. QED
      BY <1>1, <3>1, CommitFacts DEF TablesType, Known
  <2>. QED
    BY <1>1, <1>2, <2>1, <2>2, <2>3 DEF TablesType
<1>5. Apart'
  <2>1. (\A s, t \in Slots : tab[s] = tab[t] /\ tab[s] # None => s = t)'
    <3>1. \A s \in Slots : tab[s] # p.key
      BY CommitFacts DEF Rows
    <3>. QED
      BY <3>1, CommitFacts DEF IInv, Apart
  <2>2. (\A k \in Keys : Known(k) => k <= drawn)'
    BY <1>2, CommitFacts DEF IInv, Apart, Known
  <2>. QED
    BY <1>2, <2>1, <2>2 DEF IInv, Apart
<1>6. Moving'
  BY CommitMoving
<1>7. History'
  BY <1>2, CommitFacts DEF IInv, History, move, Known
<1>8. Refreshing'
  <2>1. setup # "refresh" => ref.sel \cup ref.batch \subseteq Keys /\ p.key \notin ref.batch
    BY CommitFacts DEF IInv, Refreshing, Types, SyncRecords, Incs, Refs
  <2>. QED
    BY <1>2, <2>1, CommitFacts DEF IInv, Refreshing, Remembers
<1>9. Copying => Copying'
  BY CommitCopying
<1>10. SyncRecords' /\ SyncType'
  <2>1. Late(p.key) \subseteq Keys
    BY CommitFacts, LateFacts
  <2>. QED
    BY <2>1 DEF IInv, Types, TypeOK, SyncRecords, SyncType
<1>11. MoveRecords' /\ MoveType'
  BY MoveKeeps
<1>. QED
  BY <1>2, <1>4, <1>5, <1>6, <1>7, <1>8, <1>9, <1>10, <1>11 DEF IInv, Types, TypeOK

\* The SQL script deletes no row that migration holds, and only old ones.
LEMMA SqlCleanInv ==
  ASSUME IInv, SqlClean(mig.gone), UNCHANGED <<sync, move>>
  PROVE  IInv'
<1>. DEFINE old == {s \in Slots : tab[s] # None /\ age[tab[s]] = 2}
<1>1. /\ old \cap mig.gone = {}
      /\ tab' = [s \in Slots |-> IF s \in old THEN None ELSE tab[s]]
      /\ UNCHANGED <<setup, keycol, pend, drawn, age, val, faults>>
  BY DEF SqlClean
<1>2. TablesType /\ mig.gone \in SUBSET Slots /\ faults \in 0..MaxFaults
  BY DEF IInv, Types, TypeOK, TablesType, MoveRecords, Migs, Dels
<1>3. Fewer /\ Remembers
  BY <1>1 DEF Fewer, Remembers, Known
<1>4. tab' \in [Slots -> Keys \cup {None}]
  BY <1>1, <1>2 DEF TablesType
<1>5. TablesType' /\ Apart'
  BY <1>1, <1>2, <1>3, <1>4, TablesTypeKeeps, ApartKeeps
<1>6. SyncRecords' /\ SyncType' /\ MoveRecords' /\ MoveType'
  BY SyncKeeps, MoveKeeps
<1>7. Moving'
  <2>1. \A s \in mig.gone : tab'[s] = tab[s]
    BY <1>1, <1>2
  <2>2. \A r \in del'.todo : age'[r.key] = 2 /\ (setup = "clean" => r \in Picks)
    BY <1>1 DEF IInv, Moving, move
  <2>. QED
    BY <1>1, <1>3, <2>1, <2>2, MovingKeeps DEF move
<1>8. History'
  <2>1. Rows' \subseteq Rows
    BY <1>3, FewerFacts
  <2>2. \A k \in Keys : k \in Rows /\ Known(k) /\ age[k] < 2 => k \in Rows'
    <3>1. SUFFICES ASSUME NEW s \in Slots, tab[s] # None, age[tab[s]] < 2 PROVE tab[s] \in Rows'
      BY DEF Rows
    <3>2. age[tab[s]] # 2
      BY <3>1
    <3>. QED
      BY <1>1, <3>1, <3>2 DEF Rows
  <2>3. UNCHANGED <<setup, keycol, age, his, swept>>
    BY <1>1 DEF move
  <2>. QED
    BY <2>1, <2>2, <2>3 DEF IInv, History, Known
<1>9. Refreshing' /\ (Copying => Copying')
  BY <1>1, <1>3, RefreshingKeeps, CopyingKeeps DEF sync
<1>. QED
  BY <1>1, <1>5, <1>6, <1>7, <1>8, <1>9 DEF IInv, Types, TypeOK

\* What writers and time do keeps the invariant.
LEMMA WriterInv == ASSUME IInv, Writer PROVE IInv'
<1>1. CASE Insert(mig.gone) /\ UNCHANGED <<sync, move>>
  BY <1>1, InsertInv
<1>2. ASSUME NEW p \in pend, CommitRow(p), excused' = excused \cup Late(p.key),
             UNCHANGED <<loc, inc, ref, move>>
      PROVE IInv'
  BY <1>2, CommitInv
<1>3. ASSUME NEW p \in pend, RollbackRow(p), UNCHANGED <<sync, move>> PROVE IInv'
  BY <1>3, RollbackInv
<1>4. ASSUME NEW k \in Keys, Update(k), UNCHANGED <<sync, move>> PROVE IInv'
  BY <1>4, UpdateInv
<1>5. ASSUME NEW k \in Keys, Grow(k), UNCHANGED <<sync, move>> PROVE IInv'
  BY <1>5, GrowInv
<1>6. CASE SqlClean(mig.gone) /\ UNCHANGED <<sync, move>>
  BY <1>6, SqlCleanInv
<1>. QED
  BY <1>1, <1>2, <1>3, <1>4, <1>5, <1>6 DEF Writer

-----------------------------------------------------------------------------
(* syncinc.                                                                *)

\* What a step of the synchronisation, and a fault in it, has to show.
LEMMA SyncStep ==
  ASSUME IInv, UNCHANGED <<setup, keycol, tab, pend, drawn, age, val, move>>,
         faults' \in 0..MaxFaults, SyncRecords', SyncType', Refreshing',
         setup \in {"inc", "inc_batches"} => Copying'
  PROVE  IInv'
<1>1. Fewer /\ Remembers
  BY DEF Fewer, Remembers, Known
<1>2. tab' \in [Slots -> Keys \cup {None}]
  BY DEF IInv, Types, TypeOK, TablesType
<1>3. TablesType' /\ Apart'
  BY <1>1, <1>2, TablesTypeKeeps, ApartKeeps
<1>4. MoveRecords' /\ MoveType'
  BY MoveKeeps
<1>5. Moving'
  BY <1>1, MovingSame DEF move
<1>6. History'
  BY HistoryKeeps DEF move
<1>. QED
  BY <1>3, <1>4, <1>5, <1>6 DEF IInv, Types, TypeOK

\* The facts used in each step of syncinc.
LEMMA SyncFacts ==
  ASSUME IInv
  PROVE  /\ loc \in Partial /\ inc.ins \in Partial /\ ref.ins \in Partial
         /\ inc.sel \in SUBSET Picks /\ inc.batch \in SUBSET Picks /\ inc.max \in 0..MaxKey
         /\ DOMAIN loc \in SUBSET Keys /\ DOMAIN inc.ins \in SUBSET Keys
         /\ DOMAIN ref.ins \in SUBSET Keys /\ Rows \in SUBSET Keys
         /\ Keys \in SUBSET Nat /\ 0 \notin Keys
         /\ val \in [Keys -> {0, 1}] /\ faults \in 0..MaxFaults
         /\ \A k \in Rows : Known(k)
         /\ \A s \in Slots : tab[s] # None => tab[s] \in Rows
         /\ None \notin Keys
<1>1. /\ loc \in Partial /\ inc.ins \in Partial /\ ref.ins \in Partial
      /\ inc.sel \in SUBSET Picks /\ inc.batch \in SUBSET Picks /\ inc.max \in 0..MaxKey
  BY DEF IInv, Types, SyncRecords, Incs, Refs
<1>2. TablesType
  BY DEF IInv, Types, TypeOK
<1>3. Rows \in SUBSET Keys /\ val \in [Keys -> {0, 1}] /\ faults \in 0..MaxFaults
  BY <1>2 DEF TablesType, Rows
<1>4. \A k \in Rows : Known(k)
  BY <1>2 DEF TablesType, Known
<1>5. Keys \in SUBSET Nat /\ 0 \notin Keys /\ None \notin Keys
  BY DEF Keys
<1>. QED
  BY <1>1, <1>3, <1>4, <1>5, PartialFacts DEF Rows

\* What copied keys go past is copied or excused.
LEMMA PastFacts ==
  ASSUME IInv, NEW S \in SUBSET Keys, NEW k \in Rows, NEW j \in S, k < j
  PROVE  k \in DOMAIN loc' \cup Past(S, loc')
<1>1. S \in SUBSET (0..MaxKey)
  BY SyncFacts DEF Keys
<1>2. Greatest(S) \in 0..MaxKey /\ j <= Greatest(S)
  BY <1>1, GreatestFact
<1>3. j \in Int /\ k \in Int
  BY SyncFacts
<1>4. PICK g : g = Greatest(S)
  OBVIOUS
<1>5. k < g
  BY <1>2, <1>3, <1>4
<1>. QED
  BY <1>4, <1>5 DEF Past

\* A program that starts again selects again.
LEMMA IdleInv ==
  ASSUME IInv, inc' = Idle, UNCHANGED <<loc, ref, excused>>,
         UNCHANGED <<setup, keycol, tab, pend, drawn, age, val, move>>, faults' \in 0..MaxFaults
  PROVE  IInv'
<1>1. /\ inc'.at = "off" /\ inc'.max = 0 /\ inc'.sel = {} /\ inc'.batch = {}
      /\ inc'.ins = << >>
  BY DEF Idle
<1>2. SyncRecords'
  BY PartialFacts DEF IInv, Types, SyncRecords, Idle, Incs, Refs
<1>3. SyncType'
  BY <1>1, PartialFacts DEF IInv, Types, TypeOK, SyncType
<1>4. Refreshing'
  BY RefreshingKeeps DEF Fewer, Remembers, Known
<1>5. Copying => Copying'
  <2>1. Rows' = Rows /\ \A k \in Keys : Known(k)' = Known(k) /\ Done(k)' = Done(k)
    BY DEF Rows, Known, Done
  <2>2. \A k \in Rows : ~(k <= 0)
    BY SyncFacts
  <2>3. ASSUME Copying PROVE \A k \in DOMAIN loc \cup DOMAIN ref.ins : Known(k)'
    BY <2>1, <2>3, SyncFacts DEF Copying
  <2>4. ASSUME Copying PROVE \A k \in Rows, j \in DOMAIN loc : k < j => Done(k)'
    BY <2>1, <2>4, SyncFacts DEF Copying
  <2>. QED
    BY <1>1, <2>1, <2>2, <2>3, <2>4, PartialFacts DEF Copying, Selected
<1>. QED
  BY <1>2, <1>3, <1>4, <1>5, SyncStep DEF IInv

\* A step of syncinc that commits nothing.
LEMMA IncKeeps ==
  ASSUME IInv, UNCHANGED <<loc, ref, excused, tables, move>>,
         setup \in {"inc", "inc_batches"},
         inc' \in Incs,
         inc'.at = "insert" => inc'.sel # {},
         inc'.at \in {"off", "load", "select"} => inc'.sel = {},
         inc'.batch \subseteq inc'.sel,
         DOMAIN inc'.ins \cap (DOMAIN loc \cup DOMAIN ref.ins) = {},
         Selected(inc.sel)',
         inc'.max # 0 => Known(inc'.max),
         \A k \in DOMAIN inc'.ins : Known(k),
         \A k \in Rows : k <= inc'.max => Done(k),
         \A k \in Rows, r \in inc'.sel : k < r.key => Done(k) \/ k \in KeysOf(inc'.sel),
         inc'.at = "commit" =>
           /\ \A r \in inc'.batch : r.key \in Rows => r.key \in DOMAIN inc'.ins
           /\ \A a \in inc'.batch, b \in inc'.sel \ inc'.batch : a.key < b.key
  PROVE  IInv'
<1>1. UNCHANGED <<setup, keycol, tab, pend, drawn, age, val, faults>>
  BY DEF tables
<1>2. Rows' = Rows /\ (\A k : Known(k)' = Known(k)) /\ (\A k : Done(k)' = Done(k))
  BY <1>1 DEF Rows, Known, Done
<1>3. SyncRecords'
  BY DEF IInv, Types, SyncRecords
<1>4. SyncType'
  BY PartialFacts DEF IInv, Types, TypeOK, SyncType, Incs
<1>5. Refreshing'
  BY <1>1, RefreshingKeeps DEF Fewer, Remembers, Known
<1>6. Copying'
  BY <1>1, <1>2 DEF IInv, Copying, KeysOf
<1>. QED
  BY <1>1, <1>3, <1>4, <1>5, <1>6, SyncFacts, SyncStep

\* syncinc starts with nothing selected.
LEMMA IncStartInv ==
  ASSUME IInv, Inc, IncStart
  PROVE  IInv'
<1>. DEFINE i == [inc EXCEPT !.at = "load"]
<1>1. inc' = i /\ inc.at = "off" /\ UNCHANGED <<loc, ref, excused, tables, move>>
      /\ setup \in {"inc", "inc_batches"}
  BY DEF Inc, IncStep, IncStart
<1>2. inc \in Incs
  BY DEF IInv, Types, SyncRecords
<1>3. /\ i \in Incs
      /\ i.at = "load" /\ i.max = inc.max /\ i.sel = inc.sel /\ i.batch = inc.batch /\ i.ins = inc.ins
  BY <1>2 DEF Incs
<1>. HIDE DEF i
<1>4. DOMAIN inc.ins \cap (DOMAIN loc \cup DOMAIN ref.ins) = {}
  BY DEF IInv, Types, TypeOK, SyncType
<1>5. Copying
  BY <1>1 DEF IInv
<1>6. Selected(inc.sel)' /\ inc.sel = {}
  BY <1>1, <1>3, <1>5 DEF Copying, Selected
<1>. QED
  BY <1>1, <1>3, <1>4, <1>5, <1>6, IncKeeps DEF Copying

\* Below the greatest local key all rows are done.
LEMMA LoadMaxKeyInv ==
  ASSUME IInv, Inc, LoadMaxKey
  PROVE  IInv'
<1>. DEFINE g == Greatest(DOMAIN loc)
<1>. DEFINE i == [inc EXCEPT !.at = "select", !.max = g]
<1>1. inc' = i /\ inc.at = "load" /\ UNCHANGED <<loc, ref, excused, tables, move>>
      /\ setup \in {"inc", "inc_batches"}
  BY DEF Inc, IncStep, LoadMaxKey
<1>2. inc \in Incs
  BY DEF IInv, Types, SyncRecords
<1>3. g \in DOMAIN loc \cup {0} /\ g \in 0..MaxKey
  <2>1. DOMAIN loc \in SUBSET (0..MaxKey)
    BY SyncFacts DEF Keys
  <2>. QED
    BY <2>1, GreatestFact
<1>. HIDE DEF g
<1>4. /\ i \in Incs
      /\ i.at = "select" /\ i.max = g /\ i.sel = inc.sel /\ i.batch = inc.batch /\ i.ins = inc.ins
  BY <1>2, <1>3 DEF Incs
<1>. HIDE DEF i
<1>5. DOMAIN inc.ins \cap (DOMAIN loc \cup DOMAIN ref.ins) = {}
  BY DEF IInv, Types, TypeOK, SyncType
<1>6. Copying
  BY <1>1 DEF IInv
<1>7. Selected(inc.sel)' /\ inc.sel = {}
  BY <1>1, <1>4, <1>6 DEF Copying, Selected
<1>8. g # 0 => Known(g)
  BY <1>3, <1>6 DEF Copying
<1>9. \A k \in Rows : k <= g => Done(k)
  <2>1. SUFFICES ASSUME NEW k \in Rows, k <= g PROVE Done(k)
    OBVIOUS
  <2>2. g \in DOMAIN loc /\ k \in Nat
    BY <1>3, <2>1, SyncFacts
  <2>3. CASE k = g
    BY <2>2, <2>3 DEF Done
  <2>4. CASE k < g
    BY <2>2, <2>4, <1>6 DEF Copying
  <2>. QED
    BY <1>3, <2>1, <2>2, <2>3, <2>4
<1>. QED
  BY <1>1, <1>4, <1>5, <1>6, <1>7, <1>8, <1>9, IncKeeps DEF Copying

\* What select finds is at the rowids it gives.
LEMMA FoundFacts ==
  ASSUME IInv, NEW R \in SUBSET Rows
  PROVE  Found(R) \in SUBSET Picks /\ KeysOf(Found(R)) = R /\ Selected(Found(R))
<1>1. R \subseteq Keys /\ None \notin R /\ \A k \in R : Known(k) /\ \E s \in Slots : tab[s] = k
  BY SyncFacts DEF Rows
<1>2. ASSUME NEW r \in Found(R)
      PROVE r.slot \in Slots /\ r.key = tab[r.slot] /\ r.key \in R /\ r = [slot |-> r.slot, key |-> r.key]
  BY <1>2 DEF Found
<1>3. \A s \in Slots : tab[s] \in R => [slot |-> s, key |-> tab[s]] \in Found(R)
  BY DEF Found
<1>4. Found(R) \in SUBSET Picks
  BY <1>1, <1>2 DEF Picks
<1>5. KeysOf(Found(R)) = R
  <2>1. \A k \in R : \E r \in Found(R) : r.key = k
    <3>1. SUFFICES ASSUME NEW k \in R PROVE \E r \in Found(R) : r.key = k
      OBVIOUS
    <3>2. PICK s \in Slots : tab[s] = k
      BY <1>1
    <3>3. [slot |-> s, key |-> k] \in Found(R) /\ [slot |-> s, key |-> k].key = k
      BY <1>3, <3>2
    <3>. QED
      BY <3>3
  <2>. QED
    BY <1>2, <2>1 DEF KeysOf
<1>6. Selected(Found(R))
  <2>1. ASSUME NEW r \in Found(R), NEW s \in Slots, tab[s] = r.key PROVE s = r.slot
    BY <1>1, <1>2, <2>1 DEF IInv, Apart
  <2>. QED
    BY <1>1, <1>2, <2>1 DEF Selected
<1>. QED
  BY <1>4, <1>5, <1>6

\* What syncinc selects are all the rows beyond that key.
LEMMA IncSelectInv ==
  ASSUME IInv, Inc, IncSelect
  PROVE  IInv'
<1>. DEFINE R == {k \in Rows : k > inc.max}
<1>. DEFINE sel == Found(R)
<1>. DEFINE at == IF sel = {} THEN "load" ELSE "insert"
<1>. DEFINE i == [inc EXCEPT !.at = at, !.sel = sel]
<1>1. inc' = i /\ inc.at = "select" /\ UNCHANGED <<loc, ref, excused, tables, move>>
      /\ setup \in {"inc", "inc_batches"}
  BY DEF Inc, IncStep, IncSelect
<1>2. inc \in Incs
  BY DEF IInv, Types, SyncRecords
<1>3. sel \in SUBSET Picks /\ KeysOf(sel) = R /\ Selected(sel)
  BY FoundFacts
<1>4. at \in {"load", "insert"} /\ (at = "insert" => sel # {}) /\ (at = "load" => sel = {})
  OBVIOUS
<1>. HIDE DEF at, sel
<1>5. /\ i \in Incs
      /\ i.at = at /\ i.max = inc.max /\ i.sel = sel /\ i.batch = inc.batch /\ i.ins = inc.ins
  BY <1>2, <1>3, <1>4 DEF Incs
<1>. HIDE DEF i
<1>6. DOMAIN inc.ins \cap (DOMAIN loc \cup DOMAIN ref.ins) = {}
  BY DEF IInv, Types, TypeOK, SyncType
<1>7. Copying
  BY <1>1 DEF IInv
<1>8. inc.batch = {}
  BY <1>1, <1>7 DEF Copying
<1>9. Selected(inc.sel)'
  BY <1>1, <1>3, <1>5 DEF Selected, Known, tables
<1>10. \A k \in Rows, r \in sel : k < r.key => Done(k) \/ k \in KeysOf(sel)
  <2>1. SUFFICES ASSUME NEW k \in Rows, k \notin R PROVE Done(k)
    BY <1>3
  <2>2. k <= inc.max
    BY <2>1, SyncFacts
  <2>. QED
    BY <1>7, <2>2 DEF Copying
<1>11. \A k \in DOMAIN inc.ins : Known(k)
  BY <1>7 DEF Copying
<1>12. (inc.max # 0 => Known(inc.max)) /\ \A k \in Rows : k <= inc.max => Done(k)
  BY <1>7 DEF Copying
<1>. QED
  BY <1>1, <1>4, <1>5, <1>6, <1>8, <1>9, <1>10, <1>11, <1>12, IncKeeps

\* What it inserts are the rows of the batch that are still there.
LEMMA IncInsertInv ==
  ASSUME IInv, Inc, IncInsert
  PROVE  IInv'
<1>1. inc.at = "insert" /\ UNCHANGED <<loc, ref, excused, tables, move>>
      /\ setup \in {"inc", "inc_batches"}
  BY DEF Inc, IncStep, IncInsert
<1>2. PICK B \in Ordered :
        LET rows == {tab[r.slot] : r \in B} \ {None}
        IN /\ rows \cap (DOMAIN ref.ins \cup ref.del) = {}
           /\ IF rows \cap DOMAIN loc # {} THEN inc' = Idle
              ELSE inc' = [inc EXCEPT !.at = "commit", !.batch = B, !.ins = Values(rows)]
  BY DEF IncInsert
<1>. DEFINE rows == {tab[r.slot] : r \in B} \ {None}
<1>. DEFINE i == [inc EXCEPT !.at = "commit", !.batch = B, !.ins = Values(rows)]
<1>3. rows \cap DOMAIN ref.ins = {} /\ (inc' = Idle \/ (rows \cap DOMAIN loc = {} /\ inc' = i))
  BY <1>2
<1>4. B \subseteq inc.sel /\ \A a \in B, b \in inc.sel \ B : a.key < b.key
  BY DEF Ordered, Batches
<1>5. Copying
  BY <1>1 DEF IInv
<1>6. CASE inc' = Idle
  BY <1>1, <1>6, SyncFacts, IdleInv DEF tables
<1>7. CASE rows \cap DOMAIN loc = {} /\ inc' = i
  <2>1. inc \in Incs
    BY DEF IInv, Types, SyncRecords
  <2>2. \A r \in B : r.slot \in Slots /\ r.key \in Keys
    BY <1>4, SyncFacts DEF Picks
  <2>3. rows \in SUBSET Rows /\ rows \in SUBSET Keys
    BY <2>2, SyncFacts
  <2>4. \A r \in B : r.key \in Rows => r.key \in rows
    <3>1. SUFFICES ASSUME NEW r \in B, NEW s \in Slots, tab[s] = r.key PROVE r.key \in rows
      BY DEF Rows
    <3>2. s = r.slot /\ r.key # None
      BY <1>4, <1>5, <2>2, <3>1, SyncFacts DEF Copying, Selected
    <3>. QED
      BY <3>1, <3>2
  <2>. HIDE DEF rows
  <2>5. Values(rows) \in Partial /\ DOMAIN Values(rows) = rows
    BY <2>3, SyncFacts, ValuesFacts
  <2>. DEFINE v == Values(rows)
  <2>. HIDE DEF v
  <2>6. i = [inc EXCEPT !.at = "commit", !.batch = B, !.ins = v] /\ B \in SUBSET Picks
    BY <1>4, SyncFacts DEF v
  <2>7. v \in Partial /\ DOMAIN v = rows
    BY <2>5 DEF v
  <2>. HIDE DEF i
  <2>8. /\ i \in Incs
        /\ i.at = "commit" /\ i.max = inc.max /\ i.sel = inc.sel /\ i.batch = B /\ i.ins = v
    BY <2>1, <2>6, <2>7 DEF Incs
  <2>9. Selected(inc.sel)'
    BY <1>1, <1>5, <1>7, <2>8 DEF Copying, Selected, Known, tables
  <2>10. \A k \in rows : Known(k)
    BY <2>3, SyncFacts
  <2>11. rows \cap (DOMAIN loc \cup DOMAIN ref.ins) = {}
    BY <1>3, <1>7
  <2>12. /\ inc.max # 0 => Known(inc.max)
         /\ \A k \in Rows : k <= inc.max => Done(k)
         /\ \A k \in Rows, r \in inc.sel : k < r.key => Done(k) \/ k \in KeysOf(inc.sel)
    BY <1>5 DEF Copying
  <2>. QED
    BY <1>1, <1>4, <1>7, <2>4, <2>7, <2>8, <2>9, <2>10, <2>11, <2>12, IncKeeps
<1>. QED
  BY <1>3, <1>6, <1>7

\* What is left of the result after a batch.
LEMMA IncNextFacts ==
  ASSUME IInv, IncNext
  PROVE  /\ inc' \in Incs
         /\ inc'.max = 0 /\ inc'.sel = inc.sel \ inc.batch /\ inc'.batch = {} /\ inc'.ins = << >>
         /\ inc'.at \in {"load", "insert"} /\ (inc'.at = "insert" <=> inc.sel \ inc.batch # {})
<1>. DEFINE rest == inc.sel \ inc.batch
<1>. DEFINE at == IF rest = {} THEN "load" ELSE "insert"
<1>. DEFINE i == [Idle EXCEPT !.at = at, !.sel = rest]
<1>1. inc' = i
  BY DEF IncNext
<1>2. rest \in SUBSET Picks
  BY SyncFacts
<1>3. at \in {"load", "insert"} /\ (at = "insert" <=> rest # {})
  OBVIOUS
<1>. HIDE DEF at, rest
<1>4. /\ Idle \in Incs
      /\ Idle.max = 0 /\ Idle.batch = {} /\ Idle.ins = << >>
  BY PartialFacts DEF Idle, Incs
<1>5. i \in Incs
  BY <1>2, <1>3, <1>4 DEF Incs
<1>6. i.max = 0 /\ i.sel = rest /\ i.batch = {} /\ i.ins = << >> /\ i.at = at
  BY <1>4
<1>. HIDE DEF i
<1>7. rest = inc.sel \ inc.batch
  BY DEF rest
<1>. QED
  BY <1>1, <1>3, <1>5, <1>6, <1>7

\* The next batch: the one before is copied or excused.
LEMMA IncNextInv ==
  ASSUME IInv, IncNext, inc.at = "commit", setup \in {"inc", "inc_batches"},
         UNCHANGED <<setup, keycol, tab, pend, drawn, age, val, ref, move>>, faults' \in 0..MaxFaults,
         loc' \in Partial, DOMAIN loc \subseteq DOMAIN loc',
         DOMAIN loc' \subseteq DOMAIN loc \cup DOMAIN inc.ins,
         excused \subseteq excused', excused' \subseteq Keys,
         DOMAIN inc.ins \subseteq DOMAIN loc' \cup excused',
         \A k \in Rows, j \in DOMAIN loc' : k < j => Done(k)'
  PROVE  IInv'
<1>1. /\ inc' \in Incs
      /\ inc'.max = 0 /\ inc'.sel = inc.sel \ inc.batch /\ inc'.batch = {} /\ DOMAIN inc'.ins = {}
      /\ inc'.at \in {"load", "insert"} /\ (inc'.at = "insert" <=> inc.sel \ inc.batch # {})
  BY IncNextFacts, PartialFacts
<1>2. Copying
  BY DEF IInv
<1>3. Rows' = Rows /\ (\A k : Known(k)' = Known(k)) /\ \A k : Done(k) => Done(k)'
  BY DEF Rows, Known, Done
<1>4. \A k \in DOMAIN inc.ins : Done(k)'
  BY DEF Done
<1>5. SyncRecords'
  BY <1>1 DEF IInv, Types, SyncRecords
<1>6. SyncType'
  BY <1>1, SyncFacts DEF IInv, Types, TypeOK, SyncType
<1>7. Refreshing'
  BY RefreshingKeeps DEF Fewer, Remembers, Known
<1>8. (\A k \in Rows, r \in inc.sel : k < r.key => Done(k) \/ k \in KeysOf(inc.sel))'
  <2>1. SUFFICES ASSUME NEW k \in Rows, NEW r \in inc.sel \ inc.batch, k < r.key, ~Done(k)'
        PROVE \E q \in inc.sel \ inc.batch : q.key = k
    BY <1>1, <1>3 DEF KeysOf
  <2>2. PICK q \in inc.sel : q.key = k
    BY <1>2, <1>3, <2>1 DEF Copying, KeysOf
  <2>3. q \notin inc.batch
    BY <1>2, <1>4, <2>1, <2>2 DEF Copying
  <2>. QED
    BY <2>2, <2>3
<1>9. Copying'
  <2>1. Selected(inc.sel)'
    BY <1>1, <1>2, <1>3 DEF Copying, Selected, Known
  <2>2. \A k \in Rows : ~(k <= 0)
    BY SyncFacts
  <2>3. \A k \in DOMAIN loc' \cup DOMAIN inc'.ins \cup DOMAIN ref.ins : Known(k)
    BY <1>1, <1>2 DEF Copying
  <2>. QED
    BY <1>1, <1>3, <1>8, <2>1, <2>2, <2>3 DEF Copying
<1>. QED
  BY <1>5, <1>6, <1>7, <1>9, SyncStep

\* Committed in the order of keys, a batch goes past no row that is to be copied.
LEMMA IncCommitInv ==
  ASSUME IInv, Inc, IncCommit
  PROVE  IInv'
<1>1. /\ inc.at = "commit" /\ UNCHANGED <<ref, tables, move>> /\ setup \in {"inc", "inc_batches"}
      /\ loc' = With(inc.ins, loc) /\ IncNext
      /\ excused' = excused \cup Past(DOMAIN inc.ins \ KeysOf(inc.batch), loc')
  BY DEF Inc, IncStep, IncCommit, KeysOf
<1>2. loc' \in Partial /\ DOMAIN loc' = DOMAIN inc.ins \cup DOMAIN loc
  BY <1>1, SyncFacts, PartialFacts
<1>3. Copying
  BY <1>1 DEF IInv
<1>. DEFINE S == DOMAIN inc.ins \ KeysOf(inc.batch)
<1>4. Past(S, loc') \subseteq Keys
  BY SyncFacts DEF Past
<1>5. \A k \in Rows, j \in S : k < j => Done(k)'
  BY <1>1, PastFacts, SyncFacts DEF Done
<1>6. \A k \in DOMAIN loc \cup DOMAIN inc.ins : Done(k)'
  BY <1>2 DEF Done
<1>7. \A k \in Rows, j \in DOMAIN loc' : k < j => Done(k)'
  <2>1. SUFFICES ASSUME NEW k \in Rows, NEW j \in DOMAIN loc', k < j PROVE Done(k)'
    OBVIOUS
  <2>2. CASE j \in DOMAIN loc
    BY <1>1, <1>3, <1>6, <2>1, <2>2 DEF Copying, Done
  <2>3. CASE j \in S
    BY <1>5, <2>1, <2>3
  <2>4. CASE \E a \in inc.batch : a.key = j
    <3>1. PICK a \in inc.batch : a.key = j
      BY <2>4
    <3>2. Done(k) \/ k \in KeysOf(inc.sel)
      BY <1>3, <2>1, <3>1 DEF Copying
    <3>3. CASE Done(k)
      BY <1>1, <1>2, <3>3 DEF Done
    <3>4. CASE k \in KeysOf(inc.sel)
      <4>1. PICK b \in inc.sel : b.key = k
        BY <3>4 DEF KeysOf
      <4>2. CASE b \in inc.batch
        BY <1>1, <1>3, <1>6, <4>1, <4>2 DEF Copying
      <4>3. CASE b \notin inc.batch
        <5>1. a.key < b.key /\ k \in Int /\ j \in Int
          BY <1>1, <1>2, <1>3, <3>1, <4>1, <4>3, SyncFacts DEF Copying
        <5>. QED
          BY <2>1, <3>1, <4>1, <5>1
      <4>. QED
        BY <4>2, <4>3
    <3>. QED
      BY <3>2, <3>3, <3>4
  <2>. QED
    BY <1>2, <2>2, <2>3, <2>4 DEF KeysOf
<1>8. UNCHANGED <<setup, keycol, tab, pend, drawn, age, val, ref, move>> /\ faults' \in 0..MaxFaults
  BY <1>1, SyncFacts DEF tables
<1>9. excused \subseteq excused' /\ excused' \subseteq Keys
  BY <1>1, <1>4 DEF IInv, Types, TypeOK, SyncType
<1>10. DOMAIN inc.ins \subseteq DOMAIN loc' \cup excused'
  BY <1>2
<1>. QED
  BY <1>1, <1>2, <1>7, <1>8, <1>9, <1>10, IncNextInv

\* syncinc keeps the invariant.
LEMMA IncInv == ASSUME IInv, Inc PROVE IInv'
  BY IncStartInv, LoadMaxKeyInv, IncSelectInv, IncInsertInv, IncCommitInv DEF Inc, IncStep

\* So do its end at any place and a commit that fails.
LEMMA IncFaultInv ==
  ASSUME IInv, IncFault, UNCHANGED <<setup, keycol, tab, pend, drawn, age, val, move>>,
         faults' \in 0..MaxFaults
  PROVE  IInv'
<1>1. CASE IncEnds
  BY <1>1, IdleInv DEF IncEnds
<1>2. CASE IncCommitFails
  <2>1. inc.at = "commit" /\ excused' = excused \cup DOMAIN inc.ins /\ IncNext /\ UNCHANGED <<loc, ref>>
        /\ setup \in {"inc", "inc_batches"} /\ Copying
    BY <1>2 DEF IncFault, IncCommitFails, IInv
  <2>2. \A k \in Rows, j \in DOMAIN loc' : k < j => Done(k)'
    BY <2>1 DEF Copying, Done
  <2>3. excused' \subseteq Keys /\ loc' \in Partial
    BY <2>1, SyncFacts DEF IInv, Types, TypeOK, SyncType
  <2>. QED
    BY <2>1, <2>2, <2>3, IncNextInv
<1>. QED
  BY <1>1, <1>2 DEF IncFault

-----------------------------------------------------------------------------
(* syncref.                                                                *)

\* What the invariant says of syncref.
LEMMA RefFacts ==
  ASSUME IInv
  PROVE  /\ ref \in Refs /\ ref.sel \in SUBSET Keys /\ ref.batch \in SUBSET Keys /\ ref.del \in SUBSET Keys
         /\ ref.at # "commit" => DOMAIN ref.ins = {}
         /\ ref.at # "off" => setup \in {"refresh", "batches", "inc_batches"}
         /\ DOMAIN ref.ins \cap DOMAIN loc \subseteq ref.del
         /\ DOMAIN ref.ins \cap DOMAIN inc.ins = {}
         /\ setup # "refresh" =>
              /\ ref.del \subseteq ref.batch
              /\ \A k \in ref.sel \cup ref.batch : Known(k)
              /\ ref.at = "commit" => \A k \in Rows \cap ref.batch : k \in DOMAIN ref.ins
  BY DEF IInv, Types, TypeOK, SyncRecords, SyncType, Refs, Refreshing

\* A step of syncref that commits nothing.
LEMMA RefKeeps ==
  ASSUME IInv, UNCHANGED <<loc, inc, excused>>,
         UNCHANGED <<setup, keycol, tab, pend, drawn, age, val, move>>, faults' \in 0..MaxFaults,
         ref' \in Refs, DOMAIN ref'.ins \in SUBSET Rows,
         ref'.at # "commit" => DOMAIN ref'.ins = {},
         ref'.at # "off" => setup \in {"refresh", "batches", "inc_batches"},
         DOMAIN ref'.ins \cap DOMAIN loc \subseteq ref'.del,
         DOMAIN ref'.ins \cap DOMAIN inc.ins = {},
         setup # "refresh" =>
           /\ ref'.del \subseteq ref'.batch
           /\ \A k \in ref'.sel \cup ref'.batch : Known(k)
           /\ ref'.at = "commit" => \A k \in Rows \cap ref'.batch : k \in DOMAIN ref'.ins
  PROVE  IInv'
<1>1. Rows' = Rows /\ (\A k : Known(k)' = Known(k)) /\ (\A k : Done(k)' = Done(k))
  BY DEF Rows, Known, Done
<1>2. SyncRecords'
  BY DEF IInv, Types, SyncRecords
<1>3. ref'.at \in {"off", "delete", "insert", "commit"}
  BY DEF Refs
<1>4. SyncType'
  BY <1>3 DEF IInv, Types, TypeOK, SyncType
<1>5. Refreshing'
  BY <1>1 DEF Refreshing
<1>6. Copying => Copying'
  <2>1. SUFFICES ASSUME Copying PROVE Copying'
    OBVIOUS
  <2>2. \A k \in DOMAIN loc \cup DOMAIN inc.ins \cup DOMAIN ref'.ins : Known(k)'
    BY <1>1, <2>1, SyncFacts DEF Copying
  <2>3. Selected(inc.sel)'
    BY <2>1 DEF Copying, Selected, Known
  <2>. QED
    BY <1>1, <2>1, <2>2, <2>3 DEF Copying
<1>. QED
  BY <1>2, <1>4, <1>5, <1>6, SyncStep DEF IInv

\* syncref may end at any place.
LEMMA RefIdleInv ==
  ASSUME IInv, ref' = RefIdle, UNCHANGED <<loc, inc, excused>>,
         UNCHANGED <<setup, keycol, tab, pend, drawn, age, val, move>>, faults' \in 0..MaxFaults
  PROVE  IInv'
<1>1. /\ ref'.at = "off" /\ ref'.sel = {} /\ ref'.batch = {} /\ ref'.del = {}
      /\ DOMAIN ref'.ins = {}
  BY PartialFacts DEF RefIdle
<1>2. ref' \in Refs
  BY PartialFacts DEF RefIdle, Refs
<1>. QED
  BY <1>1, <1>2, RefKeeps

\* Refreshing at once deletes all local rows.
LEMMA RefDeleteAllInv ==
  ASSUME IInv, Refresh, RefDeleteAll
  PROVE  IInv'
<1>. DEFINE r == [ref EXCEPT !.at = "insert", !.del = DOMAIN loc, !.batch = Keys]
<1>1. ref' = r /\ setup = "refresh" /\ ref.at = "off" /\ UNCHANGED <<loc, inc, excused, tables, move>>
  BY DEF Refresh, RefDeleteAll
<1>2. r \in Refs /\ r.at = "insert" /\ r.ins = ref.ins /\ r.batch = Keys
  BY RefFacts, SyncFacts DEF Refs
<1>. HIDE DEF r
<1>. QED
  BY <1>1, <1>2, RefFacts, SyncFacts, RefKeeps DEF tables

\* Refreshing in batches selects rows of the table.
LEMMA RefSelectInv ==
  ASSUME IInv, Refresh, RefSelect
  PROVE  IInv'
<1>. DEFINE sel == {k \in Rows : age[k] = 0}
<1>. DEFINE r == [ref EXCEPT !.at = "delete", !.sel = sel]
<1>1. ref' = r /\ setup \in {"batches", "inc_batches"} /\ ref.at = "off"
      /\ UNCHANGED <<loc, inc, excused, tables, move>>
  BY DEF Refresh, RefSelect
<1>2. sel \in SUBSET Keys /\ \A k \in sel : Known(k)
  BY SyncFacts
<1>. HIDE DEF sel
<1>3. r \in Refs /\ r.at = "delete" /\ r.ins = ref.ins /\ r.sel = sel /\ r.batch = ref.batch /\ r.del = ref.del
  BY <1>2, RefFacts DEF Refs
<1>. HIDE DEF r
<1>. QED
  BY <1>1, <1>2, <1>3, RefFacts, SyncFacts, RefKeeps DEF tables

\* It deletes local rows of the batch.
LEMMA RefDeleteInv ==
  ASSUME IInv, Refresh, RefDelete
  PROVE  IInv'
<1>1. PICK B \in Batches(ref.sel) :
        ref' = [ref EXCEPT !.at = "insert", !.batch = B, !.del = B \cap DOMAIN loc]
  BY DEF RefDelete
<1>. DEFINE r == [ref EXCEPT !.at = "insert", !.batch = B, !.del = B \cap DOMAIN loc]
<1>2. ref.at = "delete" /\ UNCHANGED <<loc, inc, excused, tables, move>>
  BY DEF Refresh, RefDelete
<1>3. B \subseteq ref.sel
  BY DEF Batches
<1>4. r \in Refs /\ r.at = "insert" /\ r.ins = ref.ins /\ r.sel = ref.sel /\ r.batch = B
      /\ r.del = B \cap DOMAIN loc
  BY <1>3, RefFacts DEF Refs
<1>5. ref' = r
  BY <1>1
<1>. HIDE DEF r
<1>. QED
  BY <1>2, <1>3, <1>4, <1>5, RefFacts, SyncFacts, RefKeeps DEF tables

\* It inserts the rows of the batch that are in the table, and they are not there.
LEMMA RefInsertInv ==
  ASSUME IInv, Refresh, RefInsert
  PROVE  IInv'
<1>. DEFINE rows == ref.batch \cap Rows
<1>. DEFINE v == Values(rows)
<1>. DEFINE r == [ref EXCEPT !.at = "commit", !.ins = v]
<1>1. /\ ref.at = "insert" /\ UNCHANGED <<loc, inc, excused, tables, move>>
      /\ rows \cap DOMAIN inc.ins = {}
      /\ ref' = RefIdle \/ (rows \cap (DOMAIN loc \ ref.del) = {} /\ ref' = r)
  BY DEF Refresh, RefInsert
<1>2. CASE ref' = RefIdle
  BY <1>1, <1>2, SyncFacts, RefIdleInv DEF tables
<1>3. CASE rows \cap (DOMAIN loc \ ref.del) = {} /\ ref' = r
  <2>1. rows \in SUBSET Keys
    BY SyncFacts
  <2>2. v \in Partial /\ DOMAIN v = rows
    BY <2>1, SyncFacts, ValuesFacts
  <2>. HIDE DEF v
  <2>3. r \in Refs /\ r.at = "commit" /\ r.ins = v /\ r.sel = ref.sel /\ r.batch = ref.batch /\ r.del = ref.del
    BY <2>2, RefFacts DEF Refs
  <2>. HIDE DEF r
  <2>. QED
    BY <1>1, <1>3, <2>2, <2>3, RefFacts, SyncFacts, RefKeeps DEF tables
<1>. QED
  BY <1>1, <1>2, <1>3

\* What is left of the result after a batch.
LEMMA RefNextFacts ==
  ASSUME IInv, RefNext
  PROVE  /\ ref' \in Refs /\ ref'.sel \subseteq ref.sel /\ ref'.batch = {} /\ ref'.del = {}
         /\ DOMAIN ref'.ins = {} /\ ref'.at # "commit"
<1>. DEFINE rest == ref.sel \ ref.batch
<1>. DEFINE at == IF rest = {} THEN "off" ELSE "delete"
<1>. DEFINE r == [RefIdle EXCEPT !.at = at, !.sel = rest]
<1>1. ref' = r
  BY DEF RefNext
<1>2. rest \in SUBSET Keys /\ rest \subseteq ref.sel /\ at \in {"off", "delete"}
  BY RefFacts
<1>. HIDE DEF at, rest
<1>3. RefIdle \in Refs /\ RefIdle.batch = {} /\ RefIdle.del = {} /\ RefIdle.ins = << >>
  BY PartialFacts DEF RefIdle, Refs
<1>4. r \in Refs /\ r.sel = rest /\ r.batch = {} /\ r.del = {} /\ r.ins = << >> /\ r.at = at
  BY <1>2, <1>3 DEF Refs
<1>. HIDE DEF r
<1>. QED
  BY <1>1, <1>2, <1>4, PartialFacts

\* What a refreshed batch takes from the local table it brings again.
LEMMA RefCommitInv ==
  ASSUME IInv, Refresh, RefCommit
  PROVE  IInv'
<1>. DEFINE kept == [k \in DOMAIN loc \ ref.del |-> loc[k]]
<1>. DEFINE S == DOMAIN ref.ins
<1>1. /\ ref.at = "commit" /\ UNCHANGED <<inc, tables, move>> /\ RefNext
      /\ loc' = With(ref.ins, kept) /\ excused' = excused \cup Past(S, loc')
  BY DEF Refresh, RefCommit
<1>2. kept \in Partial /\ DOMAIN kept = DOMAIN loc \ ref.del
  <2>1. loc \in [DOMAIN loc -> {0, 1}] /\ DOMAIN loc \ ref.del \in SUBSET Keys
    BY SyncFacts DEF Partial
  <2>2. kept \in [DOMAIN loc \ ref.del -> {0, 1}]
    BY <2>1
  <2>. QED
    BY <2>1, <2>2 DEF Partial
<1>. HIDE DEF kept
<1>3. loc' \in Partial /\ DOMAIN loc' = S \cup (DOMAIN loc \ ref.del)
  BY <1>1, <1>2, SyncFacts, PartialFacts
<1>4. /\ ref' \in Refs /\ ref'.sel \subseteq ref.sel /\ ref'.batch = {} /\ ref'.del = {}
      /\ DOMAIN ref'.ins = {} /\ ref'.at \in {"off", "delete", "insert"}
  BY <1>1, RefNextFacts DEF Refs
<1>5. Rows' = Rows /\ (\A k : Known(k)' = Known(k)) /\ setup' = setup
  BY <1>1 DEF Rows, Known, tables
<1>6. excused \subseteq excused' /\ excused' \subseteq Keys
  <2>1. Past(S, loc') \subseteq Keys
    BY SyncFacts DEF Past
  <2>. QED
    BY <1>1, <2>1 DEF IInv, Types, TypeOK, SyncType
<1>7. \A k \in Rows, j \in S : k < j => Done(k)'
  BY <1>1, PastFacts, SyncFacts DEF Done
<1>8. setup # "refresh" => \A k \in Rows : Done(k) => Done(k)'
  BY <1>1, <1>3, <1>6, RefFacts DEF Done
<1>9. SyncRecords'
  BY <1>1, <1>3, <1>4 DEF IInv, Types, SyncRecords
<1>10. SyncType'
  <2>1. DOMAIN inc.ins \cap DOMAIN loc' = {} /\ DOMAIN inc.ins \subseteq Keys
    BY <1>3, SyncFacts, RefFacts DEF IInv, Types, TypeOK, SyncType
  <2>2. DOMAIN loc' \subseteq Keys
    BY <1>3, SyncFacts
  <2>. QED
    BY <1>1, <1>4, <1>6, <2>1, <2>2 DEF IInv, Types, TypeOK, SyncType
<1>11. Refreshing'
  BY <1>1, <1>4, <1>5, RefFacts DEF Refreshing
<1>12. setup \in {"inc", "inc_batches"} => Copying'
  <2>1. SUFFICES ASSUME Copying, setup # "refresh" PROVE Copying'
    BY DEF IInv
  <2>2. Selected(inc.sel)'
    BY <1>1, <2>1 DEF Copying, Selected, Known, tables
  <2>3. \A k \in DOMAIN loc' \cup DOMAIN inc.ins \cup DOMAIN ref'.ins : Known(k)
    BY <1>3, <1>4, <2>1 DEF Copying
  <2>4. \A k \in Rows, j \in DOMAIN loc' : k < j => Done(k)'
    BY <1>3, <1>7, <1>8, <2>1 DEF Copying
  <2>5. inc' = inc
    BY <1>1
  <2>. QED
    BY <1>5, <1>8, <2>1, <2>2, <2>3, <2>4, <2>5 DEF Copying
<1>. QED
  BY <1>1, <1>9, <1>10, <1>11, <1>12, SyncFacts, SyncStep DEF tables

\* syncref keeps the invariant.
LEMMA RefInv == ASSUME IInv, Refresh PROVE IInv'
  BY RefDeleteAllInv, RefSelectInv, RefDeleteInv, RefInsertInv, RefCommitInv DEF Refresh, RefStep

\* So do its end at any place and a commit that fails.
LEMMA RefFaultInv ==
  ASSUME IInv, RefFault, UNCHANGED <<setup, keycol, tab, pend, drawn, age, val, move>>,
         faults' \in 0..MaxFaults
  PROVE  IInv'
<1>1. CASE RefEnds
  BY <1>1, RefIdleInv DEF RefEnds
<1>2. CASE RefCommitFails
  <2>1. UNCHANGED <<loc, inc, excused>> /\ RefNext /\ ref.at = "commit"
    BY <1>2 DEF RefCommitFails
  <2>. QED
    BY <2>1, RefNextFacts, RefFacts, SyncFacts, RefKeeps
<1>. QED
  BY <1>1, <1>2 DEF RefFault

-----------------------------------------------------------------------------
(* migratetable.                                                           *)

\* What a step of migration or cleaning, and a fault in it, has to show.
LEMMA MoveStep ==
  ASSUME IInv, Fewer, UNCHANGED <<setup, keycol, pend, drawn, age, val, sync>>,
         tab' \in [Slots -> Keys \cup {None}], faults' \in 0..MaxFaults,
         MoveRecords', MoveType', Moving', History'
  PROVE  IInv'
<1>1. Remembers
  BY DEF Remembers, Known
<1>2. TablesType' /\ Apart'
  BY TablesTypeKeeps, ApartKeeps
<1>3. SyncRecords' /\ SyncType'
  BY SyncKeeps
<1>4. Refreshing'
  BY <1>1, RefreshingKeeps DEF sync
<1>5. Copying => Copying'
  BY <1>1, CopyingKeeps DEF sync
<1>. QED
  BY <1>2, <1>3, <1>4, <1>5 DEF IInv, Types, TypeOK

\* What the invariant says of migration and cleaning.
LEMMA MoveFacts ==
  ASSUME IInv
  PROVE  /\ mig \in Migs /\ mig.todo \in SUBSET Picks /\ mig.batch \subseteq mig.todo
         /\ mig.ins \in SUBSET Keys /\ mig.gone \in SUBSET Slots
         /\ mig.ins = {} \/ mig.at \in {"delete", "commit"}
         /\ mig.at = "insert" => mig.todo # {}
         /\ del \in Dels /\ del.todo \in SUBSET [slot : Slots \cup {None}, key : Keys]
         /\ his \in [Keys -> 0..2] /\ \A k \in Keys : his[k] \in {0, 1}
         /\ tab \in [Slots -> Keys \cup {None}] /\ swept \in SUBSET Keys
         /\ faults \in 0..MaxFaults /\ keycol \in {"rowid", "keyid"}
         /\ (setup # "migrate" => mig.at = "off") /\ (mig.at = "off" => mig.todo = {})
         /\ mig.at # "commit" => mig.gone = {}
         /\ Selected(mig.todo)
         /\ \A r \in del.todo : age[r.key] = 2 /\ (setup = "clean" => r \in Picks)
  BY DEF IInv, Types, TypeOK, TablesType, MoveRecords, MoveType, Migs, Dels, Moving, History

\* A step of migratetable that commits nothing.
LEMMA MigKeeps ==
  ASSUME IInv, UNCHANGED <<tab, his, del, swept>>,
         UNCHANGED <<setup, keycol, pend, drawn, age, val, sync>>, faults' \in 0..MaxFaults,
         mig' \in Migs, mig'.batch \subseteq mig'.todo, Selected(mig'.todo),
         mig'.ins = {} \/ mig'.at \in {"delete", "commit"},
         mig'.at = "insert" => mig'.todo # {},
         (setup # "migrate" => mig'.at = "off") /\ (mig'.at = "off" => mig'.todo = {}),
         mig'.at \in {"delete", "commit"} =>
           /\ \A s \in Slots : tab[s] # None /\ tab[s] \in KeysOf(mig'.batch) => tab[s] \in mig'.ins
           /\ \A k \in mig'.ins : his[k] = 0 /\ Known(k),
         mig'.at = "delete" => \A s \in Slots : tab[s] \in mig'.ins => s \in Hit(mig'.batch),
         mig'.at = "commit" => \A s \in Slots : tab[s] \in mig'.ins => s \in mig'.gone,
         \A s \in mig'.gone : tab[s] # None /\ (keycol = "keyid" => tab[s] \in KeysOf(mig'.batch)),
         mig'.at # "commit" => mig'.gone = {}
  PROVE  IInv'
<1>1. Fewer /\ tab' \in [Slots -> Keys \cup {None}]
  BY MoveFacts DEF Fewer
<1>2. MoveRecords'
  BY DEF IInv, Types, MoveRecords
<1>3. mig'.at \in {"off", "insert", "delete", "commit"} /\ mig'.ins \subseteq Keys /\ mig'.gone \subseteq Slots
  BY DEF Migs
<1>4. MoveType'
  BY <1>3 DEF IInv, Types, TypeOK, MoveType
<1>5. History'
  BY HistoryKeeps
<1>6. Moving'
  <2>1. Selected(mig.todo)'
    BY DEF Selected, Known
  <2>2. KeysOf(mig.batch)' = KeysOf(mig'.batch) /\ Hit(mig.batch)' = Hit(mig'.batch)
    BY DEF Hit, KeysOf
  <2>3. (\A r \in del.todo : age[r.key] = 2 /\ (setup = "clean" => r \in Picks))'
    BY MoveFacts
  <2>4. \A k : Known(k)' = Known(k)
    BY DEF Known
  <2>. QED
    BY <2>1, <2>2, <2>3, <2>4 DEF Moving
<1>. QED
  BY <1>1, <1>2, <1>4, <1>5, <1>6, MoveStep

\* migratetable may end at any place.
LEMMA MigIdleInv ==
  ASSUME IInv, mig' = MigIdle, UNCHANGED <<tab, his, del, swept>>,
         UNCHANGED <<setup, keycol, pend, drawn, age, val, sync>>, faults' \in 0..MaxFaults
  PROVE  IInv'
<1>1. /\ mig'.at = "off" /\ mig'.todo = {} /\ mig'.batch = {} /\ mig'.ins = {} /\ mig'.gone = {}
      /\ mig' \in Migs
  BY DEF MigIdle, Migs
<1>2. Selected(mig'.todo)
  BY <1>1 DEF Selected
<1>. QED
  BY <1>1, <1>2, MigKeeps

\* What migration selects is at the rowids it knows.
LEMMA MigSelectInv ==
  ASSUME IInv, Migrate, MigSelect
  PROVE  IInv'
<1>. DEFINE old == {k \in Rows : age[k] >= 1}
<1>. DEFINE todo == Found(old)
<1>. DEFINE m == [mig EXCEPT !.at = "insert", !.todo = todo]
<1>1. /\ mig' = m /\ setup = "migrate" /\ mig.at = "off" /\ old # {}
      /\ UNCHANGED <<tab, his, del, swept>> /\ Same
  BY DEF Migrate, MigSelect
<1>2. todo \in SUBSET Picks /\ Selected(todo) /\ KeysOf(todo) = old
  BY FoundFacts
<1>3. todo # {}
  BY <1>1, <1>2 DEF KeysOf
<1>. HIDE DEF old, todo
<1>4. m \in Migs /\ m.at = "insert" /\ m.todo = todo /\ m.batch = mig.batch /\ m.ins = mig.ins /\ m.gone = mig.gone
  BY <1>2, MoveFacts DEF Migs
<1>. HIDE DEF m
<1>5. mig.batch = {} /\ mig.ins = {} /\ mig.gone = {}
  BY <1>1, MoveFacts
<1>. QED
  BY <1>1, <1>2, <1>3, <1>4, <1>5, MoveFacts, MigKeeps DEF Same

\* A statement finds rows, and by keyid those of the batch.
LEMMA HitFacts ==
  ASSUME IInv, NEW B \in SUBSET Picks
  PROVE  /\ Hit(B) \in SUBSET Slots
         /\ \A s \in Hit(B) : tab[s] \in Rows /\ (keycol = "keyid" => tab[s] \in KeysOf(B))
<1>1. \A r \in B : r.slot \in Slots /\ r.key \in Keys
  BY DEF Picks
<1>2. keycol \in {"rowid", "keyid"}
  BY MoveFacts
<1>3. CASE keycol = "rowid"
  BY <1>1, <1>3, SyncFacts DEF Hit
<1>4. CASE keycol = "keyid"
  <2>1. \A s \in Hit(B) : s \in Slots /\ tab[s] \in KeysOf(B)
    BY <1>4 DEF Hit
  <2>2. None \notin KeysOf(B)
    BY <1>1, SyncFacts DEF KeysOf
  <2>. QED
    BY <2>1, <2>2, SyncFacts
<1>. QED
  BY <1>2, <1>3, <1>4

\* It inserts in the history the rows that its next statement will delete.
LEMMA MigInsertInv ==
  ASSUME IInv, Migrate, MigInsert
  PROVE  IInv'
<1>1. PICK B \in Batches(mig.todo) :
        mig' = [mig EXCEPT !.at = "delete", !.batch = B, !.ins = {tab[s] : s \in Hit(B)}]
  BY DEF MigInsert
<1>. DEFINE ins == {tab[s] : s \in Hit(B)}
<1>. DEFINE m == [mig EXCEPT !.at = "delete", !.batch = B, !.ins = ins]
<1>2. mig' = m /\ mig.at = "insert" /\ UNCHANGED <<tab, his, del, swept>> /\ Same
  BY <1>1 DEF Migrate, MigInsert
<1>3. B \in SUBSET Picks /\ B \subseteq mig.todo
  BY MoveFacts DEF Batches
<1>4. Hit(B) \in SUBSET Slots /\ ins \in SUBSET Rows
  BY <1>3, HitFacts
<1>5. ins \in SUBSET Keys /\ \A k \in ins : his[k] = 0 /\ Known(k)
  <2>1. \A k \in Rows : k \in Keys /\ his[k] \in {0, 1} /\ Known(k) /\ his[k] # 1
    BY SyncFacts, MoveFacts DEF IInv, History
  <2>. QED
    BY <1>4, <2>1
<1>6. \A s \in Slots : tab[s] # None /\ tab[s] \in KeysOf(B) => tab[s] \in ins
  <2>1. SUFFICES ASSUME NEW s \in Slots, tab[s] # None, NEW r \in B, tab[s] = r.key PROVE s \in Hit(B)
    BY DEF KeysOf
  <2>2. s = r.slot
    BY <1>3, <2>1, MoveFacts DEF Selected
  <2>. QED
    BY <2>1, <2>2 DEF Hit, KeysOf
<1>7. \A s \in Slots : tab[s] \in ins => s \in Hit(B)
  <2>1. SUFFICES ASSUME NEW s \in Slots, NEW t \in Hit(B), tab[s] = tab[t] PROVE s = t
    OBVIOUS
  <2>2. tab[t] # None /\ t \in Slots
    BY <1>3, HitFacts, SyncFacts
  <2>. QED
    BY <2>1, <2>2 DEF IInv, Apart
<1>. HIDE DEF ins
<1>8. m \in Migs /\ m.at = "delete" /\ m.todo = mig.todo /\ m.batch = B /\ m.ins = ins /\ m.gone = mig.gone
  BY <1>3, <1>5, MoveFacts DEF Migs
<1>. HIDE DEF m
<1>9. mig.gone = {}
  BY <1>2, MoveFacts
<1>. QED
  BY <1>2, <1>3, <1>5, <1>6, <1>7, <1>8, <1>9, MoveFacts, MigKeeps DEF Same

\* It deletes what it inserted, and rows that came to the rowids of others.
LEMMA MigDeleteInv ==
  ASSUME IInv, Migrate, MigDelete
  PROVE  IInv'
<1>. DEFINE gone == Hit(mig.batch)
<1>. DEFINE m == [mig EXCEPT !.at = "commit", !.gone = gone]
<1>1. mig' = m /\ mig.at = "delete" /\ UNCHANGED <<tab, his, del, swept>> /\ Same
  BY DEF Migrate, MigDelete
<1>2. mig.batch \in SUBSET Picks
  BY MoveFacts
<1>3. gone \in SUBSET Slots /\ \A s \in gone : tab[s] # None /\ (keycol = "keyid" => tab[s] \in KeysOf(mig.batch))
  BY <1>2, HitFacts, SyncFacts
<1>4. /\ \A s \in Slots : tab[s] # None /\ tab[s] \in KeysOf(mig.batch) => tab[s] \in mig.ins
      /\ \A k \in mig.ins : his[k] = 0 /\ Known(k)
      /\ \A s \in Slots : tab[s] \in mig.ins => s \in gone
  BY <1>1 DEF IInv, Moving
<1>. HIDE DEF gone
<1>5. m \in Migs /\ m.at = "commit" /\ m.todo = mig.todo /\ m.batch = mig.batch /\ m.ins = mig.ins /\ m.gone = gone
  BY <1>3, MoveFacts DEF Migs
<1>. HIDE DEF m
<1>. QED
  BY <1>1, <1>3, <1>4, <1>5, MoveFacts, MigKeeps DEF Same

\* What is left of the result after a batch.
LEMMA MigNextFacts ==
  ASSUME IInv, MigNext
  PROVE  /\ mig' \in Migs /\ mig'.todo = mig.todo \ mig.batch /\ mig'.batch = {} /\ mig'.ins = {}
         /\ mig'.gone = {} /\ mig'.at \in {"off", "insert"}
         /\ mig'.at = "off" <=> mig'.todo = {}
<1>. DEFINE rest == mig.todo \ mig.batch
<1>. DEFINE at == IF rest = {} THEN "off" ELSE "insert"
<1>. DEFINE m == [MigIdle EXCEPT !.at = at, !.todo = rest]
<1>1. mig' = m
  BY DEF MigNext
<1>2. rest \in SUBSET Picks /\ at \in {"off", "insert"} /\ (at = "off" <=> rest = {})
  BY MoveFacts
<1>3. rest = mig.todo \ mig.batch
  OBVIOUS
<1>. HIDE DEF at, rest
<1>4. MigIdle \in Migs /\ MigIdle.batch = {} /\ MigIdle.ins = {} /\ MigIdle.gone = {}
  BY DEF MigIdle, Migs
<1>5. m \in Migs /\ m.todo = rest /\ m.batch = {} /\ m.ins = {} /\ m.gone = {} /\ m.at = at
  BY <1>2, <1>4 DEF Migs
<1>. HIDE DEF m
<1>. QED
  BY <1>1, <1>2, <1>3, <1>5

\* What moves is in the history, and only that leaves the table, but for rows
\* at the rowids of others.
LEMMA MigCommitHistory ==
  ASSUME IInv, Migrate, MigCommit
  PROVE  History' /\ Rows' \subseteq Rows
<1>1. /\ mig.at = "commit" /\ tab' = Without(mig.gone)
      /\ his' = [k \in Keys |-> IF k \in mig.ins THEN his[k] + 1 ELSE his[k]]
      /\ swept' = swept \cup (Others(mig.gone, mig.batch) \ mig.ins)
      /\ UNCHANGED <<setup, keycol, age>>
  BY DEF Migrate, MigCommit, Same
<1>2. /\ \A s \in Slots : tab[s] # None /\ tab[s] \in KeysOf(mig.batch) => tab[s] \in mig.ins
      /\ \A k \in mig.ins : his[k] = 0 /\ Known(k)
      /\ \A s \in Slots : tab[s] \in mig.ins => s \in mig.gone
      /\ \A s \in mig.gone : tab[s] # None /\ (keycol = "keyid" => tab[s] \in KeysOf(mig.batch))
  BY <1>1 DEF IInv, Moving
<1>3. \A s \in Slots : tab'[s] = IF s \in mig.gone THEN None ELSE tab[s]
  BY <1>1 DEF Without
<1>4. Rows' \subseteq Rows
  BY <1>3 DEF Rows
<1>5. \A k \in Keys : /\ k \in mig.ins => his[k] = 0 /\ his'[k] = 1
                      /\ k \notin mig.ins => his'[k] = his[k]
                      /\ his[k] \in {0, 1}
  BY <1>1, <1>2, MoveFacts
<1>6. \A k \in Keys : his'[k] \in {0, 1} /\ (his'[k] = 1 => Known(k) /\ k \notin Rows')
  <2>1. \A k \in mig.ins : k \notin Rows' /\ Known(k)
    <3>1. SUFFICES ASSUME NEW s \in Slots, tab'[s] \in mig.ins PROVE FALSE
      BY <1>2 DEF Rows
    <3>2. tab'[s] # None
      BY <3>1, MoveFacts, SyncFacts
    <3>. QED
      BY <1>2, <1>3, <3>1, <3>2
  <2>2. \A k \in Keys : his[k] = 1 => Known(k) /\ k \notin Rows
    BY DEF IInv, History
  <2>. QED
    BY <1>4, <1>5, <2>1, <2>2
<1>7. setup \in {"migrate", "clean"} =>
        \A k \in Keys : Known(k) /\ age[k] < 2 /\ ~(keycol = "rowid" /\ k \in swept')
                          => his'[k] = 1 \/ k \in Rows'
  <2>1. SUFFICES ASSUME setup \in {"migrate", "clean"}, NEW k \in Keys, Known(k), age[k] < 2,
                        ~(keycol = "rowid" /\ k \in swept'), k \notin mig.ins
        PROVE  his[k] = 1 \/ k \in Rows'
    BY <1>5
  <2>2. his[k] = 1 \/ k \in Rows
    BY <1>1, <2>1 DEF IInv, History
  <2>3. CASE k \in Rows
    <3>1. PICK s \in Slots : tab[s] = k
      BY <2>3 DEF Rows
    <3>2. k # None
      BY SyncFacts
    <3>3. CASE s \notin mig.gone
      BY <1>3, <3>1, <3>2, <3>3 DEF Rows
    <3>4. CASE s \in mig.gone
      <4>1. k \notin KeysOf(mig.batch)
        BY <1>2, <2>1, <3>1, <3>2
      <4>2. keycol = "rowid"
        BY <1>2, <3>1, <3>4, <4>1, MoveFacts
      <4>3. k \in swept'
        BY <1>1, <2>1, <3>1, <3>4, <4>1 DEF Others
      <4>. QED
        BY <2>1, <4>2, <4>3
    <3>. QED
      BY <3>3, <3>4
  <2>. QED
    BY <2>2, <2>3
<1>. QED
  BY <1>1, <1>4, <1>6, <1>7 DEF History, Known

\* The commit moves the rows of the batch and no others.
LEMMA MigCommitInv ==
  ASSUME IInv, Migrate, MigCommit
  PROVE  IInv'
<1>1. /\ mig.at = "commit" /\ tab' = Without(mig.gone) /\ MigNext
      /\ his' = [k \in Keys |-> IF k \in mig.ins THEN his[k] + 1 ELSE his[k]]
      /\ swept' = swept \cup (Others(mig.gone, mig.batch) \ mig.ins)
      /\ UNCHANGED <<setup, keycol, pend, drawn, age, val, faults, sync, del>>
  BY DEF Migrate, MigCommit, Same
<1>2. Fewer /\ tab' \in [Slots -> Keys \cup {None}]
  BY <1>1, MoveFacts DEF Fewer, Without
<1>3. /\ mig' \in Migs /\ mig'.todo = mig.todo \ mig.batch /\ mig'.batch = {} /\ mig'.ins = {}
      /\ mig'.gone = {} /\ mig'.at \in {"off", "insert"}
      /\ mig'.at = "off" <=> mig'.todo = {}
  BY <1>1, MigNextFacts
<1>4. MoveRecords'
  BY <1>1, <1>3 DEF IInv, Types, MoveRecords
<1>5. MoveType'
  <2>1. his' \in [Keys -> 0..2]
    BY <1>1, MoveFacts
  <2>2. swept' \subseteq Keys
    <3>1. \A s \in mig.gone : tab[s] \in Rows
      BY SyncFacts, MoveFacts DEF IInv, Moving
    <3>. QED
      BY <1>1, <3>1, MoveFacts, SyncFacts DEF Others
  <2>. QED
    BY <1>1, <1>3, <2>1, <2>2 DEF IInv, Types, TypeOK, MoveType
<1>6. Moving'
  <2>1. Selected(mig.todo)'
    <3>1. PICK P : P = mig.todo
      OBVIOUS
    <3>2. P \in SUBSET [slot : Slots \cup {None}, key : Keys] /\ Selected(P)
      BY <3>1, MoveFacts DEF Picks
    <3>3. Selected(P)'
      BY <1>1, <1>2, <3>2, SelectedKeeps DEF Remembers, Known
    <3>. QED
      BY <1>3, <3>1, <3>3 DEF Selected
  <2>2. (\A r \in del.todo : age[r.key] = 2 /\ (setup = "clean" => r \in Picks))'
    BY <1>1, MoveFacts
  <2>3. setup = "migrate"
    BY <1>1, MoveFacts
  <2>. QED
    BY <1>1, <1>3, <2>1, <2>2, <2>3 DEF Moving
<1>. QED
  BY <1>1, <1>2, <1>4, <1>5, <1>6, MigCommitHistory, MoveFacts, MoveStep

\* migratetable keeps the invariant.
LEMMA MigrateInv == ASSUME IInv, Migrate PROVE IInv'
  BY MigSelectInv, MigInsertInv, MigDeleteInv, MigCommitInv DEF Migrate, MigStep

\* So do its end at any place and a commit that fails.
LEMMA MigFaultInv ==
  ASSUME IInv, MigFault, UNCHANGED <<setup, keycol, pend, drawn, age, val, sync>>,
         faults' \in 0..MaxFaults
  PROVE  IInv'
<1>1. CASE MigEnds
  BY <1>1, MigIdleInv DEF MigEnds
<1>2. CASE MigCommitFails
  <2>1. mig.at = "commit" /\ UNCHANGED <<tab, his, del, swept>> /\ MigNext
    BY <1>2 DEF MigCommitFails
  <2>2. /\ mig' \in Migs /\ mig'.todo = mig.todo \ mig.batch /\ mig'.batch = {} /\ mig'.ins = {}
        /\ mig'.gone = {} /\ mig'.at \in {"off", "insert"}
        /\ mig'.at = "off" <=> mig'.todo = {}
    BY <2>1, MigNextFacts
  <2>3. Selected(mig'.todo)
    BY <2>2, MoveFacts DEF Selected
  <2>. QED
    BY <2>1, <2>2, <2>3, MoveFacts, MigKeeps
<1>. QED
  BY <1>1, <1>2 DEF MigFault

-----------------------------------------------------------------------------
(* deletetable.                                                            *)

\* deletetable may end at any place.
LEMMA DelIdleInv ==
  ASSUME IInv, del' = DelIdle, UNCHANGED <<tab, his, mig, swept>>,
         UNCHANGED <<setup, keycol, pend, drawn, age, val, sync>>, faults' \in 0..MaxFaults
  PROVE  IInv'
<1>1. del'.at = "off" /\ del'.todo = {} /\ del' \in Dels
  BY DEF DelIdle, Dels
<1>2. Fewer /\ Remembers /\ tab' \in [Slots -> Keys \cup {None}]
  BY MoveFacts DEF Fewer, Remembers, Known
<1>3. MoveRecords' /\ MoveType'
  BY <1>1 DEF IInv, Types, TypeOK, MoveRecords, MoveType
<1>4. Moving' /\ History'
  BY <1>1, <1>2, MovingKeeps, HistoryKeeps
<1>. QED
  BY <1>2, <1>3, <1>4, MoveStep

\* It selects rows old enough to be deleted.
LEMMA DelSelectInv ==
  ASSUME IInv, Clean, DelSelect
  PROVE  IInv'
<1>1. /\ OldRows # {} /\ del' = [at |-> "delete", todo |-> OldRows]
      /\ UNCHANGED <<tab, his, mig, swept>> /\ UNCHANGED <<setup, keycol, pend, drawn, age, val, faults, sync>>
  BY DEF Clean, DelSelect, Same
<1>2. OldRows \in SUBSET [slot : Slots \cup {None}, key : Keys]
      /\ \A r \in OldRows : age[r.key] = 2 /\ (setup = "clean" => r \in Picks)
  <2>1. CASE setup = "clean"
    <3>. DEFINE R == {k \in Rows : age[k] = 2}
    <3>1. Found(R) \in SUBSET Picks /\ KeysOf(Found(R)) = R
      BY FoundFacts
    <3>2. \A r \in Found(R) : r.key \in R
      BY <3>1 DEF KeysOf
    <3>3. OldRows = Found(R)
      BY <2>1 DEF OldRows
    <3>. HIDE DEF R
    <3>4. \A k \in R : age[k] = 2
      BY DEF R
    <3>. QED
      BY <3>1, <3>2, <3>3, <3>4 DEF Picks
  <2>2. CASE setup # "clean"
    BY <2>2 DEF OldRows
  <2>. QED
    BY <2>1, <2>2
<1>3. del'.at = "delete" /\ del'.todo = OldRows /\ del' \in Dels
  BY <1>1, <1>2 DEF Dels
<1>4. Fewer /\ Remembers /\ tab' \in [Slots -> Keys \cup {None}]
  BY <1>1, MoveFacts DEF Fewer, Remembers, Known
<1>5. MoveRecords' /\ MoveType'
  BY <1>1, <1>3 DEF IInv, Types, TypeOK, MoveRecords, MoveType
<1>6. Moving' /\ History'
  BY <1>1, <1>2, <1>3, <1>4, MovingKeeps, HistoryKeeps
<1>. QED
  BY <1>1, <1>4, <1>5, <1>6, MoveFacts, MoveStep

\* It deletes these, and rows that came to their rowids.
LEMMA DelBatchInv ==
  ASSUME IInv, Clean, DelBatch
  PROVE  IInv'
<1>1. PICK B \in Batches(del.todo) :
        /\ IF setup = "clean"
           THEN /\ tab' = Without(Hit(B))
                /\ swept' = swept \cup Others(Hit(B), B)
                /\ UNCHANGED his
           ELSE /\ his' = [k \in Keys |-> IF k \in KeysOf(B) THEN 0 ELSE his[k]]
                /\ UNCHANGED <<tab, swept>>
        /\ del' = IF del.todo = B THEN DelIdle ELSE [del EXCEPT !.todo = @ \ B]
  BY DEF Clean, DelBatch
<1>2. del.at = "delete" /\ UNCHANGED <<mig, setup, keycol, pend, drawn, age, val, faults, sync>>
  BY DEF Clean, DelBatch, Same
<1>3. B \subseteq del.todo /\ \A r \in B : r.key \in Keys /\ age[r.key] = 2
  <2>1. B \subseteq del.todo
    BY DEF Batches
  <2>. QED
    BY <2>1, MoveFacts
<1>4. /\ del' \in Dels /\ del'.todo \subseteq del.todo
      /\ del'.at = "delete" <=> del'.todo # {}
  <2>1. CASE del.todo = B
    BY <1>1, <2>1 DEF DelIdle, Dels
  <2>2. CASE del.todo # B
    <3>. DEFINE d == [del EXCEPT !.todo = del.todo \ B]
    <3>1. del' = d
      BY <1>1, <2>2
    <3>2. d \in Dels /\ d.at = "delete" /\ d.todo = del.todo \ B
      BY <1>2, MoveFacts DEF Dels
    <3>. HIDE DEF d
    <3>. QED
      BY <1>3, <2>2, <3>1, <3>2
  <2>. QED
    BY <2>1, <2>2
<1>5. \A r \in del'.todo : age'[r.key] = 2 /\ (setup = "clean" => r \in Picks)
  BY <1>2, <1>4, MoveFacts
<1>6. \A k \in KeysOf(B) : k \in Keys /\ age[k] = 2
  BY <1>3 DEF KeysOf
<1>7. Remembers
  BY <1>2 DEF Remembers, Known
<1>8. MoveRecords'
  BY <1>2, <1>4 DEF IInv, Types, MoveRecords
<1>9. CASE setup = "clean"
  <2>1. tab' = Without(Hit(B)) /\ swept' = swept \cup Others(Hit(B), B) /\ his' = his
    BY <1>1, <1>9
  <2>2. B \in SUBSET Picks
    BY <1>3, <1>9, MoveFacts
  <2>3. Hit(B) \in SUBSET Slots
        /\ \A s \in Hit(B) : tab[s] \in Rows /\ (keycol = "keyid" => tab[s] \in KeysOf(B))
    BY <2>2, HitFacts
  <2>4. \A s \in Slots : tab'[s] = IF s \in Hit(B) THEN None ELSE tab[s]
    BY <2>1 DEF Without
  <2>5. Fewer /\ tab' \in [Slots -> Keys \cup {None}]
    BY <2>1, MoveFacts DEF Fewer, Without
  <2>6. MoveType'
    <3>1. swept' \subseteq Keys
      BY <2>1, <2>3, SyncFacts, MoveFacts DEF Others
    <3>2. del'.at \in {"off", "delete"}
      BY <1>4 DEF Dels
    <3>. QED
      BY <1>2, <1>4, <2>1, <3>1, <3>2 DEF IInv, Types, TypeOK, MoveType
  <2>7. Moving'
    <3>1. mig.gone = {}
      BY <1>9, MoveFacts
    <3>. QED
      BY <1>2, <1>5, <1>7, <2>1, <2>5, <3>1, MovingKeeps
  <2>8. Rows' \subseteq Rows
    BY <2>5, FewerFacts
  <2>9. \A k \in Rows : age[k] < 2 /\ ~(keycol = "rowid" /\ k \in swept') => k \in Rows'
    <3>1. SUFFICES ASSUME NEW s \in Slots, tab[s] # None, age[tab[s]] < 2, s \in Hit(B)
          PROVE keycol = "rowid" /\ tab[s] \in swept'
      BY <2>4 DEF Rows
    <3>2. age[tab[s]] # 2
      BY <3>1
    <3>3. tab[s] \notin KeysOf(B)
      BY <1>6, <3>2
    <3>4. tab[s] \in swept'
      BY <2>1, <3>1, <3>3 DEF Others
    <3>. QED
      BY <2>3, <3>1, <3>3, <3>4, MoveFacts
  <2>10. History'
    <3>1. \A k \in Keys : his[k] \in {0, 1} /\ (his[k] = 1 => Known(k) /\ k \notin Rows')
      BY <2>8 DEF IInv, History
    <3>2. \A k \in Keys : Known(k) /\ age[k] < 2 /\ ~(keycol = "rowid" /\ k \in swept')
                            => his[k] = 1 \/ k \in Rows'
      <4>1. \A k \in swept : k \in swept'
        BY <2>1
      <4>. QED
        BY <1>9, <2>9, <4>1 DEF IInv, History
    <3>. QED
      BY <1>2, <2>1, <3>1, <3>2 DEF History, Known
  <2>. QED
    BY <1>2, <1>8, <2>5, <2>6, <2>7, <2>10, MoveFacts, MoveStep
<1>10. CASE setup # "clean"
  <2>1. his' = [k \in Keys |-> IF k \in KeysOf(B) THEN 0 ELSE his[k]] /\ UNCHANGED <<tab, swept>>
    BY <1>1, <1>10
  <2>2. Fewer /\ tab' \in [Slots -> Keys \cup {None}]
    BY <2>1, MoveFacts DEF Fewer
  <2>3. \A k \in Keys : /\ k \in KeysOf(B) => his'[k] = 0
                        /\ k \notin KeysOf(B) => his'[k] = his[k]
    BY <2>1
  <2>4. MoveType'
    <3>1. his' \in [Keys -> 0..2]
      BY <2>1, MoveFacts
    <3>2. del'.at \in {"off", "delete"}
      BY <1>4 DEF Dels
    <3>. QED
      BY <1>2, <1>4, <2>1, <3>1, <3>2 DEF IInv, Types, TypeOK, MoveType
  <2>5. Moving'
    <3>1. \A k \in Keys : his[k] = 0 => his'[k] = 0
      BY <2>3
    <3>2. \A s \in mig.gone : tab'[s] = tab[s]
      BY <2>1
    <3>. QED
      BY <1>2, <1>5, <1>7, <2>2, <3>1, <3>2, MovingKeeps
  <2>6. History'
    <3>1. Rows' = Rows
      BY <2>1 DEF Rows
    <3>2. \A k \in Keys : age[k] < 2 => k \notin KeysOf(B)
      <4>1. ~(2 < 2)
        OBVIOUS
      <4>. QED
        BY <1>6, <4>1
    <3>3. \A k \in Keys : his'[k] \in {0, 1} /\ (his'[k] = 1 => his[k] = 1)
      BY <2>3, MoveFacts
    <3>. QED
      BY <1>2, <2>1, <2>3, <3>1, <3>2, <3>3 DEF IInv, History, Known
  <2>. QED
    BY <1>2, <1>8, <2>2, <2>4, <2>5, <2>6, MoveFacts, MoveStep
<1>. QED
  BY <1>9, <1>10

-----------------------------------------------------------------------------
(* All the steps.                                                          *)

\* Faults keep the invariant.
LEMMA FaultInv == ASSUME IInv, Fault PROVE IInv'
<1>1. faults' \in 0..MaxFaults
  BY MoveFacts DEF Fault, Faulty
<1>2. CASE (IncFault \/ RefFault) /\ UNCHANGED <<tab, move>>
  BY <1>1, <1>2, IncFaultInv, RefFaultInv DEF Fault, Faulty
<1>3. CASE (MigFault \/ DelEnds) /\ UNCHANGED sync
  <2>1. CASE MigFault
    BY <1>1, <1>3, <2>1, MigFaultInv DEF Fault, Faulty
  <2>2. CASE DelEnds
    BY <1>1, <1>3, <2>2, DelIdleInv DEF Fault, Faulty, DelEnds
  <2>. QED
    BY <1>3, <2>1, <2>2
<1>. QED
  BY <1>2, <1>3 DEF Fault

\* So does what changes nothing.
LEMMA StutterInv == ASSUME IInv, UNCHANGED vars PROVE IInv'
<1>1. UNCHANGED <<tables, sync, move>>
  BY DEF vars
<1>2. UNCHANGED <<setup, keycol, tab, pend, drawn, age, val, move>> /\ faults' \in 0..MaxFaults
  BY <1>1, MoveFacts DEF tables
<1>3. Refreshing' /\ (Copying => Copying')
  BY <1>1, <1>2, RefreshingKeeps, CopyingKeeps DEF Fewer, Remembers, Known, sync
<1>. QED
  BY <1>1, <1>2, <1>3, SyncKeeps, SyncStep DEF IInv

\* A step of Next keeps the invariant.
LEMMA StepInv == IInv /\ [Next]_vars => IInv'
<1>1. ASSUME IInv, Clean PROVE IInv'
  BY <1>1, DelSelectInv, DelBatchInv DEF Clean, DelStep
<1>. QED
  BY <1>1, WriterInv, IncInv, RefInv, MigrateInv, FaultInv, StutterInv DEF Next

\* The invariant holds in every state of the database and its tools.
THEOREM Inductive == Spec => []IInv
  BY InitInv, StepInv, PTL DEF Spec

-----------------------------------------------------------------------------
\* The variables of the database have their types: a program that is to
\* insert has rows to insert, no two sessions hold the same new key, and what
\* syncinc is about to commit is not in the local table.
THEOREM TypeCorrect == Spec => []TypeOK
<1>1. IInv => TypeOK
  BY DEF IInv, Types
<1>. QED
  BY <1>1, Inductive, PTL

\* A committed row is in the table or in its history and never in both,
\* whatever migratetable, deletetable, the SQL script and faults do between
\* them; a row put at the rowid of a selected one is excepted.
THEOREM KeptCorrect == Spec => []Kept
<1>1. ASSUME IInv PROVE Kept
  <2>1. SUFFICES ASSUME setup \in {"migrate", "clean"}, NEW k \in Keys, Known(k)
        PROVE  /\ Copies(k) <= 1
               /\ age[k] < 2 /\ ~(keycol = "rowid" /\ k \in swept) => Copies(k) = 1
    BY DEF Kept, Known
  <2>2. /\ his[k] \in {0, 1} /\ (his[k] = 1 => k \notin Rows)
        /\ age[k] < 2 /\ ~(keycol = "rowid" /\ k \in swept) => his[k] = 1 \/ k \in Rows
    BY <1>1, <2>1 DEF IInv, History
  <2>. QED
    BY <2>2 DEF Copies
<1>. QED
  BY <1>1, Inductive, PTL

\* syncinc goes past no row: one below the greatest local key is in the local
\* table, or excused for one of the reasons the property names.
THEOREM SkipsNothingCorrect == Spec => []SkipsNothing
<1>1. ASSUME IInv PROVE SkipsNothing
  <2>1. SUFFICES ASSUME setup \in {"inc", "inc_batches"}, NEW k \in Rows, k < Greatest(DOMAIN loc)
        PROVE  Done(k)
    BY DEF SkipsNothing, Done
  <2>2. PICK g : g = Greatest(DOMAIN loc)
    OBVIOUS
  <2>3. g \in DOMAIN loc \cup {0}
    <3>1. DOMAIN loc \in SUBSET (0..MaxKey)
      BY <1>1, SyncFacts DEF Keys
    <3>. QED
      BY <2>2, <3>1, GreatestFact
  <2>4. ~(k < 0)
    BY <1>1, SyncFacts
  <2>. QED
    BY <1>1, <2>1, <2>2, <2>3, <2>4 DEF IInv, Copying
<1>. QED
  BY <1>1, Inductive, PTL

=============================================================================
