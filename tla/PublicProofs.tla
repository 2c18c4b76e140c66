---------------------------- MODULE PublicProofs -----------------------------
(***************************************************************************)
(* Three parts of the utility library _public, the heartbeats, the log     *)
(* file and the circular queue, and the Oracle wrapper _ooci.              *)
(*                                                                         *)
(* Heartbeats, for any number of programs, slots, process numbers, crashes *)
(* and hang-ups: the state has its types; as long as no slot is written    *)
(* while checkproc deals with it, no two processes share a slot and        *)
(* checkproc ends no process that renews its time.  The argument: a record *)
(* and the process it is about point to each other (Owned, Single,         *)
(* Distinct), and from each of its reads on checkproc works on the record  *)
(* of a process that is dead or hung (Checked).                            *)
(*                                                                         *)
(* Log file, for any number of threads: whoever is between lock() and      *)
(* unlock() has the lock (LockHeld), so the file ends with whole lines or  *)
(* with the one that is being written (Unfinished, Finished), and each     *)
(* line that was written is in a file or a second had two rotations        *)
(* (AllFound).                                                             *)
(*                                                                         *)
(* Circular queue, for any MaxLength: the tail is where head and length    *)
(* say (RingInv), so every call is a step of the bounded queue (RingStep). *)
(*                                                                         *)
(* Oracle wrapper, for any number of connections, statements and sessions: *)
(* an open connection has a session that no other has, because sessions    *)
(* are numbered as they are made (Numbered), so what a statement does it   *)
(* does to the transaction of its own connection.  LOBs, for any length of *)
(* piece: what was written is the beginning of the source, what is in the  *)
(* buffer comes next (ToLob, ToFile).                                      *)
(***************************************************************************)
EXTENDS Heartbeat, LogFile, Ring, Oci, OciLob, TLAPS, SequenceTheorems

Memory == [Slots -> [pid : Pids \cup {None}, late : BOOLEAN]]
Procs  == [Programs -> [at : {"down", "find", "init", "setval", "wait", "choose", "write", "run"},
                        pid : Pids \cup {None}, pos : Slots \cup {None}]]
Checks == [at : {"down", "look", "late", "copy", "term", "sleep", "kill", "wipe", "erase"},
           ii : Slots, pid : Pids \cup {None}]

Typed ==
  /\ shm \in Memory /\ proc \in Procs /\ check \in Checks
  /\ sem \in {"none", "zero", "free"} \cup Programs
  /\ seen \in Pids \cup {None} /\ hung \subseteq Programs
  /\ raced \in BOOLEAN /\ wronged \in BOOLEAN

Unique == \A a, b \in Programs : a # b => proc[a].pid = None \/ proc[a].pid # proc[b].pid

\* What the place of a process says of its other variables.
Control ==
  /\ \A a \in Programs :
       /\ proc[a].at = "down" <=> proc[a].pid = None
       /\ proc[a].at \in {"down", "find"} => proc[a].pos = None
       /\ proc[a].at = "write" => proc[a].pos # None
       /\ proc[a].at = "setval" => sem = "zero"
       /\ proc[a].at \in {"choose", "write"} <=> sem = a
       /\ a \in hung => proc[a].at = "run"
  /\ \A a, b \in Programs : proc[a].at = "setval" /\ proc[b].at = "setval" => a = b

Types == Typed /\ Unique /\ Control

\* A record whose time is renewed is not late.
Renewed == \A a \in Programs \ hung :
             proc[a].at = "run" /\ proc[a].pos # None => ~shm[proc[a].pos].late

\* The slot of a process holds its number, or none until it is written.
Owned == \A a \in Programs : proc[a].pos # None =>
           \/ shm[proc[a].pos].pid = proc[a].pid
           \/ proc[a].at = "write" /\ shm[proc[a].pos].pid = None

\* A process that has looked knows of the slot that holds its number.
Single == \A a \in Programs, s \in Slots :
            proc[a].at \notin {"down", "find"} /\ shm[s].pid = proc[a].pid => proc[a].pos = s

Distinct == \A s, r \in Slots : shm[s].pid = shm[r].pid /\ shm[s].pid # None => s = r

\* A process that checkproc is about to end.
Doomed(a) == /\ proc[a].at = "run" => a \in hung
             /\ \/ proc[a].at = "find" /\ shm[check.ii].pid = check.pid
                \/ proc[a].pos = check.ii

Checked ==
  /\ check.at = "erase" => /\ seen # None /\ shm[check.ii].pid \in {seen, None}
                           /\ \A a \in Programs : proc[a].pid # seen
  /\ check.at = "copy" => \A a \in Programs :
                            proc[a].at = "run" /\ proc[a].pid = shm[check.ii].pid => a \in hung
  /\ check.at \in {"term", "sleep", "kill", "wipe"} =>
       /\ check.pid # None /\ shm[check.ii].pid \in {check.pid, None}
       /\ \A a \in Programs : proc[a].pid = check.pid => check.at # "wipe" /\ Doomed(a)

Clean == Owned /\ Single /\ Distinct /\ Checked /\ ~wronged

Inv == faults \in 0..MaxFaults /\ Types /\ Renewed /\ (~raced => Clean)

USE HeartbeatAssumption

-----------------------------------------------------------------------------
\* It holds before the first program starts.
LEMMA InitInv == Init => Inv
<1>. SUFFICES ASSUME Init PROVE Inv
  OBVIOUS
<1>1. Typed
  BY DEF Init, Free, Out, Typed, Memory, Procs, Checks
<1>2. \A a \in Programs : proc[a].pid = None /\ proc[a].at = "down" /\ proc[a].pos = None /\ sem # a
  BY DEF Init, Out
<1>5. hung = {} /\ faults \in 0..MaxFaults
  <2>1. hung = {} /\ faults = 0 /\ MaxFaults \in Nat
    BY DEF Init
  <2>. QED
    BY <2>1
<1>6. Unique /\ Control
  BY <1>2, <1>5 DEF Unique, Control
<1>3. Renewed
  BY DEF Init, Renewed, Out
<1>4. Clean
  BY DEF Init, Clean, Owned, Single, Distinct, Checked, Free, Out
<1>. QED
  BY <1>1, <1>3, <1>4, <1>5, <1>6 DEF Inv, Types

-----------------------------------------------------------------------------
(* What a step of a program or of checkproc changes.                       *)

\* A process that starts.
LEMMA ForkTypes ==
  ASSUME Types, NEW a \in Programs, a \notin hung, NEW numbers \in SUBSET Pids, Fork(a, numbers)
  PROVE  /\ proc' \in Procs
         /\ proc'[a].at = "find" /\ proc'[a].pos = None
         /\ proc'[a].pid \in Pids /\ proc'[a].pid # seen /\ proc'[a].pid # check.pid
         /\ \A b \in Programs : proc[b].pid # proc'[a].pid
         /\ \A b \in Programs : b # a => proc'[b] = proc[b]
         /\ proc[a].at = "down" /\ UNCHANGED <<shm, sem, hung>>
<1>1. PICK p \in numbers : /\ p \notin Alive \cup {seen, check.pid}
                          /\ proc' = [proc EXCEPT ![a] = [at |-> "find", pid |-> p, pos |-> None]]
  BY DEF Fork
<1>2. p \in Pids /\ p # None
  OBVIOUS
<1>3. \A b \in Programs : proc[b].pid # p
  BY <1>1, <1>2 DEF Alive
<1>. QED
  BY <1>1, <1>2, <1>3 DEF Fork, Types, Typed, Procs

\* A process that ends.
LEMMA GoneTypes ==
  ASSUME Types, NEW a \in Programs, NEW clears \in BOOLEAN, Gone(a, clears)
  PROVE  /\ proc' \in Procs
         /\ shm' \in Memory
         /\ proc'[a].at = "down" /\ proc'[a].pid = None /\ proc'[a].pos = None
         /\ \A b \in Programs : b # a => proc'[b] = proc[b]
         /\ \A s \in Slots : shm'[s] = shm[s] \/ (shm'[s] = Free /\ proc[a].pos = s)
         /\ hung' = hung \ {a}
         /\ sem' = IF sem = a THEN "free" ELSE sem
<1>1. proc' = [proc EXCEPT ![a] = Out] /\ proc \in Procs
  BY DEF Gone, Types, Typed, Procs
<1>2. shm' = shm \/ (proc[a].pos # None /\ shm' = [shm EXCEPT ![proc[a].pos] = Free])
  BY DEF Gone
<1>3. shm \in Memory
  BY DEF Types, Typed, Memory
<1>. QED
  BY <1>1, <1>2, <1>3 DEF Gone, Out, Free, Procs, Memory

-----------------------------------------------------------------------------
(* Types and places.                                                       *)

\* A fault: a process takes a number of the dead, one is killed, one hangs.
LEMMA FaultCases ==
  ASSUME Types, Fault
  PROVE  /\ faults < MaxFaults /\ faults' = faults + 1 /\ UNCHANGED <<check, seen, raced, wronged>>
         /\ \E a \in Programs \ hung :
              \/ Fork(a, Stale) /\ Stale \in SUBSET Pids
              \/ proc[a].at # "down" /\ Gone(a, FALSE)
              \/ proc[a].at = "run" /\ hung' = hung \cup {a} /\ UNCHANGED <<shm, sem, proc>>
<1>1. Stale \in SUBSET Pids
  BY DEF Types, Typed, Memory, Stale
<1>. QED
  BY <1>1 DEF Fault

LEMMA CheckTyped ==
  ASSUME Types, \/ CheckStarts \/ Look \/ Late \/ Copy \/ Wait \/ Erase
  PROVE  Typed' /\ UNCHANGED <<sem, proc, hung, faults>>
<1>1. check \in Checks /\ check.ii \in Slots /\ shm[check.ii].pid \in Pids \cup {None}
  BY DEF Types, Typed, Checks, Memory
<1>2. NextSlot => check' \in Checks /\ seen' = None
  BY <1>1 DEF NextSlot, Checks
<1>3. CASE CheckStarts
  BY <1>1, <1>3 DEF CheckStarts, CheckAt, Types, Typed, Checks
<1>4. CASE Look
  BY <1>1, <1>2, <1>4 DEF Look, CheckAt, Types, Typed, Checks
<1>5. CASE Late
  BY <1>1, <1>2, <1>5 DEF Late, CheckAt, Types, Typed, Checks
<1>6. CASE Copy
  BY <1>1, <1>2, <1>6 DEF Copy, Types, Typed, Checks
<1>7. CASE Wait
  BY <1>1, <1>2, <1>7 DEF Wait, CheckAt, Types, Typed, Checks
<1>8. CASE Erase
  BY <1>1, <1>2, <1>8 DEF Erase, Free, Types, Typed, Memory
<1>. QED
  BY <1>3, <1>4, <1>5, <1>6, <1>7, <1>8

\* The steps of a program that has its number and lives on.
LEMMA MoveTypes ==
  ASSUME Types, NEW a \in Programs,
         \/ FindOwn(a) \/ InitSem(a) \/ Enter(a) \/ Choose(a) \/ Write(a)
  PROVE  /\ Typed' /\ UNCHANGED <<hung, check, seen, wronged, faults>>
         /\ proc'[a].pid = proc[a].pid /\ proc[a].pid # None
         /\ \A b \in Programs : b # a => proc'[b] = proc[b]
<1>1. proc \in Procs /\ shm \in Memory /\ proc[a].pid # None /\ a \notin {"none", "zero", "free"}
  BY DEF Types, Typed, Control, FindOwn, InitSem, Enter, Choose, Write, Move
<1>2. CASE FindOwn(a)
  BY <1>1, <1>2 DEF FindOwn, Types, Typed, Procs
<1>3. CASE InitSem(a)
  BY <1>1, <1>3 DEF InitSem, Move, Types, Typed, Procs
<1>4. CASE Enter(a)
  BY <1>1, <1>4 DEF Enter, Move, Types, Typed, Procs
<1>5. CASE Choose(a)
  BY <1>1, <1>5 DEF Choose, Move, Types, Typed, Procs
<1>6. CASE Write(a)
  <2>1. proc[a].pos \in Slots
    BY <1>1, <1>6 DEF Write, Types, Control, Procs
  <2>2. shm' \in Memory
    BY <1>1, <1>6, <2>1 DEF Write, Memory, Procs
  <2>. QED
    BY <1>1, <1>6, <2>2 DEF Write, Move, Types, Typed, Procs
<1>. QED
  BY <1>2, <1>3, <1>4, <1>5, <1>6

\* The end of a process keeps types and places.
LEMMA GoneKeepsTypes ==
  ASSUME Types, NEW a \in Programs, NEW clears \in BOOLEAN, Gone(a, clears),
         check' \in Checks, seen' \in Pids \cup {None}, UNCHANGED raced, wronged' \in BOOLEAN
  PROVE  Types'
<1>1. Typed'
  BY GoneTypes DEF Types, Typed
<1>2. Unique'
  BY GoneTypes DEF Types, Unique
<1>3. Control'
  <2>1. sem' # a /\ sem' \in {sem, "free"} /\ (sem' = sem \/ sem = a)
    BY GoneTypes
  <2>2. sem = a => proc[a].at # "setval" /\ sem # "zero"
    BY DEF Types, Control
  <2>. QED
    BY <2>1, <2>2, GoneTypes DEF Types, Control
<1>. QED
  BY <1>1, <1>2, <1>3 DEF Types

LEMMA ForkKeepsTypes ==
  ASSUME Types, NEW a \in Programs, a \notin hung, NEW numbers \in SUBSET Pids, Fork(a, numbers),
         UNCHANGED <<check, seen, raced, wronged>>
  PROVE  Types'
<1>1. Typed'
  BY ForkTypes DEF Types, Typed
<1>2. Unique'
  BY ForkTypes DEF Types, Unique
<1>3. Control'
  BY ForkTypes DEF Types, Control
<1>. QED
  BY <1>1, <1>2, <1>3 DEF Types

LEMMA MoveKeepsTypes ==
  ASSUME Types, NEW a \in Programs,
         \/ FindOwn(a) \/ InitSem(a) \/ Enter(a) \/ Choose(a) \/ Write(a)
  PROVE  Types'
<1>1. Unique'
  BY MoveTypes DEF Types, Unique
<1>2. proc \in Procs /\ proc' \in Procs
  BY MoveTypes DEF Types, Typed
<1>3. CASE FindOwn(a)
  <2>1. proc'[a].at = "init" /\ proc[a].at = "find" /\ UNCHANGED <<sem, hung>>
    BY <1>2, <1>3 DEF FindOwn, Procs
  <2>. QED
    BY <1>1, <2>1, MoveTypes DEF Types, Control
<1>4. CASE InitSem(a)
  <2>1. /\ proc'[a].at \in {"setval", "wait"} /\ proc[a].at \in {"init", "setval"} /\ UNCHANGED hung
        /\ \/ sem = "none" /\ sem' = "zero" /\ proc'[a].at = "setval"
           \/ sem' = sem /\ proc[a].at = "init" /\ proc'[a].at = "wait"
           \/ proc[a].at = "setval" /\ sem' = "free" /\ proc'[a].at = "wait"
    BY <1>2, <1>4 DEF InitSem, Move, Procs
  <2>. QED
    BY <1>1, <2>1, MoveTypes DEF Types, Control
<1>5. CASE Enter(a)
  <2>1. proc'[a].at = "choose" /\ proc[a].at = "wait" /\ sem = "free" /\ sem' = a /\ UNCHANGED hung
    BY <1>2, <1>5 DEF Enter, Move, Procs
  <2>. QED
    BY <1>1, <2>1, MoveTypes DEF Types, Control
<1>6. CASE Choose(a)
  <2>1. /\ proc[a].at = "choose" /\ UNCHANGED hung
        /\ \/ proc'[a].at = "write" /\ proc'[a].pos # None /\ sem' = sem
           \/ proc'[a].at = "run" /\ sem' = "free"
    BY <1>2, <1>6 DEF Choose, Move, Procs
  <2>. QED
    BY <1>1, <2>1, MoveTypes DEF Types, Control
<1>7. CASE Write(a)
  <2>1. proc[a].at = "write" /\ proc'[a].at = "run" /\ sem' = "free" /\ UNCHANGED hung
    BY <1>2, <1>7 DEF Write, Move, Procs
  <2>. QED
    BY <1>1, <2>1, MoveTypes DEF Types, Control
<1>. QED
  BY <1>3, <1>4, <1>5, <1>6, <1>7

LEMMA TypesStep == Types /\ [Next]_vars => Types'
<1>. SUFFICES ASSUME Types, [Next]_vars PROVE Types'
  OBVIOUS
<1>1. ASSUME NEW a \in Programs, Start(a) PROVE Types'
  <2>1. a \notin hung /\ Pids \ Stale \in SUBSET Pids
    BY <1>1 DEF Start, Fork, Types, Control
  <2>. QED
    BY <1>1, <2>1, ForkKeepsTypes DEF Start
<1>2. ASSUME NEW a \in Programs, Finish(a) PROVE Types'
  BY <1>2, GoneKeepsTypes DEF Finish, Types, Typed
<1>3. ASSUME NEW a \in Programs, Slow(a) PROVE Types'
  BY <1>3, GoneKeepsTypes DEF Slow, Types, Typed
<1>4. ASSUME NEW s \in Slots, Old(s) PROVE Types'
  <2>. DEFINE renewed == \E a \in Programs \ hung : proc[a].at = "run" /\ proc[a].pos = s
  <2>2. shm' = [shm EXCEPT ![s].late = ~renewed] /\ (~renewed) \in BOOLEAN
    BY <1>4 DEF Old
  <2>. HIDE DEF renewed
  <2>3. PICK late \in BOOLEAN : shm' = [shm EXCEPT ![s].late = late]
    BY <2>2
  <2>1. shm' \in Memory /\ UNCHANGED <<sem, proc, hung, check, seen, raced, wronged, faults>>
    <3>1. shm' \in Memory
      BY <2>3 DEF Types, Typed, Memory
    <3>. QED
      BY <1>4, <3>1 DEF Old
  <2>. QED
    BY <2>1 DEF Types, Typed, Unique, Control
<1>5. ASSUME CheckStarts \/ Look \/ Late \/ Copy \/ Wait \/ Erase PROVE Types'
  BY <1>5, CheckTyped DEF Types, Unique, Control
<1>6. CASE Term
  <2>1. check' \in Checks /\ UNCHANGED <<seen, raced>> /\ wronged' \in BOOLEAN
    BY <1>6 DEF Term, CheckAt, Wrong, Types, Typed, Checks
  <2>2. CASE UNCHANGED <<shm, sem, proc, hung>>
    BY <2>1, <2>2 DEF Types, Typed, Unique, Control
  <2>3. CASE \E a \in Programs : Gone(a, TRUE)
    BY <2>1, <2>3, GoneKeepsTypes DEF Types, Typed
  <2>. QED
    BY <1>6, <2>2, <2>3 DEF Term, Target
<1>7. CASE Kill
  <2>1. check' \in Checks /\ UNCHANGED <<seen, raced>> /\ wronged' \in BOOLEAN
    BY <1>7 DEF Kill, CheckAt, Wrong, Types, Typed, Checks
  <2>2. CASE UNCHANGED <<shm, sem, proc, hung>>
    BY <2>1, <2>2 DEF Types, Typed, Unique, Control
  <2>3. CASE \E a \in Programs : Gone(a, FALSE)
    BY <2>1, <2>3, GoneKeepsTypes DEF Types, Typed
  <2>. QED
    BY <1>7, <2>2, <2>3 DEF Kill, Target
<1>8. CASE Fault
  <2>1. PICK a \in Programs \ hung :
              \/ Fork(a, Stale) /\ Stale \in SUBSET Pids
              \/ proc[a].at # "down" /\ Gone(a, FALSE)
              \/ proc[a].at = "run" /\ hung' = hung \cup {a} /\ UNCHANGED <<shm, sem, proc>>
    BY <1>8, FaultCases
  <2>2. UNCHANGED <<check, seen, raced, wronged>>
    BY <1>8, FaultCases
  <2>3. CASE Fork(a, Stale) /\ Stale \in SUBSET Pids
    BY <2>2, <2>3, ForkKeepsTypes
  <2>4. CASE Gone(a, FALSE)
    BY <2>2, <2>4, GoneKeepsTypes DEF Types, Typed
  <2>5. CASE proc[a].at = "run" /\ hung' = hung \cup {a} /\ UNCHANGED <<shm, sem, proc>>
    BY <2>2, <2>5 DEF Types, Typed, Unique, Control
  <2>. QED
    BY <2>1, <2>3, <2>4, <2>5
<1>9. CASE UNCHANGED vars
  BY <1>9 DEF vars, Types, Typed, Unique, Control
<1>. QED
  BY <1>1, <1>2, <1>3, <1>4, <1>5, <1>6, <1>7, <1>8, <1>9, MoveKeepsTypes DEF Next, Program, Check

-----------------------------------------------------------------------------
(* Renewed times.                                                          *)

\* A process that ends takes no time from the others; nor does one that starts.
LEMMA GoneKeepsRenewed ==
  ASSUME Types, Renewed, NEW a \in Programs, NEW clears \in BOOLEAN, Gone(a, clears)
  PROVE  Renewed'
<1>1. proc \in Procs
  BY DEF Types, Typed
<1>2. proc'[a].at = "down" /\ \A s \in Slots : shm'[s] = shm[s] \/ shm'[s].late = FALSE
  <2>1. Free.late = FALSE
    BY DEF Free
  <2>. QED
    BY <2>1, GoneTypes
<1>. SUFFICES ASSUME NEW b \in Programs \ hung', proc'[b].at = "run", proc'[b].pos # None
              PROVE  ~shm'[proc'[b].pos].late
  BY DEF Renewed
<1>3. b # a /\ b \notin hung /\ proc'[b] = proc[b] /\ proc[b].pos \in Slots
  BY <1>1, <1>2, GoneTypes DEF Procs
<1>. QED
  BY <1>2, <1>3 DEF Renewed

LEMMA ForkKeepsRenewed ==
  ASSUME Types, Renewed, NEW a \in Programs, a \notin hung, NEW numbers \in SUBSET Pids, Fork(a, numbers)
  PROVE  Renewed'
  BY ForkTypes DEF Renewed

LEMMA MoveKeepsRenewed ==
  ASSUME Types, Renewed, NEW a \in Programs,
         \/ FindOwn(a) \/ InitSem(a) \/ Enter(a) \/ Choose(a) \/ Write(a)
  PROVE  Renewed'
<1>1. proc \in Procs /\ shm \in Memory
  BY DEF Types, Typed
<1>2. CASE Write(a)
  <2>1. proc[a].pos \in Slots
    BY <1>1, <1>2 DEF Write, Types, Control, Procs
  <2>2. /\ \A s \in Slots : shm'[s] = shm[s] \/ shm'[s].late = FALSE
        /\ shm'[proc[a].pos].late = FALSE /\ proc'[a].pos = proc[a].pos
    BY <1>1, <1>2, <2>1 DEF Write, Move, Memory, Procs
  <2>3. proc' \in Procs
    BY MoveTypes DEF Typed
  <2>. SUFFICES ASSUME NEW b \in Programs \ hung', proc'[b].at = "run", proc'[b].pos # None
                PROVE  ~shm'[proc'[b].pos].late
    BY DEF Renewed
  <2>4. hung' = hung /\ proc'[b].pos \in Slots /\ \A c \in Programs : c # a => proc'[c] = proc[c]
    BY <2>3, MoveTypes DEF Procs
  <2>5. CASE b = a
    BY <2>2, <2>5
  <2>6. CASE b # a
    <3>1. proc'[b] = proc[b] /\ ~shm[proc[b].pos].late
      BY <2>4, <2>6 DEF Renewed
    <3>. QED
      BY <2>2, <2>4, <3>1
  <2>. QED
    BY <2>5, <2>6
<1>3. CASE FindOwn(a) \/ InitSem(a) \/ Enter(a) \/ Choose(a)
  <2>1. (proc'[a].at # "run" \/ proc'[a].pos = None) /\ UNCHANGED shm
    BY <1>1, <1>3 DEF FindOwn, InitSem, Enter, Choose, Move, Procs
  <2>. QED
    BY <2>1, MoveTypes DEF Renewed
<1>. QED
  BY <1>2, <1>3

LEMMA RenewedStep == Types /\ Renewed /\ [Next]_vars => Renewed'
<1>. SUFFICES ASSUME Types, Renewed, [Next]_vars PROVE Renewed'
  OBVIOUS
<1>0. proc \in Procs /\ shm \in Memory /\ check.ii \in Slots
  BY DEF Types, Typed, Checks
<1>1. ASSUME NEW a \in Programs, Start(a) PROVE Renewed'
  <2>1. a \notin hung /\ Pids \ Stale \in SUBSET Pids
    BY <1>1 DEF Start, Fork, Types, Control
  <2>. QED
    BY <1>1, <2>1, ForkKeepsRenewed DEF Start
<1>2. ASSUME NEW a \in Programs, Finish(a) \/ Slow(a) PROVE Renewed'
  BY <1>2, GoneKeepsRenewed DEF Finish, Slow
<1>4. ASSUME NEW s \in Slots, Old(s) PROVE Renewed'
  <2>. DEFINE renewed == \E a \in Programs \ hung : proc[a].at = "run" /\ proc[a].pos = s
  <2>1. shm' = [shm EXCEPT ![s].late = ~renewed] /\ UNCHANGED <<proc, hung>>
    BY <1>4 DEF Old
  <2>2. /\ shm'[s].late = ~renewed
        /\ \A r \in Slots : r # s => shm'[r] = shm[r]
    BY <1>0, <2>1 DEF Memory
  <2>. SUFFICES ASSUME NEW b \in Programs \ hung, proc[b].at = "run", proc[b].pos # None
                PROVE  ~shm'[proc[b].pos].late
    BY <2>1 DEF Renewed
  <2>3. proc[b].pos \in Slots /\ ~shm[proc[b].pos].late
    BY <1>0 DEF Renewed, Procs
  <2>4. proc[b].pos = s => renewed
    OBVIOUS
  <2>. HIDE DEF renewed
  <2>. QED
    BY <2>2, <2>3, <2>4
<1>5. ASSUME CheckStarts \/ Look \/ Late \/ Copy \/ Wait \/ Erase PROVE Renewed'
  <2>1. \A s \in Slots : shm'[s] = shm[s] \/ shm'[s].late = FALSE
    BY <1>0, <1>5 DEF CheckStarts, Look, Late, Copy, Wait, Erase, Free, Memory
  <2>2. UNCHANGED <<proc, hung>>
    BY <1>5, CheckTyped
  <2>3. \A a \in Programs : proc[a].pos \in Slots \cup {None}
    BY <1>0 DEF Procs
  <2>. QED
    BY <2>1, <2>2, <2>3 DEF Renewed
<1>6. CASE Term
  <2>1. UNCHANGED <<shm, sem, proc, hung>> \/ \E a \in Programs : Gone(a, TRUE)
    BY <1>6 DEF Term, Target
  <2>. QED
    BY <2>1, GoneKeepsRenewed DEF Renewed
<1>7. CASE Kill
  <2>1. UNCHANGED <<shm, sem, proc, hung>> \/ \E a \in Programs : Gone(a, FALSE)
    BY <1>7 DEF Kill, Target
  <2>. QED
    BY <2>1, GoneKeepsRenewed DEF Renewed
<1>8. CASE Fault
  <2>1. PICK a \in Programs \ hung :
              \/ Fork(a, Stale) /\ Stale \in SUBSET Pids
              \/ proc[a].at # "down" /\ Gone(a, FALSE)
              \/ proc[a].at = "run" /\ hung' = hung \cup {a} /\ UNCHANGED <<shm, sem, proc>>
    BY <1>8, FaultCases
  <2>3. CASE Fork(a, Stale) /\ Stale \in SUBSET Pids
    BY <2>3, ForkKeepsRenewed
  <2>4. CASE Gone(a, FALSE)
    BY <2>4, GoneKeepsRenewed
  <2>5. CASE proc[a].at = "run" /\ hung' = hung \cup {a} /\ UNCHANGED <<shm, sem, proc>>
    BY <2>5 DEF Renewed
  <2>. QED
    BY <2>1, <2>3, <2>4, <2>5
<1>9. CASE UNCHANGED vars
  BY <1>9 DEF vars, Renewed
<1>. QED
  BY <1>1, <1>2, <1>4, <1>5, <1>6, <1>7, <1>8, <1>9, MoveKeepsRenewed DEF Next, Program, Check

-----------------------------------------------------------------------------
(* Records and processes.                                                  *)

Places == /\ Owned /\ Single /\ Distinct

\* A process that ends clears no record but its own, and leaves no other one
\* that checkproc is not to end.
LEMMA GoneKeepsPlaces ==
  ASSUME Types, Places, NEW a \in Programs, NEW clears \in BOOLEAN, Gone(a, clears)
  PROVE  Places' /\ (proc[a].at # "down" => \A s \in Slots : shm[s].pid # proc[a].pid => shm'[s].pid = shm[s].pid)
<1>1. \A b \in Programs : proc[b].pos \in Slots \cup {None} /\ (proc[b].pos # None => proc[b].pid # None)
  BY DEF Types, Typed, Control, Procs
<1>2. /\ \A s \in Slots : shm'[s].pid = shm[s].pid \/ (shm'[s].pid = None /\ proc[a].pos = s)
      /\ proc'[a].at = "down" /\ proc'[a].pos = None
      /\ \A b \in Programs : b # a => proc'[b] = proc[b]
  BY GoneTypes DEF Free
<1>3. Owned'
  <2>. SUFFICES ASSUME NEW b \in Programs, proc'[b].pos # None
                PROVE  \/ shm'[proc'[b].pos].pid = proc'[b].pid
                       \/ proc'[b].at = "write" /\ shm'[proc'[b].pos].pid = None
    BY DEF Owned
  <2>1. b # a /\ proc'[b] = proc[b] /\ proc[b].pos \in Slots
    BY <1>1, <1>2
  <2>4. \/ shm[proc[b].pos].pid = proc[b].pid
        \/ proc[b].at = "write" /\ shm[proc[b].pos].pid = None
    BY <2>1 DEF Places, Owned
  <2>2. CASE proc[a].pos # proc[b].pos
    <3>1. shm'[proc[b].pos].pid = shm[proc[b].pos].pid
      BY <1>2, <2>1, <2>2
    <3>. QED
      BY <2>1, <2>4, <3>1
  <2>3. CASE proc[a].pos = proc[b].pos
    <3>1. shm[proc[b].pos].pid \in {proc[a].pid, None}
      BY <2>1, <2>3 DEF Places, Owned
    <3>2. proc[a].pid # proc[b].pid
      BY <1>1, <2>1 DEF Types, Unique
    <3>3. proc[b].pid # None
      BY <1>1, <2>1
    <3>4. proc[b].at = "write" /\ shm[proc[b].pos].pid = None
      BY <2>4, <3>1, <3>2, <3>3
    <3>5. shm'[proc[b].pos].pid = None
      BY <1>2, <2>1, <3>4
    <3>. QED
      BY <2>1, <3>4, <3>5
  <2>. QED
    BY <2>2, <2>3
<1>4. Single'
  <2>. SUFFICES ASSUME NEW b \in Programs, NEW s \in Slots, proc'[b].at \notin {"down", "find"},
                       shm'[s].pid = proc'[b].pid
                PROVE  proc'[b].pos = s
    BY DEF Single
  <2>1. b # a /\ proc'[b] = proc[b]
    BY <1>2
  <2>2. proc[b].pid # None
    BY <2>1 DEF Types, Control
  <2>. QED
    BY <1>2, <2>1, <2>2 DEF Places, Single
<1>5. Distinct'
  BY <1>2 DEF Places, Distinct
<1>6. ASSUME proc[a].at # "down", NEW s \in Slots, shm[s].pid # proc[a].pid
      PROVE  shm'[s].pid = shm[s].pid
  BY <1>1, <1>2, <1>6 DEF Places, Owned
<1>. QED
  BY <1>3, <1>4, <1>5, <1>6 DEF Places

LEMMA MoveKeepsPlaces ==
  ASSUME Types, Places, NEW a \in Programs,
         \/ FindOwn(a) \/ InitSem(a) \/ Enter(a) \/ Choose(a) \/ Write(a)
  PROVE  Places'
<1>0. proc \in Procs /\ shm \in Memory /\ proc[a].pid # None /\ None \notin Slots
  BY MoveTypes DEF Types, Typed
<1>1. CASE FindOwn(a)
  <2>1. /\ proc[a].at = "find" /\ proc'[a].at = "init" /\ UNCHANGED shm
        /\ \/ proc'[a].pos = proc[a].pos /\ \A s \in Slots : shm[s].pid # proc[a].pid
           \/ proc'[a].pos \in Slots /\ shm[proc'[a].pos].pid = proc[a].pid
    BY <1>0, <1>1 DEF FindOwn, Procs
  <2>2. proc[a].pos = None
    BY <2>1 DEF Types, Control
  <2>3. Owned'
    BY <2>1, <2>2, <1>0, MoveTypes DEF Places, Owned
  <2>4. Single'
    <3>1. \A s \in Slots : shm[s].pid = proc[a].pid => proc'[a].pos = s
      BY <1>0, <2>1 DEF Places, Distinct
    <3>. QED
      BY <2>1, <3>1, MoveTypes DEF Places, Single
  <2>. QED
    BY <2>1, <2>3, <2>4 DEF Places, Distinct
<1>2. CASE InitSem(a) \/ Enter(a)
  <2>1. /\ proc[a].at \in {"init", "setval", "wait"} /\ proc'[a].at \notin {"write", "down", "find"}
        /\ proc'[a].pos = proc[a].pos /\ UNCHANGED shm
    BY <1>0, <1>2 DEF InitSem, Enter, Move, Procs
  <2>2. proc'[a].pid = proc[a].pid /\ \A b \in Programs : b # a => proc'[b] = proc[b]
    BY MoveTypes
  <2>3. Owned'
    BY <2>1, <2>2 DEF Places, Owned
  <2>4. Single'
    <3>1. ASSUME NEW b \in Programs, NEW s \in Slots,
                 proc'[b].at \notin {"down", "find"}, shm'[s].pid = proc'[b].pid
          PROVE  proc'[b].pos = s
      <4>1. /\ proc[b].at \notin {"down", "find"}
            /\ proc'[b].pid = proc[b].pid /\ proc'[b].pos = proc[b].pos
        BY <2>1, <2>2, <3>1
      <4>. QED
        BY <2>1, <3>1, <4>1 DEF Places, Single
    <3>. QED
      BY <3>1 DEF Single
  <2>5. Distinct'
    BY <2>1 DEF Places, Distinct
  <2>. QED
    BY <2>3, <2>4, <2>5 DEF Places
<1>3. CASE Choose(a)
  <2>1. /\ proc[a].at = "choose" /\ UNCHANGED shm
        /\ \/ proc'[a].pos = proc[a].pos /\ proc'[a].pos # None /\ proc'[a].at = "write"
           \/ proc[a].pos = None /\ proc'[a].pos \in Slots /\ shm[proc'[a].pos].pid = None /\ proc'[a].at = "write"
           \/ proc[a].pos = None /\ proc'[a].pos = None /\ proc'[a].at = "run"
    BY <1>0, <1>3 DEF Choose, Move, Procs
  <2>2. proc[a].pos = None => \A s \in Slots : shm[s].pid # proc[a].pid
    BY <1>0, <2>1 DEF Places, Single
  <2>3. Owned'
    BY <2>1, <1>0, MoveTypes DEF Places, Owned
  <2>4. Single'
    BY <2>1, <2>2, <1>0, MoveTypes DEF Places, Single
  <2>. QED
    BY <2>1, <2>3, <2>4 DEF Places, Distinct
<1>4. CASE Write(a)
  <2>1. proc[a].at = "write" /\ proc[a].pos \in Slots
    BY <1>0, <1>4 DEF Write, Types, Control, Procs
  <2>2. /\ proc'[a].at = "run" /\ proc'[a].pos = proc[a].pos
        /\ shm'[proc[a].pos].pid = proc[a].pid
        /\ \A s \in Slots : s # proc[a].pos => shm'[s] = shm[s]
    BY <1>0, <1>4, <2>1 DEF Write, Move, Memory, Procs
  <2>3. \A b \in Programs : b # a => /\ proc[b].at # "write"
                                     /\ proc[b].at # "down" => proc[b].pid # proc[a].pid
    BY <2>1, <1>0 DEF Types, Control, Unique
  <2>4. \A s \in Slots : s # proc[a].pos => shm[s].pid # proc[a].pid
    BY <2>1 DEF Places, Single
  <2>5. Owned'
    <3>. SUFFICES ASSUME NEW b \in Programs, proc'[b].pos # None
                  PROVE  shm'[proc'[b].pos].pid = proc'[b].pid
      BY DEF Owned
    <3>1. CASE b = a
      BY <2>2, <3>1, MoveTypes
    <3>2. CASE b # a
      <4>1. proc'[b] = proc[b] /\ proc[b].pos \in Slots /\ shm[proc[b].pos].pid = proc[b].pid
        BY <1>0, <2>3, <3>2, MoveTypes DEF Places, Owned, Procs
      <4>2. proc[b].at # "down"
        BY <4>1, <1>0 DEF Types, Control
      <4>3. proc[b].pos # proc[a].pos
        BY <1>0, <2>1, <2>3, <3>2, <4>1, <4>2 DEF Places, Owned, Types, Control
      <4>. QED
        BY <2>2, <4>1, <4>3
    <3>. QED
      BY <3>1, <3>2
  <2>6. Single'
    BY <2>1, <2>2, <2>3, <2>4, MoveTypes DEF Places, Single
  <2>7. Distinct'
    BY <2>2, <2>4 DEF Places, Distinct
  <2>. QED
    BY <2>5, <2>6, <2>7 DEF Places
<1>. QED
  BY <1>1, <1>2, <1>3, <1>4

-----------------------------------------------------------------------------
(* What checkproc knows of the slot it deals with.                         *)

LEMMA GoneKeepsDoomed ==
  ASSUME Types, Places, NEW a \in Programs, NEW clears \in BOOLEAN, Gone(a, clears),
         NEW b \in Programs, b # a, proc[b].pid = check.pid, Doomed(b), check.pid # None,
         check'.ii = check.ii, check'.pid = check.pid
  PROVE  Doomed(b)'
<1>1. proc'[b] = proc[b] /\ hung' = hung \ {a}
  BY GoneTypes
<1>2. CASE proc[b].at = "find" /\ shm[check.ii].pid = check.pid
  <2>1. check.ii \in Slots
    BY DEF Types, Typed, Checks
  <2>2. proc[a].at # "down" => proc[a].pid # check.pid
    BY DEF Types, Unique, Control
  <2>3. proc[a].at = "down" => shm'[check.ii] = shm[check.ii]
    <3>1. check.ii # None /\ (proc[a].at = "down" => proc[a].pos = None)
      BY <2>1 DEF Types, Control
    <3>2. shm'[check.ii] = shm[check.ii] \/ proc[a].pos = check.ii
      BY <2>1, GoneTypes
    <3>. QED
      BY <3>1, <3>2
  <2>4. shm'[check.ii].pid = check.pid
    BY <1>2, <2>1, <2>2, <2>3, GoneKeepsPlaces
  <2>. QED
    BY <1>1, <1>2, <2>4 DEF Doomed
<1>3. CASE proc[b].pos = check.ii
  BY <1>1, <1>3 DEF Doomed
<1>. QED
  BY <1>2, <1>3 DEF Doomed

LEMMA GoneKeepsChecked ==
  ASSUME Types, Places, Checked, NEW a \in Programs, NEW clears \in BOOLEAN, Gone(a, clears),
         UNCHANGED <<check, seen>>
  PROVE  Checked'
<1>0. check.ii \in Slots
  BY DEF Types, Typed, Checks
<1>1. /\ shm'[check.ii].pid \in {shm[check.ii].pid, None}
      /\ proc'[a].pid = None /\ proc'[a].at = "down" /\ hung' = hung \ {a}
      /\ \A b \in Programs : b # a => proc'[b] = proc[b]
  <2>1. Free.pid = None
    BY DEF Free
  <2>2. shm'[check.ii].pid \in {shm[check.ii].pid, None}
    BY <1>0, <2>1, GoneTypes
  <2>. QED
    BY <2>2, GoneTypes
<1>2. check.at = "erase" => /\ seen # None /\ shm'[check.ii].pid \in {seen, None}
                            /\ \A b \in Programs : proc'[b].pid # seen
  BY <1>1 DEF Checked
<1>3. check.at = "copy" => \A b \in Programs :
        proc'[b].at = "run" /\ proc'[b].pid = shm'[check.ii].pid => b \in hung'
  <2>. SUFFICES ASSUME check.at = "copy", NEW b \in Programs, proc'[b].at = "run",
                       proc'[b].pid = shm'[check.ii].pid
                PROVE  b \in hung'
    OBVIOUS
  <2>1. b # a /\ proc'[b] = proc[b]
    BY <1>1
  <2>2. proc[b].pid # None
    BY <2>1 DEF Types, Control
  <2>. QED
    BY <1>1, <2>1, <2>2 DEF Checked
<1>4. check.at \in {"term", "sleep", "kill", "wipe"} =>
        /\ check.pid # None /\ shm'[check.ii].pid \in {check.pid, None}
        /\ \A b \in Programs : proc'[b].pid = check.pid => check.at # "wipe" /\ Doomed(b)'
  <2>. SUFFICES ASSUME check.at \in {"term", "sleep", "kill", "wipe"}
                PROVE  /\ check.pid # None /\ shm'[check.ii].pid \in {check.pid, None}
                       /\ \A b \in Programs : proc'[b].pid = check.pid => check.at # "wipe" /\ Doomed(b)'
    OBVIOUS
  <2>1. check.pid # None /\ shm'[check.ii].pid \in {check.pid, None}
    BY <1>1 DEF Checked
  <2>2. ASSUME NEW b \in Programs, proc'[b].pid = check.pid PROVE check.at # "wipe" /\ Doomed(b)'
    <3>1. b # a /\ proc[b].pid = check.pid
      BY <1>1, <2>1, <2>2
    <3>2. check.at # "wipe" /\ Doomed(b)
      BY <3>1 DEF Checked
    <3>. QED
      BY <2>1, <3>1, <3>2, GoneKeepsDoomed
  <2>. QED
    BY <2>1, <2>2
<1>. QED
  BY <1>2, <1>3, <1>4 DEF Checked

LEMMA ForkKeepsClean ==
  ASSUME Types, Places, Checked, NEW a \in Programs, a \notin hung, NEW numbers \in SUBSET Pids,
         Fork(a, numbers), UNCHANGED <<check, seen>>
  PROVE  Places' /\ Checked'
<1>1. Places'
  BY ForkTypes DEF Places, Owned, Single, Distinct
<1>2. Checked'
  BY ForkTypes DEF Checked, Doomed
<1>. QED
  BY <1>1, <1>2

LEMMA MoveKeepsChecked ==
  ASSUME Types, Places, Checked, NEW a \in Programs, ~raced', ~raced,
         \/ FindOwn(a) \/ InitSem(a) \/ Enter(a) \/ Choose(a) \/ Write(a)
  PROVE  Checked'
<1>0. /\ proc \in Procs /\ shm \in Memory /\ proc[a].pid # None
      /\ check.ii \in Slots /\ None \notin Slots
  BY MoveTypes DEF Types, Typed, Checks
<1>1. check.at \notin {"down", "look"} => shm'[check.ii] = shm[check.ii]
  BY <1>0 DEF FindOwn, InitSem, Enter, Choose, Write, Memory
<1>2. Write(a) /\ check.at \notin {"down", "look"} => proc[a].pos # check.ii
  BY DEF Write
<1>3. proc'[a].at = "run" /\ check.at \notin {"down", "look"} => shm[check.ii].pid # proc[a].pid /\ proc[a].pos # check.ii
  <2>1. proc'[a].at = "run" => \/ Write(a) /\ proc[a].at = "write"
                               \/ proc[a].at = "choose" /\ proc[a].pos = None
    BY <1>0 DEF FindOwn, InitSem, Enter, Choose, Write, Move, Procs
  <2>. QED
    BY <1>0, <1>2, <2>1 DEF Places, Single
<1>4. \/ /\ proc[a].at = "find" /\ proc'[a].at = "init" /\ proc[a].pos = None
         /\ shm[check.ii].pid = proc[a].pid => proc'[a].pos = check.ii
      \/ /\ proc[a].at # "find"
         /\ proc[a].pos = check.ii => proc'[a].pos = check.ii
  <2>1. CASE FindOwn(a)
    <3>1. /\ proc[a].at = "find" /\ proc'[a].at = "init"
          /\ \/ \A s \in Slots : shm[s].pid # proc[a].pid
             \/ proc'[a].pos \in Slots /\ shm[proc'[a].pos].pid = proc[a].pid
      BY <1>0, <2>1 DEF FindOwn, Procs
    <3>2. proc[a].pos = None
      BY <3>1 DEF Types, Control
    <3>3. shm[check.ii].pid = proc[a].pid => proc'[a].pos = check.ii
      BY <1>0, <3>1 DEF Places, Distinct
    <3>. QED
      BY <3>1, <3>2, <3>3
  <2>2. CASE InitSem(a) \/ Enter(a) \/ Choose(a) \/ Write(a)
    BY <1>0, <2>2 DEF InitSem, Enter, Choose, Write, Move, Procs
  <2>. QED
    BY <2>1, <2>2
<1>5. /\ UNCHANGED <<hung, check, seen>> /\ proc'[a].pid = proc[a].pid
      /\ \A b \in Programs : b # a => proc'[b] = proc[b]
  BY MoveTypes
<1>6. check.at \in {"term", "sleep", "kill", "wipe"} =>
        \A b \in Programs : proc'[b].pid = check.pid => check.at # "wipe" /\ Doomed(b)'
  <2>. SUFFICES ASSUME check.at \in {"term", "sleep", "kill", "wipe"},
                       NEW b \in Programs, proc'[b].pid = check.pid
                PROVE  check.at # "wipe" /\ Doomed(b)'
    OBVIOUS
  <2>1. proc[b].pid = check.pid /\ check.at # "wipe" /\ Doomed(b)
    BY <1>5 DEF Checked
  <2>2. CASE b # a
    BY <1>1, <1>5, <2>1, <2>2 DEF Doomed
  <2>3. CASE b = a
    BY <1>0, <1>3, <1>4, <1>5, <2>1, <2>3 DEF Doomed
  <2>. QED
    BY <2>1, <2>2, <2>3
<1>7. check.at = "copy" => \A b \in Programs :
        proc'[b].at = "run" /\ proc'[b].pid = shm'[check.ii].pid => b \in hung'
  BY <1>1, <1>3, <1>5 DEF Checked
<1>8. check.at = "erase" => /\ seen # None /\ shm'[check.ii].pid \in {seen, None}
                            /\ \A b \in Programs : proc'[b].pid # seen
  BY <1>1, <1>5 DEF Checked
<1>9. check.at \in {"term", "sleep", "kill", "wipe"} =>
        check.pid # None /\ shm'[check.ii].pid \in {check.pid, None}
  BY <1>1 DEF Checked
<1>. QED
  BY <1>5, <1>6, <1>7, <1>8, <1>9 DEF Checked

LEMMA CleanStep == Types /\ Renewed /\ Clean /\ ~raced /\ [Next]_vars /\ ~raced' => Clean'
<1>. SUFFICES ASSUME Types, Renewed, Clean, ~raced, [Next]_vars, ~raced' PROVE Clean'
  OBVIOUS
<1>0. /\ proc \in Procs /\ shm \in Memory /\ check \in Checks /\ check.ii \in Slots
      /\ None \notin Slots /\ Places /\ Checked /\ ~wronged
  BY DEF Types, Typed, Checks, Clean, Places
<1>a. Places' /\ Checked' /\ ~wronged' => Clean'
  BY DEF Clean, Places
<1>b. NextSlot => check'.at \in {"down", "look"}
  BY DEF NextSlot
<1>1. ASSUME NEW a \in Programs, Start(a) PROVE Clean'
  <2>1. a \notin hung /\ Pids \ Stale \in SUBSET Pids
    BY <1>1 DEF Start, Fork, Types, Control
  <2>. QED
    BY <1>0, <1>a, <1>1, <2>1, ForkKeepsClean DEF Start
<1>2. ASSUME NEW a \in Programs, Finish(a) \/ Slow(a) PROVE Clean'
  BY <1>0, <1>a, <1>2, GoneKeepsPlaces, GoneKeepsChecked DEF Finish, Slow
<1>3. ASSUME NEW a \in Programs,
             FindOwn(a) \/ InitSem(a) \/ Enter(a) \/ Choose(a) \/ Write(a) PROVE Clean'
  BY <1>0, <1>a, <1>3, MoveTypes, MoveKeepsPlaces, MoveKeepsChecked
<1>4. ASSUME NEW s \in Slots, Old(s) PROVE Clean'
  <2>1. \A r \in Slots : shm'[r].pid = shm[r].pid
    BY <1>0, <1>4 DEF Old, Memory
  <2>2. UNCHANGED <<proc, hung, check, seen, wronged>>
    BY <1>4 DEF Old
  <2>3. \A a \in Programs : proc[a].pos \in Slots \cup {None}
    BY <1>0 DEF Procs
  <2>4. Places'
    <3>1. Owned'
      <4>. SUFFICES ASSUME NEW a \in Programs, proc[a].pos # None
                    PROVE  \/ shm'[proc[a].pos].pid = proc[a].pid
                           \/ proc[a].at = "write" /\ shm'[proc[a].pos].pid = None
        BY <2>2 DEF Owned
      <4>. QED
        BY <1>0, <2>1, <2>3 DEF Places, Owned
    <3>2. Single' /\ Distinct'
      BY <1>0, <2>1, <2>2 DEF Places, Single, Distinct
    <3>. QED
      BY <3>1, <3>2 DEF Places
  <2>5. Checked'
    BY <1>0, <2>1, <2>2 DEF Checked, Doomed
  <2>. QED
    BY <1>0, <1>a, <2>2, <2>4, <2>5
<1>5. ASSUME CheckStarts \/ Look \/ Late \/ Copy \/ Wait PROVE Clean'
  <2>1. UNCHANGED <<shm, proc, hung, wronged>>
    BY <1>5 DEF CheckStarts, Look, Late, Copy, Wait
  <2>2. Places'
    BY <1>0, <2>1 DEF Places, Owned, Single, Distinct
  <2>. SUFFICES Checked'
    BY <1>0, <1>a, <2>1, <2>2
  <2>3. CASE CheckStarts
    BY <1>0, <2>3 DEF CheckStarts, CheckAt, Checked, Checks
  <2>4. CASE Look
    <3>1. CASE shm[check.ii].pid = None
      BY <1>b, <2>4, <3>1 DEF Look, Checked
    <3>2. CASE shm[check.ii].pid # None
      <4>1. /\ seen' = shm[check.ii].pid /\ check'.ii = check.ii
            /\ check'.at \in {"late", "erase"}
            /\ check'.at = "erase" => \A a \in Programs : proc[a].pid # seen'
        BY <1>0, <2>4, <3>2 DEF Look, CheckAt, Checks, Alive
      <4>. QED
        BY <2>1, <3>2, <4>1 DEF Checked
    <3>. QED
      BY <3>1, <3>2
  <2>5. CASE Late
    <3>1. CASE shm[check.ii].late
      <4>1. check'.at = "copy" /\ check'.ii = check.ii
        BY <1>0, <2>5, <3>1 DEF Late, CheckAt, Checks
      <4>2. ASSUME NEW a \in Programs, proc[a].at = "run", proc[a].pid = shm[check.ii].pid
            PROVE  a \in hung
        BY <1>0, <3>1, <4>2 DEF Places, Single, Renewed
      <4>. QED
        BY <2>1, <4>1, <4>2 DEF Checked
    <3>2. CASE ~shm[check.ii].late
      BY <1>b, <2>5, <3>2 DEF Late, Checked
    <3>. QED
      BY <3>1, <3>2
  <2>6. CASE Copy
    <3>1. CASE shm[check.ii].pid = None
      BY <1>b, <2>6, <3>1 DEF Copy, Checked
    <3>2. CASE shm[check.ii].pid # None
      <4>1. check.at = "copy" /\ check'.at = "term" /\ check'.ii = check.ii /\ check'.pid = shm[check.ii].pid
        BY <1>0, <2>6, <3>2 DEF Copy, Checks
      <4>2. ASSUME NEW a \in Programs, proc'[a].pid = check'.pid
            PROVE  Doomed(a)'
        <5>1. proc[a].at # "down" /\ (proc[a].at = "run" => a \in hung)
          BY <1>0, <2>1, <3>2, <4>1, <4>2 DEF Types, Control, Checked
        <5>2. proc[a].at = "find" \/ proc[a].pos = check.ii
          BY <1>0, <2>1, <4>1, <4>2, <5>1 DEF Places, Single
        <5>. QED
          BY <2>1, <4>1, <5>1, <5>2 DEF Doomed
      <4>. QED
        BY <2>1, <3>2, <4>1, <4>2 DEF Checked
    <3>. QED
      BY <3>1, <3>2
  <2>7. CASE Wait
    <3>1. CASE check.pid \in Alive
      <4>1. /\ check.at = "sleep" /\ check'.at = "kill" /\ check'.ii = check.ii
            /\ check'.pid = check.pid
        BY <1>0, <2>7, <3>1 DEF Wait, CheckAt, Checks
      <4>. QED
        BY <1>0, <2>1, <4>1 DEF Checked, Doomed
    <3>2. CASE check.pid \notin Alive
      BY <1>b, <2>7, <3>2 DEF Wait, Checked
    <3>. QED
      BY <3>1, <3>2
  <2>. QED
    BY <1>5, <2>3, <2>4, <2>5, <2>6, <2>7
<1>6. CASE Erase
  <2>1. /\ check.at \in {"erase", "wipe"} /\ check'.at \in {"down", "look"}
        /\ shm' = [shm EXCEPT ![check.ii] = Free] /\ UNCHANGED <<proc, hung, wronged>>
    BY <1>b, <1>6 DEF Erase
  <2>2. /\ shm'[check.ii].pid = None
        /\ \A s \in Slots : s # check.ii => shm'[s] = shm[s]
    BY <1>0, <2>1 DEF Free, Memory
  <2>3. \A a \in Programs : proc[a].pos = check.ii => shm[check.ii].pid # proc[a].pid
    <3>. SUFFICES ASSUME NEW a \in Programs, proc[a].pos = check.ii, shm[check.ii].pid = proc[a].pid
                  PROVE  FALSE
      OBVIOUS
    <3>1. proc[a].pid # None
      BY <1>0 DEF Types, Control
    <3>. QED
      BY <1>0, <2>1, <3>1 DEF Checked
  <2>4. Owned'
    BY <1>0, <2>1, <2>2, <2>3 DEF Places, Owned, Procs
  <2>5. Single'
    BY <1>0, <2>1, <2>2 DEF Places, Single, Types, Control
  <2>6. Distinct'
    BY <1>0, <2>2 DEF Places, Distinct
  <2>7. Checked'
    BY <2>1 DEF Checked
  <2>. QED
    BY <1>0, <1>a, <2>1, <2>4, <2>5, <2>6, <2>7 DEF Places
<1>7. CASE Term
  <2>1. /\ check.at = "term" /\ check'.at = "sleep" /\ check'.ii = check.ii /\ check'.pid = check.pid
        /\ UNCHANGED <<seen, raced>> /\ (wronged' <=> wronged \/ Wrong)
    BY <1>0, <1>7 DEF Term, CheckAt, Checks, Types, Typed
  <2>2. /\ check.pid # None /\ shm[check.ii].pid \in {check.pid, None}
        /\ \A a \in Programs : proc[a].pid = check.pid => Doomed(a)
    BY <1>0, <2>1 DEF Checked
  <2>3. ~wronged'
    BY <1>0, <2>1, <2>2 DEF Wrong, Target, Doomed
  <2>4. CASE UNCHANGED <<shm, sem, proc, hung>>
    <3>1. Places'
      BY <1>0, <2>4 DEF Places, Owned, Single, Distinct
    <3>2. Checked'
      BY <2>1, <2>2, <2>4 DEF Checked, Doomed
    <3>. QED
      BY <1>a, <2>3, <3>1, <3>2
  <2>5. ASSUME NEW a \in Programs, Gone(a, TRUE) PROVE Clean'
    <3>1. Places' /\ Free.pid = None
      BY <1>0, <2>5, GoneKeepsPlaces DEF Free
    <3>2. shm'[check.ii].pid \in {check.pid, None}
      BY <1>0, <2>2, <2>5, <3>1, GoneTypes
    <3>3. ASSUME NEW b \in Programs, proc'[b].pid = check.pid PROVE Doomed(b)'
      <4>1. b # a /\ proc[b].pid = check.pid
        <5>1. proc'[a].pid = None /\ \A c \in Programs : c # a => proc'[c] = proc[c]
          BY <1>0, <2>5, GoneTypes
        <5>. QED
          BY <2>2, <3>3, <5>1
      <4>. QED
        BY <1>0, <2>1, <2>2, <2>5, <4>1, GoneKeepsDoomed
    <3>4. Checked'
      BY <2>1, <2>2, <3>2, <3>3 DEF Checked
    <3>. QED
      BY <1>a, <2>3, <3>1, <3>4
  <2>. QED
    BY <1>7, <2>4, <2>5 DEF Term, Target
<1>8. CASE Kill
  <2>1. /\ check.at = "kill" /\ check'.at = "wipe" /\ check'.ii = check.ii /\ check'.pid = check.pid
        /\ UNCHANGED <<seen, raced>> /\ (wronged' <=> wronged \/ Wrong)
    BY <1>0, <1>8 DEF Kill, CheckAt, Checks, Types, Typed
  <2>2. /\ check.pid # None /\ shm[check.ii].pid \in {check.pid, None}
        /\ \A a \in Programs : proc[a].pid = check.pid => Doomed(a)
    BY <1>0, <2>1 DEF Checked
  <2>3. ~wronged'
    BY <1>0, <2>1, <2>2 DEF Wrong, Target, Doomed
  <2>4. CASE Target = {} /\ UNCHANGED <<shm, sem, proc, hung>>
    <3>1. Places'
      BY <1>0, <2>4 DEF Places, Owned, Single, Distinct
    <3>2. Checked'
      BY <2>1, <2>2, <2>4 DEF Checked, Target
    <3>. QED
      BY <1>a, <2>3, <3>1, <3>2
  <2>5. ASSUME NEW a \in Target, Gone(a, FALSE) PROVE Clean'
    <3>0. a \in Programs /\ proc[a].pid = check.pid
      BY DEF Target
    <3>1. Places' /\ Free.pid = None
      BY <1>0, <2>5, <3>0, GoneKeepsPlaces DEF Free
    <3>2. shm'[check.ii].pid \in {check.pid, None}
      BY <1>0, <2>2, <2>5, <3>0, <3>1, GoneTypes
    <3>3. \A b \in Programs : proc'[b].pid # check.pid
      <4>1. proc'[a].pid = None /\ \A b \in Programs : b # a => proc'[b] = proc[b]
        BY <2>5, <3>0, GoneTypes
      <4>2. \A b \in Programs : b # a => proc[b].pid # check.pid
        BY <2>2, <3>0 DEF Types, Unique
      <4>. QED
        BY <2>2, <4>1, <4>2
    <3>4. Checked'
      BY <2>1, <2>2, <3>2, <3>3 DEF Checked
    <3>. QED
      BY <1>a, <2>3, <3>1, <3>4
  <2>. QED
    BY <1>8, <2>4, <2>5 DEF Kill
<1>9. CASE Fault
  <2>1. PICK a \in Programs \ hung :
              \/ Fork(a, Stale) /\ Stale \in SUBSET Pids
              \/ proc[a].at # "down" /\ Gone(a, FALSE)
              \/ proc[a].at = "run" /\ hung' = hung \cup {a} /\ UNCHANGED <<shm, sem, proc>>
    BY <1>9, FaultCases
  <2>2. UNCHANGED <<check, seen, raced, wronged>>
    BY <1>9, FaultCases
  <2>3. CASE Fork(a, Stale) /\ Stale \in SUBSET Pids
    BY <1>0, <1>a, <2>2, <2>3, ForkKeepsClean
  <2>4. CASE Gone(a, FALSE)
    BY <1>0, <1>a, <2>2, <2>4, GoneKeepsPlaces, GoneKeepsChecked
  <2>5. CASE proc[a].at = "run" /\ hung' = hung \cup {a} /\ UNCHANGED <<shm, sem, proc>>
    <3>1. Places'
      BY <1>0, <2>5 DEF Places, Owned, Single, Distinct
    <3>2. Checked'
      BY <1>0, <2>2, <2>5 DEF Checked, Doomed
    <3>. QED
      BY <1>0, <1>a, <2>2, <3>1, <3>2
  <2>. QED
    BY <2>1, <2>3, <2>4, <2>5
<1>10. CASE UNCHANGED vars
  BY <1>10 DEF vars, Clean, Owned, Single, Distinct, Checked, Doomed
<1>. QED
  BY <1>1, <1>2, <1>3, <1>4, <1>5, <1>6, <1>7, <1>8, <1>9, <1>10 DEF Next, Program, Check

-----------------------------------------------------------------------------
LEMMA FaultsStep == faults \in 0..MaxFaults /\ [Next]_vars => faults' \in 0..MaxFaults
<1>. SUFFICES ASSUME faults \in 0..MaxFaults, [Next]_vars PROVE faults' \in 0..MaxFaults
  OBVIOUS
<1>1. CASE Fault
  <2>1. faults < MaxFaults /\ faults' = faults + 1 /\ MaxFaults \in Nat
    BY <1>1 DEF Fault
  <2>. QED
    BY <2>1
<1>2. CASE ~Fault
  <2>1. faults' = faults
    BY <1>2 DEF Next, vars, Program, Start, FindOwn, InitSem, Enter, Choose, Write, Finish, Slow, Old,
                Check, CheckStarts, Look, Late, Copy, Term, Wait, Kill, Erase
  <2>. QED
    BY <2>1
<1>. QED
  BY <1>1, <1>2

\* The invariant holds in every state.
THEOREM InvCorrect == Spec => []Inv
<1>1. Inv /\ [Next]_vars => Inv'
  <2>. SUFFICES ASSUME Inv, [Next]_vars PROVE Inv'
    OBVIOUS
  <2>1. faults' \in 0..MaxFaults /\ Types' /\ Renewed'
    BY FaultsStep, TypesStep, RenewedStep DEF Inv
  <2>2. ~raced' => ~raced
    <3>1. CASE \E a \in Programs : Write(a)
      BY <3>1 DEF Write
    <3>2. CASE ~\E a \in Programs : Write(a)
      BY <3>2 DEF Next, vars, Program, Start, FindOwn, InitSem, Enter, Choose, Finish, Slow, Old,
                  Check, CheckStarts, Look, Late, Copy, Term, Wait, Kill, Erase, Fault
    <3>. QED
      BY <3>1, <3>2
  <2>3. ~raced' => Clean'
    BY <2>2, CleanStep DEF Inv
  <2>. QED
    BY <2>1, <2>3 DEF Inv
<1>. QED
  BY InitInv, <1>1, PTL DEF Spec

\* The types of the state hold for any number of programs and slots; a process
\* holds the semaphore while it chooses and writes its slot.
THEOREM TypeCorrect == Spec => []TypeOK
<1>1. Inv => TypeOK
  BY DEF Inv, Types, Typed, Unique, Control, TypeOK, Memory, Procs, Checks
<1>. QED
  BY InvCorrect, <1>1, PTL

\* Registration, records left by the dead and numbers used again never make two
\* processes share a slot, as long as checkproc's memset() met no new record.
THEOREM SlotsOwnedCorrect == Spec => []SlotsOwned
<1>1. Inv => SlotsOwned
  BY DEF Inv, Clean, Owned, SlotsOwned
<1>. QED
  BY InvCorrect, <1>1, PTL

\* checkproc signals no process that has entered itself and renews its time, as
\* long as the slot it deals with is not written between its reads.
THEOREM OnlyLateAreKilledCorrect == Spec => []OnlyLateAreKilled
<1>1. Inv => OnlyLateAreKilled
  BY DEF Inv, Clean, OnlyLateAreKilled
<1>. QED
  BY InvCorrect, <1>1, PTL

HIDE HeartbeatAssumption

-----------------------------------------------------------------------------
(* The log file.                                                           *)

Critical == {"close", "rename", "open", "rotated", "time", "text", "written"}

(* The thread that has the lock is between lock() and unlock(), and no     *)
(* other thread is.                                                        *)
LockHeld == \A t \in Writers : at[t] \in Critical <=> m_splock = t

(* What the file ends with while its line is being written.                *)
Unfinished == \A t \in Writers :
                /\ at[t] = "text" => Complete(Append(log, Piece(t, "text")))
                /\ at[t] = "written" => Holds(log, t, line[t])
Finished == (\A t \in Writers : at[t] # "text") => Complete(log)

Backups == \A s \in Seconds : Complete(bak[s]) /\ (rotations[s] = 0 => bak[s] = <<>>)

(* A line that was written is in a file, or a backup was replaced.         *)
Found(t, n) == \/ Holds(log, t, n)
               \/ \E s \in Seconds : Holds(bak[s], t, n) \/ rotations[s] > 1
AllFound == \A w \in written : Found(w[1], w[2])

LogInv == LogTypes /\ LockHeld /\ Unfinished /\ Finished /\ Backups /\ AllFound

(* A program starts with a free lock and an empty log file.               *)
LEMMA LogInitially == LogInit => LogInv
<1> SUFFICES ASSUME LogInit PROVE LogInv
  OBVIOUS
<1> USE LogAssumption DEF LogInit
<1>1. LogTypes
  <2>1. log \in Seq(AllPieces) /\ bak \in [Seconds -> Seq(AllPieces)] /\ now \in Seconds
    BY DEF Seconds
  <2> QED  BY <2>1 DEF LogTypes, Writers
<1>2. LockHeld
  BY DEF LockHeld, Critical, Writers
<1>3. Unfinished /\ Finished /\ Backups /\ AllFound
  BY DEF Unfinished, Finished, Backups, AllFound, Complete
<1> QED  BY <1>1, <1>2, <1>3 DEF LogInv

(* The two pieces that write() puts into a file of whole lines, one after  *)
(* the other, leave it a file of whole lines.                              *)
LEMMA CompleteLine ==
  ASSUME NEW f \in Seq(AllPieces), NEW t \in Writers, NEW n \in Nat, Complete(f)
  PROVE  Complete(Append(Append(f, <<t, n, "time">>), <<t, n, "text">>))
<1> DEFINE g == Append(f, <<t, n, "time">>)
<1> DEFINE h == Append(g, <<t, n, "text">>)
<1>1. g \in Seq(AllPieces) /\ h \in Seq(AllPieces)
  BY DEF AllPieces
<1>2. /\ Len(g) = Len(f) + 1 /\ Len(h) = Len(f) + 2
      /\ h[Len(f) + 1] = <<t, n, "time">> /\ h[Len(f) + 2] = <<t, n, "text">>
      /\ \A i \in 1..Len(f) : h[i] = f[i]
  BY DEF AllPieces
<1> HIDE DEF g, h
<1>3. ASSUME NEW i \in 1..Len(h)
      PROVE  IF h[i][3] = "text"
             THEN i > 1 /\ h[i - 1] = <<h[i][1], h[i][2], "time">>
             ELSE i < Len(h) /\ h[i + 1] = <<h[i][1], h[i][2], "text">>
  <2>1. CASE i \in 1..Len(f)
    <3>1. h[i] = f[i] /\ (i > 1 => h[i - 1] = f[i - 1]) /\ (i < Len(f) => h[i + 1] = f[i + 1])
      BY <2>1, <1>2
    <3>2. IF f[i][3] = "text"
          THEN i > 1 /\ f[i - 1] = <<f[i][1], f[i][2], "time">>
          ELSE i < Len(f) /\ f[i + 1] = <<f[i][1], f[i][2], "text">>
      BY <2>1 DEF Complete
    <3> QED  BY <3>1, <3>2, <1>2
  <2>2. CASE i = Len(f) + 1
    BY <2>2, <1>2
  <2>3. CASE i = Len(f) + 2
    BY <2>3, <1>2
  <2> QED  BY <2>1, <2>2, <2>3, <1>2
<1> QED  BY <1>3 DEF Complete, g, h

(* A line stays where it is when the file grows.                           *)
LEMMA HoldsAppend ==
  ASSUME NEW f \in Seq(AllPieces), NEW p \in AllPieces, NEW t, NEW n, Holds(f, t, n)
  PROVE  Holds(Append(f, p), t, n)
  BY DEF Holds

(* A step of a thread inside write() or backup() keeps the types.          *)
LEMMA TypesKept ==
  ASSUME LogTypes, NEW t \in Writers,
         \/ WriteLine(t) \/ TestOpen(t) \/ TestSize(t) \/ LockToRotate(t) \/ Close(t) \/ Rename(t) \/ Reopen(t)
         \/ UnlockRotated(t) \/ LockToWrite(t) \/ PutTime(t) \/ PutText(t) \/ Return(t)
  PROVE  LogTypes'
<1> USE DEF WriteLine, TestOpen, TestSize, LockToRotate, Close, Rename, BakName, Reopen, UnlockRotated,
            LockToWrite, PutTime, PutText, Put, Return, files, history, Lock, Unlock, Goto
<1>1. m_splock' \in {m_splock, t, NoOne} /\ fout' \in {fout, "open", "closed"}
  OBVIOUS
<1>2. now' = now /\ interrupted' = interrupted
  OBVIOUS
<1>3. line' = line \/ line' = [line EXCEPT ![t] = line[t] + 1]
  OBVIOUS
<1>4. \/ log' = log \/ log' = <<>>
      \/ log' = Append(log, Piece(t, "time")) \/ log' = Append(log, Piece(t, "text"))
  OBVIOUS
<1>5. bak' = bak \/ bak' = [bak EXCEPT ![now] = log]
  OBVIOUS
<1>6. rotations' = rotations \/ rotations' = [rotations EXCEPT ![now] = rotations[now] + 1]
  OBVIOUS
<1>7. written' = written \/ written' = written \union {<<t, line[t]>>}
  OBVIOUS
<1>8. \E l \in {"idle", "backup", "size", "lock to rotate", "close", "rename", "open", "rotated", "lock", "time",
               "text", "written"} : at' = [at EXCEPT ![t] = l] \/ at' = at
  OBVIOUS
<1> HIDE DEF WriteLine, TestOpen, TestSize, LockToRotate, Close, Rename, BakName, Reopen, UnlockRotated,
            LockToWrite, PutTime, PutText, Put, Return, files, history, Lock, Unlock, Goto
<1>9. /\ m_splock' \in Writers \union {NoOne} /\ fout' \in {"open", "closed"}
      /\ now' \in Seconds /\ interrupted' \in Threads \union {NoOne}
  BY <1>1, <1>2 DEF LogTypes
<1>a. /\ line \in [Writers -> Nat] /\ log \in Seq(AllPieces) /\ written \subseteq Writers \X Nat
     /\ bak \in [Seconds -> Seq(AllPieces)] /\ rotations \in [Seconds -> Nat] /\ now \in Seconds
  BY DEF LogTypes
<1>10. line' \in [Writers -> Nat]
  BY <1>3, <1>a
<1>11. log' \in Seq(AllPieces)
  <2>1. Piece(t, "time") \in AllPieces /\ Piece(t, "text") \in AllPieces
    BY <1>a DEF Piece, AllPieces
  <2>2. CASE log' = log
    BY <2>2, <1>a
  <2>3. CASE log' = <<>>
    BY <2>3
  <2>4. ASSUME NEW p \in AllPieces, log' = Append(log, p) PROVE log' \in Seq(AllPieces)
    BY <2>4, <1>a
  <2> QED  BY <1>4, <2>1, <2>2, <2>3, <2>4
<1>12. bak' \in [Seconds -> Seq(AllPieces)] /\ rotations' \in [Seconds -> Nat]
  <2>1. bak' \in [Seconds -> Seq(AllPieces)]
    BY <1>5, <1>a
  <2>2. rotations' \in [Seconds -> Nat]
    BY <1>6, <1>a
  <2> QED  BY <2>1, <2>2
<1>13. written' \subseteq Writers \X Nat
  BY <1>7, <1>a
<1>14. at' \in [Writers -> {"idle", "backup", "size", "lock to rotate", "close", "rename", "open", "rotated", "lock",
                          "time", "text", "written", "exited"}]
  BY <1>8 DEF LogTypes
<1> QED  BY <1>9, <1>10, <1>11, <1>12, <1>13, <1>14 DEF LogTypes

(* The parts of the invariant that a step leaves alone: it writes nothing, *)
(* and no thread comes to or leaves the middle of a line.                  *)
LEMMA NoLine ==
  ASSUME LogTypes, Unfinished, Finished, log' = log, NEW t \in Writers, at[t] # "text",
         \A u \in Writers : u # t => at'[u] = at[u] /\ line'[u] = line[u],
         at'[t] \notin {"text", "written"}
  PROVE  Unfinished' /\ Finished'
<1>1. ASSUME NEW u \in Writers
      PROVE  /\ at'[u] = "text" => Complete(Append(log', Piece(u, "text")'))
             /\ at'[u] = "written" => Holds(log', u, line'[u])
  BY DEF Unfinished, Piece
<1>2. Unfinished'
  BY <1>1 DEF Unfinished
<1>3. (\A u \in Writers : at'[u] # "text") => \A u \in Writers : at[u] # "text"
  OBVIOUS
<1> QED  BY <1>2, <1>3 DEF Finished

(* Steps that touch no file and finish no line lose none.                  *)
LEMMA NoFile ==
  ASSUME Backups, AllFound, log' = log, bak' = bak, rotations' = rotations, written' = written
  PROVE  Backups' /\ AllFound'
  BY DEF Backups, AllFound, Found

(* The invariant is kept by each step of write() and backup(), by the      *)
(* clock, and by EXIT() on whatever thread it runs.                        *)
LEMMA LogKept == LogInv /\ [LogNext]_logVars => LogInv'
<1> SUFFICES ASSUME LogInv, [LogNext]_logVars PROVE LogInv'
  OBVIOUS
<1> USE LogAssumption DEF LogInv
<1>0. Threads \subseteq Writers /\ EXIT \in Writers
  BY DEF Writers
<1>a. ASSUME log' = log, at' = at, line' = line PROVE Unfinished' /\ Finished'
  BY <1>a DEF Unfinished, Finished, Piece
<1>b. CASE UNCHANGED logVars
  <2> USE <1>b DEF logVars, files, history
  <2>1. LogTypes' /\ LockHeld'
    BY DEF LogTypes, LockHeld
  <2> QED  BY <2>1, <1>a, NoFile
<1>c. CASE Tick
  <2> USE <1>c DEF Tick, files, history
  <2>1. now' \in Seconds
    <3>1. now \in 0..LastSecond /\ now < LastSecond /\ now' = now + 1
      BY DEF LogTypes, Seconds
    <3> QED  BY <3>1 DEF Seconds
  <2>2. LogTypes' /\ LockHeld'
    BY <2>1 DEF LogTypes, LockHeld
  <2> QED  BY <2>2, <1>a, NoFile
<1>d. ASSUME NEW t \in Threads, Signal(t) PROVE LogInv'
  <2> USE <1>d DEF Signal, files, history
  <2>1. LogTypes' /\ LockHeld'
    BY DEF LogTypes, LockHeld
  <2> QED  BY <2>1, <1>a, NoFile
<1>f. CASE Exit
  <2> USE <1>f, <1>0 DEF Exit, Goto, files, history
  <2>1. LogTypes'
    BY DEF LogTypes
  <2>2. LockHeld'
    BY DEF LockHeld, Critical, LogTypes
  <2>3. Unfinished' /\ Finished'
    <3>1. at'[EXIT] = "exited" /\ \A u \in Writers : u # EXIT => at'[u] = at[u]
      BY DEF LogTypes
    <3> QED  BY <3>1, NoLine
  <2> QED  BY <2>1, <2>2, <2>3, NoFile
<1>e. ASSUME NEW t \in Writers, LogStep(t) PROVE LogInv'
  <2> USE DEF files, history, Goto, IsOpen
  <2>1. CASE WriteLine(t)
    <3> USE <2>1 DEF WriteLine
    <3>1. LogTypes'
      BY TypesKept
    <3>2. LockHeld'
      BY DEF LockHeld, Critical, LogTypes
    <3>3. Unfinished' /\ Finished'
      <4>1. /\ at[t] # "text" /\ at'[t] \notin {"text", "written"}
            /\ \A u \in Writers : u # t => at'[u] = at[u] /\ line'[u] = line[u]
        BY DEF LogTypes
      <4> QED  BY <4>1, NoLine
    <3> QED  BY <3>1, <3>2, <3>3, NoFile
  <2>2. CASE TestOpen(t) \/ TestSize(t)
    <3> USE <2>2 DEF TestOpen, TestSize
    <3>1. LogTypes'
      BY TypesKept
    <3>2. LockHeld'
      BY DEF LockHeld, Critical, LogTypes
    <3>3. Unfinished' /\ Finished'
      <4>1. /\ at[t] # "text" /\ at'[t] \notin {"text", "written"}
            /\ \A u \in Writers : u # t => at'[u] = at[u] /\ line'[u] = line[u]
        BY DEF LogTypes
      <4> QED  BY <4>1, NoLine
    <3> QED  BY <3>1, <3>2, <3>3, NoFile
  <2>3. CASE LockToRotate(t) \/ Close(t) \/ Reopen(t) \/ LockToWrite(t)
    <3> USE <2>3 DEF LockToRotate, Close, Reopen, LockToWrite, Lock
    <3>1. LogTypes'
      BY TypesKept
    <3>2. LockHeld'
      <4>1. CASE LockToRotate(t) \/ LockToWrite(t)
        BY <4>1 DEF LockHeld, Critical, LogTypes, Writers
      <4>2. CASE Close(t) \/ Reopen(t)
        BY <4>2 DEF LockHeld, Critical, LogTypes
      <4> QED  BY <2>3, <4>1, <4>2
    <3>3. Unfinished' /\ Finished'
      <4>1. /\ at[t] # "text" /\ at'[t] \notin {"text", "written"}
            /\ \A u \in Writers : u # t => at'[u] = at[u] /\ line'[u] = line[u]
        BY DEF LogTypes
      <4> QED  BY <4>1, NoLine
    <3> QED  BY <3>1, <3>2, <3>3, NoFile
  <2>4. CASE Rename(t)
    <3> USE <2>4 DEF Rename, BakName
    <3>0. at[t] = "rename" /\ m_splock = t /\ Complete(log)
      <4>1. \A u \in Writers : at[u] # "text"
        BY DEF LockHeld, Critical
      <4> QED  BY <4>1 DEF Finished, LockHeld, Critical
    <3>1. LogTypes'
      BY TypesKept
    <3>2. LockHeld'
      BY DEF LockHeld, Critical, LogTypes
    <3>3. Unfinished' /\ Finished'
      <4>1. \A u \in Writers : at'[u] \notin {"text", "written"}
        BY <3>0 DEF LockHeld, Critical, LogTypes
      <4>2. log' = <<>>
        OBVIOUS
      <4> QED  BY <4>1, <4>2 DEF Unfinished, Finished, Complete
    <3>4. Backups'
      <4> SUFFICES ASSUME NEW s \in Seconds
                   PROVE  Complete(bak'[s]) /\ (rotations'[s] = 0 => bak'[s] = <<>>)
        BY DEF Backups
      <4>1. CASE s = now
        <5>1. bak'[s] = log /\ rotations'[s] = rotations[s] + 1 /\ rotations[s] \in Nat
          BY <4>1 DEF LogTypes
        <5> QED  BY <5>1, <3>0
      <4>2. CASE s # now
        <5>1. bak'[s] = bak[s] /\ rotations'[s] = rotations[s]
          BY <4>2 DEF LogTypes
        <5> QED  BY <5>1 DEF Backups
      <4> QED  BY <4>1, <4>2
    <3>5. AllFound'
      <4> SUFFICES ASSUME NEW w \in written PROVE Found(w[1], w[2])'
        BY DEF AllFound
      <4>1. now \in Seconds /\ bak' = [bak EXCEPT ![now] = log] /\ bak'[now] = log
            /\ rotations \in [Seconds -> Nat] /\ rotations'[now] = rotations[now] + 1
            /\ \A s \in Seconds : rotations'[s] >= rotations[s] /\ (s # now => bak'[s] = bak[s])
        <5>1. now \in Seconds /\ rotations \in [Seconds -> Nat] /\ bak \in [Seconds -> Seq(AllPieces)]
          BY DEF LogTypes
        <5>2. /\ bak' = [bak EXCEPT ![now] = log] /\ bak'[now] = log
              /\ \A s \in Seconds : s # now => bak'[s] = bak[s]
          BY <5>1
        <5>3. /\ rotations'[now] = rotations[now] + 1
              /\ \A s \in Seconds : rotations'[s] >= rotations[s]
          BY <5>1
        <5> QED  BY <5>1, <5>2, <5>3
      <4>2. CASE Holds(log, w[1], w[2])
        BY <4>1, <4>2 DEF Found, Holds
      <4>3. CASE \E s \in Seconds : Holds(bak[s], w[1], w[2]) \/ rotations[s] > 1
        <5>1. PICK s \in Seconds : Holds(bak[s], w[1], w[2]) \/ rotations[s] > 1
          BY <4>3
        <5>2. CASE s = now /\ Holds(bak[s], w[1], w[2])
          <6>1. bak[now] # <<>>
            BY <5>2 DEF Holds
          <6>2. rotations[now] # 0 /\ rotations[now] \in Nat
            BY <6>1, <4>1 DEF Backups
          <6> QED  BY <6>2, <4>1 DEF Found
        <5>3. CASE rotations[s] > 1
          <6>1. rotations[s] \in Nat /\ rotations'[s] \in Nat
            BY <4>1
          <6> QED  BY <5>3, <4>1, <6>1 DEF Found
        <5>4. CASE s # now /\ Holds(bak[s], w[1], w[2])
          BY <5>4, <4>1 DEF Found, Holds
        <5> QED  BY <5>1, <5>2, <5>3, <5>4
      <4> QED  BY <4>2, <4>3 DEF AllFound, Found
    <3> QED  BY <3>1, <3>2, <3>3, <3>4, <3>5
  <2>5. CASE UnlockRotated(t) \/ Return(t)
    <3> USE <2>5 DEF UnlockRotated, Return, Unlock
    <3>1. LogTypes'
      BY TypesKept
    <3>2. LockHeld'
      BY DEF LockHeld, Critical, LogTypes, Writers
    <3>3. Unfinished' /\ Finished'
      <4>1. /\ at[t] # "text" /\ at'[t] \notin {"text", "written"}
            /\ \A u \in Writers : u # t => at'[u] = at[u] /\ line'[u] = line[u]
        BY DEF LogTypes
      <4> QED  BY <4>1, NoLine
    <3>4. Backups'
      BY DEF Backups
    <3>5. AllFound'
      <4>1. Found(t, line[t])' \/ written' = written
        BY DEF Unfinished, Found
      <4>2. \A w \in written : Found(w[1], w[2])'
        BY DEF AllFound, Found
      <4> QED  BY <4>1, <4>2 DEF AllFound
    <3> QED  BY <3>1, <3>2, <3>3, <3>4, <3>5
  <2>6. CASE PutTime(t)
    <3> USE <2>6 DEF PutTime, Put
    <3>0. /\ at[t] = "time" /\ m_splock = t /\ Complete(log)
          /\ log \in Seq(AllPieces) /\ line[t] \in Nat /\ Piece(t, "time") \in AllPieces
      <4>1. \A u \in Writers : at[u] # "text"
        BY DEF LockHeld, Critical
      <4> QED  BY <4>1 DEF Finished, LockHeld, Critical, Piece, AllPieces, LogTypes
    <3>1. LogTypes'
      BY TypesKept
    <3>2. LockHeld'
      BY DEF LockHeld, Critical, LogTypes
    <3>3. Unfinished'
      <4>1. \A u \in Writers : u # t => at'[u] \notin {"text", "written"}
        BY <3>0 DEF LockHeld, Critical, LogTypes
      <4>2. at'[t] = "text" /\ log' = Append(log, <<t, line[t], "time">>) /\ Piece(t, "text")' = <<t, line[t], "text">>
        BY DEF LogTypes, Piece
      <4>3. Complete(Append(log', Piece(t, "text")'))
        BY <4>2, <3>0, CompleteLine
      <4> QED  BY <4>1, <4>2, <4>3 DEF Unfinished
    <3>4. Finished' /\ Backups'
      <4>1. at'[t] = "text"
        BY DEF LogTypes
      <4> QED  BY <4>1 DEF Finished, Backups
    <3>5. AllFound'
      <4>1. \A w \in written : Holds(log, w[1], w[2]) => Holds(log', w[1], w[2])
        BY <3>0, HoldsAppend
      <4> QED  BY <4>1 DEF AllFound, Found
    <3> QED  BY <3>1, <3>2, <3>3, <3>4, <3>5
  <2>7. CASE PutText(t)
    <3> USE <2>7 DEF PutText, Put
    <3>0. /\ at[t] = "text" /\ m_splock = t /\ Complete(log')
          /\ log \in Seq(AllPieces) /\ line[t] \in Nat /\ Piece(t, "text") \in AllPieces
      BY DEF Unfinished, LockHeld, Critical, Piece, AllPieces, LogTypes
    <3>1. LogTypes'
      BY TypesKept
    <3>2. LockHeld'
      BY DEF LockHeld, Critical, LogTypes
    <3>3. Unfinished'
      <4>1. \A u \in Writers : u # t => at'[u] \notin {"text", "written"}
        BY <3>0 DEF LockHeld, Critical, LogTypes
      <4>2. at'[t] = "written" /\ log' = Append(log, <<t, line[t], "text">>)
        BY DEF LogTypes, Piece
      <4>3. Holds(log', t, line[t])
        BY <4>2, <3>0 DEF Holds
      <4> QED  BY <4>1, <4>2, <4>3 DEF Unfinished
    <3>4. Finished' /\ Backups'
      BY <3>0 DEF Finished, Backups
    <3>5. AllFound'
      <4>1. \A w \in written : Holds(log, w[1], w[2]) => Holds(log', w[1], w[2])
        BY <3>0, HoldsAppend
      <4> QED  BY <4>1 DEF AllFound, Found
    <3> QED  BY <3>1, <3>2, <3>3, <3>4, <3>5
  <2> QED  BY <1>e, <2>1, <2>2, <2>3, <2>4, <2>5, <2>6, <2>7 DEF LogStep, Rotate
<1> QED  BY <1>b, <1>c, <1>d, <1>e, <1>f DEF LogNext

(* The types of the log file's state, for any number of threads.           *)
THEOREM LogTypesCorrect == LogSpec => []LogTypes
<1>1. LogInv => LogTypes
  BY DEF LogInv
<1> QED  BY <1>1, LogInitially, LogKept, PTL DEF LogSpec

(* The lines of several threads are not mixed, and none is cut by a        *)
(* rotation of the file: the time and the text of a line are side by side, *)
(* for any number of threads, lines and rotations, and with EXIT() writing *)
(* in the middle (clogfile::write(), _public.h:485-499).                   *)
THEOREM WholeLinesCorrect == LogSpec => []WholeLines
<1>1. LogInv => WholeLines
  BY DEF LogInv, WholeLines, Backups, Finished, Unfinished
<1> QED  BY <1>1, LogInitially, LogKept, PTL DEF LogSpec

(* A line that was written is lost only through two rotations in one       *)
(* second (clogfile::backup(), _public.cpp:795-825), for any size, number  *)
(* of threads and length of the run.                                       *)
THEOREM LossIsSameSecondCorrect == LogSpec => []LossIsSameSecond
<1>1. LogInv => LossIsSameSecond
  BY DEF LogInv, LossIsSameSecond, AllFound, Found, Lost, Files
<1> QED  BY <1>1, LogInitially, LogKept, PTL DEF LogSpec

(* Lines stay whole and are lost in that one way only (_public.cpp:795-825, *)
(* _public.h:484-501).                                                     *)
THEOREM LinesKeptCorrect == LogSpec => []LinesKept
BY WholeLinesCorrect, LossIsSameSecondCorrect, PTL DEF LinesKept

-----------------------------------------------------------------------------
(* The circular queue.                                                     *)

(* The place i, counted on past the end of an array of n places.           *)
LEMMA ModOnce ==
  ASSUME NEW n \in Nat \ {0}, NEW i \in 0..2 * n - 1
  PROVE  i % n = IF i < n THEN i ELSE i - n
  OBVIOUS

(* The place after the last one is the first.                              *)
LEMMA AfterIs ==
  ASSUME NEW i \in Indices
  PROVE  After(i) = IF i + 1 = MaxLength THEN 0 ELSE i + 1
<1>1. MaxLength \in Nat \ {0} /\ i + 1 \in 0..2 * MaxLength - 1 /\ i + 1 <= MaxLength
  BY RingAssumption DEF Indices
<1> QED  BY <1>1, ModOnce DEF After

(* The tail is where the last of the values lies that wait.                *)
TailAt == IF m_head + m_length = 0 THEN MaxLength - 1
          ELSE IF m_head + m_length - 1 < MaxLength THEN m_head + m_length - 1
          ELSE m_head + m_length - 1 - MaxLength
RingInv == /\ RingTypes
           /\ m_inited = FALSE => m_length = 0
           /\ m_inited = TRUE => m_tail = TailAt

(* Zeroed memory, before init().                                           *)
LEMMA RingInitially == RingInit => RingInv
<1> SUFFICES ASSUME RingInit PROVE RingInv
  OBVIOUS
<1>1. m_data \in [Indices -> Values \union {Zero}] /\ {m_head, m_tail} \subseteq Indices /\ m_length \in 0..MaxLength
  BY RingAssumption DEF RingInit, Indices
<1>2. m_inited \in BOOLEAN /\ m_inited # TRUE /\ m_length = 0
  BY DEF RingInit
<1> QED  BY <1>1, <1>2 DEF RingInv, RingTypes, RingInit

(* init(), push(), pop() and front() keep head, tail and length in step.   *)
LEMMA RingKept == RingInv /\ [RingNext]_ringVars => RingInv'
<1> SUFFICES ASSUME RingInv, [RingNext]_ringVars PROVE RingInv'
  OBVIOUS
<1> USE RingAssumption DEF RingInv, RingTypes, Indices, TailAt
<1>1. CASE UNCHANGED ringVars
  BY <1>1 DEF ringVars
<1>2. CASE Initialise
  BY <1>2 DEF Initialise
<1>3. CASE m_inited /\ (PopEmpty \/ PushFull \/ ReadFront)
  <2>1. result' \in Values \union {Zero, "true", "false"}
    BY <1>3 DEF PopEmpty, PushFull, ReadFront, Refuse
  <2> QED  BY <1>3, <2>1 DEF PopEmpty, PushFull, ReadFront, Refuse
<1>4. CASE m_inited /\ PopValue
  <2>1. After(m_head) = IF m_head + 1 = MaxLength THEN 0 ELSE m_head + 1
    BY AfterIs
  <2> QED  BY <1>4, <2>1 DEF PopValue
<1>5. ASSUME NEW v \in Values, m_inited, PushValue(v) PROVE RingInv'
  <2>1. /\ m_tail' = IF m_tail + 1 = MaxLength THEN 0 ELSE m_tail + 1
        /\ m_length' = m_length + 1 /\ m_length < MaxLength /\ m_head' = m_head /\ m_inited' = m_inited
        /\ result' = "true"
    BY <1>5, AfterIs DEF PushValue
  <2>2. m_data' \in [Indices -> Values \union {Zero}]
    BY <1>5 DEF PushValue
  <2>3. m_tail' \in 0..MaxLength-1 /\ m_length' \in 0..MaxLength
    BY <2>1
  <2>4. m_tail' = TailAt'
    BY <1>5, <2>1
  <2>5. m_head' \in Indices /\ m_tail' \in Indices
    BY <2>1, <2>3
  <2>6. RingTypes'
    BY <2>1, <2>2, <2>3, <2>5
  <2>7. m_inited' = TRUE
    BY <1>5, <2>1
  <2> QED  BY ONLY <2>4, <2>6, <2>7 DEF RingInv
<1> QED  BY <1>1, <1>2, <1>3, <1>4, <1>5 DEF RingNext, RingCall

Place(h, i) == IF h + i - 1 < MaxLength THEN h + i - 1 ELSE h + i - 1 - MaxLength
WaitingForm == /\ Waiting \in Seq(Values \union {Zero}) /\ Len(Waiting) = m_length
               /\ \A i \in 1..m_length : Waiting[i] = m_data[Place(m_head, i)]

(* The place of the i-th value from the head, across the end of the array. *)
LEMMA PlaceIs ==
  ASSUME NEW h \in Indices, NEW i \in 1..MaxLength
  PROVE  (h + i - 1) % MaxLength = Place(h, i) /\ Place(h, i) \in Indices
<1>1. MaxLength \in Nat \ {0} /\ h \in 0..MaxLength - 1
  BY RingAssumption DEF Indices
<1>2. h + i - 1 \in 0..2 * MaxLength - 1
  BY <1>1
<1>3. (h + i - 1) % MaxLength = Place(h, i)
  <2>1. PICK k \in 0..2 * MaxLength - 1 : k = h + i - 1
    BY <1>2
  <2>2. k % MaxLength = IF k < MaxLength THEN k ELSE k - MaxLength
    BY <1>1, ModOnce
  <2>3. CASE h + i - 1 < MaxLength
    BY <1>1, <2>1, <2>2, <2>3 DEF Place
  <2>4. CASE ~(h + i - 1 < MaxLength)
    BY <1>1, <2>1, <2>2, <2>4 DEF Place
  <2> QED  BY <2>3, <2>4
<1>4. Place(h, i) \in Indices
  BY <1>1 DEF Place, Indices
<1> QED  BY <1>3, <1>4

(* What waits in the ring, without the modulus.                            *)
LEMMA WaitingIs == RingInv => WaitingForm
<1> SUFFICES ASSUME RingInv PROVE WaitingForm
  OBVIOUS
<1>1. \A i \in 1..m_length : (m_head + i - 1) % MaxLength = Place(m_head, i) /\ Place(m_head, i) \in Indices
  BY RingAssumption, PlaceIs DEF RingInv, RingTypes
<1>2. m_length \in Nat /\ m_data \in [Indices -> Values \union {Zero}]
  BY DEF RingInv, RingTypes
<1> QED  BY <1>1, <1>2 DEF Waiting, WaitingForm

(* Calls that change neither the array nor its head and length.            *)
LEMMA SameWaiting ==
  ASSUME m_head' = m_head, m_length' = m_length, m_data' = m_data
  PROVE  Waiting' = Waiting
  BY DEF Waiting

(* Each call of squeue is a step of the bounded queue.                     *)
LEMMA RingStep == RingInv /\ RingInv' /\ [RingNext]_ringVars => [Abstract!BQNext]_<<Waiting, result>>
<1> SUFFICES ASSUME RingInv, RingInv', [RingNext]_ringVars
             PROVE  Abstract!BQNext \/ UNCHANGED <<Waiting, result>>
  OBVIOUS
<1> USE RingAssumption DEF Abstract!BQNext
<1>1. CASE UNCHANGED ringVars
  BY <1>1, SameWaiting DEF ringVars
<1>2. CASE Initialise
  <2>1. m_length = 0 /\ m_length' = 0 /\ result' = result
    BY <1>2 DEF Initialise, RingInv, RingTypes
  <2>2. Waiting = <<>> /\ Waiting' = <<>>
    BY <2>1 DEF Waiting
  <2> QED  BY <2>1, <2>2
<1>3. CASE PopEmpty
  <2>1. Waiting' = Waiting /\ Waiting = <<>> /\ result' = "false"
    BY <1>3, SameWaiting, WaitingIs DEF WaitingForm, PopEmpty, Refuse
  <2> QED  BY <2>1 DEF Abstract!Pop
<1>4. ASSUME NEW v \in Values, PushFull PROVE Abstract!BQNext
  <2>1. Waiting' = Waiting /\ Len(Waiting) = MaxLength /\ result' = "false"
    BY <1>4, SameWaiting, WaitingIs DEF WaitingForm, PushFull, Refuse
  <2> QED  BY <2>1 DEF Abstract!Push
<1>5. CASE ReadFront
  <2>1. Waiting' = Waiting /\ Waiting # <<>> /\ result' = Waiting[1]
    BY <1>5, SameWaiting, WaitingIs DEF WaitingForm, ReadFront, RingInv, RingTypes, Indices
  <2> QED  BY <2>1, WaitingIs DEF WaitingForm, Abstract!Front
<1>6. CASE PopValue
  <2>1. After(m_head) = IF m_head + 1 = MaxLength THEN 0 ELSE m_head + 1
    BY AfterIs DEF RingInv, RingTypes
  <2>2. /\ m_length \in 1..MaxLength /\ m_length' = m_length - 1 /\ m_data' = m_data
        /\ m_head \in 0..MaxLength - 1 /\ m_head' = IF m_head + 1 = MaxLength THEN 0 ELSE m_head + 1
        /\ result' = "true"
    BY <1>6, <2>1 DEF PopValue, RingInv, RingTypes, Indices
  <2>3. Waiting # <<>> /\ Len(Waiting) = m_length /\ Waiting \in Seq(Values \union {Zero})
    BY <2>2, WaitingIs DEF WaitingForm
  <2>4. Waiting' = Tail(Waiting)
    <3>1. WaitingForm'
      BY WaitingIs, PTL
    <3>2. ASSUME NEW i \in 1..m_length' PROVE Waiting'[i] = Waiting[i + 1]
      <4>1. i \in 1..m_length /\ i + 1 \in 1..m_length
        BY <2>2
      <4>2. Place(m_head', i) = Place(m_head, i + 1)
        BY <2>2, <4>1 DEF Place
      <4> QED  BY <4>1, <4>2, <3>1, <2>2, WaitingIs DEF WaitingForm
    <3>3. /\ Tail(Waiting) \in Seq(Values \union {Zero}) /\ Len(Tail(Waiting)) = m_length'
          /\ \A i \in 1..m_length' : Tail(Waiting)[i] = Waiting[i + 1]
      BY <2>2, <2>3
    <3> QED  BY <3>1, <3>2, <3>3, SeqEqual DEF WaitingForm
  <2> QED  BY <2>2, <2>3, <2>4 DEF Abstract!Pop
<1>7. ASSUME NEW v \in Values, PushValue(v), m_inited PROVE Abstract!BQNext
  <2>1. After(m_tail) = IF m_tail + 1 = MaxLength THEN 0 ELSE m_tail + 1
    BY AfterIs DEF RingInv, RingTypes
  <2>2. /\ m_length \in 0..MaxLength - 1 /\ m_length' = m_length + 1 /\ m_head' = m_head
        /\ m_head \in 0..MaxLength - 1 /\ result' = "true"
        /\ m_tail' = IF m_head + m_length < MaxLength THEN m_head + m_length ELSE m_head + m_length - MaxLength
        /\ m_data \in [Indices -> Values \union {Zero}] /\ m_tail' \in Indices
        /\ m_data' = [m_data EXCEPT ![m_tail'] = v]
    BY <1>7, <2>1 DEF PushValue, RingInv, RingTypes, Indices, TailAt
  <2>3. Len(Waiting) = m_length /\ Waiting \in Seq(Values \union {Zero})
    BY WaitingIs DEF WaitingForm
  <2>4. Waiting' = Append(Waiting, v)
    <3>1. WaitingForm'
      BY WaitingIs, PTL
    <3>2. Waiting'[m_length + 1] = v
      <4>1. m_length + 1 \in 1..m_length' /\ Place(m_head', m_length + 1) = m_tail'
        BY <2>2 DEF Place
      <4> QED  BY <4>1, <3>1, <2>2 DEF WaitingForm
    <3>3. ASSUME NEW i \in 1..m_length PROVE Waiting'[i] = Waiting[i]
      <4>1. i \in 1..m_length' /\ Place(m_head', i) = Place(m_head, i)
        BY <2>2 DEF Place
      <4>2. Place(m_head, i) # m_tail' /\ Place(m_head, i) \in Indices
        BY <2>2 DEF Place, Indices
      <4>3. m_data'[Place(m_head, i)] = m_data[Place(m_head, i)]
        BY <2>2, <4>2
      <4> QED  BY <4>1, <4>3, <3>1, WaitingIs DEF WaitingForm
    <3>4. /\ Append(Waiting, v) \in Seq(Values \union {Zero}) /\ Len(Append(Waiting, v)) = m_length'
          /\ \A i \in 1..m_length : Append(Waiting, v)[i] = Waiting[i]
          /\ Append(Waiting, v)[m_length + 1] = v
      BY <2>2, <2>3
    <3>5. Len(Waiting') = Len(Append(Waiting, v)) /\ \A i \in 1..Len(Waiting') : Waiting'[i] = Append(Waiting, v)[i]
      BY <3>1, <3>2, <3>3, <3>4, <2>2 DEF WaitingForm
    <3> QED  BY <3>1, <3>4, <3>5, SeqEqual DEF WaitingForm
  <2> QED  BY <2>2, <2>3, <2>4 DEF Abstract!Push
<1> QED  BY <1>1, <1>2, <1>3, <1>4, <1>5, <1>6, <1>7 DEF RingNext, RingCall

(* Head and tail stay inside the array and the length within its size, for *)
(* any MaxLength (squeue, _public.h:653-746).                              *)
THEOREM RingTypesCorrect == RingSpec => []RingTypes
<1>1. RingInv => RingTypes
  BY DEF RingInv
<1> QED  BY <1>1, RingInitially, RingKept, PTL DEF RingSpec

(* squeue is a first-in first-out queue of at most MaxLength values, for   *)
(* any MaxLength and any order of calls (_public.h:669-734).               *)
THEOREM ImplementsQueueCorrect == RingSpec => ImplementsQueue
<1>1. RingInit => Abstract!BQInit
  BY DEF RingInit, Abstract!BQInit, Waiting
<1> QED  BY <1>1, RingInitially, RingKept, RingStep, PTL DEF RingSpec, ImplementsQueue, Abstract!BQSpec

-----------------------------------------------------------------------------
(* The Oracle wrapper.                                                     *)

(* Sessions are numbered in the order they are made.                       *)
Numbered == /\ \A c \in Connections : conn[c].session <= sessions
            /\ live \subseteq 1..sessions

OciInv == OciTypes /\ CommittedWhenAsked /\ SameAutocommit /\ RowsReadable /\ Numbered

(* No connection is open at the start.                                     *)
LEMMA OciInitially == OciInit => OciInv
<1> SUFFICES ASSUME OciInit PROVE OciInv
  OBVIOUS
<1> USE OciAssumption DEF OciInit
<1>1. OciTypes
  BY DEF OciTypes, ConnectionTypes, StatementTypes, DatabaseTypes, ConnectionState, StatementState, Codes, Sessions, NoSession, Connected, HasConnection
<1>2. CommittedWhenAsked /\ SameAutocommit /\ RowsReadable /\ Numbered
  BY DEF CommittedWhenAsked, SameAutocommit, RowsReadable, Numbered, HasConnection, NoSession
<1> QED  BY <1>1, <1>2 DEF OciInv

(* A new code in m_cda changes nothing else of a connection.               *)
LEMMA CodeOfConnection ==
  ASSUME ConnectionTypes, NEW c \in Connections, NEW code \in Codes, conn' = [conn EXCEPT ![c].rc = code]
  PROVE  /\ ConnectionTypes'
         /\ \A d \in Connections : /\ conn'[d].session = conn[d].session
                                   /\ conn'[d].m_state = conn[d].m_state /\ conn'[d].auto = conn[d].auto
<1>1. conn[c] \in ConnectionState /\ conn \in [Connections -> ConnectionState]
  BY DEF ConnectionTypes
<1>2. [conn[c] EXCEPT !.rc = code] \in ConnectionState
  BY <1>1 DEF ConnectionState
<1>3. \A d \in Connections : conn'[d] = IF d = c THEN [conn[c] EXCEPT !.rc = code] ELSE conn[d]
  BY <1>1
<1>4. conn' \in [Connections -> ConnectionState]
  BY <1>1, <1>2, <1>3
<1>5. \A d \in Connections : /\ conn'[d].session = conn[d].session
                             /\ conn'[d].m_state = conn[d].m_state /\ conn'[d].auto = conn[d].auto
  BY <1>1, <1>3 DEF ConnectionState
<1> QED  BY <1>4, <1>5 DEF ConnectionTypes, Connected

(* Nor of a statement.                                                     *)
LEMMA CodeOfStatement ==
  ASSUME StatementTypes, NEW s \in Statements, NEW code \in Codes, stmt' = [stmt EXCEPT ![s].rc = code]
  PROVE  /\ stmt' \in [Statements -> StatementState]
         /\ \A t \in Statements : /\ stmt'[t].session = stmt[t].session /\ stmt'[t].m_state = stmt[t].m_state
                                  /\ stmt'[t].auto = stmt[t].auto /\ stmt'[t].m_conn = stmt[t].m_conn
                                  /\ stmt'[t].sqltype = stmt[t].sqltype
                                  /\ stmt'[t].rc = IF t = s THEN code ELSE stmt[t].rc
<1>1. stmt[s] \in StatementState /\ stmt \in [Statements -> StatementState]
  BY DEF StatementTypes
<1>2. [stmt[s] EXCEPT !.rc = code] \in StatementState
  BY <1>1 DEF StatementState
<1>3. \A t \in Statements : stmt'[t] = IF t = s THEN [stmt[s] EXCEPT !.rc = code] ELSE stmt[t]
  BY <1>1
<1>4. stmt' \in [Statements -> StatementState]
  BY <1>1, <1>2, <1>3
<1>5. \A t \in Statements : /\ stmt'[t].session = stmt[t].session /\ stmt'[t].m_state = stmt[t].m_state
                                  /\ stmt'[t].auto = stmt[t].auto /\ stmt'[t].m_conn = stmt[t].m_conn
                                  /\ stmt'[t].sqltype = stmt[t].sqltype
                                  /\ stmt'[t].rc = IF t = s THEN code ELSE stmt[t].rc
  BY <1>1, <1>3 DEF StatementState
<1> QED  BY <1>4, <1>5

(* A change is in the transaction of its session, or committed with it.    *)
LEMMA DatabaseChanged ==
  ASSUME DatabaseTypes, NEW n \in Sessions, Change(n) \/ ChangeAndCommit(n), sessions' = sessions, live' = live
  PROVE  DatabaseTypes'
<1> USE OciAssumption DEF DatabaseTypes
<1>1. lastchange' = lastchange + 1 /\ lastchange' \in 1..LastChange
  BY DEF Change, ChangeAndCommit
<1>2. pending[n] \subseteq 1..LastChange
  OBVIOUS
<1>3. pending' \in [Sessions -> SUBSET (1..LastChange)]
  BY <1>1, <1>2 DEF Change, ChangeAndCommit
<1>4. committed' \subseteq 1..LastChange /\ asked' \subseteq 1..LastChange
  BY <1>1, <1>2 DEF Change, ChangeAndCommit
<1> QED  BY <1>1, <1>3, <1>4

(* What a connection does keeps the invariant.                             *)
LEMMA ConnectionKept ==
  ASSUME OciInv, NEW c \in Connections, ConnectionStep(c)
  PROVE  OciInv'
<1> USE OciAssumption
<1> USE DEF OciInv, OciTypes, Returns, ResultMade, database, Connected, HasConnection, NoSession, Called
<1>1. ASSUME NEW auto \in {"on", "off"}, ConnectAgain(c, auto) PROVE OciInv'
  <2> USE <1>1 DEF ConnectAgain
  <2>1. ConnectionTypes'
    BY DEF ConnectionTypes, StatementTypes, DatabaseTypes, ConnectionState, Codes, Sessions, Numbered
  <2>2. StatementTypes'
    BY DEF ConnectionTypes, StatementTypes, ConnectionState, StatementState, Codes, Sessions
  <2>3. DatabaseTypes' /\ (told \subseteq Statements)'
    BY DEF ConnectionTypes, StatementTypes, DatabaseTypes, ConnectionState, StatementState, Codes, Sessions
  <2>4. CommittedWhenAsked'
    BY DEF CommittedWhenAsked
  <2>5. SameAutocommit' /\ Numbered'
    BY DEF SameAutocommit, Numbered, ConnectionTypes, StatementTypes, DatabaseTypes, ConnectionState, StatementState
  <2>6. RowsReadable'
    BY DEF SameAutocommit, Numbered, RowsReadable, ConnectionTypes, StatementTypes, DatabaseTypes, ConnectionState,
           StatementState, Sessions
  <2> QED  BY ONLY <2>1, <2>2, <2>3, <2>4, <2>5, <2>6 DEF OciInv, OciTypes
<1>2. ASSUME NEW auto \in {"on", "off"}, Logon(c, auto) PROVE OciInv'
  <2> USE <1>2 DEF Logon
  <2>1. ConnectionTypes'
    BY DEF ConnectionTypes, StatementTypes, DatabaseTypes, ConnectionState, Codes, Sessions, Numbered
  <2>2. StatementTypes'
    BY DEF ConnectionTypes, StatementTypes, ConnectionState, StatementState, Codes, Sessions
  <2>3. DatabaseTypes' /\ (told \subseteq Statements)'
    BY DEF ConnectionTypes, StatementTypes, DatabaseTypes, ConnectionState, StatementState, Codes, Sessions
  <2>4. CommittedWhenAsked'
    BY DEF CommittedWhenAsked
  <2>5. SameAutocommit' /\ Numbered'
    <3>1. \A s \in Statements : HasConnection(s) => stmt[s].m_conn # c
      BY DEF SameAutocommit
    <3>2. sessions' = sessions + 1 /\ \A d \in Connections : d # c => conn'[d] = conn[d]
      BY DEF ConnectionTypes
    <3>3. \A d \in Connections : conn'[d].session <= sessions'
      BY <3>2 DEF Numbered, ConnectionTypes, ConnectionState, DatabaseTypes, Sessions
    <3>4. live' \subseteq 1..sessions'
      BY <3>2 DEF Numbered, DatabaseTypes
    <3>5. SameAutocommit'
      BY <3>1, <3>2 DEF SameAutocommit, StatementTypes
    <3> QED  BY <3>3, <3>4, <3>5 DEF Numbered
  <2>6. RowsReadable'
    BY DEF SameAutocommit, Numbered, RowsReadable, ConnectionTypes, StatementTypes, DatabaseTypes, ConnectionState,
           StatementState, Sessions
  <2> QED  BY ONLY <2>1, <2>2, <2>3, <2>4, <2>5, <2>6 DEF OciInv, OciTypes
<1>3. CASE LogonFails(c)
  <2> USE <1>3 DEF LogonFails
  <2>a. PICK left \in Codes : c \in Connections /\ conn' = [conn EXCEPT ![c].rc = left]
    BY DEF Codes, StatementTypes
  <2>b. /\ ConnectionTypes'
        /\ \A d \in Connections : /\ conn'[d].session = conn[d].session
                                  /\ conn'[d].m_state = conn[d].m_state /\ conn'[d].auto = conn[d].auto
    BY <2>a, CodeOfConnection
  <2>1. ConnectionTypes'
    BY <2>b
  <2>2. StatementTypes'
    BY DEF StatementTypes
  <2>3. DatabaseTypes' /\ (told \subseteq Statements)'
    BY DEF ConnectionTypes, StatementTypes, DatabaseTypes, ConnectionState, StatementState, Codes, Sessions
  <2>4. CommittedWhenAsked'
    BY DEF CommittedWhenAsked
  <2>5. SameAutocommit' /\ Numbered'
    BY <2>b DEF SameAutocommit, Numbered, ConnectionTypes, StatementTypes, DatabaseTypes, ConnectionState, StatementState
  <2>6. RowsReadable'
    BY <2>b DEF SameAutocommit, Numbered, RowsReadable, ConnectionTypes, StatementTypes, DatabaseTypes, ConnectionState,
           StatementState, Sessions
  <2> QED  BY ONLY <2>1, <2>2, <2>3, <2>4, <2>5, <2>6 DEF OciInv, OciTypes
<1>4. CASE NotOpen(c)
  <2> USE <1>4 DEF NotOpen
  <2>a. PICK left \in Codes : c \in Connections /\ conn' = [conn EXCEPT ![c].rc = left]
    BY DEF Codes, StatementTypes
  <2>b. /\ ConnectionTypes'
        /\ \A d \in Connections : /\ conn'[d].session = conn[d].session
                                  /\ conn'[d].m_state = conn[d].m_state /\ conn'[d].auto = conn[d].auto
    BY <2>a, CodeOfConnection
  <2>1. ConnectionTypes'
    BY <2>b
  <2>2. StatementTypes'
    BY DEF StatementTypes
  <2>3. DatabaseTypes' /\ (told \subseteq Statements)'
    BY DEF ConnectionTypes, StatementTypes, DatabaseTypes, ConnectionState, StatementState, Codes, Sessions
  <2>4. CommittedWhenAsked'
    BY DEF CommittedWhenAsked
  <2>5. SameAutocommit' /\ Numbered'
    BY <2>b DEF SameAutocommit, Numbered, ConnectionTypes, StatementTypes, DatabaseTypes, ConnectionState, StatementState
  <2>6. RowsReadable'
    BY <2>b DEF SameAutocommit, Numbered, RowsReadable, ConnectionTypes, StatementTypes, DatabaseTypes, ConnectionState,
           StatementState, Sessions
  <2> QED  BY ONLY <2>1, <2>2, <2>3, <2>4, <2>5, <2>6 DEF OciInv, OciTypes
<1>5. CASE Rollback(c)
  <2> USE <1>5 DEF Rollback
  <2>a. PICK left \in Codes : c \in Connections /\ conn' = [conn EXCEPT ![c].rc = left]
    BY DEF Codes, StatementTypes
  <2>b. /\ ConnectionTypes'
        /\ \A d \in Connections : /\ conn'[d].session = conn[d].session
                                  /\ conn'[d].m_state = conn[d].m_state /\ conn'[d].auto = conn[d].auto
    BY <2>a, CodeOfConnection
  <2>1. ConnectionTypes'
    BY <2>b
  <2>2. StatementTypes'
    BY DEF StatementTypes
  <2>3. DatabaseTypes' /\ (told \subseteq Statements)'
    BY DEF ConnectionTypes, StatementTypes, DatabaseTypes, ConnectionState, StatementState, Codes, Sessions
  <2>4. CommittedWhenAsked'
    BY DEF CommittedWhenAsked
  <2>5. SameAutocommit' /\ Numbered'
    BY <2>b DEF SameAutocommit, Numbered, ConnectionTypes, StatementTypes, DatabaseTypes, ConnectionState, StatementState
  <2>6. RowsReadable'
    BY <2>b DEF SameAutocommit, Numbered, RowsReadable, ConnectionTypes, StatementTypes, DatabaseTypes, ConnectionState,
           StatementState, Sessions
  <2> QED  BY ONLY <2>1, <2>2, <2>3, <2>4, <2>5, <2>6 DEF OciInv, OciTypes
<1>6. CASE Commit(c)
  <2> USE <1>6 DEF Commit
  <2>a. PICK left \in Codes : c \in Connections /\ conn' = [conn EXCEPT ![c].rc = left]
    BY DEF Codes, StatementTypes
  <2>b. /\ ConnectionTypes'
        /\ \A d \in Connections : /\ conn'[d].session = conn[d].session
                                  /\ conn'[d].m_state = conn[d].m_state /\ conn'[d].auto = conn[d].auto
    BY <2>a, CodeOfConnection
  <2>1. ConnectionTypes'
    BY <2>b
  <2>2. StatementTypes'
    BY DEF StatementTypes
  <2>3. DatabaseTypes' /\ (told \subseteq Statements)'
    BY DEF ConnectionTypes, StatementTypes, DatabaseTypes, ConnectionState, StatementState, Codes, Sessions
  <2>4. CommittedWhenAsked'
    BY DEF CommittedWhenAsked
  <2>5. SameAutocommit' /\ Numbered'
    BY <2>b DEF SameAutocommit, Numbered, ConnectionTypes, StatementTypes, DatabaseTypes, ConnectionState, StatementState
  <2>6. RowsReadable'
    BY <2>b DEF SameAutocommit, Numbered, RowsReadable, ConnectionTypes, StatementTypes, DatabaseTypes, ConnectionState,
           StatementState, Sessions
  <2> QED  BY ONLY <2>1, <2>2, <2>3, <2>4, <2>5, <2>6 DEF OciInv, OciTypes
<1>7. CASE Disconnect(c)
  <2> USE <1>7 DEF Disconnect
  <2>1. ConnectionTypes'
    BY DEF ConnectionTypes, StatementTypes, DatabaseTypes, ConnectionState, Codes, Sessions, Numbered
  <2>2. StatementTypes'
    BY DEF ConnectionTypes, StatementTypes, ConnectionState, StatementState, Codes, Sessions
  <2>3. DatabaseTypes' /\ (told \subseteq Statements)'
    BY DEF ConnectionTypes, StatementTypes, DatabaseTypes, ConnectionState, StatementState, Codes, Sessions
  <2>4. CommittedWhenAsked'
    BY DEF CommittedWhenAsked
  <2>5. SameAutocommit' /\ Numbered'
    BY DEF SameAutocommit, Numbered, ConnectionTypes, StatementTypes, DatabaseTypes, ConnectionState, StatementState
  <2>6. RowsReadable'
    BY DEF SameAutocommit, Numbered, RowsReadable, ConnectionTypes, StatementTypes, DatabaseTypes, ConnectionState,
           StatementState, Sessions
  <2> QED  BY ONLY <2>1, <2>2, <2>3, <2>4, <2>5, <2>6 DEF OciInv, OciTypes
<1>8. CASE ExecuteClosed(c)
  <2> USE <1>8 DEF ExecuteClosed
  <2>1. ConnectionTypes'
    BY DEF ConnectionTypes, StatementTypes, DatabaseTypes, ConnectionState, Codes, Sessions, Numbered
  <2>2. StatementTypes'
    BY DEF ConnectionTypes, StatementTypes, ConnectionState, StatementState, Codes, Sessions
  <2>3. DatabaseTypes' /\ (told \subseteq Statements)'
    BY DEF ConnectionTypes, StatementTypes, DatabaseTypes, ConnectionState, StatementState, Codes, Sessions
  <2>4. CommittedWhenAsked'
    BY DEF CommittedWhenAsked
  <2>5. SameAutocommit' /\ Numbered'
    BY DEF SameAutocommit, Numbered, ConnectionTypes, StatementTypes, DatabaseTypes, ConnectionState, StatementState
  <2>6. RowsReadable'
    BY DEF SameAutocommit, Numbered, RowsReadable, ConnectionTypes, StatementTypes, DatabaseTypes, ConnectionState,
           StatementState, Sessions
  <2> QED  BY ONLY <2>1, <2>2, <2>3, <2>4, <2>5, <2>6 DEF OciInv, OciTypes
<1>9. CASE ExecuteOnce(c)
  <2> USE <1>9 DEF ExecuteOnce, Change, ChangeAndCommit
  <2>1. ConnectionTypes'
    BY DEF ConnectionTypes, StatementTypes, DatabaseTypes, ConnectionState, Codes, Sessions, Numbered
  <2>2. StatementTypes'
    BY DEF ConnectionTypes, StatementTypes, ConnectionState, StatementState, Codes, Sessions
  <2>3. DatabaseTypes' /\ (told \subseteq Statements)'
    <3>1. conn[c].session \in Sessions
      BY DEF DatabaseTypes
    <3>2. DatabaseTypes'
      BY <3>1, DatabaseChanged
    <3> QED  BY <3>2 DEF Codes
  <2>4. CommittedWhenAsked'
    BY DEF CommittedWhenAsked
  <2>5. SameAutocommit' /\ Numbered'
    BY DEF SameAutocommit, Numbered, ConnectionTypes, StatementTypes, DatabaseTypes, ConnectionState, StatementState
  <2>6. RowsReadable'
    BY DEF SameAutocommit, Numbered, RowsReadable, ConnectionTypes, StatementTypes, DatabaseTypes, ConnectionState,
           StatementState, Sessions
  <2> QED  BY ONLY <2>1, <2>2, <2>3, <2>4, <2>5, <2>6 DEF OciInv, OciTypes
<1>10. CASE ExecuteFails(c)
  <2> USE <1>10 DEF ExecuteFails
  <2>a. PICK left \in Codes : c \in Connections /\ conn' = [conn EXCEPT ![c].rc = left]
    BY DEF Codes, StatementTypes
  <2>b. /\ ConnectionTypes'
        /\ \A d \in Connections : /\ conn'[d].session = conn[d].session
                                  /\ conn'[d].m_state = conn[d].m_state /\ conn'[d].auto = conn[d].auto
    BY <2>a, CodeOfConnection
  <2>1. ConnectionTypes'
    BY <2>b
  <2>2. StatementTypes'
    BY DEF StatementTypes
  <2>3. DatabaseTypes' /\ (told \subseteq Statements)'
    BY DEF ConnectionTypes, StatementTypes, DatabaseTypes, ConnectionState, StatementState, Codes, Sessions
  <2>4. CommittedWhenAsked'
    BY DEF CommittedWhenAsked
  <2>5. SameAutocommit' /\ Numbered'
    BY <2>b DEF SameAutocommit, Numbered, ConnectionTypes, StatementTypes, DatabaseTypes, ConnectionState, StatementState
  <2>6. RowsReadable'
    BY <2>b DEF SameAutocommit, Numbered, RowsReadable, ConnectionTypes, StatementTypes, DatabaseTypes, ConnectionState,
           StatementState, Sessions
  <2> QED  BY ONLY <2>1, <2>2, <2>3, <2>4, <2>5, <2>6 DEF OciInv, OciTypes
<1> QED  BY <1>1, <1>2, <1>3, <1>4, <1>5, <1>6, <1>7, <1>8, <1>9, <1>10 DEF ConnectionStep, ConnectToDB

(* What a statement does keeps the invariant.                              *)
LEMMA StatementKept ==
  ASSUME OciInv, NEW s \in Statements, StatementStep(s)
  PROVE  OciInv'
<1> USE OciAssumption
<1> USE DEF OciInv, OciTypes, Returns, ResultMade, database, Connected, HasConnection, NoSession, Called, Fails, Next1
<1>1. CASE StmtConnectAgain(s)
  <2> USE <1>1 DEF StmtConnectAgain
  <2>1. ConnectionTypes'
    BY DEF ConnectionTypes, StatementTypes, DatabaseTypes, ConnectionState, Codes, Sessions, Numbered
  <2>2. StatementTypes'
    BY DEF ConnectionTypes, StatementTypes, ConnectionState, StatementState, Codes, Sessions
  <2>3. DatabaseTypes' /\ (told \subseteq Statements)'
    BY DEF ConnectionTypes, StatementTypes, DatabaseTypes, ConnectionState, StatementState, Codes, Sessions
  <2>4. CommittedWhenAsked'
    BY DEF CommittedWhenAsked
  <2>5. SameAutocommit' /\ Numbered'
    BY DEF SameAutocommit, Numbered, ConnectionTypes, StatementTypes, DatabaseTypes, ConnectionState, StatementState
  <2>6. RowsReadable'
    BY DEF SameAutocommit, Numbered, RowsReadable, ConnectionTypes, StatementTypes, DatabaseTypes, ConnectionState,
           StatementState, Sessions
  <2> QED  BY ONLY <2>1, <2>2, <2>3, <2>4, <2>5, <2>6 DEF OciInv, OciTypes
<1>2. ASSUME NEW c \in Connections, StmtConnect(s, c) PROVE OciInv'
  <2> USE <1>2 DEF StmtConnect
  <2>1. ConnectionTypes'
    BY DEF ConnectionTypes, StatementTypes, DatabaseTypes, ConnectionState, Codes, Sessions, Numbered
  <2>2. StatementTypes'
    BY DEF ConnectionTypes, StatementTypes, ConnectionState, StatementState, Codes, Sessions
  <2>3. DatabaseTypes' /\ (told \subseteq Statements)'
    BY DEF ConnectionTypes, StatementTypes, DatabaseTypes, ConnectionState, StatementState, Codes, Sessions
  <2>4. CommittedWhenAsked'
    BY DEF CommittedWhenAsked
  <2>5. SameAutocommit' /\ Numbered'
    <3>1. \A t \in Statements : t # s => stmt'[t] = stmt[t]
      BY DEF StatementTypes
    <3>2. stmt'[s].m_conn = c /\ stmt'[s].session = conn[c].session /\ stmt'[s].auto = conn[c].auto
      BY DEF StatementTypes
    <3>3. Numbered'
      BY DEF Numbered
    <3> QED  BY <3>1, <3>2, <3>3 DEF SameAutocommit
  <2>6. RowsReadable'
    BY DEF SameAutocommit, Numbered, RowsReadable, ConnectionTypes, StatementTypes, DatabaseTypes, ConnectionState,
           StatementState, Sessions
  <2> QED  BY ONLY <2>1, <2>2, <2>3, <2>4, <2>5, <2>6 DEF OciInv, OciTypes
<1>3. ASSUME NEW c \in Connections, StmtConnectFails(s, c) PROVE OciInv'
  <2> USE <1>3 DEF StmtConnectFails
  <2>1. ConnectionTypes'
    BY DEF ConnectionTypes, StatementTypes, DatabaseTypes, ConnectionState, Codes, Sessions, Numbered
  <2>2. StatementTypes'
    <3>1. stmt[s] \in StatementState /\ stmt \in [Statements -> StatementState]
      BY DEF StatementTypes
    <3>2. [stmt[s] EXCEPT !.m_conn = c, !.rc = "closed"] \in StatementState
      BY <3>1 DEF StatementState, Codes, Sessions
    <3>3. \A t \in Statements : stmt'[t] = IF t = s THEN [stmt[s] EXCEPT !.m_conn = c, !.rc = "closed"] ELSE stmt[t]
      BY <3>1
    <3>4. stmt' \in [Statements -> StatementState]
      BY <3>1, <3>2, <3>3
    <3>5. stmt'[s].m_state = stmt[s].m_state
      BY <3>1, <3>3 DEF StatementState
    <3>6. rows' \in [Statements -> 0..MaxRows]
      BY DEF StatementTypes
    <3> QED  BY <3>3, <3>4, <3>5, <3>6 DEF StatementTypes
  <2>3. DatabaseTypes' /\ (told \subseteq Statements)'
    BY DEF ConnectionTypes, StatementTypes, DatabaseTypes, ConnectionState, StatementState, Codes, Sessions
  <2>4. CommittedWhenAsked'
    BY DEF CommittedWhenAsked
  <2>5. SameAutocommit' /\ Numbered'
    BY DEF SameAutocommit, Numbered, ConnectionTypes, StatementTypes, DatabaseTypes, ConnectionState, StatementState
  <2>6. RowsReadable'
    BY DEF SameAutocommit, Numbered, RowsReadable, ConnectionTypes, StatementTypes, DatabaseTypes, ConnectionState,
           StatementState, Sessions
  <2> QED  BY ONLY <2>1, <2>2, <2>3, <2>4, <2>5, <2>6 DEF OciInv, OciTypes
<1>4. CASE StmtDisconnect(s)
  <2> USE <1>4 DEF StmtDisconnect
  <2>1. ConnectionTypes'
    BY DEF ConnectionTypes, StatementTypes, DatabaseTypes, ConnectionState, Codes, Sessions, Numbered
  <2>2. StatementTypes'
    <3>1. stmt[s] \in StatementState /\ stmt \in [Statements -> StatementState]
      BY DEF StatementTypes
    <3>2. [stmt[s] EXCEPT !.m_state = "disconnected", !.session = NoSession, !.rc = "closed"] \in StatementState
      BY <3>1 DEF StatementState, Codes, Sessions
    <3>3. \A t \in Statements : stmt'[t] = IF t = s THEN [stmt[s] EXCEPT !.m_state = "disconnected", !.session = NoSession, !.rc = "closed"] ELSE stmt[t]
      BY <3>1
    <3>4. stmt' \in [Statements -> StatementState]
      BY <3>1, <3>2, <3>3
    <3>5. stmt'[s].m_state = "disconnected"
      BY <3>1, <3>3 DEF StatementState
    <3>6. rows' \in [Statements -> 0..MaxRows]
      BY DEF StatementTypes
    <3> QED  BY <3>3, <3>4, <3>5, <3>6 DEF StatementTypes
  <2>3. DatabaseTypes' /\ (told \subseteq Statements)'
    BY DEF ConnectionTypes, StatementTypes, DatabaseTypes, ConnectionState, StatementState, Codes, Sessions
  <2>4. CommittedWhenAsked'
    BY DEF CommittedWhenAsked
  <2>5. SameAutocommit' /\ Numbered'
    BY DEF SameAutocommit, Numbered, ConnectionTypes, StatementTypes, DatabaseTypes, ConnectionState, StatementState
  <2>6. RowsReadable'
    BY DEF SameAutocommit, Numbered, RowsReadable, ConnectionTypes, StatementTypes, DatabaseTypes, ConnectionState,
           StatementState, Sessions
  <2> QED  BY ONLY <2>1, <2>2, <2>3, <2>4, <2>5, <2>6 DEF OciInv, OciTypes
<1>5. CASE StmtNotOpen(s)
  <2> USE <1>5 DEF StmtNotOpen
  <2>c. PICK code \in Codes : stmt' = [stmt EXCEPT ![s].rc = code]
    BY DEF Codes
  <2>d. /\ stmt' \in [Statements -> StatementState]
        /\ \A t \in Statements : /\ stmt'[t].session = stmt[t].session /\ stmt'[t].m_state = stmt[t].m_state
                                 /\ stmt'[t].auto = stmt[t].auto /\ stmt'[t].m_conn = stmt[t].m_conn
                                 /\ stmt'[t].sqltype = stmt[t].sqltype
                                 /\ stmt'[t].rc = IF t = s THEN code ELSE stmt[t].rc
    <3>1. StatementTypes
      OBVIOUS
    <3> QED  BY ONLY <3>1, <2>c, CodeOfStatement, s \in Statements
  <2>1. ConnectionTypes'
    BY DEF ConnectionTypes
  <2>2. StatementTypes'
    BY <2>d DEF StatementTypes
  <2>3. DatabaseTypes' /\ (told \subseteq Statements)'
    BY DEF ConnectionTypes, StatementTypes, DatabaseTypes, ConnectionState, StatementState, Codes, Sessions
  <2>4. CommittedWhenAsked'
    BY DEF CommittedWhenAsked
  <2>5. SameAutocommit' /\ Numbered'
    BY <2>d DEF SameAutocommit, Numbered, ConnectionTypes, StatementTypes, DatabaseTypes, ConnectionState, StatementState
  <2>6. RowsReadable'
    BY <2>d DEF SameAutocommit, Numbered, RowsReadable, ConnectionTypes, StatementTypes, DatabaseTypes, ConnectionState,
           StatementState, Sessions
  <2> QED  BY ONLY <2>1, <2>2, <2>3, <2>4, <2>5, <2>6 DEF OciInv, OciTypes
<1>6. CASE Prepare(s)
  <2> USE <1>6 DEF Prepare
  <2>1. ConnectionTypes'
    BY DEF ConnectionTypes
  <2>2. StatementTypes'
    <3>1. stmt[s] \in StatementState /\ stmt \in [Statements -> StatementState]
      BY DEF StatementTypes
    <3>2. PICK type \in {"query", "change"} : stmt' = [stmt EXCEPT ![s].sqltype = type, ![s].rc = "ok"]
      OBVIOUS
    <3>3. [stmt[s] EXCEPT !.sqltype = type, !.rc = "ok"] \in StatementState
      BY <3>1 DEF StatementState, Codes
    <3>4. \A t \in Statements : stmt'[t] = IF t = s THEN [stmt[s] EXCEPT !.sqltype = type, !.rc = "ok"] ELSE stmt[t]
      BY <3>1, <3>2
    <3>5. stmt' \in [Statements -> StatementState]
      BY <3>1, <3>3, <3>4
    <3>6. \A t \in Statements : stmt'[t].m_state = stmt[t].m_state /\ stmt'[t].m_conn = stmt[t].m_conn
      BY <3>1, <3>4 DEF StatementState
    <3> QED  BY <3>5, <3>6 DEF StatementTypes
  <2>3. DatabaseTypes' /\ (told \subseteq Statements)'
    BY DEF ConnectionTypes, StatementTypes, DatabaseTypes, ConnectionState, StatementState, Codes, Sessions
  <2>4. CommittedWhenAsked'
    BY DEF CommittedWhenAsked
  <2>5. SameAutocommit' /\ Numbered'
    BY DEF SameAutocommit, Numbered, ConnectionTypes, StatementTypes, DatabaseTypes, ConnectionState, StatementState
  <2>6. RowsReadable'
    BY DEF SameAutocommit, Numbered, RowsReadable, ConnectionTypes, StatementTypes, DatabaseTypes, ConnectionState,
           StatementState, Sessions
  <2> QED  BY ONLY <2>1, <2>2, <2>3, <2>4, <2>5, <2>6 DEF OciInv, OciTypes
<1>7. CASE ExecuteQuery(s)
  <2> USE <1>7 DEF ExecuteQuery
  <2>c. PICK code \in Codes : stmt' = [stmt EXCEPT ![s].rc = code]
    BY DEF Codes
  <2>d. /\ stmt' \in [Statements -> StatementState]
        /\ \A t \in Statements : /\ stmt'[t].session = stmt[t].session /\ stmt'[t].m_state = stmt[t].m_state
                                 /\ stmt'[t].auto = stmt[t].auto /\ stmt'[t].m_conn = stmt[t].m_conn
                                 /\ stmt'[t].sqltype = stmt[t].sqltype
                                 /\ stmt'[t].rc = IF t = s THEN code ELSE stmt[t].rc
    <3>1. StatementTypes
      OBVIOUS
    <3> QED  BY ONLY <3>1, <2>c, CodeOfStatement, s \in Statements
  <2>1. ConnectionTypes'
    BY DEF ConnectionTypes
  <2>2. StatementTypes'
    BY <2>d DEF StatementTypes
  <2>3. DatabaseTypes' /\ (told \subseteq Statements)'
    BY DEF ConnectionTypes, StatementTypes, DatabaseTypes, ConnectionState, StatementState, Codes, Sessions
  <2>4. CommittedWhenAsked'
    BY DEF CommittedWhenAsked
  <2>5. SameAutocommit' /\ Numbered'
    BY <2>d DEF SameAutocommit, Numbered, ConnectionTypes, StatementTypes, DatabaseTypes, ConnectionState, StatementState
  <2>6. RowsReadable'
    BY <2>d DEF SameAutocommit, Numbered, RowsReadable, ConnectionTypes, StatementTypes, DatabaseTypes, ConnectionState,
           StatementState, Sessions
  <2> QED  BY ONLY <2>1, <2>2, <2>3, <2>4, <2>5, <2>6 DEF OciInv, OciTypes
<1>8. CASE ExecuteChange(s)
  <2> USE <1>8 DEF ExecuteChange, Change, ChangeAndCommit
  <2>c. PICK code \in Codes : stmt' = [stmt EXCEPT ![s].rc = code]
    BY DEF Codes
  <2>d. /\ stmt' \in [Statements -> StatementState]
        /\ \A t \in Statements : /\ stmt'[t].session = stmt[t].session /\ stmt'[t].m_state = stmt[t].m_state
                                 /\ stmt'[t].auto = stmt[t].auto /\ stmt'[t].m_conn = stmt[t].m_conn
                                 /\ stmt'[t].sqltype = stmt[t].sqltype
                                 /\ stmt'[t].rc = IF t = s THEN code ELSE stmt[t].rc
    <3>1. StatementTypes
      OBVIOUS
    <3> QED  BY ONLY <3>1, <2>c, CodeOfStatement, s \in Statements
  <2>1. ConnectionTypes'
    BY DEF ConnectionTypes
  <2>2. StatementTypes'
    BY <2>d DEF StatementTypes
  <2>3. DatabaseTypes' /\ (told \subseteq Statements)'
    <3>1. stmt[s].session \in Sessions
      BY DEF DatabaseTypes
    <3>2. DatabaseTypes'
      BY <3>1, DatabaseChanged
    <3> QED  BY <3>2 DEF Codes
  <2>4. CommittedWhenAsked'
    BY DEF CommittedWhenAsked
  <2>5. SameAutocommit' /\ Numbered'
    BY <2>d DEF SameAutocommit, Numbered, ConnectionTypes, StatementTypes, DatabaseTypes, ConnectionState, StatementState
  <2>6. RowsReadable'
    BY <2>d DEF SameAutocommit, Numbered, RowsReadable, ConnectionTypes, StatementTypes, DatabaseTypes, ConnectionState,
           StatementState, Sessions
  <2> QED  BY ONLY <2>1, <2>2, <2>3, <2>4, <2>5, <2>6 DEF OciInv, OciTypes
<1>9. CASE StmtExecuteFails(s)
  <2> USE <1>9 DEF StmtExecuteFails
  <2>a. PICK left \in Codes : stmt[s].m_conn \in Connections /\ conn' = [conn EXCEPT ![stmt[s].m_conn].rc = left]
    BY DEF Codes, StatementTypes
  <2>b. /\ ConnectionTypes'
        /\ \A d \in Connections : /\ conn'[d].session = conn[d].session
                                  /\ conn'[d].m_state = conn[d].m_state /\ conn'[d].auto = conn[d].auto
    BY <2>a, CodeOfConnection
  <2>c. PICK code \in Codes : stmt' = [stmt EXCEPT ![s].rc = code]
    BY DEF Codes
  <2>d. /\ stmt' \in [Statements -> StatementState]
        /\ \A t \in Statements : /\ stmt'[t].session = stmt[t].session /\ stmt'[t].m_state = stmt[t].m_state
                                 /\ stmt'[t].auto = stmt[t].auto /\ stmt'[t].m_conn = stmt[t].m_conn
                                 /\ stmt'[t].sqltype = stmt[t].sqltype
                                 /\ stmt'[t].rc = IF t = s THEN code ELSE stmt[t].rc
    <3>1. StatementTypes
      OBVIOUS
    <3> QED  BY ONLY <3>1, <2>c, CodeOfStatement, s \in Statements
  <2>1. ConnectionTypes'
    BY <2>b
  <2>2. StatementTypes'
    BY <2>d DEF StatementTypes
  <2>3. DatabaseTypes' /\ (told \subseteq Statements)'
    BY DEF ConnectionTypes, StatementTypes, DatabaseTypes, ConnectionState, StatementState, Codes, Sessions
  <2>4. CommittedWhenAsked'
    BY DEF CommittedWhenAsked
  <2>5. SameAutocommit' /\ Numbered'
    BY <2>b, <2>d DEF SameAutocommit, Numbered, ConnectionTypes, StatementTypes, DatabaseTypes, ConnectionState, StatementState
  <2>6. RowsReadable'
    BY <2>b, <2>d DEF SameAutocommit, Numbered, RowsReadable, ConnectionTypes, StatementTypes, DatabaseTypes, ConnectionState,
           StatementState, Sessions
  <2> QED  BY ONLY <2>1, <2>2, <2>3, <2>4, <2>5, <2>6 DEF OciInv, OciTypes
<1>10. CASE NextAgain(s)
  <2> USE <1>10 DEF NextAgain
  <2>1. ConnectionTypes'
    BY DEF ConnectionTypes, StatementTypes, DatabaseTypes, ConnectionState, Codes, Sessions, Numbered
  <2>2. StatementTypes'
    BY DEF ConnectionTypes, StatementTypes, ConnectionState, StatementState, Codes, Sessions
  <2>3. DatabaseTypes' /\ (told \subseteq Statements)'
    BY DEF ConnectionTypes, StatementTypes, DatabaseTypes, ConnectionState, StatementState, Codes, Sessions
  <2>4. CommittedWhenAsked'
    BY DEF CommittedWhenAsked
  <2>5. SameAutocommit' /\ Numbered'
    BY DEF SameAutocommit, Numbered, ConnectionTypes, StatementTypes, DatabaseTypes, ConnectionState, StatementState
  <2>6. RowsReadable'
    BY DEF SameAutocommit, Numbered, RowsReadable, ConnectionTypes, StatementTypes, DatabaseTypes, ConnectionState,
           StatementState, Sessions
  <2> QED  BY ONLY <2>1, <2>2, <2>3, <2>4, <2>5, <2>6 DEF OciInv, OciTypes
<1>11. CASE NextOfChange(s)
  <2> USE <1>11 DEF NextOfChange
  <2>c. PICK code \in Codes : stmt' = [stmt EXCEPT ![s].rc = code]
    BY DEF Codes
  <2>d. /\ stmt' \in [Statements -> StatementState]
        /\ \A t \in Statements : /\ stmt'[t].session = stmt[t].session /\ stmt'[t].m_state = stmt[t].m_state
                                 /\ stmt'[t].auto = stmt[t].auto /\ stmt'[t].m_conn = stmt[t].m_conn
                                 /\ stmt'[t].sqltype = stmt[t].sqltype
                                 /\ stmt'[t].rc = IF t = s THEN code ELSE stmt[t].rc
    <3>1. StatementTypes
      OBVIOUS
    <3> QED  BY ONLY <3>1, <2>c, CodeOfStatement, s \in Statements
  <2>1. ConnectionTypes'
    BY DEF ConnectionTypes
  <2>2. StatementTypes'
    BY <2>d DEF StatementTypes
  <2>3. DatabaseTypes' /\ (told \subseteq Statements)'
    BY DEF ConnectionTypes, StatementTypes, DatabaseTypes, ConnectionState, StatementState, Codes, Sessions
  <2>4. CommittedWhenAsked'
    BY DEF CommittedWhenAsked
  <2>5. SameAutocommit' /\ Numbered'
    BY <2>d DEF SameAutocommit, Numbered, ConnectionTypes, StatementTypes, DatabaseTypes, ConnectionState, StatementState
  <2>6. RowsReadable'
    BY <2>d DEF SameAutocommit, Numbered, RowsReadable, ConnectionTypes, StatementTypes, DatabaseTypes, ConnectionState,
           StatementState, Sessions
  <2> QED  BY ONLY <2>1, <2>2, <2>3, <2>4, <2>5, <2>6 DEF OciInv, OciTypes
<1>12. CASE NextRow(s)
  <2> USE <1>12 DEF NextRow
  <2>1. ConnectionTypes'
    BY DEF ConnectionTypes, StatementTypes, DatabaseTypes, ConnectionState, Codes, Sessions, Numbered
  <2>2. StatementTypes'
    BY DEF ConnectionTypes, StatementTypes, ConnectionState, StatementState, Codes, Sessions
  <2>3. DatabaseTypes' /\ (told \subseteq Statements)'
    BY DEF ConnectionTypes, StatementTypes, DatabaseTypes, ConnectionState, StatementState, Codes, Sessions
  <2>4. CommittedWhenAsked'
    BY DEF CommittedWhenAsked
  <2>5. SameAutocommit' /\ Numbered'
    BY DEF SameAutocommit, Numbered, ConnectionTypes, StatementTypes, DatabaseTypes, ConnectionState, StatementState
  <2>6. RowsReadable'
    BY DEF SameAutocommit, Numbered, RowsReadable, ConnectionTypes, StatementTypes, DatabaseTypes, ConnectionState,
           StatementState, Sessions
  <2> QED  BY ONLY <2>1, <2>2, <2>3, <2>4, <2>5, <2>6 DEF OciInv, OciTypes
<1>13. CASE NextNull(s)
  <2> USE <1>13 DEF NextNull
  <2>a. PICK left \in Codes : stmt[s].m_conn \in Connections /\ conn' = [conn EXCEPT ![stmt[s].m_conn].rc = left]
    BY DEF Codes, StatementTypes
  <2>b. /\ ConnectionTypes'
        /\ \A d \in Connections : /\ conn'[d].session = conn[d].session
                                  /\ conn'[d].m_state = conn[d].m_state /\ conn'[d].auto = conn[d].auto
    BY <2>a, CodeOfConnection
  <2>1. ConnectionTypes'
    BY <2>b
  <2>2. StatementTypes'
    BY DEF ConnectionTypes, StatementTypes, ConnectionState, StatementState, Codes, Sessions
  <2>3. DatabaseTypes' /\ (told \subseteq Statements)'
    BY DEF ConnectionTypes, StatementTypes, DatabaseTypes, ConnectionState, StatementState, Codes, Sessions
  <2>4. CommittedWhenAsked'
    BY DEF CommittedWhenAsked
  <2>5. SameAutocommit' /\ Numbered'
    BY <2>b DEF SameAutocommit, Numbered, ConnectionTypes, StatementTypes, DatabaseTypes, ConnectionState, StatementState
  <2>6. RowsReadable'
    BY <2>b DEF SameAutocommit, Numbered, RowsReadable, ConnectionTypes, StatementTypes, DatabaseTypes, ConnectionState,
           StatementState, Sessions
  <2> QED  BY ONLY <2>1, <2>2, <2>3, <2>4, <2>5, <2>6 DEF OciInv, OciTypes
<1>14. CASE NextEnd(s)
  <2> USE <1>14 DEF NextEnd
  <2>a. PICK left \in Codes : stmt[s].m_conn \in Connections /\ conn' = [conn EXCEPT ![stmt[s].m_conn].rc = left]
    BY DEF Codes, StatementTypes
  <2>b. /\ ConnectionTypes'
        /\ \A d \in Connections : /\ conn'[d].session = conn[d].session
                                  /\ conn'[d].m_state = conn[d].m_state /\ conn'[d].auto = conn[d].auto
    BY <2>a, CodeOfConnection
  <2>c. PICK code \in Codes : stmt' = [stmt EXCEPT ![s].rc = code]
    BY DEF Codes
  <2>d. /\ stmt' \in [Statements -> StatementState]
        /\ \A t \in Statements : /\ stmt'[t].session = stmt[t].session /\ stmt'[t].m_state = stmt[t].m_state
                                 /\ stmt'[t].auto = stmt[t].auto /\ stmt'[t].m_conn = stmt[t].m_conn
                                 /\ stmt'[t].sqltype = stmt[t].sqltype
                                 /\ stmt'[t].rc = IF t = s THEN code ELSE stmt[t].rc
    <3>1. StatementTypes
      OBVIOUS
    <3> QED  BY ONLY <3>1, <2>c, CodeOfStatement, s \in Statements
  <2>1. ConnectionTypes'
    BY <2>b
  <2>2. StatementTypes'
    BY <2>d DEF StatementTypes
  <2>3. DatabaseTypes' /\ (told \subseteq Statements)'
    BY DEF ConnectionTypes, StatementTypes, DatabaseTypes, ConnectionState, StatementState, Codes, Sessions
  <2>4. CommittedWhenAsked'
    BY DEF CommittedWhenAsked
  <2>5. SameAutocommit' /\ Numbered'
    BY <2>b, <2>d DEF SameAutocommit, Numbered, ConnectionTypes, StatementTypes, DatabaseTypes, ConnectionState, StatementState
  <2>6. RowsReadable'
    BY <2>b, <2>d DEF SameAutocommit, Numbered, RowsReadable, ConnectionTypes, StatementTypes, DatabaseTypes, ConnectionState,
           StatementState, Sessions
  <2> QED  BY ONLY <2>1, <2>2, <2>3, <2>4, <2>5, <2>6 DEF OciInv, OciTypes
<1>15. CASE NextFails(s)
  <2> USE <1>15 DEF NextFails
  <2>a. PICK left \in Codes : stmt[s].m_conn \in Connections /\ conn' = [conn EXCEPT ![stmt[s].m_conn].rc = left]
    BY DEF Codes, StatementTypes
  <2>b. /\ ConnectionTypes'
        /\ \A d \in Connections : /\ conn'[d].session = conn[d].session
                                  /\ conn'[d].m_state = conn[d].m_state /\ conn'[d].auto = conn[d].auto
    BY <2>a, CodeOfConnection
  <2>c. PICK code \in Codes : stmt' = [stmt EXCEPT ![s].rc = code]
    BY DEF Codes
  <2>d. /\ stmt' \in [Statements -> StatementState]
        /\ \A t \in Statements : /\ stmt'[t].session = stmt[t].session /\ stmt'[t].m_state = stmt[t].m_state
                                 /\ stmt'[t].auto = stmt[t].auto /\ stmt'[t].m_conn = stmt[t].m_conn
                                 /\ stmt'[t].sqltype = stmt[t].sqltype
                                 /\ stmt'[t].rc = IF t = s THEN code ELSE stmt[t].rc
    <3>1. StatementTypes
      OBVIOUS
    <3> QED  BY ONLY <3>1, <2>c, CodeOfStatement, s \in Statements
  <2>1. ConnectionTypes'
    BY <2>b
  <2>2. StatementTypes'
    BY <2>d DEF StatementTypes
  <2>3. DatabaseTypes' /\ (told \subseteq Statements)'
    BY DEF ConnectionTypes, StatementTypes, DatabaseTypes, ConnectionState, StatementState, Codes, Sessions
  <2>4. CommittedWhenAsked'
    BY DEF CommittedWhenAsked
  <2>5. SameAutocommit' /\ Numbered'
    BY <2>b, <2>d DEF SameAutocommit, Numbered, ConnectionTypes, StatementTypes, DatabaseTypes, ConnectionState, StatementState
  <2>6. RowsReadable'
    BY <2>b, <2>d DEF SameAutocommit, Numbered, RowsReadable, ConnectionTypes, StatementTypes, DatabaseTypes, ConnectionState,
           StatementState, Sessions
  <2> QED  BY ONLY <2>1, <2>2, <2>3, <2>4, <2>5, <2>6 DEF OciInv, OciTypes
<1>16. CASE LobCopyFails(s)
  <2> USE <1>16 DEF LobCopyFails
  <2>a. \/ conn' = conn
        \/ \E left \in Codes : stmt[s].m_conn \in Connections /\ conn' = [conn EXCEPT ![stmt[s].m_conn].rc = left]
    BY DEF Codes, StatementTypes
  <2>b. /\ ConnectionTypes'
        /\ \A d \in Connections : /\ conn'[d].session = conn[d].session
                                  /\ conn'[d].m_state = conn[d].m_state /\ conn'[d].auto = conn[d].auto
    BY <2>a, CodeOfConnection DEF ConnectionTypes
  <2>c. PICK code \in Codes : stmt' = [stmt EXCEPT ![s].rc = code]
    BY DEF Codes
  <2>d. /\ stmt' \in [Statements -> StatementState]
        /\ \A t \in Statements : /\ stmt'[t].session = stmt[t].session /\ stmt'[t].m_state = stmt[t].m_state
                                 /\ stmt'[t].auto = stmt[t].auto /\ stmt'[t].m_conn = stmt[t].m_conn
                                 /\ stmt'[t].sqltype = stmt[t].sqltype
                                 /\ stmt'[t].rc = IF t = s THEN code ELSE stmt[t].rc
    <3>1. StatementTypes
      OBVIOUS
    <3> QED  BY ONLY <3>1, <2>c, CodeOfStatement, s \in Statements
  <2>1. ConnectionTypes'
    BY <2>b
  <2>2. StatementTypes'
    BY <2>d DEF StatementTypes
  <2>3. DatabaseTypes' /\ (told \subseteq Statements)'
    BY DEF ConnectionTypes, StatementTypes, DatabaseTypes, ConnectionState, StatementState, Codes, Sessions
  <2>4. CommittedWhenAsked'
    BY DEF CommittedWhenAsked
  <2>5. SameAutocommit' /\ Numbered'
    BY <2>b, <2>d DEF SameAutocommit, Numbered, ConnectionTypes, StatementTypes, DatabaseTypes, ConnectionState, StatementState
  <2>6. RowsReadable'
    BY <2>b, <2>d DEF SameAutocommit, Numbered, RowsReadable, ConnectionTypes, StatementTypes, DatabaseTypes, ConnectionState,
           StatementState, Sessions
  <2> QED  BY ONLY <2>1, <2>2, <2>3, <2>4, <2>5, <2>6 DEF OciInv, OciTypes
<1> QED  BY <1>1, <1>2, <1>3, <1>4, <1>5, <1>6, <1>7, <1>8, <1>9, <1>10, <1>11, <1>12, <1>13, <1>14, <1>15, <1>16
         DEF StatementStep

(* Every step, the loss of a session included, keeps it.                   *)
LEMMA OciKept == OciInv /\ [OciNext]_ociVars => OciInv'
<1> SUFFICES ASSUME OciInv, [OciNext]_ociVars PROVE OciInv'
  OBVIOUS
<1>1. ASSUME NEW n \in Sessions, LoseSession(n) PROVE OciInv'
  BY <1>1, OciAssumption
     DEF LoseSession, OciInv, Connected, HasConnection, CommittedWhenAsked, SameAutocommit, RowsReadable, Numbered,
         OciTypes, ConnectionTypes, StatementTypes, DatabaseTypes, ConnectionState, StatementState, Sessions
<1>2. CASE UNCHANGED ociVars
  BY <1>2 DEF ociVars, OciInv, Connected, HasConnection, CommittedWhenAsked, SameAutocommit, RowsReadable, Numbered,
         OciTypes, ConnectionTypes, StatementTypes, DatabaseTypes
<1> QED  BY <1>1, <1>2, ConnectionKept, StatementKept DEF OciNext

(* Types of the wrapper, and every open connection has a session of its own, *)
(* for any number of connections, statements, sessions and rows            *)
(* (_ooci.cpp:190-440).                                                    *)
THEOREM OciTypesCorrect == OciSpec => []OciTypes
<1>1. OciInv => OciTypes
  BY DEF OciInv
<1> QED  BY <1>1, OciInitially, OciKept, PTL DEF OciSpec

(* A change is committed only when commit() was called after it, or with   *)
(* autocommit, whatever is closed or lost before (_ooci.cpp:242-316).      *)
THEOREM CommittedWhenAskedCorrect == OciSpec => []CommittedWhenAsked
<1>1. OciInv => CommittedWhenAsked
  BY DEF OciInv
<1> QED  BY <1>1, OciInitially, OciKept, PTL DEF OciSpec

(* A statement commits what its connection was opened to commit            *)
(* (_ooci.cpp:194, 406).                                                   *)
THEOREM SameAutocommitCorrect == OciSpec => []SameAutocommit
<1>1. OciInv => SameAutocommit
  BY DEF OciInv
<1> QED  BY <1>1, OciInitially, OciKept, PTL DEF OciSpec

(* Exactly what a program asked for is committed (_ooci.cpp:192-260, 280,  *)
(* 299, 406).                                                              *)
THEOREM CommitsAsAskedCorrect == OciSpec => []CommitsAsAsked
BY CommittedWhenAskedCorrect, SameAutocommitCorrect, PTL DEF CommitsAsAsked

(* next() goes on reading a result exactly until a call made on the        *)
(* statement has told of a failure (_ooci.cpp:697-735, 788-974).           *)
THEOREM RowsReadableCorrect == OciSpec => []RowsReadable
<1>1. OciInv => RowsReadable
  BY DEF OciInv
<1> QED  BY <1>1, OciInitially, OciKept, PTL DEF OciSpec

(* For any connections and statements and any losses of sessions: what the *)
(* handles believe agrees with what the database has (_ooci.cpp).          *)
THEOREM HandlesAgreeCorrect == OciSpec => []HandlesAgree
BY CommitsAsAskedCorrect, RowsReadableCorrect, PTL DEF HandlesAgree

-----------------------------------------------------------------------------
(* The copies of files and LOBs.                                           *)

Copying   == step \in {"open", "readfile", "writelob", "readlob", "writefile"}

(* Each way has its steps, and a result as soon as it returns.             *)
Ways == /\ way = "filetolob"  => step \notin {"readlob", "writefile"}
        /\ way = "lobtofile" => step \notin {"readfile", "writelob"}
        /\ Copying <=> iret = "none"
        /\ step = "open" => done = 0 /\ failed = {}

(* The LOB begins with the bytes that were written; the buffer holds the   *)
(* next ones.                                                              *)
ToLob == way = "filetolob" =>
  /\ Len(target) >= done
  /\ \A i \in 1..Len(target) : target[i] = IF i <= done THEN i ELSE Before
  /\ step \in {"open", "readfile"} => done + remainder = length
  /\ step = "writelob" => /\ done + Len(bufp) + remainder = length
                          /\ \A i \in 1..Len(bufp) : bufp[i] = done + i
  /\ iret = "0" => done = length

(* The file holds the bytes that were read from the LOB, but those in the  *)
(* buffer.                                                                 *)
InBuffer == IF step = "writefile" THEN Len(bufp) ELSE 0
ToFile == way = "lobtofile" =>
  /\ InBuffer <= done
  /\ step = "writefile" => /\ \A i \in 1..Len(bufp) : bufp[i] = done - Len(bufp) + i
                           /\ \/ retval = "OCI_NEED_DATA"
                              \/ retval = "OCI_SUCCESS" /\ done = length
                              \/ retval = "OCI_ERROR" /\ failed # {}
  /\ "write" \notin failed => /\ Len(target) = done - InBuffer
                              /\ \A i \in 1..Len(target) : target[i] = i
  /\ iret # "none" /\ failed = {} => iret = "0" /\ done = length

LobInv == LobTypes /\ Ways /\ ToLob /\ ToFile

(* A piece is not longer than the buffer, nor than what is left.           *)
LEMMA LesserBounds ==
  ASSUME NEW m \in Nat, NEW n \in Nat
  PROVE  /\ Lesser(m, n) \in Nat
         /\ Lesser(m, n) <= m
         /\ Lesser(m, n) <= n
BY DEF Lesser

(* What the sizes say of numbers and sequences.                            *)
LEMMA LobNumbers ==
  ASSUME LobSizes
  PROVE  /\ MaxBytes \in Nat /\ length \in Nat /\ done \in Nat /\ remainder \in Nat
         /\ done <= length /\ remainder <= length /\ length <= MaxBytes
         /\ target \in Seq(0..MaxBytes) /\ Len(target) \in Nat
         /\ bufp \in Seq(1..MaxBytes) /\ Len(bufp) \in Nat /\ Len(bufp) <= LOBMAXBUFLEN
<1>1. MaxBytes \in Nat
  BY LobAssumption
<1>2. /\ length \in 0..MaxBytes /\ done \in 0..length /\ remainder \in 0..length
      /\ target \in Seq(0..MaxBytes) /\ bufp \in Seq(1..MaxBytes) /\ Len(bufp) <= LOBMAXBUFLEN
  BY DEF LobSizes
<1> QED  BY <1>1, <1>2, LenProperties

(* The LOB after a piece was written is a sequence of bytes, as long as    *)
(* the LOB and the piece make it.                                          *)
LEMMA WrittenPiece ==
  ASSUME LobSizes, Len(target) >= done
  PROVE  /\ Written \in Seq(0..MaxBytes)
         /\ Len(Written) >= Len(target)
         /\ Len(Written) >= done + Len(bufp)
         /\ Len(Written) = done + Len(bufp) \/ Len(Written) = Len(target)
         /\ \A i \in 1..Len(Written) :
              Written[i] = IF i \in done + 1..done + Len(bufp) THEN bufp[i - done] ELSE target[i]
<1> DEFINE n == IF done + Len(bufp) > Len(target) THEN done + Len(bufp) ELSE Len(target)
           W(i) == IF i \in done + 1..done + Len(bufp) THEN bufp[i - done] ELSE target[i]
<1>1. /\ done \in Nat /\ target \in Seq(0..MaxBytes) /\ bufp \in Seq(1..MaxBytes)
      /\ Len(target) \in Nat /\ Len(bufp) \in Nat /\ MaxBytes \in Nat
  BY LobNumbers
<1>2. n \in Nat /\ n >= Len(target) /\ n >= done + Len(bufp) /\ (n = done + Len(bufp) \/ n = Len(target))
  BY <1>1
<1>3. ASSUME NEW i \in 1..n PROVE W(i) \in 0..MaxBytes
  <2>1. CASE i \in done + 1..done + Len(bufp)
    <3>1. i - done \in 1..Len(bufp)
      BY <2>1, <1>1
    <3>2. bufp[i - done] \in 1..MaxBytes
      BY <3>1, <1>1, ElementOfSeq
    <3> QED  BY <3>2, <2>1, <1>1
  <2>2. CASE i \notin done + 1..done + Len(bufp)
    <3> HIDE DEF W
    <3>1. i \in Nat /\ i >= 1 /\ i <= n /\ ~(i >= done + 1 /\ i <= done + Len(bufp))
      BY <2>2, <1>1, <1>2
    <3>2. i \in 1..Len(target)
      BY <3>1, <1>1, <1>2
    <3>3. target[i] \in 0..MaxBytes
      BY <3>2, <1>1, ElementOfSeq
    <3> QED  BY <3>3, <2>2 DEF W
  <2> QED  BY <2>1, <2>2
<1>4. Written = [i \in 1..n |-> W(i)]
  BY DEF Written
<1> HIDE DEF n, W
<1>5. Written \in Seq(0..MaxBytes) /\ Len(Written) = n
  BY <1>2, <1>3, <1>4
<1>6. \A i \in 1..Len(Written) : Written[i] = W(i)
  BY <1>4, <1>5
<1> QED  BY <1>2, <1>5, <1>6 DEF W

(* Before the copy.                                                        *)
LEMMA LobInitially == LobInit => LobInv
<1> SUFFICES ASSUME LobInit PROVE LobInv
  OBVIOUS
<1>1. LobStates
  BY DEF LobInit, LobStates
<1>2. MaxBytes \in Nat /\ LOBMAXBUFLEN \in Nat /\ length \in 0..MaxBytes
  BY LobAssumption DEF LobInit
<1>3. done = 0 /\ remainder = length /\ bufp = <<>>
  BY DEF LobInit
<1>4. CASE way = "filetolob" /\ \E n \in 0..MaxBytes : target = [i \in 1..n |-> Before]
  <2> PICK n \in 0..MaxBytes : target = [i \in 1..n |-> Before]
    BY <1>4
  <2>1. target \in Seq(0..MaxBytes) /\ Len(target) = n /\ \A i \in 1..Len(target) : target[i] = 0
    BY <1>2 DEF Before
  <2>2. LobSizes
    BY <1>2, <1>3, <2>1 DEF LobSizes
  <2>3. \A i \in 1..Len(target) : ~ i <= done
    BY <1>3, <2>1
  <2>4. Len(target) >= done /\ done + remainder = length
    BY <1>2, <1>3, <2>1
  <2>5. ToLob
    BY <1>4, <2>1, <2>3, <2>4 DEF LobInit, ToLob, Before
  <2> QED  BY <1>1, <1>4, <2>2, <2>5 DEF LobInit, LobTypes, LobInv, Ways, ToFile, Copying
<1>5. CASE way = "lobtofile" /\ target = <<>>
  <2>1. LobSizes
    BY <1>2, <1>3, <1>5 DEF LobSizes
  <2>2. InBuffer = 0
    BY DEF LobInit, InBuffer
  <2>3. Len(target) = done - InBuffer /\ (\A i \in 1..Len(target) : target[i] = i) /\ InBuffer <= done
    BY <1>3, <1>5, <2>2
  <2> QED  BY <1>1, <1>5, <2>1, <2>3 DEF LobInit, LobTypes, LobInv, Ways, ToLob, ToFile, Copying
<1> QED  BY <1>4, <1>5 DEF LobInit

(* The steps that copy nothing.                                            *)
LEMMA LobRestKept ==
  ASSUME LobInv,
         OpenFails \/ Open \/ ReadFileFails \/ WriteLobFails \/ CloseFile \/ UNCHANGED lobVars
  PROVE  LobInv'
<1> USE DEF StepTo, ReturnWith, Copying
<1>1. UNCHANGED <<way, length, target, done, remainder, bufp>>
  BY DEF OpenFails, Open, ReadFileFails, WriteLobFails, CloseFile, lobVars
<1>2. LobSizes'
  BY <1>1 DEF LobInv, LobTypes, LobSizes
<1>3. LobInv => LobStates /\ Ways /\ ToLob /\ ToFile /\ LobSizes
  BY DEF LobInv, LobTypes
<1>4. LobStates'
  BY <1>1, <1>3 DEF LobStates, OpenFails, Open, ReadFileFails, WriteLobFails, CloseFile, lobVars
<1>5. Ways'
  BY <1>1, <1>3 DEF LobStates, Ways, OpenFails, Open, ReadFileFails, WriteLobFails, CloseFile, lobVars
<1>6. step = "open" /\ length = 0 => done = length
  BY <1>3 DEF Ways
<1>7. ToLob'
  BY <1>1, <1>3, <1>6 DEF LobStates, Ways, ToLob, OpenFails, Open, ReadFileFails, WriteLobFails, CloseFile, lobVars
<1>8. InBuffer' = InBuffer \/ way = "filetolob"
  BY <1>1, <1>3 DEF LobStates, Ways, InBuffer, OpenFails, Open, ReadFileFails, WriteLobFails, CloseFile, lobVars
<1>9. ToFile'
  BY <1>1, <1>3, <1>6, <1>8 DEF LobStates, Ways, ToFile, OpenFails, Open, ReadFileFails, WriteLobFails, CloseFile, lobVars
<1> QED  BY <1>2, <1>4, <1>5, <1>7, <1>9 DEF LobInv, LobTypes

(* A piece is read from the file.                                          *)
LEMMA ReadFileKept ==
  ASSUME LobInv, ReadFile
  PROVE  LobInv'
<1> DEFINE n == Lesser(remainder, LOBMAXBUFLEN)
<1>t. LobStates /\ Ways /\ ToLob /\ ToFile /\ LobSizes
  BY DEF LobInv, LobTypes
<1>n. /\ length \in Nat /\ done \in Nat /\ remainder \in Nat /\ done <= length /\ remainder <= length
      /\ length <= MaxBytes /\ LOBMAXBUFLEN \in Nat /\ MaxBytes \in Nat /\ target \in Seq(0..MaxBytes)
  BY <1>t, LobNumbers, LobAssumption
<1>1. n \in Nat /\ n <= remainder /\ n <= LOBMAXBUFLEN
  BY LesserBounds, <1>n
<1>2. way = "filetolob" /\ iret = "none" /\ done + remainder = length
  BY <1>t DEF ReadFile, Ways, ToLob, LobStates, Copying
<1>3. /\ bufp' = [i \in 1..n |-> length - remainder + i] /\ remainder' = remainder - Len(bufp')
      /\ step' = "writelob" /\ UNCHANGED <<way, length, target, removed, done, retval, iret, failed>>
  BY DEF ReadFile, StepTo
<1> HIDE DEF n
<1>4. \A i \in 1..n : length - remainder + i \in 1..MaxBytes /\ length - remainder + i = done + i
  BY <1>1, <1>2, <1>n
<1>5. /\ bufp' \in Seq(1..MaxBytes) /\ Len(bufp') = n
      /\ \A i \in 1..Len(bufp') : bufp'[i] = done + i
  BY <1>1, <1>3, <1>4
<1>6. remainder' \in 0..length /\ done + Len(bufp') + remainder' = length
  BY <1>1, <1>2, <1>3, <1>5, <1>n
<1>7. LobSizes'
  BY <1>1, <1>3, <1>5, <1>6, <1>t DEF LobSizes
<1>8. LobStates'
  BY <1>3, <1>t DEF LobStates
<1>9. Ways' /\ ToFile'
  BY <1>2, <1>3, <1>t DEF Ways, ToFile, Copying
<1>10. ToLob'
  BY <1>2, <1>3, <1>5, <1>6, <1>t DEF ToLob
<1> QED  BY <1>7, <1>8, <1>9, <1>10 DEF LobInv, LobTypes

(* A piece is written to the LOB.                                          *)
LEMMA WriteLobKept ==
  ASSUME LobInv, WriteLob
  PROVE  LobInv'
<1>t. LobStates /\ Ways /\ ToLob /\ ToFile /\ LobSizes
  BY DEF LobInv, LobTypes
<1>n. /\ length \in Nat /\ done \in Nat /\ remainder \in Nat /\ done <= length /\ remainder <= length
      /\ MaxBytes \in Nat /\ Len(target) \in Nat /\ Len(bufp) \in Nat
  BY <1>t, LobNumbers
<1>1. /\ way = "filetolob" /\ iret = "none" /\ done + Len(bufp) + remainder = length
      /\ \A i \in 1..Len(bufp) : bufp[i] = done + i
      /\ Len(target) >= done
      /\ \A i \in 1..Len(target) : target[i] = IF i <= done THEN i ELSE Before
  BY <1>t DEF WriteLob, Ways, ToLob, LobStates, Copying
<1>2. /\ target' = Written /\ done' = done + Len(bufp)
      /\ UNCHANGED <<way, length, removed, remainder, bufp, failed>>
  BY DEF WriteLob
<1>3. \/ remainder = 0 /\ iret' = "0" /\ step' = "return" /\ retval' = "OCI_SUCCESS"
      \/ remainder # 0 /\ iret' = "none" /\ step' = "readfile" /\ retval' = "OCI_NEED_DATA"
  BY <1>1 DEF WriteLob, PieceKind, StepTo, ReturnWith
<1>4. done' \in 0..length /\ (remainder = 0 => done' = length) /\ done' + remainder' = length
  BY <1>1, <1>2, <1>n
<1>5. LobSizes'
  BY <1>1, <1>2, <1>4, <1>t, WrittenPiece DEF LobSizes
<1>6. LobStates'
  BY <1>2, <1>3, <1>t DEF LobStates
<1>7. Ways' /\ ToFile'
  BY <1>1, <1>2, <1>3, <1>t DEF Ways, ToFile, Copying
<1>8. Len(target') >= done'
  BY <1>1, <1>2, <1>t, WrittenPiece
<1>9. ASSUME NEW i \in 1..Len(target') PROVE target'[i] = IF i <= done' THEN i ELSE Before
  <2>1. target'[i] = IF i \in done + 1..done + Len(bufp) THEN bufp[i - done] ELSE target[i]
    BY <1>1, <1>2, <1>t, WrittenPiece
  <2>2. CASE i \in done + 1..done + Len(bufp)
    <3>1. i - done \in 1..Len(bufp) /\ i \in Nat
      BY <2>2, <1>n
    <3>2. target'[i] = done + (i - done)
      BY <3>1, <2>1, <2>2, <1>1
    <3>3. i <= done'
      BY <3>1, <2>2, <1>2, <1>n
    <3> QED  BY <3>1, <3>2, <3>3, <1>n
  <2>3. CASE i \notin done + 1..done + Len(bufp)
    <3>1. Len(target') = done + Len(bufp) \/ Len(target') = Len(target)
      BY <1>1, <1>2, <1>t, WrittenPiece
    <3>2. Len(target') \in Nat
      BY <3>1, <1>n
    <3>3. i \in 1..Len(target) /\ (i <= done <=> i <= done')
      BY <2>3, <3>1, <3>2, <1>1, <1>2, <1>n
    <3> QED  BY <3>3, <2>1, <2>3, <1>1
  <2> QED  BY <2>2, <2>3
<1>10. ToLob'
  <2>1. ToLob' = (way' = "filetolob" =>
          /\ Len(target') >= done'
          /\ \A i \in 1..Len(target') : target'[i] = IF i <= done' THEN i ELSE Before
          /\ step' \in {"open", "readfile"} => done' + remainder' = length'
          /\ step' = "writelob" => /\ done' + Len(bufp') + remainder' = length'
                                   /\ \A i \in 1..Len(bufp') : bufp'[i] = done' + i
          /\ iret' = "0" => done' = length')
    BY DEF ToLob, Before
  <2> QED  BY <2>1, <1>2, <1>3, <1>4, <1>8, <1>9
<1> QED  BY <1>5, <1>6, <1>7, <1>10 DEF LobInv, LobTypes

(* A piece is read from the LOB, or not.                                   *)
LEMMA ReadLobKept ==
  ASSUME LobInv, ReadLob \/ ReadLobFails
  PROVE  LobInv'
<1>t. LobStates /\ Ways /\ ToLob /\ ToFile /\ LobSizes
  BY DEF LobInv, LobTypes
<1>n. /\ length \in Nat /\ done \in Nat /\ remainder \in Nat /\ done <= length /\ remainder <= length
      /\ length <= MaxBytes /\ LOBMAXBUFLEN \in Nat /\ MaxBytes \in Nat /\ Len(target) \in Nat
  BY <1>t, LobNumbers, LobAssumption
<1>1. way = "lobtofile" /\ iret = "none" /\ step = "readlob"
  BY <1>t DEF ReadLob, ReadLobFails, Ways, LobStates, Copying
<1>2. InBuffer = 0
  BY <1>1 DEF InBuffer
<1>3. "write" \notin failed => Len(target) = done - 0 /\ \A i \in 1..Len(target) : target[i] = i
  BY <1>1, <1>2, <1>t DEF ToFile
<1>4. UNCHANGED <<way, length, target, removed, remainder>>
  BY DEF ReadLob, ReadLobFails
<1>5. CASE ReadLob
  <2> DEFINE n == Lesser(length - done, LOBMAXBUFLEN)
  <2>1. n \in Nat /\ n <= length - done /\ n <= LOBMAXBUFLEN
    <3>1. length - done \in Nat
      BY <1>n
    <3> QED  BY <3>1, <1>n, LesserBounds
  <2>2. /\ bufp' = [i \in 1..n |-> done + i] /\ done' = done + Len(bufp')
        /\ step' = "writefile" /\ UNCHANGED <<iret, failed>>
        /\ retval' = IF done' = length THEN "OCI_SUCCESS" ELSE "OCI_NEED_DATA"
    BY <1>5 DEF ReadLob, StepTo
  <2> HIDE DEF n
  <2>3. \A i \in 1..n : done + i \in 1..MaxBytes
    BY <2>1, <1>n
  <2>4. /\ bufp' \in Seq(1..MaxBytes) /\ Len(bufp') = n
        /\ \A i \in 1..Len(bufp') : bufp'[i] = done + i
    BY <2>1, <2>2, <2>3
  <2>5. done' \in 0..length /\ done' - Len(bufp') = done /\ Len(bufp') <= done'
    BY <2>1, <2>2, <2>4, <1>n
  <2>6. LobSizes'
    BY <2>1, <2>4, <2>5, <1>4, <1>t DEF LobSizes
  <2>7. LobStates'
    BY <2>2, <1>4, <1>t DEF LobStates
  <2>8. Ways' /\ ToLob'
    BY <2>2, <1>1, <1>4, <1>t DEF Ways, ToLob, Copying
  <2>9. InBuffer' = Len(bufp')
    <3>1. step' = "writefile"
      BY <2>2
    <3> QED  BY ONLY <3>1 DEF InBuffer
  <2>10. Len(target') = done - 0 <=> Len(target') = done' - InBuffer'
    <3>1. done' - InBuffer' = done /\ done - 0 = done
      BY <2>5, <2>9, <1>n
    <3> QED  BY <3>1
  <2>11. ToFile'
    BY <2>2, <2>4, <2>5, <2>9, <2>10, <1>1, <1>3, <1>4 DEF ToFile
  <2> QED  BY <2>6, <2>7, <2>8, <2>11 DEF LobInv, LobTypes
<1>6. CASE ReadLobFails
  <2>1. /\ bufp' = <<>> /\ retval' = "OCI_ERROR" /\ failed' = failed \union {"read"} /\ done' = done
        /\ \/ step' = "return" /\ iret' = "error"
           \/ step' = "writefile" /\ iret' = "none"
    BY <1>1, <1>6 DEF ReadLobFails, StepTo, ReturnWith
  <2>2. bufp' \in Seq(1..MaxBytes) /\ Len(bufp') = 0 /\ Len(bufp') <= LOBMAXBUFLEN
    BY <2>1, <1>n
  <2>3. LobSizes'
    BY <2>1, <2>2, <1>4, <1>t DEF LobSizes
  <2>4. LobStates'
    BY <2>1, <1>4, <1>t DEF LobStates
  <2>5. Ways' /\ ToLob'
    BY <2>1, <1>1, <1>4, <1>t DEF Ways, ToLob, Copying
  <2>6. InBuffer' = 0
    BY <2>2 DEF InBuffer
  <2>7. InBuffer' <= done' /\ Len(target') = done - 0 <=> Len(target') = done' - InBuffer'
    BY <2>1, <2>6, <1>4, <1>n
  <2>8. \A i \in 1..Len(bufp') : bufp'[i] = done' - Len(bufp') + i
    BY <2>2
  <2>9. failed' # {} /\ ("write" \notin failed' => "write" \notin failed)
    BY <2>1
  <2>10. InBuffer' <= done'
    BY <2>1, <2>6, <1>n
  <2>11. ToFile'
    BY <2>1, <2>7, <2>8, <2>9, <2>10, <1>3, <1>4 DEF ToFile
  <2> QED  BY <2>3, <2>4, <2>5, <2>11 DEF LobInv, LobTypes
<1> QED  BY <1>5, <1>6

(* A piece is written to the file, all of it or a part.                    *)
LEMMA PieceToFile ==
  ASSUME LobInv, NEW n \in 0..Len(bufp), step = "writefile", target' = target \o SubSeq(bufp, 1, n),
         AfterWrite, (failed' = failed /\ n = Len(bufp)) \/ failed' = failed \union {"write"},
         UNCHANGED <<way, length, removed, done, remainder, bufp, retval>>
  PROVE  LobInv'
<1>t. LobStates /\ Ways /\ ToLob /\ ToFile /\ LobSizes
  BY DEF LobInv, LobTypes
<1>f. ToFile
  BY <1>t
<1>n. /\ length \in Nat /\ done \in Nat /\ remainder \in Nat /\ done <= length /\ remainder <= length
      /\ target \in Seq(0..MaxBytes) /\ bufp \in Seq(1..MaxBytes) /\ MaxBytes \in Nat
      /\ Len(target) \in Nat /\ Len(bufp) \in Nat /\ n \in Nat /\ n <= Len(bufp)
  BY <1>t, LobNumbers
<1>1. way = "lobtofile" /\ iret = "none"
  BY <1>t DEF Ways, LobStates, Copying
<1> DEFINE s == SubSeq(bufp, 1, n)
<1>2. s \in Seq(1..MaxBytes) /\ Len(s) = n /\ \A i \in 1..n : s[i] = bufp[i]
  BY <1>n, SubSeqProperties
<1>3. s \in Seq(0..MaxBytes)
  BY <1>2, <1>n, SeqMonotonic
<1> HIDE DEF s
<1>4. /\ target' \in Seq(0..MaxBytes) /\ Len(target') = Len(target) + n
      /\ \A i \in 1..Len(target') :
           target'[i] = IF i <= Len(target) THEN target[i] ELSE s[i - Len(target)]
  <2>1. target' = target \o s
    BY DEF s
  <2>2. target \o s \in Seq(0..MaxBytes) /\ Len(target \o s) = Len(target) + n
    BY <1>2, <1>3, <1>n, ConcatProperties
  <2>3. ASSUME NEW i \in 1..Len(target) + n
        PROVE  (target \o s)[i] = IF i <= Len(target) THEN target[i] ELSE s[i - Len(target)]
    BY <1>2, <1>3, <1>n, ConcatProperties
  <2> QED  BY <2>1, <2>2, <2>3
<1>5. \/ retval = "OCI_NEED_DATA" /\ step' = "readlob" /\ iret' = "none"
      \/ retval # "OCI_NEED_DATA" /\ step' = "return" /\ iret' = "0"
  BY <1>1 DEF AfterWrite, Again, StepTo, ReturnWith
<1>6. LobSizes'
  BY <1>4, <1>t DEF LobSizes
<1>7. LobStates'
  BY <1>5, <1>t DEF LobStates
<1>8. Ways' /\ ToLob'
  BY <1>1, <1>5, <1>t DEF Ways, ToLob, Copying
<1>9. InBuffer' = 0 /\ InBuffer = Len(bufp)
  BY <1>5 DEF InBuffer
<1>10. InBuffer' <= done'
  BY <1>9, <1>n
<1>11. ASSUME "write" \notin failed'
       PROVE  Len(target') = done' - InBuffer' /\ \A i \in 1..Len(target') : target'[i] = i
  <2>1. n = Len(bufp) /\ "write" \notin failed
    BY <1>11
  <2>2. /\ Len(target) = done - Len(bufp) /\ \A i \in 1..Len(target) : target[i] = i
        /\ \A i \in 1..Len(bufp) : bufp[i] = done - Len(bufp) + i
    BY <2>1, <1>1, <1>9, <1>t DEF ToFile
  <2>3. Len(target') = done' - InBuffer'
    BY <2>1, <2>2, <1>4, <1>9, <1>n
  <2>4. ASSUME NEW i \in 1..Len(target') PROVE target'[i] = i
    <3>1. CASE i <= Len(target)
      <4>1. i \in 1..Len(target)
        BY <3>1, <1>n
      <4> QED  BY <4>1, <3>1, <2>2, <1>4
    <3>2. CASE i > Len(target)
      <4>1. i \in Nat /\ i - Len(target) \in 1..n /\ ~ i <= Len(target)
        BY <3>2, <1>4, <1>n
      <4>2. target'[i] = bufp[i - Len(target)]
        BY <4>1, <1>2, <1>4
      <4>3. target'[i] = done - Len(bufp) + (i - Len(target))
        BY <4>1, <4>2, <2>1, <2>2
      <4> QED  BY <4>1, <4>3, <2>2, <1>n
    <3> QED
      <4>1. i \in Nat /\ Len(target) \in Nat
        BY <1>n
      <4> QED  BY <4>1, <3>1, <3>2
  <2> QED  BY <2>3, <2>4
<1>12. iret' # "none" /\ failed' = {} => iret' = "0" /\ done' = length'
  <2>1. retval # "OCI_NEED_DATA" /\ failed = {} => done = length
    <3>1. \/ retval = "OCI_NEED_DATA"
          \/ retval = "OCI_SUCCESS" /\ done = length
          \/ retval = "OCI_ERROR" /\ failed # {}
      BY ONLY <1>1, <1>f, step = "writefile" DEF ToFile
    <3> QED  BY ONLY <3>1
  <2>2. done' = done /\ length' = length /\ (failed' = {} => failed = {})
    OBVIOUS
  <2> QED  BY <2>1, <2>2, <1>5
<1>13. step' # "writefile" /\ way' = way
  BY <1>5
<1>14. ToFile'
  BY <1>10, <1>11, <1>12, <1>13 DEF ToFile
<1> QED  BY <1>6, <1>7, <1>8, <1>14 DEF LobInv, LobTypes

(* A piece is written to the file (_ooci.cpp:950, 954, 966).               *)
LEMMA WriteFileKept ==
  ASSUME LobInv, WriteFile \/ WriteFileFails
  PROVE  LobInv'
<1>1. bufp \in Seq(1..MaxBytes) /\ Len(bufp) \in Nat
  BY LobNumbers DEF LobInv, LobTypes
<1>2. CASE WriteFile
  <2>1. SubSeq(bufp, 1, Len(bufp)) = bufp /\ Len(bufp) \in 0..Len(bufp)
    BY <1>1, SubSeqFull
  <2> QED  BY <2>1, <1>2, PieceToFile DEF WriteFile
<1>3. CASE WriteFileFails
  <2>1. PICK n \in 0..Len(bufp) - 1 : target' = target \o SubSeq(bufp, 1, n)
    BY <1>3 DEF WriteFileFails
  <2>2. n \in 0..Len(bufp)
    BY <1>1
  <2> QED  BY <2>1, <2>2, <1>3, PieceToFile DEF WriteFileFails
<1> QED  BY <1>2, <1>3

(* Every step of a copy keeps the invariant.                               *)
LEMMA LobKept == LobInv /\ [LobNext]_lobVars => LobInv'
BY LobRestKept, ReadFileKept, WriteLobKept, ReadLobKept, WriteFileKept DEF LobNext

(* The invariant holds in every state.                                     *)
LEMMA LobAlways == LobSpec => []LobInv
<1> QED  BY LobInitially, LobKept, PTL DEF LobSpec

(* Types of a copy, and no piece is longer than the buffer or than what is *)
(* left, for any LOBMAXBUFLEN and any length (_ooci.cpp:776-980).          *)
THEOREM LobTypesCorrect == LobSpec => []LobTypes
<1>1. LobInv => LobTypes
  BY DEF LobInv
<1> QED  BY LobAlways, <1>1, PTL

(* A file that was copied into a LOB with success is in it byte by byte, for *)
(* any number of pieces (_ooci.cpp:801-902).                               *)
THEOREM LobHoldsFileCorrect == LobSpec => []LobHoldsFile
<1>1. LobInv => LobHoldsFile
  <2> SUFFICES ASSUME LobInv, way = "filetolob", iret = "0"
               PROVE  /\ Len(target) >= length
                      /\ \A i \in 1..Len(target) : target[i] = IF i <= length THEN i ELSE Before
    BY DEF LobHoldsFile
  <2> QED  BY DEF LobInv, ToLob
<1> QED  BY LobAlways, <1>1, PTL

(* A file made from a LOB holds its bytes in order, all of them when nothing *)
(* failed, for any number of pieces (_ooci.cpp:926-980).                   *)
THEOREM FileHoldsLobCorrect == LobSpec => []FileHoldsLob
<1>1. LobInv => FileHoldsLob
  <2> SUFFICES ASSUME LobInv, way = "lobtofile"
               PROVE  /\ "write" \notin failed => \A i \in 1..Len(target) : target[i] = i
                      /\ iret # "none" /\ failed = {} => iret = "0" /\ target = Source
    BY DEF FileHoldsLob
  <2>1. "write" \notin failed => \A i \in 1..Len(target) : target[i] = i
    BY DEF LobInv, ToFile
  <2>2. ASSUME iret # "none", failed = {} PROVE iret = "0" /\ target = Source
    <3>1. iret = "0" /\ done = length /\ step # "writefile"
      BY <2>2 DEF LobInv, LobTypes, LobStates, ToFile, Ways, Copying
    <3>2. Len(target) = length /\ \A i \in 1..Len(target) : target[i] = i
      <4>1. InBuffer = 0 /\ done \in Nat
        BY <3>1, LobNumbers DEF LobInv, LobTypes, InBuffer
      <4>2. "write" \notin failed
        BY <2>2
      <4>3. Len(target) = done - InBuffer /\ \A i \in 1..Len(target) : target[i] = i
        BY <4>2 DEF LobInv, ToFile
      <4> QED  BY <4>1, <4>3, <3>1
    <3>3. target \in Seq(0..MaxBytes)
      BY DEF LobInv, LobTypes, LobSizes
    <3>4. target = [i \in 1..Len(target) |-> target[i]]
      BY <3>3
    <3> QED  BY <3>1, <3>2, <3>4 DEF Source
  <2> QED  BY <2>1, <2>2
<1> QED  BY LobAlways, <1>1, PTL

(* A copy of a LOB is exact in both directions (_ooci.cpp:801-980).        *)
THEOREM CopyIsExactCorrect == LobSpec => []CopyIsExact
BY LobHoldsFileCorrect, FileHoldsLobCorrect, PTL DEF CopyIsExact

=============================================================================
