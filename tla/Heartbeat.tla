----------------------------- MODULE Heartbeat ------------------------------
(***************************************************************************)
(* The supervision of the background programs: each is kept running by a   *)
(* procctl (调度程序.cpp), enters its process number in the shared memory  *)
(* with cpactive (_public.cpp:1630-1728) and renews the time there;        *)
(* checkproc (守护进程.cpp) looks at the slots and ends the processes      *)
(* whose time is old.  A process takes a semaphore while it looks for an   *)
(* empty slot; checkproc, and a process that leaves, do not.               *)
(*                                                                         *)
(* Time is reduced to whether a record is late.  The kernel uses a process *)
(* number again, but not one that checkproc is looking at in these seconds.*)
(***************************************************************************)
EXTENDS Naturals

CONSTANTS Programs,   \* the programs, each with its procctl
          Pids,       \* the process numbers
          Slots,      \* 0..MAXNUMP-1
          None,
          MaxFaults   \* bound: crashes, hang-ups and numbers of the dead used again

ASSUME HeartbeatAssumption == /\ Slots \subseteq Nat /\ 0 \in Slots
                              /\ None \notin Pids \cup Slots \cup Programs
                              /\ {"none", "zero", "free"} \cap Programs = {}
                              /\ MaxFaults \in Nat

VARIABLES
  shm,      \* the slots: the pid, None if 0, and whether atime is too old
  sem,      \* "none", "zero" before SETVAL, "free", or the program that holds it
  proc,     \* the process of each program: where it is, its pid and m_pos
  hung,     \* those that no longer renew their time
  check,    \* checkproc: where it is, its ii, the pid of its copy
  seen,     \* the pid that its kill(pid,0) was about
  raced,    \* a slot was written while checkproc was dealing with it
  wronged,  \* it has signalled a process that was not to be ended
  faults

vars == <<shm, sem, proc, hung, check, seen, raced, wronged, faults>>

Free == [pid |-> None, late |-> FALSE]
Out  == [at |-> "down", pid |-> None, pos |-> None]

Init == /\ shm = [s \in Slots |-> Free]
        /\ sem = "none"
        /\ proc = [a \in Programs |-> Out]
        /\ hung = {} /\ faults = 0
        /\ check = [at |-> "down", ii |-> 0, pid |-> None]
        /\ seen = None /\ raced = FALSE /\ wronged = FALSE

Alive == {proc[a].pid : a \in Programs} \ {None}
Move(a, at) == proc' = [proc EXCEPT ![a].at = at]

-----------------------------------------------------------------------------
(* A program and its procctl.                                              *)

\* The numbers in the records of dead processes.
Stale == {shm[s].pid : s \in Slots} \ (Alive \cup {None})

Fork(a, numbers) == /\ proc[a].at = "down"
                    /\ \E p \in numbers \ (Alive \cup {seen, check.pid}) :
                         proc' = [proc EXCEPT ![a] = [at |-> "find", pid |-> p, pos |-> None]]
                    /\ UNCHANGED <<shm, sem, hung>>

Start(a) == Fork(a, Pids \ Stale) /\ UNCHANGED <<check, seen, raced, wronged, faults>>

\* addpinfo() looks for a record that a dead process of this number left.
FindOwn(a) ==
  /\ proc[a].at = "find"
  /\ LET own == {s \in Slots : shm[s].pid = proc[a].pid} IN
     \/ own = {} /\ proc' = [proc EXCEPT ![a].at = "init"]
     \/ \E s \in own : /\ \A r \in own : s <= r
                       /\ proc' = [proc EXCEPT ![a].at = "init", ![a].pos = s]
  /\ UNCHANGED <<shm, sem, hung, check, seen, raced, wronged, faults>>

\* csemp::init(): one process creates the semaphore, whose value is then 0.
InitSem(a) ==
  /\ \/ /\ proc[a].at = "init" /\ sem = "none"
        /\ sem' = "zero" /\ Move(a, "setval")
     \/ /\ proc[a].at = "init" /\ sem # "none"
        /\ Move(a, "wait") /\ UNCHANGED sem
     \/ /\ proc[a].at = "setval"
        /\ sem' = "free" /\ Move(a, "wait")
  /\ UNCHANGED <<shm, hung, check, seen, raced, wronged, faults>>

EnterAnyway(a) ==
  /\ proc[a].at = "wait" /\ sem # "zero"
  /\ sem' = a /\ Move(a, "choose")
  /\ UNCHANGED <<shm, hung, check, seen, raced, wronged, faults>>

Enter(a) ==
  /\ proc[a].at = "wait" /\ sem = "free"
  /\ sem' = a /\ Move(a, "choose")
  /\ UNCHANGED <<shm, hung, check, seen, raced, wronged, faults>>

\* The first empty slot, unless it has one; a full memory is not fatal.
Choose(a) ==
  /\ proc[a].at = "choose"
  /\ LET empty == {s \in Slots : shm[s].pid = None} IN
     \/ /\ proc[a].pos # None
        /\ Move(a, "write") /\ UNCHANGED sem
     \/ /\ proc[a].pos = None
        /\ \E s \in empty : /\ \A r \in empty : s <= r
                            /\ proc' = [proc EXCEPT ![a].at = "write", ![a].pos = s]
        /\ UNCHANGED sem
     \/ /\ proc[a].pos = None /\ empty = {}
        /\ sem' = "free" /\ Move(a, "run")
  /\ UNCHANGED <<shm, hung, check, seen, raced, wronged, faults>>

Write(a) ==
  /\ proc[a].at = "write"
  /\ shm' = [shm EXCEPT ![proc[a].pos] = [pid |-> proc[a].pid, late |-> FALSE]]
  /\ sem' = "free" /\ Move(a, "run")
  /\ raced' = (raced \/ (proc[a].pos = check.ii /\ check.at \notin {"down", "look"}))
  /\ UNCHANGED <<hung, check, seen, wronged, faults>>

\* The record of a process that does not call uptatime() in time gets old.
\* Its atime is renewed in its slot, whatever the slot holds by then.
Old(s) == LET renewed == \E a \in Programs \ hung : proc[a].at = "run" /\ proc[a].pos = s IN
          /\ shm[s].pid # None /\ shm[s].late = renewed
          /\ shm' = [shm EXCEPT ![s].late = ~renewed]
          /\ UNCHANGED <<sem, proc, hung, check, seen, raced, wronged, faults>>

\* A process ends: its destructor clears its slot, unless it was killed.
Gone(a, clears) ==
  /\ proc' = [proc EXCEPT ![a] = Out]
  /\ hung' = hung \ {a}
  /\ shm' = IF clears /\ proc[a].pos # None THEN [shm EXCEPT ![proc[a].pos] = Free] ELSE shm
  /\ sem' = IF sem = a THEN "free" ELSE sem      \* SEM_UNDO

Finish(a) == /\ proc[a].at = "run" /\ a \notin hung
             /\ Gone(a, TRUE)
             /\ UNCHANGED <<check, seen, raced, wronged, faults>>

Fault == /\ faults < MaxFaults /\ faults' = faults + 1
         /\ \E a \in Programs \ hung :
              \/ Fork(a, Stale)
              \/ proc[a].at # "down" /\ Gone(a, FALSE)
              \/ proc[a].at = "run" /\ hung' = hung \cup {a} /\ UNCHANGED <<shm, sem, proc>>
         /\ UNCHANGED <<check, seen, raced, wronged>>

-----------------------------------------------------------------------------
(* checkproc, run again and again by its procctl.                          *)

CheckAt(at) == check' = [check EXCEPT !.at = at]
NextSlot == /\ check' = IF check.ii + 1 \in Slots THEN [at |-> "look", ii |-> check.ii + 1, pid |-> None]
                        ELSE [at |-> "down", ii |-> 0, pid |-> None]
            /\ seen' = None

CheckStarts == /\ check.at = "down" /\ CheckAt("look")
               /\ UNCHANGED <<shm, sem, proc, hung, seen, raced, wronged, faults>>

\* Whether there is a process, 58; an empty slot is passed over.
Look == /\ check.at = "look"
        /\ LET p == shm[check.ii].pid IN
           IF p = None THEN NextSlot
           ELSE CheckAt(IF p \in Alive THEN "late" ELSE "erase") /\ seen' = p
        /\ UNCHANGED <<shm, sem, proc, hung, raced, wronged, faults>>

\* The whole record again, 71, and once more into a copy, 74.
LateUnread == /\ check.at = "late"
              /\ CheckAt("copy")
              /\ UNCHANGED <<shm, sem, proc, hung, seen, raced, wronged, faults>>

Late == /\ check.at = "late"
        /\ IF shm[check.ii].late THEN CheckAt("copy") /\ UNCHANGED seen ELSE NextSlot
        /\ UNCHANGED <<shm, sem, proc, hung, raced, wronged, faults>>

Copy == /\ check.at = "copy"
        /\ IF shm[check.ii].pid = None THEN NextSlot
           ELSE check' = [check EXCEPT !.at = "term", !.pid = shm[check.ii].pid] /\ UNCHANGED seen
        /\ UNCHANGED <<shm, sem, proc, hung, raced, wronged, faults>>

\* A signal to the process that has the number now.  It is wrong if that one
\* has entered itself and is not hung.
Target == {a \in Programs : proc[a].pid = check.pid}
Wrong  == \E a \in Target : proc[a].at = "run" /\ a \notin hung

\* Signal 15: the process leaves, or is too hung to do so.
Term == /\ check.at = "term"
        /\ CheckAt("sleep")
        /\ wronged' = (wronged \/ Wrong)
        /\ \/ /\ \A a \in Target : a \in hung
              /\ UNCHANGED <<shm, sem, proc, hung>>
           \/ \E a \in Target : Gone(a, TRUE)
        /\ UNCHANGED <<seen, raced, faults>>

\* Five seconds later; a process that was slow to leave may do so until then.
Slow(a) == /\ a \in hung /\ check.at \in {"sleep", "kill", "wipe"} /\ a \in Target
           /\ Gone(a, TRUE)
           /\ UNCHANGED <<check, seen, raced, wronged, faults>>

Wait == /\ check.at = "sleep"
        /\ IF check.pid \in Alive THEN CheckAt("kill") /\ UNCHANGED seen ELSE NextSlot
        /\ UNCHANGED <<shm, sem, proc, hung, raced, wronged, faults>>

Kill == /\ check.at = "kill"
        /\ CheckAt("wipe")
        /\ wronged' = (wronged \/ Wrong)
        /\ \/ Target = {} /\ UNCHANGED <<shm, sem, proc, hung>>
           \/ \E a \in Target : Gone(a, FALSE)
        /\ UNCHANGED <<seen, raced, faults>>

\* memset() of the slot by its index, 62 and 100.
EraseNot == /\ check.at \in {"erase", "wipe"}
            /\ NextSlot
            /\ UNCHANGED <<shm, sem, proc, hung, raced, wronged, faults>>

Erase == /\ check.at \in {"erase", "wipe"}
         /\ shm' = [shm EXCEPT ![check.ii] = Free]
         /\ NextSlot
         /\ UNCHANGED <<sem, proc, hung, raced, wronged, faults>>

Program(a) == Start(a) \/ FindOwn(a) \/ InitSem(a) \/ Enter(a) \/ Choose(a) \/ Write(a)
Check == CheckStarts \/ Look \/ Late \/ Copy \/ Term \/ Wait \/ Kill \/ Erase

Next == \/ \E a \in Programs : Program(a) \/ Finish(a) \/ Slow(a)
        \/ \E s \in Slots : Old(s)
        \/ Check \/ Fault

Spec == Init /\ [][Next]_vars

\* The scheduler runs programs and checkproc; time passes.  Nothing makes a
\* program that runs finish.
Fairness == /\ WF_vars(Check)
            /\ \A a \in Programs : WF_vars(Program(a))
            /\ \A s \in Slots : WF_vars(Old(s))

FairSpec == Spec /\ Fairness

-----------------------------------------------------------------------------
(* Properties.                                                             *)

\* The types of the state; a process holds the semaphore while it writes.
TypeOK ==
  /\ shm \in [Slots -> [pid : Pids \cup {None}, late : BOOLEAN]]
  /\ proc \in [Programs -> [at : {"down", "find", "init", "setval", "wait", "choose", "write", "run"},
                            pid : Pids \cup {None}, pos : Slots \cup {None}]]
  /\ \A a \in Programs : proc[a].at \in {"choose", "write"} <=> sem = a
  /\ \A a, b \in Programs : a # b => proc[a].pid = None \/ proc[a].pid # proc[b].pid
  /\ check \in [at : {"down", "look", "late", "copy", "term", "sleep", "kill", "wipe", "erase"},
                ii : Slots, pid : Pids \cup {None}]
  /\ hung \subseteq Programs /\ raced \in BOOLEAN /\ faults \in 0..MaxFaults

\* Processes that register at the same time, and records left by the dead,
\* never make two live processes share a slot (_public.cpp:1668-1704); only one
\* that is written while checkproc deals with it can be erased by its index.
SlotsOwned ==
  ~raced => \A a \in Programs :
              proc[a].at = "run" /\ proc[a].pos # None => shm[proc[a].pos].pid = proc[a].pid

\* checkproc ends no registered process that renews its time, whichever numbers
\* the dead have left in the slots, if the slot it deals with was not written
\* between its reads (守护进程.cpp:58-96).
OnlyLateAreKilled == ~raced => ~wronged

\* Whatever dies or hangs, the memory comes to hold only records of processes
\* that run and renew their time; unless checkproc's memset() met a new record:
\* then two processes may share a slot, and the time that one renews hides that
\* the other hangs.
Reclaimed == []<>(raced \/ \A s \in Slots : shm[s].pid # None =>
                     \E a \in Programs \ hung : proc[a].at = "run" /\ proc[a].pid = shm[s].pid)
=============================================================================
