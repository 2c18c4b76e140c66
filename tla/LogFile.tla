------------------------------- MODULE LogFile -------------------------------
(***************************************************************************)
(* The log file of a program with several threads: clogfile, with its spin *)
(* lock (public/_public.h, _public.cpp).  write() tests the stream and the *)
(* size of the file without the lock, renames a file that is too large     *)
(* under the lock, and takes the lock again to write its line, which goes  *)
(* to the file in two pieces, the time and the text (an unbuffered stream, *)
(* as every program of the repository opens it).                           *)
(*                                                                         *)
(* SIGINT and SIGTERM run EXIT() on any thread, at any point of it, and    *)
(* EXIT() writes a line of its own before it ends the program.             *)
(*                                                                         *)
(* The tests without the lock race with close() and open(); they are taken *)
(* to see the stream as it is at that moment.                              *)
(***************************************************************************)
EXTENDS Naturals, Sequences

CONSTANTS Threads,
          EXIT,         \* the handler of SIGINT and SIGTERM
          LinesEach,    \* bound: the lines a thread writes
          LastSecond,   \* bound: the clock
          MaxSize,      \* m_maxsize, in pieces
          NoOne

ASSUME LogAssumption == /\ LinesEach \in Nat
                        /\ LastSecond \in Nat
                        /\ MaxSize \in Nat
                        /\ NoOne \notin Threads
                        /\ EXIT \notin Threads \union {NoOne}

VARIABLES
  fout,        \* the stream, "open" or "closed"
  m_splock,    \* the thread that holds the lock, or NoOne
  log,         \* the pieces in the file m_filename, none when there is no file
  bak,         \* the pieces in the file m_filename.<second>, likewise
  now,         \* the clock, in seconds
  at,          \* where each thread is in write()
  line,        \* the number of the line each thread writes, or wrote last
  written,     \* the lines for which write() returned true
  rotations,   \* how often the file was renamed in each second
  interrupted  \* the thread that EXIT() runs on, or NoOne

files   == <<log, bak>>
history == <<written, rotations>>
logVars == <<fout, m_splock, files, now, at, line, history, interrupted>>

Writers == Threads \union {EXIT}

Seconds == 0..LastSecond
Piece(t, part) == <<t, line[t], part>>

-----------------------------------------------------------------------------

(* open() has made the file; no thread writes yet.                         *)
LogInit == /\ fout = "open"
           /\ m_splock = NoOne
           /\ log = <<>>
           /\ bak = [s \in Seconds |-> <<>>]
           /\ now = 0
           /\ at = [t \in Writers |-> "idle"]
           /\ line = [t \in Writers |-> 0]
           /\ written = {}
           /\ rotations = [s \in Seconds |-> 0]
           /\ interrupted = NoOne

IsOpen == fout = "open"
Exited == at[EXIT] = "exited"

Goto(t, l) == at' = [at EXCEPT ![t] = l]

(* lock() spins on test_and_set(); unlock() clears the flag.               *)
Lock(t) == m_splock = NoOne /\ m_splock' = t
Unlock  == m_splock' = NoOne

(* write() leaves at once when the stream is closed, with the line lost to *)
(* its caller, who is told.                                                *)
WriteLine(t) == /\ at[t] = "idle" /\ line[t] < (IF t = EXIT THEN 1 ELSE LinesEach)
                /\ line' = [line EXCEPT ![t] = @ + 1]
                /\ IF IsOpen THEN Goto(t, "backup") ELSE UNCHANGED at
                /\ UNCHANGED <<fout, m_splock, files, now, history, interrupted>>

(* backup(), whose result write() does not look at.                        *)
TestOpen(t) == /\ at[t] = "backup"
               /\ Goto(t, IF IsOpen THEN "size" ELSE "lock")
               /\ UNCHANGED <<fout, m_splock, files, now, line, history, interrupted>>

(* tellp() of a closed stream is -1.                                       *)
TooLarge == IsOpen /\ Len(log) > MaxSize

TestSize(t) == /\ at[t] = "size"
               /\ Goto(t, IF TooLarge THEN "lock to rotate" ELSE "lock")
               /\ UNCHANGED <<fout, m_splock, files, now, line, history, interrupted>>

LockToRotate(t) == /\ at[t] = "lock to rotate"
                   /\ Lock(t)
                   /\ Goto(t, "close")
                   /\ UNCHANGED <<fout, files, now, line, history, interrupted>>

Close(t) == /\ at[t] = "close"
            /\ fout' = "closed"
            /\ Goto(t, "rename")
            /\ UNCHANGED <<m_splock, files, now, line, history, interrupted>>

\* Mutation, for the checks of the properties.
BakNameFixed == 0

(* The name of the backup ends with the second.                            *)
BakName == now

(* rename() replaces a file of the new name.                               *)
Rename(t) == /\ at[t] = "rename"
             /\ bak' = [bak EXCEPT ![BakName] = log]
             /\ log' = <<>>
             /\ rotations' = [rotations EXCEPT ![now] = @ + 1]
             /\ Goto(t, "open")
             /\ UNCHANGED <<fout, m_splock, now, line, written, interrupted>>

Reopen(t) == /\ at[t] = "open"
             /\ fout' = "open"
             /\ Goto(t, "rotated")
             /\ UNCHANGED <<m_splock, files, now, line, history, interrupted>>

\* Mutation, for the checks of the properties.
UnlockRotatedNot(t) == /\ at[t] = "rotated"
                       /\ Goto(t, "lock")
                       /\ UNCHANGED <<fout, m_splock, files, now, line, history, interrupted>>

UnlockRotated(t) == /\ at[t] = "rotated"
                    /\ Unlock
                    /\ Goto(t, "lock")
                    /\ UNCHANGED <<fout, files, now, line, history, interrupted>>

LockToWrite(t) == /\ at[t] = "lock"
                  /\ Lock(t)
                  /\ Goto(t, "time")
                  /\ UNCHANGED <<fout, files, now, line, history, interrupted>>

Put(t, part) == log' = Append(log, Piece(t, part))

PutTime(t) == /\ at[t] = "time"
              /\ Put(t, "time")
              /\ Goto(t, "text")
              /\ UNCHANGED <<fout, m_splock, bak, now, line, history, interrupted>>

PutText(t) == /\ at[t] = "text"
              /\ Put(t, "text")
              /\ Goto(t, "written")
              /\ UNCHANGED <<fout, m_splock, bak, now, line, history, interrupted>>

(* unlock(), and good() of the stream: the line is written.                *)
Return(t) == /\ at[t] = "written"
             /\ Unlock
             /\ written' = written \union {<<t, line[t]>>}
             /\ Goto(t, "idle")
             /\ UNCHANGED <<fout, files, now, line, rotations, interrupted>>

Tick == /\ now < LastSecond
        /\ now' = now + 1
        /\ UNCHANGED <<fout, m_splock, files, at, line, history, interrupted>>

(* EXIT() runs on a thread, which waits for it; its log is written before  *)
(* exit().                                                                 *)
Signal(t) == /\ interrupted = NoOne /\ ~Exited
             /\ interrupted' = t
             /\ UNCHANGED <<fout, m_splock, files, now, at, line, history>>

Exit == /\ interrupted # NoOne /\ line[EXIT] = 1 /\ at[EXIT] = "idle"
        /\ Goto(EXIT, "exited")
        /\ UNCHANGED <<fout, m_splock, files, now, line, history, interrupted>>

Runs(t) == /\ ~Exited
           /\ interrupted # IF t = EXIT THEN NoOne ELSE t

Rotate(t) == LockToRotate(t) \/ Close(t) \/ Rename(t) \/ Reopen(t) \/ UnlockRotated(t)

LogStep(t) == /\ Runs(t)
              /\ \/ WriteLine(t) \/ TestOpen(t) \/ TestSize(t)
                 \/ Rotate(t)
                 \/ LockToWrite(t) \/ PutTime(t) \/ PutText(t) \/ Return(t)

LogNext == \/ \E t \in Writers : LogStep(t)
           \/ \E t \in Threads : Signal(t)
           \/ Exit
           \/ Tick

(* A thread that is not blocked runs; the lock is not fair.                *)
LogFairness == WF_logVars(Exit) /\ \A t \in Writers : WF_logVars(LogStep(t))

LogSpec == LogInit /\ [][LogNext]_logVars /\ LogFairness

-----------------------------------------------------------------------------

AllPieces == Writers \X Nat \X {"time", "text"}

LogTypes == /\ fout \in {"open", "closed"}
            /\ m_splock \in Writers \union {NoOne}
            /\ log \in Seq(AllPieces)
            /\ bak \in [Seconds -> Seq(AllPieces)]
            /\ now \in Seconds
            /\ at \in [Writers -> {"idle", "backup", "size", "lock to rotate", "close", "rename",
                                   "open", "rotated", "lock", "time", "text", "written", "exited"}]
            /\ line \in [Writers -> Nat]
            /\ written \subseteq Writers \X Nat
            /\ rotations \in [Seconds -> Nat]
            /\ interrupted \in Threads \union {NoOne}

(* Every piece of a file has the other piece of its line beside it.        *)
Complete(f) == \A i \in 1..Len(f) :
                 IF f[i][3] = "text"
                 THEN i > 1 /\ f[i - 1] = <<f[i][1], f[i][2], "time">>
                 ELSE i < Len(f) /\ f[i + 1] = <<f[i][1], f[i][2], "text">>

(* The two pieces of a line are one after the other in one file, whatever  *)
(* the other threads write and whenever the file is renamed; only the line *)
(* that is being written may lack its text (_public.h:494-496).            *)
WholeLines == /\ \A s \in Seconds : Complete(bak[s])
              /\ \/ Complete(log)
                 \/ \E t \in Writers : at[t] = "text" /\ Complete(Append(log, Piece(t, "text")))

Files == {log} \union {bak[s] : s \in Seconds}
Holds(f, t, n) == \E i \in 1..Len(f) : f[i] = <<t, n, "text">>
Lost == {w \in written : \A f \in Files : ~Holds(f, w[1], w[2])}

(* A line that was written is lost only where two threads found the file   *)
(* too large, and the second renamed the new, small file over the backup   *)
(* of the first within the same second (_public.cpp:805 tests without the  *)
(* lock, 812 makes the name).                                              *)
LossIsSameSecond == Lost # {} => \E s \in Seconds : rotations[s] > 1

(* What write() accepted stays whole, and is lost in that one way only.    *)
LinesKept == WholeLines /\ LossIsSameSecond

(* Every call of write() returns, with one exception: EXIT() runs on the   *)
(* thread that holds the lock.                                             *)
SelfDeadlock == /\ interrupted # NoOne /\ m_splock = interrupted
                /\ at[EXIT] \in {"lock to rotate", "lock"}
WritesReturn == \A t \in Writers :
                  at[t] # "idle" ~> at[t] = "idle" \/ Exited \/ SelfDeadlock

=============================================================================
