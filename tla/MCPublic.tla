------------------------------ MODULE MCPublic ------------------------------
(* The parts of the utility library and of the Oracle wrapper: supervision *)
(* of processes, the log file, the circular queue, the handles of the      *)
(* database and the copies of LOBs.  The parts share no variable, so what  *)
(* holds of each holds of all together: a behaviour takes one part, chosen *)
(* at the start, and leaves the others as they begin.                      *)
EXTENDS Heartbeat, LogFile, Ring, Oci, OciLob, TLC

CONSTANTS a, b, p1, p2, p3,    \* two programs and three numbers of processes
          t1, t2,              \* two threads that share a log
          c1, s1, s2           \* a connection and two of its statements

MCPrograms == {a, b}
MCPids == {p1, p2, p3}
MCSlots == 0..1
MCThreads == {t1, t2}
MCValues == {a, b}
MCConnections == {c1}
MCStatements == {s1, s2}

VARIABLE part

PublicInit == /\ part \in {"heartbeat", "log", "ring", "oci", "lob"}
              /\ Init /\ LogInit /\ RingInit /\ OciInit /\ LobInit
              /\ part # "lob" => way = "lobtofile" /\ length = 0

Others(parts) == UNCHANGED parts /\ part' = part

PublicNext ==
  \/ part = "heartbeat" /\ Next /\ Others(<<logVars, ringVars, ociVars, lobVars>>)
  \/ part = "log" /\ LogNext /\ Others(<<vars, ringVars, ociVars, lobVars>>)
  \/ part = "ring" /\ RingNext /\ Others(<<vars, logVars, ociVars, lobVars>>)
  \/ part = "oci" /\ OciNext /\ Others(<<vars, logVars, ringVars, lobVars>>)
  \/ part = "lob" /\ LobNext /\ Others(<<vars, logVars, ringVars, ociVars>>)

(* The fairness of the part that was chosen; the others stay at rest.      *)
PublicFairness == /\ WF_vars(part = "heartbeat" /\ Check)
                  /\ \A p \in Programs : WF_vars(part = "heartbeat" /\ Program(p))
                  /\ \A s \in Slots : WF_vars(part = "heartbeat" /\ Old(s))
                  /\ WF_logVars(part = "log" /\ Exit)
                  /\ \A t \in Writers : WF_logVars(part = "log" /\ LogStep(t))

PublicSpec == /\ PublicInit
              /\ [][PublicNext]_<<part, vars, logVars, ringVars, ociVars, lobVars>>
              /\ PublicFairness
=============================================================================
