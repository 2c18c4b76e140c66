---------------------------- MODULE MCEventLoop -----------------------------
(* An event loop: its task queue, and the bytes of a connection it serves. *)
(* The parts share no variable, so a behaviour takes one of them, chosen   *)
(* at the start, and leaves the other as it begins.                        *)
EXTENDS EventLoop, Dataflow, TLC

CONSTANTS c1, c2, t1, t2, t3, w1, w2

\* Two calling threads and three tasks: a task can be pushed between the read of
\* the eventfd and the lock, during the drain's wait for mutex_, and after the
\* drain, by the same or another caller.
MCCallers == {c1, c2}
MCTasks   == {t1, t2, t3}

\* A session of a bank client: the second request has no content, and its header
\* and the units of the others arrive in any number of pieces.
MCWorkers == {w1, w2}
MCBusiness == <<"login", "query", "logout">>
MCSize == <<1, 0, 1>>

VARIABLE part

LoopInit == /\ part \in {"queue", "connection"} /\ Init /\ FlowInit
            /\ part = "queue" => ~pipelines

\* A loop that was stopped does nothing more.
LoopNext ==
  /\ part' = part
  /\ \/ part = "queue" /\ Next /\ UNCHANGED flowVars
     \/ part = "connection" /\ FlowNext /\ UNCHANGED vars
     \/ part = "queue" /\ loop = "exited" /\ UNCHANGED <<vars, flowVars>>

LoopSpec == LoopInit /\ [][LoopNext]_<<part, vars, flowVars>>

(* The fairness of the part that was chosen; the other stays at rest.      *)
LoopFairSpec ==
  /\ LoopSpec
  /\ WF_vars(part = "queue" /\ LoopStep)
  /\ \A c \in Callers : WF_vars(part = "queue" /\ Wakeup(c))
  /\ WF_vars(part = "queue" /\ StopWakeup)
  /\ WF_flowVars(part = "connection" /\ Arrive)
  /\ WF_flowVars(part = "connection" /\ ClientReads)
  /\ WF_flowVars(part = "connection" /\ TurnStep)
  /\ \A w \in Workers : WF_flowVars(part = "connection" /\ WorkerStep(w))
=============================================================================
