----------------------------- MODULE MCServices -----------------------------
(* Two parts in which somebody waits for what another must send: the pool, *)
(* whose workers wait for a notification, and the reverse proxy, which     *)
(* waits for the answer to its commands.  They share no variable, so a     *)
(* behaviour takes one of them, chosen at the start, and leaves the other  *)
(* as it begins.                                                           *)
(*                                                                         *)
(* Two workers, two callers and three tasks are the smallest pool in which *)
(* two workers can compete for one task, one can run while the other       *)
(* sleeps, and a task can be left behind by stop().                        *)
EXTENDS ThreadPool, ReverseProxy, TLC

CONSTANTS w1, w2, p1, p2, t1, t2, t3,    \* of the pool
          c1, c2                         \* two clients of two ports

MCWorkers   == {w1, w2}
MCProducers == {p1, p2}
MCTasks     == {t1, t2, t3}
MCClient    == {c1, c2}
MCTarget    == (c1 :> "t1") @@ (c2 :> "t2")
MCLink      == {"l1", "l2", "l3", "l4"}

VARIABLE part

ServicesInit == part \in {"pool", "reverse"} /\ Init /\ RPInit

ServicesNext == \/ part = "pool" /\ Next /\ UNCHANGED <<part, RPvars>>
                \/ part = "reverse" /\ RPNext /\ UNCHANGED <<part, vars>>

(* The fairness of the part that was chosen; the other stays at rest.      *)
ServicesFairness ==
  /\ \A w \in Workers : WF_vars(part = "pool" /\ WorkerStep(w))
  /\ \A p \in Producers : WF_vars(part = "pool" /\ NotifyOne(p))
  /\ WF_vars(part = "pool" /\ StopperStep)
  /\ WF_RPvars(part = "reverse" /\ OuterStep)
  /\ SF_RPvars(part = "reverse" /\ OuterTimer)
  /\ WF_RPvars(part = "reverse" /\ InnerStep)
  /\ WF_RPvars(part = "reverse" /\ InnerLinkStep)
  /\ WF_RPvars(part = "reverse" /\ ResetArrives)

ServicesSpec == /\ ServicesInit
                /\ [][ServicesNext]_<<part, vars, RPvars>>
                /\ ServicesFairness

(* Recovers, in the behaviours in which rinetd and rinetdin run: they come *)
(* to have one command channel for good, or rinetd waits for an answer     *)
(* that nobody sends.                                                      *)
ReverseRecovers == part = "reverse" => Recovers
=============================================================================
