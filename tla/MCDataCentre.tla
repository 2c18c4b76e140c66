---------------------------- MODULE MCDataCentre ----------------------------
(* The exchange of rows between the databases of the data centre, and its  *)
(* web server.  The parts share no variable, so a behaviour takes one of   *)
(* them, chosen at the start, and leaves the other as it begins.           *)
EXTENDS DataCentre, WebServer, TLC

\* Two rows.  A file has one row, the tools keep lists and the greatest key is
\* in a file; or a file has two, they remove files and the key is in a table.
MCRows == 1..2
MCSetups == {[incindb |-> FALSE, remove |-> {}, maxcount |-> 1],
             [incindb |-> TRUE,  remove |-> {"upload", "download"}, maxcount |-> 2]}

VARIABLE part

CentreInit == /\ part \in {"exchange", "web"} /\ Init /\ WSInit
              /\ part = "web" => ~incindb
              /\ part = "exchange" => \A w \in Worker : worker[w].at = "loop"

CentreNext == /\ part' = part
              /\ \/ part = "exchange" /\ Next /\ UNCHANGED WSvars
                 \/ part = "web" /\ WSNext /\ UNCHANGED vars

(* The fairness of the part that was chosen; the other stays at rest.      *)
CentreSpec ==
  /\ CentreInit /\ [][CentreNext]_<<part, vars, WSvars>>
  /\ WF_vars(part = "exchange" /\ Extract) /\ WF_vars(part = "exchange" /\ Upload)
  /\ WF_vars(part = "exchange" /\ Download) /\ WF_vars(part = "exchange" /\ Load)
  /\ WF_WSvars(part = "web" /\ ReceiverStep) /\ WF_WSvars(part = "web" /\ SenderStep)
  /\ \A w \in Worker : WF_WSvars(part = "web" /\ WorkerStep(w))
=============================================================================
