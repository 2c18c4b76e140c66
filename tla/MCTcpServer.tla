---------------------------- MODULE MCTcpServer -----------------------------
(* TcpServer with two Connections that get the same descriptor one after   *)
(* the other, one request per client and one worker.                       *)
EXTENDS TcpServer

CONSTANTS a, b, f1, w1

MCConns   == {a, b}
MCFds     == {f1}
MCWorkers == {w1}

=============================================================================
