---------------------------- MODULE BoundedQueue -----------------------------
(***************************************************************************)
(* What squeue promises: a first-in first-out queue of at most Capacity    *)
(* values whose calls say whether they succeeded.                          *)
(***************************************************************************)
EXTENDS Naturals, Sequences

CONSTANTS Values, Capacity

VARIABLES queue,   \* the values that wait
          result   \* what the last call returned

BQInit == queue = <<>> /\ result = "true"

Push(v) == IF Len(queue) < Capacity
           THEN queue' = Append(queue, v) /\ result' = "true"
           ELSE queue' = queue /\ result' = "false"

Pop == IF queue # <<>>
       THEN queue' = Tail(queue) /\ result' = "true"
       ELSE queue' = queue /\ result' = "false"

\* Only a queue that is not empty has a front.
Front == /\ queue # <<>>
         /\ result' = Head(queue)
         /\ UNCHANGED queue

BQNext == (\E v \in Values : Push(v)) \/ Pop \/ Front

BQSpec == BQInit /\ [][BQNext]_<<queue, result>>
=============================================================================
