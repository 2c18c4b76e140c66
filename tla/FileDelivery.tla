---------------------------- MODULE FileDelivery -----------------------------
(***************************************************************************)
(* What the file transfer of tools/cpp promises, whatever happens to its   *)
(* connections and processes: a file arrives at least once, is not seen in *)
(* parts, stays where it arrived, and goes from the source directory only  *)
(* after that.                                                             *)
(***************************************************************************)
CONSTANT Files

VARIABLES waiting,   \* the files in the source directory
          seen,      \* the files that were ever put there
          visible,   \* the files under whose name a reader finds something
          arrived    \* the files whose content is safe at the destination

fdVars == <<waiting, seen, visible, arrived>>

FDInit == waiting = {} /\ seen = {} /\ visible = {} /\ arrived = {}

Put(f) == /\ f \notin seen
          /\ waiting' = waiting \cup {f}
          /\ seen' = seen \cup {f}
          /\ UNCHANGED <<visible, arrived>>

Arrive(f) == /\ f \in seen
             /\ arrived' = arrived \cup {f}
             /\ visible' = visible \cup {f}
             /\ UNCHANGED <<waiting, seen>>

Retire(f) == /\ f \in waiting \cap arrived
             /\ waiting' = waiting \ {f}
             /\ UNCHANGED <<seen, visible, arrived>>

FDNext == \E f \in Files : Put(f) \/ Arrive(f) \/ Retire(f)

FDSpec == FDInit /\ [][FDNext]_fdVars

=============================================================================
