--------------------------- MODULE MCFileTransfer ----------------------------
(* FileTransfer with two files of two chunks, a fault, and as many         *)
(* sessions as it takes to go on after it.                                 *)
EXTENDS FileTransfer

CONSTANTS f1, f2

MCFiles == {f1, f2}

=============================================================================
