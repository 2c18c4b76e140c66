----------------------------- MODULE MCDatabase -----------------------------
EXTENDS Database
Rowids == {"r1", "r2", "r3"}
=============================================================================
