------------------------------ MODULE MCUpdate ------------------------------
EXTENDS Update

\* Release 2 keeps the config format, release 3 changes it.
Formats == [v \in Releases |-> IF v <= 2 THEN 1 ELSE 2]
=============================================================================
