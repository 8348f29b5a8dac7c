---------------------------- MODULE MCWriteCache ----------------------------
(* WriteCache with constants for TLC.                                      *)
EXTENDS WriteCache

OneSize == [n \in 1..MaxRecords |-> 1]

\* Two records of 2 units do not fit into one cache of 3.
TwoSizes == [n \in 1..MaxRecords |-> IF n \in {2, 3} THEN 2 ELSE 1]

=============================================================================
