----------------------------- MODULE MCLogFiles ------------------------------
(* LogFiles with constants for TLC.                                        *)
EXTENDS LogFiles

\* The runs do not tell the loggers apart.
Symmetry == Permutations(Loggers)

=============================================================================
