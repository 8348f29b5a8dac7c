--------------------------- MODULE MCRadioUpdate ---------------------------
\* RadioUpdate on a small instance: the bounds are given by the cfg.
EXTENDS RadioUpdate
=============================================================================
