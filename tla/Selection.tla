----------------------------- MODULE Selection -----------------------------
(***************************************************************************)
(* What is left of a sequence when some of its entries are taken out of    *)
(* it, in order.                                                           *)
(***************************************************************************)
EXTENDS Naturals, Sequences, SequencesExt

\* The entries of s at the places I.
Picked(s, I) == FlattenSeq([i \in DOMAIN s |-> IF i \in I THEN <<s[i]>> ELSE <<>>])

\* The entries of s that are in S.
Only(s, S) == Picked(s, {i \in DOMAIN s : s[i] \in S})

=============================================================================
