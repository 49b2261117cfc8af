---------------------------- MODULE MCTextGroups -----------------------------
(* Groups of two texts: with three revisions one group is full and another  *)
(* is filled while texts of the first are deleted.                          *)
EXTENDS TextGroups

Symmetry == Permutations(Revisions) \cup Permutations(Texts)
==============================================================================
