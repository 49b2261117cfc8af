----------------------------- MODULE MCDiffTexts -----------------------------
(* The groups of MCTextGroups, with diff dumps and a copy. *)
EXTENDS DiffTexts

Symmetry == Permutations(Revisions) \cup Permutations(Texts)
==============================================================================
