---------------------------- MODULE MCBTreeIndex -----------------------------
(* Leaves of one entry and inner nodes of two keys: four keys make a tree   *)
(* of three levels, so that leaves, inner nodes and the root are split.     *)
(* Key 2 is given two values, so that an update can be told from a read.    *)
EXTENDS BTreeIndex

CONSTANTS v, w

MCValuesOf == [k \in Keys |-> IF k = 2 THEN {v, w} ELSE {v}]
==============================================================================
