----------------------------- MODULE MCDumpStore -----------------------------
(* Two objects; two contents of one byte and one of two bytes, so that an   *)
(* object can be written in place, shrink into a part of a freed block and  *)
(* grow out of its place.                                                   *)
EXTENDS DumpStore

CONSTANTS a, b, c

MCLength == [v \in {a, b, c} |-> IF v = c THEN 2 ELSE 1]
==============================================================================
