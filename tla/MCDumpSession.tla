----------------------------- MODULE MCDumpSession ----------------------------
(* Two dump files and one or two diff dumps: a dump and its copy that is    *)
(* kept up to date by diff dumps, or two dumps of different kinds updated   *)
(* by one command.                                                          *)
EXTENDS DumpSession, TLC

Symmetry == Permutations(Files) \cup Permutations(Diffs)
                \cup Permutations(Names) \cup Permutations(Kinds)
==============================================================================
