-------------------------- MODULE MCUpdateProcesses --------------------------
(* The limit of the output buffer is two units, as in the program (8192 and   *)
(* 4096 bytes); the output is long enough to fill it and the pipe behind it.  *)
EXTENDS UpdateProcesses
==============================================================================
