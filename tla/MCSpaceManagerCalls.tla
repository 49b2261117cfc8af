------------------------- MODULE MCSpaceManagerCalls -------------------------
(* A header of one byte, index nodes of two, objects of one to three bytes; TLC
   follows each operation call by call. *)
EXTENDS SpaceManagerCalls
==============================================================================
