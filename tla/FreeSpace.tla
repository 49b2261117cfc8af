------------------------------ MODULE FreeSpace ------------------------------
(***************************************************************************)
(* What the rest of the program relies on when it asks SpaceManager for    *)
(* room in the dump file: a block it is given lies after the file header   *)
(* and shares no byte with a block that is still in use.  Where the block  *)
(* comes from (a reused hole or the end of the file) is not its business.  *)
(***************************************************************************)
EXTENDS Naturals

CONSTANT HeaderLength   \* bytes of the file header, never handed out

VARIABLE held           \* blocks in use: records [off, len]

Block == [off : Nat, len : Nat \ {0}]

\* The two blocks have no byte in common.
Disjoint(b, c) == b.off + b.len <= c.off \/ c.off + c.len <= b.off

Init == held = {}

\* A client receives a new block.
Acquire(b) ==
    /\ b \in Block
    /\ b.off >= HeaderLength
    /\ \A c \in held : Disjoint(b, c)
    /\ held' = held \cup {b}

\* A client gives a block back.
GiveBack(b) ==
    /\ b \in held
    /\ held' = held \ {b}

\* Exactly one block comes or goes.
Next ==
    \/ \E b \in held' \ held : Acquire(b)
    \/ \E b \in held \ held' : GiveBack(b)

Spec == Init /\ [][Next]_held
==============================================================================
