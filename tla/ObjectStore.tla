----------------------------- MODULE ObjectStore -----------------------------
(***************************************************************************)
(* What the dump promises as a store of objects: reading an object that    *)
(* was written gives what was written last, until it is deleted, and       *)
(* neither writes of other objects nor the end of a session change it.     *)
(***************************************************************************)
CONSTANTS
    Ids,        \* page ids, revision ids, ...
    Values,     \* contents of objects
    None        \* what is read for an id that is not in the dump

VARIABLE store

Init == store = [id \in Ids |-> None]

Put(id, v) == store' = [store EXCEPT ![id] = v]

Remove(id) == store' = [store EXCEPT ![id] = None]

Next == \E id \in Ids : Remove(id) \/ \E v \in Values : Put(id, v)

Spec == Init /\ [][Next]_store
==============================================================================
