------------------------------- MODULE IndexMap ------------------------------
(***************************************************************************)
(* What Index promises (Index.h): it "maps between two types".  Entries    *)
(* are added, set and removed, and Get returns the value of a key, or the  *)
(* default value for a key that is not there.                              *)
(***************************************************************************)
EXTENDS Functions

CONSTANTS Keys, Values, NoValue

VARIABLES
    map,        \* a function from the keys present to their values
    result      \* what the last Get returned, NoValue after other operations

vars == <<map, result>>

Lookup(k) == IF k \in DOMAIN map THEN map[k] ELSE NoValue

Init ==
    /\ map = [k \in {} |-> NoValue]
    /\ result = NoValue

Get(k) == result' = Lookup(k) /\ UNCHANGED map

Set(k, v) ==
    /\ map' = [x \in DOMAIN map \cup {k} |-> IF x = k THEN v ELSE map[x]]
    /\ result' = NoValue

Remove(k) ==
    /\ map' = Restrict(map, DOMAIN map \ {k})
    /\ result' = NoValue

\* Iterating over the index and writing it to disk.
Other == UNCHANGED map /\ result' = NoValue

Next ==
    \/ Other
    \/ \E k \in Keys : Get(k) \/ Remove(k) \/ \E v \in Values : Set(k, v)

Spec == Init /\ [][Next]_vars
==============================================================================
