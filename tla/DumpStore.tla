------------------------------ MODULE DumpStore ------------------------------
(***************************************************************************)
(* Objects in the dump file: DumpObject::Write with its relocation, the    *)
(* index from an object's id to its offset (pageIdIndex; the others are    *)
(* used in the same way), Dump::DeletePage and the order in which          *)
(* Dump::Complete and Dump::init write and load the indexes.  Space comes  *)
(* from SpaceManager.  The object index is taken as a map with one disk    *)
(* node; its B-tree is the subject of BTreeIndex.                          *)
(***************************************************************************)
EXTENDS SpaceManager

CONSTANTS
    Ids,            \* ids of objects
    Values,         \* contents of objects
    Length,         \* DumpObject::NewLength for a content
    None, Garbage   \* no object; bytes that are not the object looked for

ASSUME StoreAssumption ==
    /\ NodeSize \in Lengths
    /\ Length \in [Values -> Lengths]
    /\ None \notin Values /\ Garbage \notin Values /\ None # Garbage
    /\ None \notin Ids

VARIABLES
    index,          \* in memory: id -> offset, 0 for an id that is not there
    savedOffsets,   \* the same as last written to the index node on disk
    bodies,         \* what the bytes of the file hold, as far as it is whole
    handles,        \* objects loaded into memory: id -> savedOffset, savedLength
    pending         \* a Write between its Delete and its GetSpace

storeVars == <<index, savedOffsets, bodies, handles, pending>>
vars == <<spaceVars, storeVars>>

IndexRoot == BlockAt(HeaderLength, NodeSize)
NoHandle == [off |-> 0, len |-> 0, val |-> Garbage]
NoWrite == [id |-> None, val |-> None, off |-> 0]
Idle == pending = NoWrite

\* Writing the block b destroys every body that shares a byte with it.
Written(b, what) ==
    {c \in bodies : Disjoint(c.block, b)} \cup {[block |-> b, what |-> what]}

Body(id, v) == <<"object", id, v>>
IndexNode(name) == <<"index", name, None>>

\* DumpPage::Read and the like at the offset the index gives.
ReadAt(o, id) ==
    LET found == {v \in Values :
                    [block |-> BlockAt(o, Length[v]), what |-> Body(id, v)] \in bodies}
    IN  IF o = 0 THEN None
        ELSE IF found = {} THEN Garbage ELSE CHOOSE v \in found : TRUE

\* The contents of the dump as a reader of the open session sees it.
Contents == [id \in Ids |-> ReadAt(index[id], id)]

StoreInit ==
    /\ Init
    /\ index = [id \in Ids |-> 0]
    /\ savedOffsets = index
    /\ bodies = {}
    /\ handles = [id \in {} |-> NoHandle]
    /\ pending = NoWrite

\* Dump::init gives the object index its node at once, which therefore
\* lies directly behind the header; objects come after it.
CreateIndex ==
    /\ fileEnd = HeaderLength
    /\ Allocate(NodeSize)
    /\ bodies' = {[block |-> IndexRoot, what |-> IndexNode("object")]}
    /\ UNCHANGED <<index, savedOffsets, handles, pending>>

Created == fileEnd > HeaderLength

------------------------------------------------------------------------------
\* Loading an object remembers where it is and how long it is.  It may stay
\* loaded while other objects are written: a page is loaded before and
\* written after all of its revisions.
Load(id) ==
    LET v == ReadAt(index[id], id)
    IN  /\ session = "open" /\ Idle /\ Created
        /\ id \notin DOMAIN handles
        /\ v # Garbage
        /\ handles' = [x \in DOMAIN handles \cup {id} |->
                        IF x # id THEN handles[x]
                        ELSE IF v = None THEN [NoHandle EXCEPT !.val = None]
                        ELSE [off |-> index[id], len |-> Length[v], val |-> v]]
        /\ UNCHANGED <<spaceVars, index, savedOffsets, bodies, pending>>

Unload(id) == handles' = Restrict(handles, DOMAIN handles \ {id})

\* DumpObject::Write of the same length, or no change at all: in place.
WriteInPlace(id, v) ==
    /\ session = "open" /\ Idle
    /\ id \in DOMAIN handles
    /\ handles[id].len = Length[v]
    /\ bodies' = IF handles[id].val = v THEN bodies
                 ELSE Written(BlockAt(handles[id].off, Length[v]), Body(id, v))
    /\ index' = [index EXCEPT ![id] = handles[id].off]
    /\ Unload(id)
    /\ UNCHANGED <<spaceVars, savedOffsets, pending>>

\* Mutant: the old block is given back with the new length.
WriteReleasesNewLength(id, v) ==
    /\ Idle
    /\ id \in DOMAIN handles
    /\ handles[id].off # 0
    /\ handles[id].len # Length[v]
    /\ Release(BlockAt(handles[id].off, Length[v]))
    /\ pending' = IF session' = "dead" THEN NoWrite
                  ELSE [id |-> id, val |-> v, off |-> handles[id].off]
    /\ UNCHANGED <<index, savedOffsets, bodies, handles>>

\* Mutant: the old block is not given back.
WriteReleasesNothing(id, v) ==
    /\ session = "open" /\ Idle
    /\ id \in DOMAIN handles
    /\ handles[id].off # 0
    /\ handles[id].len # Length[v]
    /\ pending' = [id |-> id, val |-> v, off |-> handles[id].off]
    /\ UNCHANGED <<spaceVars, index, savedOffsets, bodies, handles>>

\* DumpObject::Write with another length first gives the old block back.  If
\* that is the first free block, the node of the free space index is written.
WriteReleases(id, v) ==
    /\ Idle
    /\ id \in DOMAIN handles
    /\ handles[id].off # 0
    /\ handles[id].len # Length[v]
    /\ Release(BlockAt(handles[id].off, handles[id].len))
    /\ pending' = IF session' = "dead" THEN NoWrite
                  ELSE [id |-> id, val |-> v, off |-> handles[id].off]
    /\ bodies' = IF spaceRoot' = spaceRoot THEN bodies
                 ELSE Written(BlockAt(spaceRoot', NodeSize), IndexNode("space"))
    /\ UNCHANGED <<index, savedOffsets, handles>>

\* A new object has nothing to give back.
WriteNew(id, v) ==
    /\ session = "open" /\ Idle
    /\ id \in DOMAIN handles
    /\ handles[id].off = 0
    /\ pending' = [id |-> id, val |-> v, off |-> 0]
    /\ UNCHANGED <<spaceVars, index, savedOffsets, bodies, handles>>

\* Mutant: the index gets the offset behind the object.
WriteFinishBehind ==
    LET id == pending.id
        v  == pending.val
    IN  /\ ~ Idle
        /\ Allocate(Length[v])
        /\ \E b \in live' \ live :
            /\ bodies' = Written(b, Body(id, v))
            /\ index' = [index EXCEPT ![id] = b.off + b.len]
        /\ Unload(id)
        /\ pending' = NoWrite
        /\ UNCHANGED savedOffsets

\* Mutant: UpdateIndex uses Add, which keeps an entry that exists.
WriteFinishAdd ==
    LET id == pending.id
        v  == pending.val
    IN  /\ ~ Idle
        /\ Allocate(Length[v])
        /\ \E b \in live' \ live :
            /\ bodies' = Written(b, Body(id, v))
            /\ index' = [index EXCEPT ![id] = IF @ # 0 THEN @ ELSE b.off]
        /\ Unload(id)
        /\ pending' = NoWrite
        /\ UNCHANGED savedOffsets

\* ... then GetSpace, the bytes, and UpdateIndex: Add (which keeps an entry
\* that exists) for a new object, AddOrUpdate for one that had a place.
WriteFinish ==
    LET id == pending.id
        v  == pending.val
    IN  /\ ~ Idle
        /\ Allocate(Length[v])
        /\ \E b \in live' \ live :
            /\ bodies' = Written(b, Body(id, v))
            /\ index' = [index EXCEPT ![id] =
                            IF pending.off = 0 /\ index[id] # 0 THEN index[id] ELSE b.off]
        /\ Unload(id)
        /\ pending' = NoWrite
        /\ UNCHANGED savedOffsets

\* Mutant: an object is deleted while it is loaded elsewhere.
DeleteObjectLoaded(id) ==
    LET v == ReadAt(index[id], id)
    IN  /\ Idle
        /\ v \in Values
        /\ Release(BlockAt(index[id], Length[v]))
        /\ index' = IF session' = "dead" THEN index ELSE [index EXCEPT ![id] = 0]
        /\ UNCHANGED <<savedOffsets, bodies, handles, pending>>

\* Dump::DeletePage, Dump::DeleteRevision: load the object, take it out of
\* the index, give its block back.
DeleteObject(id) ==
    LET v == ReadAt(index[id], id)
    IN  /\ Idle
        /\ id \notin DOMAIN handles
        /\ v \in Values
        /\ Release(BlockAt(index[id], Length[v]))
        /\ index' = IF session' = "dead" THEN index ELSE [index EXCEPT ![id] = 0]
        /\ bodies' = IF spaceRoot' = spaceRoot THEN bodies
                     ELSE Written(BlockAt(spaceRoot', NodeSize), IndexNode("space"))
        /\ UNCHANGED <<savedOffsets, handles, pending>>

\* Dump::Complete: the free space index is written first, then the others;
\* none of them moves.
Save ==
    LET spaceBlock == BlockAt(spaceRoot, NodeSize)
        withSpace == IF modified THEN Written(spaceBlock, IndexNode("space")) ELSE bodies
    IN  /\ Idle /\ Created
        /\ Complete
        /\ savedOffsets' = index
        /\ bodies' = {c \in withSpace : Disjoint(c.block, IndexRoot)}
                        \cup {[block |-> IndexRoot, what |-> IndexNode("object")]}
        /\ handles' = [id \in {} |-> NoHandle]
        /\ UNCHANGED <<index, pending>>

\* Dump::init reads both indexes from their nodes.
Reopen ==
    /\ Open
    /\ spaceRoot # 0 =>
        [block |-> BlockAt(spaceRoot, NodeSize), what |-> IndexNode("space")] \in bodies
    /\ [block |-> IndexRoot, what |-> IndexNode("object")] \in bodies
    /\ index' = savedOffsets
    /\ UNCHANGED <<savedOffsets, bodies, handles, pending>>

StoreNext ==
    \/ CreateIndex
    \/ \E id \in Ids :
        \/ Load(id)
        \/ \E v \in Values : WriteInPlace(id, v) \/ WriteReleases(id, v) \/ WriteNew(id, v)
        \/ DeleteObject(id)
    \/ WriteFinish
    \/ Save
    \/ Reopen

StoreSpec == StoreInit /\ [][StoreNext]_vars

------------------------------------------------------------------------------
StoreTypeOK ==
    /\ TypeOK
    /\ index \in [Ids -> 0 .. fileEnd - 1]
    /\ savedOffsets \in [Ids -> Nat]
    /\ \A c \in bodies : c.block \in Block
    /\ DOMAIN handles \subseteq Ids
    /\ \A id \in DOMAIN handles : handles[id].off \in Nat /\ handles[id].len \in Nat
    /\ pending.off \in Nat

\* Both index nodes can be read back at the next start.
NodesReadable ==
    /\ Created => [block |-> IndexRoot, what |-> IndexNode("object")] \in bodies
    /\ spaceRoot # 0 =>
        [block |-> BlockAt(spaceRoot, NodeSize), what |-> IndexNode("space")] \in bodies

\* The blocks the index points at, and its own node, are exactly the blocks
\* SpaceManager believes to be in use: a relocated or deleted object leaves no
\* block behind, no block is given back that something still points at, and
\* nothing is written over a node.
IndexOwnsLiveBlocks ==
    /\ NodesReadable
    /\ session # "dead" /\ Created =>
        live = {IndexRoot} \cup
               {BlockAt(index[id], Length[ReadAt(index[id], id)]) :
                    id \in {x \in Ids : index[x] # 0 /\ x # pending.id}}

\* savedOffset and savedLength of an object that stays loaded while others
\* are written still describe where the object is when it is written itself.
HandlesFresh ==
    Idle /\ session = "open" =>
        \A id \in DOMAIN handles :
            /\ handles[id].off = index[id]
            /\ index[id] # 0 => handles[id].val = ReadAt(index[id], id)

\* Relocation, reuse of freed space, deletion and the change of session are
\* invisible to the reader of an object.
Store == INSTANCE ObjectStore WITH store <- Contents
ImplementsObjectStore == Store!Spec
==============================================================================
