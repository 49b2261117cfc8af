---------------------------- MODULE SpaceManager -----------------------------
(***************************************************************************)
(* SpaceManager: allocation of blocks in the dump file, together with the  *)
(* parts of Index (the free space index, created with delaySave) and of    *)
(* FileHeader (FileEnd, FreeSpaceIndexRoot) that it changes.  One action   *)
(* is one whole call made by a client, including the calls it makes to     *)
(* itself through the index; SpaceManagerCalls takes those calls apart.    *)
(*                                                                         *)
(* The free space index is one leaf: a leaf that outgrows its disk node    *)
(* cannot be split (see ReleaseOverflow), so it never has an inner node.   *)
(***************************************************************************)
EXTENDS Integers, FiniteSets, Functions

CONSTANTS
    HeaderLength,   \* FileHeader::Length()
    NodeSize,       \* IndexNode::Size, the disk size of an index node
    LeafCapacity,   \* entries of the free space index that fit in NodeSize
    Lengths,        \* lengths clients ask for
    MaxFileEnd      \* bound: the file is not grown past this offset

ASSUME SpaceAssumption ==
    /\ HeaderLength \in Nat \ {0}
    /\ NodeSize \in Nat \ {0}
    /\ LeafCapacity \in Nat \ {0}
    /\ Lengths \subseteq Nat \ {0}
    /\ MaxFileEnd \in Nat

VARIABLES
    fileEnd,        \* header.FileEnd; every change is written to disk at once
    spaceRoot,      \* header.FreeSpaceIndexRoot, 0 while the root is unsaved
    spaceIndex,     \* in memory: offset of a free block -> its length
    spaceByLength,  \* the inverted view, pairs <<length, offset>>
    modified,       \* the index leaf has changes that are not on disk
    savedIndex,     \* the index leaf as last written to disk
    session,        \* "open", "completed" (saved and closed) or "dead"
    live            \* blocks the clients hold (a client's savedOffset, savedLength)

spaceVars == <<fileEnd, spaceRoot, spaceIndex, spaceByLength, modified,
               savedIndex, session, live>>

Block == [off : Nat, len : Nat \ {0}]
BlockAt(o, l) == [off |-> o, len |-> l]
Disjoint(b, c) == b.off + b.len <= c.off \/ c.off + c.len <= b.off

NoEntries == [o \in {} |-> 0]

\* The blocks listed in an index.
Listed(index) == {BlockAt(o, index[o]) : o \in DOMAIN index}

\* IndexLeafNode::Add is std::map::insert: an entry that exists is kept.
Insert(index, o, l) ==
    [x \in DOMAIN index \cup {o} |-> IF x \in DOMAIN index THEN index[x] ELSE l]

\* Mutant: the entry stays.
EraseNothing(index, o) == index

\* IndexLeafNode::Remove is std::map::erase.
Erase(index, o) == Restrict(index, DOMAIN index \ {o})

\* Mutant: the inverted view is not built from the loaded index.
ByLengthEmpty(index) == {}

\* The inverted view that the constructor builds by iterating over the index.
ByLength(index) == {<<index[o], o>> : o \in DOMAIN index}

\* lower_bound(length): a shortest block that is long enough.  Which of
\* several equally long blocks it is depends on their insertion order, which
\* is left open.
IsBestFit(p, n) ==
    /\ p \in spaceByLength
    /\ p[1] >= n
    /\ \A q \in spaceByLength : q[1] >= n => p[1] <= q[1]

\* The loaded index is larger than its node: IndexNode::IsOversized.
Oversized(index) == Cardinality(DOMAIN index) > LeafCapacity

\* The index that Dump::init would load from the file now.
Loaded == IF spaceRoot = 0 THEN NoEntries ELSE savedIndex

------------------------------------------------------------------------------
\* Dump::init for a new file: the header is written, the root is delayed.
Init ==
    /\ fileEnd = HeaderLength
    /\ spaceRoot = 0
    /\ spaceIndex = NoEntries
    /\ spaceByLength = {}
    /\ modified = FALSE
    /\ savedIndex = NoEntries
    /\ session = "open"
    /\ live = {}

\* GetSpace(n) that reuses the free block p: it leaves both views, and what
\* remains of it goes back into both by a call of Delete.
AllocateReused(n, p) ==
    LET rest == p[1] - n
        left == Erase(spaceIndex, p[2])
    IN  /\ session = "open"
        /\ IsBestFit(p, n)
        /\ spaceIndex' = IF rest = 0 THEN left ELSE Insert(left, p[2] + n, rest)
        /\ spaceByLength' = (spaceByLength \ {p})
                              \cup (IF rest = 0 THEN {} ELSE {<<rest, p[2] + n>>})
        /\ modified' = TRUE
        /\ live' = live \cup {BlockAt(p[2], n)}
        /\ UNCHANGED <<fileEnd, spaceRoot, savedIndex, session>>

\* GetSpace(n) when no free block is long enough: the file grows.
AllocateAtEnd(n) ==
    /\ session = "open"
    /\ \A q \in spaceByLength : q[1] < n
    /\ fileEnd + n <= MaxFileEnd
    /\ live' = live \cup {BlockAt(fileEnd, n)}
    /\ fileEnd' = fileEnd + n
    /\ UNCHANGED <<spaceRoot, spaceIndex, spaceByLength, modified, savedIndex, session>>

Allocate(n) ==
    \/ AllocateAtEnd(n)
    \/ \E p \in spaceByLength : AllocateReused(n, p)

\* Delete(b) while the index root has never been saved: Index::AfterAdd
\* allocates the root node and writes it, the new entry included, before the
\* block enters spaceByLength.  The nested GetSpace finds no free block.
ReleaseFirst(b) ==
    LET index == Insert(spaceIndex, b.off, b.len)
    IN  /\ session = "open"
        /\ spaceRoot = 0
        /\ \A q \in spaceByLength : q[1] < NodeSize
        /\ ~ Oversized(index)
        /\ fileEnd + NodeSize <= MaxFileEnd
        /\ spaceIndex' = index
        /\ spaceRoot' = fileEnd
        /\ fileEnd' = fileEnd + NodeSize
        /\ savedIndex' = index
        /\ modified' = FALSE
        /\ spaceByLength' = spaceByLength \cup {<<b.len, b.off>>}
        /\ live' = live \ {b}
        /\ UNCHANGED session

\* Delete(b) once the root is saved: both views change in memory only.
ReleaseLater(b) ==
    LET index == Insert(spaceIndex, b.off, b.len)
    IN  /\ session = "open"
        /\ spaceRoot # 0
        /\ ~ Oversized(index)
        /\ spaceIndex' = index
        /\ spaceByLength' = spaceByLength \cup {<<b.len, b.off>>}
        /\ modified' = TRUE
        /\ live' = live \ {b}
        /\ UNCHANGED <<fileEnd, spaceRoot, savedIndex, session>>

\* Delete(b) when the entry does not fit: AfterAdd frees the oversized root
\* before it splits it, which adds an entry to the same root, and so on until
\* the stack is exhausted.  Nothing of the index reaches the disk.
ReleaseOverflow(b) ==
    /\ session = "open"
    /\ Oversized(Insert(spaceIndex, b.off, b.len))
    /\ session' = "dead"
    /\ UNCHANGED <<fileEnd, spaceRoot, spaceIndex, spaceByLength, modified,
                   savedIndex, live>>

Release(b) == ReleaseFirst(b) \/ ReleaseLater(b) \/ ReleaseOverflow(b)

\* Mutant: Dump::Complete does not write the free space index.
CompleteUnsaved ==
    /\ session = "open"
    /\ modified' = FALSE
    /\ session' = "completed"
    /\ UNCHANGED <<fileEnd, spaceRoot, spaceIndex, spaceByLength, savedIndex, live>>

\* Dump::Complete writes the free space index, a leaf only if it is modified.
Complete ==
    /\ session = "open"
    /\ savedIndex' = IF modified THEN spaceIndex ELSE savedIndex
    /\ modified' = FALSE
    /\ session' = "completed"
    /\ UNCHANGED <<fileEnd, spaceRoot, spaceIndex, spaceByLength, live>>

\* Dump::init on an existing file and the constructor of SpaceManager.
Open ==
    /\ session = "completed"
    /\ spaceIndex' = Loaded
    /\ spaceByLength' = ByLength(Loaded)
    /\ modified' = FALSE
    /\ session' = "open"
    /\ UNCHANGED <<fileEnd, spaceRoot, savedIndex, live>>

Next ==
    \/ \E n \in Lengths : Allocate(n)
    \/ \E b \in live : Release(b)
    \/ Complete
    \/ Open

Spec == Init /\ [][Next]_spaceVars

------------------------------------------------------------------------------
FreeBlocks == Listed(spaceIndex)
RootBlocks == IF spaceRoot = 0 THEN {} ELSE {BlockAt(spaceRoot, NodeSize)}
Blocks == live \cup FreeBlocks \cup RootBlocks

\* A std::map<Offset, uint32_t> with finitely many entries.
IsIndex(index) ==
    /\ DOMAIN index \in SUBSET Nat
    /\ IsFiniteSet(DOMAIN index)
    /\ index \in [DOMAIN index -> Nat \ {0}]

\* Every variable has the type its declaration in the code gives it.
TypeOK ==
    /\ fileEnd \in Nat /\ fileEnd >= HeaderLength
    /\ spaceRoot \in Nat
    /\ IsIndex(spaceIndex)
    /\ IsIndex(savedIndex)
    /\ spaceByLength \subseteq (Nat \ {0}) \X Nat
    /\ modified \in BOOLEAN
    /\ session \in {"open", "completed", "dead"}
    /\ live \subseteq Block

\* SpaceManager.h: spaceByLength is the "inverted view of Dump::spaceIndex":
\* the two structures, updated at different points of each call and with an
\* allocation in between, list the same blocks.
ViewsAgree == spaceByLength = ByLength(spaceIndex)

\* No byte of the file has two owners: neither two objects, nor an object and
\* the list of free blocks, nor either of them and the node of the free space
\* index, however allocations, releases and sessions follow each other; and
\* all of them lie between the header and FileEnd.
BlocksDisjoint ==
    /\ \A b \in Blocks : HeaderLength <= b.off /\ b.off + b.len <= fileEnd
    /\ \A b, c \in Blocks : b # c => Disjoint(b, c)
    /\ live \cap FreeBlocks = {}
    /\ (live \cup FreeBlocks) \cap RootBlocks = {}

\* No byte of the file is lost: past the header each belongs to an object, to
\* a free block that can be reused, or to the index node.
NoByteLost ==
    \A i \in HeaderLength .. fileEnd - 1 :
        \E b \in Blocks : b.off <= i /\ i < b.off + b.len

\* Every byte of the file has one owner.
EachByteOwnedOnce == BlocksDisjoint /\ NoByteLost

\* What a later session will load is what this session leaves in memory, and
\* "modified" is set whenever the two differ: the first entry is written when
\* the root is, the later ones by Complete.
SavedOnComplete ==
    /\ session = "completed" => ~ modified
    /\ ~ modified => spaceIndex = Loaded
    /\ spaceRoot = 0 => ~ modified

\* The inductive invariant.
IInv == TypeOK /\ ViewsAgree /\ BlocksDisjoint /\ NoByteLost /\ SavedOnComplete

\* The promise to the clients.
Promise == INSTANCE FreeSpace WITH held <- live
ImplementsFreeSpace == Promise!Spec
==============================================================================
