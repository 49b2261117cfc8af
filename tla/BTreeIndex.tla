------------------------------ MODULE BTreeIndex -----------------------------
(***************************************************************************)
(* Index: a B-tree whose nodes live on disk, are read when they are first  *)
(* needed, changed in memory, and written when a node is split, when the   *)
(* cache is cleared and by Index::Write.  A node is named by the offset of *)
(* its block; blocks come from SpaceManager, which never hands out one     *)
(* that is in use.  This is an index created without delaySave.            *)
(***************************************************************************)
EXTENDS BTreeNodes

CONSTANTS
    Keys, Values, NoValue,
    ValuesOf,       \* the values that a key is given
    AccessLimit,    \* accesses between two looks at the cache (10000)
    NodesLimit,     \* cached nodes that make the cache too big (5000)
    MaxNodes        \* bound: blocks for nodes in the file

ASSUME IndexAssumption ==
    /\ Keys \subseteq Nat
    /\ NoValue \notin Values
    /\ ValuesOf \in [Keys -> SUBSET Values]
    /\ AccessLimit \in Nat \ {0} /\ NodesLimit \in Nat /\ MaxNodes \in Nat \ {0}

VARIABLES
    tree,           \* the nodes, see Tree
    accesses,       \* recentAccesses
    iter,           \* the position of an iterator over the index
    result          \* what the last Get returned

vars == <<tree, accesses, iter, result>>

\* root: the offset in the file header; mem: cached nodes (the root always
\* is); dirty: cached nodes with modified set; disk: the nodes as written.
\* A block is in use exactly while it is in the domain of disk.
Tree(root, mem, dirty, disk) == [root |-> root, mem |-> mem, dirty |-> dirty, disk |-> disk]

Offsets == 1 .. MaxNodes

NoPosition == <<>>
NoIterator == [open |-> FALSE, pos |-> NoPosition]

Extend(f, x, y) == [z \in DOMAIN f \cup {x} |-> IF z = x THEN y ELSE f[z]]

------------------------------------------------------------------------------
(* Nodes in memory and on disk. *)

View(t, o) == IF o \in DOMAIN t.mem THEN t.mem[o] ELSE t.disk[o]

\* GetChildByIndex reads a child that is not cached.
LoadedAll(t, nodes) ==
    Tree(t.root, [x \in DOMAIN t.mem \cup nodes |-> View(t, x)], t.dirty, t.disk)

\* IndexNode::modified is set with every change.
Changed(t, o, node) ==
    Tree(t.root, Extend(t.mem, o, node), t.dirty \cup {o}, t.disk)

\* o and what lies below it, given the children of each node.
Below(kids, o) ==
    LET below[x \in DOMAIN kids] == {x} \cup UNION {below[c] : c \in kids[x]}
    IN  below[o]

CachedKids(t) == [x \in DOMAIN t.mem |-> ToSet(t.mem[x].kids) \cap DOMAIN t.mem]
CachedSubtree(t, o) == Below(CachedKids(t), o)

\* IndexNode::Write and IndexInnerNode::Write: the modified nodes among the
\* cached ones below o.
Flushed(t, o) ==
    LET nodes == CachedSubtree(t, o) \cap t.dirty
    IN  Tree(t.root, t.mem, t.dirty \ nodes,
             [x \in DOMAIN t.disk |-> IF x \in nodes THEN t.mem[x] ELSE t.disk[x]])

\* SpaceManager::Delete of a node's block.
Freed(t, o) ==
    Tree(t.root, Restrict(t.mem, DOMAIN t.mem \ {o}), t.dirty \ {o},
         Restrict(t.disk, DOMAIN t.disk \ {o}))

\* The block GetSpace gives to a new node: which one does not matter here.
FreshOffset(t) == Min(Offsets \ DOMAIN t.disk)

\* Write of a new node, with the cached nodes below it.
Placed(t, node) ==
    LET o == FreshOffset(t)
    IN  Flushed(Tree(t.root, Extend(t.mem, o, node), t.dirty \cup {o},
                     Extend(t.disk, o, node)), o)

\* Delete of an oversized node o, Split, and Write of the left and the right
\* half.
SplitNode(t, o) ==
    LET halves  == Split(t.mem[o])
        freed   == Freed(t, o)
        placed1 == Placed(freed, halves.left)
    IN  [tree |-> Placed(placed1, halves.right), left |-> FreshOffset(freed),
         right |-> FreshOffset(placed1), key |-> halves.key]

------------------------------------------------------------------------------
(* Operations on the tree. *)

ChildIndex(node, k) == GetKeyIndex(node.keys, k) + 1
ChildFor(t, o, k) == View(t, o).kids[ChildIndex(View(t, o), k)]

\* The nodes on the way from o to the leaf for k.
KidsFor(t, k) == [o \in DOMAIN t.disk |-> IF View(t, o).leaf THEN {} ELSE {ChildFor(t, o, k)}]
Way(t, o, k) == Below(KidsFor(t, k), o)
LeafFor(t, k) == CHOOSE o \in Way(t, t.root, k) : View(t, o).leaf

\* The nodes on the way to k are cached.
Descended(t, k) == LoadedAll(t, Way(t, t.root, k))

\* IndexInnerNode::AfterAdd, of the inner node o after its child i.
AfterAdd(t, o, i) ==
    LET c == t.mem[o].kids[i]
        s == SplitNode(t, c)
    IN  IF NodeOversized(t.mem[c])
          THEN Changed(s.tree, o, ReplaceChild(t.mem[o], i, s.key, s.left, s.right))
          ELSE t

\* AfterAdd at each inner node on the way back up.
SplitBelow(t, k) ==
    LET after[o \in DOMAIN t.disk] ==
            IF View(t, o).leaf THEN t
            ELSE AfterAdd(after[ChildFor(t, o, k)], o, ChildIndex(View(t, o), k))
    IN  after[t.root]

\* Index::AfterAdd: an oversized root is split under a new root.
SplitRoot(t) ==
    LET s      == SplitNode(t, t.root)
        placed == Placed(s.tree, Inner(<<s.key>>, <<s.left, s.right>>))
    IN  IF NodeOversized(t.mem[t.root])
          THEN Tree(FreshOffset(s.tree), placed.mem, placed.dirty, placed.disk)
          ELSE t

\* The leaf for k gets new entries.
Put(t, k, entries) == Changed(t, LeafFor(t, k), Leaf(entries))

EntriesFor(t, k) == View(t, LeafFor(t, k)).entries

NodesCount(t) == Cardinality(CachedSubtree(t, t.root))

\* Mutant: nodes are dropped before they are written.
ClearedUnflushed(t, pinned) ==
    LET kept == (pinned \cup {t.root}) \cap DOMAIN t.mem
    IN  Tree(t.root, Restrict(t.mem, kept), t.dirty \cap kept, t.disk)

\* IndexNode::ClearCached on the root: write, then drop every cached node but
\* the root and those an iterator stands on.
Cleared(t, pinned) ==
    LET f == Flushed(t, t.root)
    IN  Tree(f.root, Restrict(f.mem, (pinned \cup {f.root}) \cap DOMAIN f.mem), f.dirty, f.disk)

------------------------------------------------------------------------------
(* Iterators.  A position is the child index in each inner node from the   *)
(* root down and, last, the rank of the entry in the leaf; the position    *)
(* past the end of an inner node stops at that node.                       *)

\* begin(): the first child in each node and the first entry.
BeginOf(t, o) ==
    LET begin[x \in DOMAIN t.disk] ==
            IF View(t, x).leaf THEN <<1>> ELSE <<1>> \o begin[View(t, x).kids[1]]
    IN  begin[o]

\* Mutant: the end of a leaf is its last entry.
EndOfShort(t, o) ==
    LET node == View(t, o)
    IN  IF node.leaf THEN <<Cardinality(LeafKeys(node))>> ELSE <<Len(node.kids) + 1>>

\* end(): one past the last entry or child.
EndOf(t, o) ==
    LET node == View(t, o)
    IN  IF node.leaf THEN <<Cardinality(LeafKeys(node)) + 1>> ELSE <<Len(node.kids) + 1>>

\* The node that each step of a position leads to.
Steps(t, pos) ==
    LET step[d \in 0 .. Len(pos)] ==
            IF d = 0 THEN t.root
            ELSE LET kids == View(t, step[d - 1]).kids
                 IN  IF pos[d] \in DOMAIN kids THEN kids[pos[d]] ELSE step[d - 1]
    IN  step

\* The nodes a position stands on; their iterator count keeps them cached.
NodesOn(t, pos) == {Steps(t, pos)[d] : d \in 0 .. Len(pos)}

\* The key at a position, NoValue if there is nothing to dereference.
KeyAt(t, pos) ==
    LET node  == View(t, Steps(t, pos)[Len(pos)])
        found == {k \in LeafKeys(node) : Rank(LeafKeys(node), k) = pos[Len(pos)]}
    IN  IF node.leaf /\ found # {} THEN CHOOSE k \in found : TRUE ELSE NoValue

\* The later children of step d that have something to visit.
LaterKids(t, pos, d) ==
    LET kids == View(t, Steps(t, pos)[d - 1]).kids
    IN  {j \in pos[d] + 1 .. Len(kids) : BeginOf(t, kids[j]) # EndOf(t, kids[j])}

\* operator++ on an entry: the leaf's iterator advances; at its end the next
\* child whose begin() is not its end() is taken, in the lowest inner node
\* that has one.
NextOf(t, pos) ==
    LET n      == Len(pos)
        inLeaf == <<pos[n] + 1>>
        levels == {d \in 1 .. n - 1 : LaterKids(t, pos, d) # {}}
        d      == Max(levels)
        j      == Min(LaterKids(t, pos, d))
        kid    == View(t, Steps(t, pos)[d - 1]).kids[j]
    IN  IF inLeaf # EndOf(t, Steps(t, pos)[n]) THEN SubSeq(pos, 1, n - 1) \o inLeaf
        ELSE IF levels = {} THEN EndOf(t, t.root)
        ELSE SubSeq(pos, 1, d - 1) \o <<j>> \o BeginOf(t, kid)

Pinned(t) == IF iter.open THEN NodesOn(t, iter.pos) ELSE {}

------------------------------------------------------------------------------
(* Dump::init creates the index with an empty, saved leaf as its root. *)

Init ==
    LET empty == Leaf([k \in {} |-> NoValue])
    IN  /\ tree = Tree(1, [o \in {1} |-> empty], {}, [o \in {1} |-> empty])
        /\ accesses = 0
        /\ iter = NoIterator
        /\ result = NoValue

\* Mutant: the counter is not reset.
AfterAccessUnreset(t) ==
    /\ accesses' = accesses + 1
    /\ tree' = IF accesses + 1 = AccessLimit /\ NodesCount(t) >= NodesLimit
                 THEN Cleared(t, Pinned(t)) ELSE t

\* AfterAccess: every AccessLimit accesses a cache that is too big is cleared.
AfterAccess(t) ==
    /\ accesses' = (accesses + 1) % AccessLimit
    /\ tree' = IF accesses + 1 = AccessLimit /\ NodesCount(t) >= NodesLimit
                 THEN Cleared(t, Pinned(t)) ELSE t

Get(k) ==
    LET t       == Descended(tree, k)
        entries == EntriesFor(t, k)
    IN  /\ result' = IF k \in DOMAIN entries THEN entries[k] ELSE NoValue
        /\ AfterAccess(t)
        /\ UNCHANGED iter

\* Room for the nodes that the splits of one Add may create: one for each node
\* on the way, and a new root.
RoomToSplit(k) ==
    Cardinality(Offsets \ DOMAIN tree.disk) > Cardinality(Way(tree, tree.root, k))

\* Index::Add, for a key that is not in the index, and Index::AddOrUpdate.
AddOrUpdate(k, v) ==
    LET t == Descended(tree, k)
    IN  /\ ~ iter.open
        /\ RoomToSplit(k)
        /\ AfterAccess(SplitRoot(SplitBelow(Put(t, k, Extend(EntriesFor(t, k), k, v)), k)))
        /\ result' = NoValue
        /\ UNCHANGED iter

\* Index::Remove: leaves are neither merged nor freed, and AfterAccess is not
\* called.
RemoveKey(k) ==
    LET t == Descended(tree, k)
    IN  /\ ~ iter.open
        /\ tree' = Put(t, k, Restrict(EntriesFor(t, k), DOMAIN EntriesFor(t, k) \ {k}))
        /\ result' = NoValue
        /\ UNCHANGED <<accesses, iter>>

\* Index::Write.
Write ==
    /\ tree' = Flushed(tree, tree.root)
    /\ result' = NoValue
    /\ UNCHANGED <<accesses, iter>>

\* The process ends after Write, and a later one reads only the root.
Reopen ==
    /\ ~ iter.open
    /\ tree.dirty = {}
    /\ tree' = Tree(tree.root, [o \in {tree.root} |-> tree.disk[o]], {}, tree.disk)
    /\ accesses' = 0
    /\ result' = NoValue
    /\ UNCHANGED iter

\* Index::begin.
Begin ==
    LET pos == BeginOf(tree, tree.root)
    IN  /\ ~ iter.open
        /\ iter' = [open |-> TRUE, pos |-> pos]
        /\ tree' = LoadedAll(tree, NodesOn(tree, pos))
        /\ result' = NoValue
        /\ UNCHANGED accesses

\* ++ on an iterator that stands on an entry.  recentIncrements is not set by
\* the copy constructor, so the cache may be looked at after any increment.
Advance ==
    LET pos == NextOf(tree, iter.pos)
        t   == LoadedAll(tree, NodesOn(tree, pos))
    IN  /\ iter.open
        /\ KeyAt(tree, iter.pos) # NoValue
        /\ iter' = [iter EXCEPT !.pos = pos]
        /\ \/ tree' = t
           \/ NodesCount(t) >= NodesLimit /\ tree' = Cleared(t, NodesOn(t, pos))
        /\ result' = NoValue
        /\ UNCHANGED accesses

\* The iterator is destroyed.
Close ==
    /\ iter.open
    /\ iter' = NoIterator
    /\ result' = NoValue
    /\ UNCHANGED <<tree, accesses>>

Next ==
    \/ \E k \in Keys : Get(k) \/ RemoveKey(k) \/ \E v \in ValuesOf[k] : AddOrUpdate(k, v)
    \/ Write
    \/ Reopen
    \/ Begin
    \/ Advance
    \/ Close

Spec == Init /\ [][Next]_vars

------------------------------------------------------------------------------
Kids(t) == [o \in DOMAIN t.disk |-> ToSet(View(t, o).kids)]
Nodes == Below(Kids(tree), tree.root)

KeysBelow(t, o) == UNION {LeafKeys(View(t, x)) : x \in Below(Kids(t), o)}

TypeOK ==
    /\ tree.root \in Offsets
    /\ DOMAIN tree.disk \subseteq Offsets
    /\ DOMAIN tree.mem \subseteq DOMAIN tree.disk
    /\ tree.dirty \subseteq DOMAIN tree.mem
    /\ accesses \in 0 .. AccessLimit - 1
    /\ result \in Values \cup {NoValue}
    /\ iter \in [open : BOOLEAN, pos : Seq(Nat)]

\* A key is found on the way its separators point, after any sequence of
\* splits at every level: child i holds the keys above keys[i-1] up to and
\* including keys[i].
Separated ==
    \A o \in Nodes : LET node == View(tree, o) IN
        ~ node.leaf =>
            /\ Len(node.kids) = Len(node.keys) + 1
            /\ \A i \in DOMAIN node.kids : \A k \in KeysBelow(tree, node.kids[i]) :
                /\ i > 1 => node.keys[i - 1] < k
                /\ i <= Len(node.keys) => k <= node.keys[i]

\* Every node, cached or on disk, fits in its block of IndexNode::Size bytes:
\* writing it does not run into the next block.
NodesFit ==
    /\ \A o \in DOMAIN tree.mem : ~ NodeOversized(tree.mem[o])
    /\ \A o \in DOMAIN tree.disk : ~ NodeOversized(tree.disk[o])

\* The blocks in use are the nodes of the tree, each with one parent: a split
\* neither leaks the block it replaces nor shares one between two parents.
NodesOwned ==
    LET nodes == Nodes
    IN  /\ DOMAIN tree.disk = nodes
        /\ \A o, p \in nodes : o # p =>
            ToSet(View(tree, o).kids) \cap ToSet(View(tree, p).kids) = {}

HasEmptyLeaf == \E o \in Nodes : View(tree, o).leaf /\ LeafKeys(View(tree, o)) = {}

CurrentKey == KeyAt(tree, iter.pos)
AtEnd == iter.pos = EndOf(tree, tree.root)

\* After any sequence of splits at every level, keys are found, and nodes do
\* not run into each other.
WellFormed == Separated /\ NodesFit /\ NodesOwned

\* Iterating visits the keys in order and misses none, also when the cache is
\* cleared under the iterator, as long as no leaf has been emptied.
VisitsInOrder ==
    [][LET later == {k \in KeysBelow(tree, tree.root) : k > CurrentKey}
       IN  (Advance /\ ~ HasEmptyLeaf) =>
            IF later = {} THEN AtEnd' ELSE CurrentKey' = Min(later)]_vars

\* Index.h: begin() "points at the first item in the index".
BeginAtFirst ==
    [][LET keys == KeysBelow(tree, tree.root)
       IN  Begin => IF keys = {} THEN AtEnd' ELSE CurrentKey' = Min(keys)]_vars

\* The entries of the index, wherever the nodes are.
Contents ==
    LET nodes == {View(tree, o) : o \in Nodes}
    IN  [k \in UNION {LeafKeys(n) : n \in nodes} |->
            (CHOOSE n \in nodes : k \in LeafKeys(n)).entries[k]]

\* Splits, the cache and the disk are invisible: the index is a map.
Map == INSTANCE IndexMap WITH map <- Contents
ImplementsMap == Map!Spec
==============================================================================
