------------------------------ MODULE BTreeNodes -----------------------------
(***************************************************************************)
(* The nodes of the B-tree of an Index: IndexLeafNode and IndexInnerNode,  *)
(* without their place on disk.  A leaf is a std::map from keys to values; *)
(* an inner node has a sequence of keys and one child more than keys.      *)
(***************************************************************************)
EXTENDS Integers, Sequences, SequencesExt, FiniteSetsExt

CONSTANTS
    LeafCapacity,   \* entries of a leaf that fit in IndexNode::Size bytes
    InnerCapacity   \* keys of an inner node that fit

ASSUME CapacityAssumption ==
    /\ LeafCapacity \in Nat \ {0}
    /\ InnerCapacity \in Nat /\ InnerCapacity > 1

Leaf(entries) == [leaf |-> TRUE, entries |-> entries, keys |-> <<>>, kids |-> <<>>]
Inner(keys, kids) ==
    [leaf |-> FALSE, entries |-> [k \in {} |-> 0], keys |-> keys, kids |-> kids]

LeafKeys(node) == DOMAIN node.entries

\* IsOversized: RealLength() > NewLength(), counted in entries.
NodeOversized(node) ==
    IF node.leaf THEN Cardinality(LeafKeys(node)) > LeafCapacity
                 ELSE Len(node.keys) > InnerCapacity

\* std::lower_bound: how many of the sorted keys are less than key.
GetKeyIndex(keys, key) == Cardinality({i \in DOMAIN keys : keys[i] < key})

\* The place of a key among the sorted keys of a leaf.
Rank(keys, k) == Cardinality({x \in keys : x =< k})

\* The first (size - 1) / 2 keys of a leaf and the one at that position.
LeftKeys(keys) == {k \in keys : Rank(keys, k) =< (Cardinality(keys) - 1) \div 2 + 1}

\* Mutant: the split key is the first key of the right half.
LeafSplitKeyOff(node) ==
    LET keys == LeafKeys(node)
        left == LeftKeys(keys)
    IN  [left  |-> Leaf(Restrict(node.entries, left)),
         right |-> Leaf(Restrict(node.entries, keys \ left)),
         key   |-> Min(keys \ left)]

\* IndexLeafNode::Split: the last key of the left half is the split key.
LeafSplit(node) ==
    LET keys == LeafKeys(node)
        left == LeftKeys(keys)
    IN  [left  |-> Leaf(Restrict(node.entries, left)),
         right |-> Leaf(Restrict(node.entries, keys \ left)),
         key   |-> Max(left)]

\* IndexInnerNode::Split: the middle key moves up, out of both halves.
InnerSplit(node) ==
    LET mid == Len(node.keys) \div 2 + 1
    IN  [left  |-> Inner(SubSeq(node.keys, 1, mid - 1), SubSeq(node.kids, 1, mid)),
         right |-> Inner(SubSeq(node.keys, mid + 1, Len(node.keys)),
                         SubSeq(node.kids, mid + 1, Len(node.kids))),
         key   |-> node.keys[mid]]

Split(node) == IF node.leaf THEN LeafSplit(node) ELSE InnerSplit(node)

\* IndexInnerNode::AfterAdd: child i is replaced by the two halves.
ReplaceChild(node, i, key, left, right) ==
    Inner(InsertAt(node.keys, i, key),
          InsertAt(ReplaceAt(node.kids, i, left), i + 1, right))
==============================================================================
