-------------------------- MODULE BTreeIndexProofs ---------------------------
(***************************************************************************)
(* Proofs about BTreeIndex, for every set of keys and values, every        *)
(* capacity of leaves and inner nodes, every limit of the cache and every  *)
(* number of blocks.  The nodes, read from the cache or from the disk, are *)
(* a tree in which every key belongs to one leaf, the one that its         *)
(* separators lead to; operations keep it one, and change the entries of   *)
(* its leaves as IndexMap does.                                            *)
(***************************************************************************)
EXTENDS BTreeIndex, FiniteSetTheorems, SequenceTheorems, TLAPS, WellFoundedInduction

\* A non-empty set of naturals has a least element.
LEMMA LeastNatural ==
    ASSUME NEW S \in SUBSET Nat, S # {}
    PROVE  \E n \in S : \A m \in S : n =< m
<1> DEFINE R == OpToRel(<, Nat)
<1>1. ASSUME NEW a \in Nat, NEW b \in Nat, a < b
      PROVE  <<a, b>> \in R
  <2>1. R = {ss \in Nat \X Nat : ss[1] < ss[2]}
    BY DEF OpToRel
  <2>. QED
    BY <1>1, <2>1
<1>2. PICK n \in S : \A m \in S : ~ (<<m, n>> \in R)
  <2>. HIDE DEF R
  <2>1. IsWellFoundedOn(R, Nat)
    BY NatLessThanWellFounded DEF R
  <2>. QED
    BY <2>1, WFMin
<1>. HIDE DEF R
<1>3. \A m \in S : n =< m
  <2>. SUFFICES ASSUME NEW m \in S, m < n PROVE FALSE
    OBVIOUS
  <2>1. <<m, n>> \in R
    BY <1>1
  <2>. QED
    BY <1>2, <2>1
<1>. QED
  BY <1>3

------------------------------------------------------------------------------
(* What lies below a node, when every child is lower than its parent. *)

\* The children of each node are nodes, and lower than it.
Falling(kids, h, top) ==
    /\ h \in [DOMAIN kids -> Nat]
    /\ top \in Nat
    /\ \A x \in DOMAIN kids :
        /\ h[x] =< top
        /\ \A c \in kids[x] : c \in DOMAIN kids /\ h[c] < h[x]

BelowOf(kids, f, x) == {x} \cup UNION {f[c] : c \in kids[x]}

\* The recursion of Below ends.
LEMMA BelowExists ==
    ASSUME NEW kids, NEW h, NEW top, Falling(kids, h, top)
    PROVE  \E f : f = [x \in DOMAIN kids |-> BelowOf(kids, f, x)]
<1> DEFINE
    Solves(f, n) == \A x \in DOMAIN kids : h[x] < n => f[x] = BelowOf(kids, f, x)
    Bad == {n \in Nat : ~ \E f : f = [x \in DOMAIN kids |-> f[x]] /\ Solves(f, n)}
<1>1. Bad = {}
  <2>. SUFFICES ASSUME Bad # {} PROVE FALSE
    OBVIOUS
  <2>1. PICK n \in Bad : \A m \in Bad : n =< m
    BY LeastNatural
  <2>2. n # 0
    <3>1. Solves([x \in DOMAIN kids |-> {}], 0)
      BY DEF Falling
    <3>. DEFINE e == [x \in DOMAIN kids |-> {}]
    <3>2. e = [x \in DOMAIN kids |-> e[x]] /\ Solves(e, 0)
      BY <3>1
    <3>. QED
      BY <3>2, <2>1
  <2>3. n - 1 \in Nat /\ n - 1 \notin Bad
    BY <2>1, <2>2
  <2>4. PICK f : f = [x \in DOMAIN kids |-> f[x]] /\ Solves(f, n - 1)
    BY <2>3
  <2>. DEFINE g == [x \in DOMAIN kids |-> BelowOf(kids, f, x)]
  <2>5. ASSUME NEW x \in DOMAIN kids, h[x] < n
        PROVE  g[x] = BelowOf(kids, g, x)
    <3>1. \A c \in kids[x] : g[c] = f[c]
      <4>. TAKE c \in kids[x]
      <4>1. c \in DOMAIN kids /\ h[c] < n - 1
        BY <2>3, <2>5 DEF Falling
      <4>. QED
        BY <4>1, <2>4
    <3>2. BelowOf(kids, g, x) = BelowOf(kids, f, x)
      <4>. HIDE DEF g
      <4>. QED
        BY <3>1 DEF BelowOf
    <3>. QED
      BY <3>2
  <2>6. g = [x \in DOMAIN kids |-> g[x]] /\ Solves(g, n)
    BY <2>5
  <2>7. \E f2 : f2 = [x \in DOMAIN kids |-> f2[x]] /\ Solves(f2, n)
    <3>. HIDE DEF g, Solves
    <3>. QED
      BY <2>6
  <2>. HIDE DEF Solves
  <2>. QED
    BY <2>1, <2>7
<1>2. top + 1 \in Nat /\ top + 1 \notin Bad
  BY <1>1 DEF Falling
<1>3. PICK f : f = [x \in DOMAIN kids |-> f[x]] /\ Solves(f, top + 1)
  BY <1>2
<1>4. \A x \in DOMAIN kids : h[x] < top + 1
  BY DEF Falling
<1>5. \A x \in DOMAIN kids : f[x] = BelowOf(kids, f, x)
  BY <1>3, <1>4
<1>. QED
  BY <1>3, <1>5

\* What Below says of each node.
LEMMA BelowIs ==
    ASSUME NEW kids, NEW h, NEW top, Falling(kids, h, top), NEW x \in DOMAIN kids
    PROVE  Below(kids, x) = {x} \cup UNION {Below(kids, c) : c \in kids[x]}
<1> DEFINE b == CHOOSE f : f = [y \in DOMAIN kids |-> BelowOf(kids, f, y)]
<1>1. b = [y \in DOMAIN kids |-> BelowOf(kids, b, y)]
  BY BelowExists
<1>2. \A y : Below(kids, y) = b[y]
  BY DEF Below, BelowOf
<1>. HIDE DEF b
<1>3. b[x] = BelowOf(kids, b, x)
  BY <1>1
<1>4. {Below(kids, c) : c \in kids[x]} = {b[c] : c \in kids[x]}
  BY <1>2
<1>. QED
  BY <1>2, <1>3, <1>4 DEF BelowOf

\* A node is below itself, and so are its children and what is below these.
LEMMA BelowCloses ==
    ASSUME NEW kids, NEW h, NEW top, Falling(kids, h, top), NEW x \in DOMAIN kids
    PROVE  /\ x \in Below(kids, x)
           /\ \A c \in kids[x] : Below(kids, c) \subseteq Below(kids, x)
BY BelowIs

\* Below is the least such set.
LEMMA BelowLeast ==
    ASSUME NEW kids, NEW h, NEW top, Falling(kids, h, top), NEW x \in DOMAIN kids,
           NEW S, x \in S, \A y \in S \cap DOMAIN kids : kids[y] \subseteq S
    PROVE  Below(kids, x) \subseteq S
<1> DEFINE Bad == {n \in Nat : \E y \in S \cap DOMAIN kids :
                                    h[y] = n /\ ~ (Below(kids, y) \subseteq S)}
<1>1. Bad = {}
  <2>. SUFFICES ASSUME Bad # {} PROVE FALSE
    OBVIOUS
  <2>1. PICK n \in Bad : \A m \in Bad : n =< m
    BY LeastNatural
  <2>2. PICK y \in S \cap DOMAIN kids : h[y] = n /\ ~ (Below(kids, y) \subseteq S)
    BY <2>1
  <2>3. Below(kids, y) = {y} \cup UNION {Below(kids, c) : c \in kids[y]}
    BY BelowIs
  <2>4. ASSUME NEW c \in kids[y] PROVE Below(kids, c) \subseteq S
    <3>1. c \in S \cap DOMAIN kids /\ h[c] < n /\ h[c] \in Nat
      BY <2>2 DEF Falling
    <3>. QED
      BY <3>1, <2>1
  <2>. QED
    BY <2>2, <2>3, <2>4
<1>. QED
  BY <1>1 DEF Falling

\* What is below a node is a node.
LEMMA BelowNodes ==
    ASSUME NEW kids, NEW h, NEW top, Falling(kids, h, top), NEW x \in DOMAIN kids
    PROVE  Below(kids, x) \subseteq DOMAIN kids
<1>1. \A y \in DOMAIN kids \cap DOMAIN kids : kids[y] \subseteq DOMAIN kids
  BY DEF Falling
<1>. QED
  BY <1>1, BelowLeast

\* What is below something below a node is below the node.
LEMMA BelowTransitive ==
    ASSUME NEW kids, NEW h, NEW top, Falling(kids, h, top), NEW x \in DOMAIN kids,
           NEW y \in Below(kids, x)
    PROVE  y \in DOMAIN kids /\ Below(kids, y) \subseteq Below(kids, x)
<1> DEFINE S == {z \in Below(kids, x) : Below(kids, z) \subseteq Below(kids, x)}
<1>0. Below(kids, x) \subseteq DOMAIN kids
  BY BelowNodes
<1>1. x \in S
  BY BelowCloses
<1>2. ASSUME NEW z \in S \cap DOMAIN kids, NEW c \in kids[z] PROVE c \in S
  <2>1. c \in DOMAIN kids
    BY DEF Falling
  <2>2. c \in Below(kids, c) /\ Below(kids, c) \subseteq Below(kids, z)
    BY <2>1, BelowCloses
  <2>. QED
    BY <2>2
<1>3. Below(kids, x) \subseteq S
  <2>. HIDE DEF S
  <2>. QED
    BY <1>1, <1>2, BelowLeast
<1>. QED
  BY <1>0, <1>3

\* What is below a node is the node itself or lower than it.
LEMMA BelowLower ==
    ASSUME NEW kids, NEW h, NEW top, Falling(kids, h, top), NEW x \in DOMAIN kids
    PROVE  \A y \in Below(kids, x) : y = x \/ h[y] < h[x]
<1> DEFINE S == {y \in DOMAIN kids : y = x \/ h[y] < h[x]}
<1>1. \A y \in S \cap DOMAIN kids : kids[y] \subseteq S
  BY DEF Falling
<1>2. x \in S
  OBVIOUS
<1>3. Below(kids, x) \subseteq S
  <2>. HIDE DEF S
  <2>. QED
    BY <1>1, <1>2, BelowLeast
<1>. QED
  BY <1>3

------------------------------------------------------------------------------
(* Sequences of keys and of children. *)

Increasing(s) == \A i, j \in DOMAIN s : i < j => s[i] < s[j]

\* t is s with e put into it, or in the place of what was there.
Inserted(S, s, i, e, t) ==
    /\ t \in Seq(S) /\ Len(t) = Len(s) + 1 /\ t[i] = e
    /\ \A j \in 1 .. i - 1 : t[j] = s[j]
    /\ \A j \in i + 1 .. Len(s) + 1 : t[j] = s[j - 1]

Replaced(S, s, i, e, t) ==
    /\ t \in Seq(S) /\ Len(t) = Len(s) /\ t[i] = e
    /\ \A j \in 1 .. Len(s) : j # i => t[j] = s[j]

\* A sequence with an element put into it.
LEMMA InsertAtIs ==
    ASSUME NEW S, NEW s \in Seq(S), NEW i \in 1 .. Len(s) + 1, NEW e \in S
    PROVE  Inserted(S, s, i, e, InsertAt(s, i, e))
<1>. Len(s) \in Nat /\ \A j \in 1 .. Len(s) : s[j] \in S
  BY LenProperties, ElementOfSeq
<1>1. PICK a : a = SubSeq(s, 1, i - 1)
  OBVIOUS
<1>2. PICK b : b = SubSeq(s, i, Len(s))
  OBVIOUS
<1>3. PICK m : m = <<e>>
  OBVIOUS
<1>4. a \in Seq(S) /\ Len(a) = i - 1 /\ \A j \in 1 .. i - 1 : a[j] = s[j]
  BY <1>1, SubSeqProperties
<1>5. b \in Seq(S) /\ Len(b) = Len(s) - i + 1 /\ \A j \in 1 .. Len(s) - i + 1 : b[j] = s[i + j - 1]
  BY <1>2, SubSeqProperties
<1>6. m \in Seq(S) /\ Len(m) = 1 /\ m[1] = e
  BY <1>3
<1>7. PICK am : am = a \o m
  OBVIOUS
<1>8. am \in Seq(S) /\ Len(am) = i /\ \A j \in 1 .. i : am[j] = IF j < i THEN s[j] ELSE e
  <2>1. /\ am \in Seq(S) /\ Len(am) = Len(a) + Len(m)
        /\ \A j \in 1 .. Len(a) + Len(m) : am[j] = IF j =< Len(a) THEN a[j] ELSE m[j - Len(a)]
    BY <1>7, <1>4, <1>6, ConcatProperties
  <2>2. Len(a) + Len(m) = i
    BY <1>4, <1>6
  <2>3. \A j \in 1 .. i : j =< Len(a) <=> j < i
    BY <1>4
  <2>4. ASSUME NEW j \in 1 .. i, j < i PROVE am[j] = s[j]
    <3>1. am[j] = a[j]
      BY <2>1, <2>2, <2>3, <2>4
    <3>. QED
      BY <3>1, <2>4, <1>4
  <2>5. am[i] = m[i - (i - 1)] /\ i - (i - 1) = 1
    <3>1. i \in 1 .. i /\ ~ (i =< Len(a)) /\ i - Len(a) = 1
      BY <1>4
    <3>. QED
      BY <2>1, <2>2, <3>1, <1>4
  <2>. QED
    BY <2>1, <2>2, <2>4, <2>5, <1>6
<1>9. PICK r : r = am \o b
  OBVIOUS
<1>10. r \in Seq(S) /\ Len(r) = Len(s) + 1
  <2>1. r \in Seq(S) /\ Len(r) = Len(am) + Len(b)
    BY <1>9, <1>8, <1>5, ConcatProperties
  <2>. QED
    BY <2>1, <1>8, <1>5
<1>11. \A j \in 1 .. Len(s) + 1 : r[j] = IF j =< i THEN am[j] ELSE b[j - i]
  BY <1>9, <1>8, <1>5, ConcatProperties
<1>12. \A j \in 1 .. Len(s) + 1 : r[j] = IF j < i THEN s[j] ELSE IF j = i THEN e ELSE s[j - 1]
  BY <1>11, <1>8, <1>5
<1>13. InsertAt(s, i, e) = r
  BY <1>9, <1>7, <1>1, <1>2, <1>3 DEF InsertAt
<1>14. r[i] = e
  BY <1>12
<1>15. \A j \in 1 .. i - 1 : r[j] = s[j]
  BY <1>12
<1>16. \A j \in i + 1 .. Len(s) + 1 : r[j] = s[j - 1]
  BY <1>12
<1>. QED
  BY <1>10, <1>13, <1>14, <1>15, <1>16 DEF Inserted

\* A sequence with an element replaced.
LEMMA ReplaceAtIs ==
    ASSUME NEW S, NEW s \in Seq(S), NEW i \in 1 .. Len(s), NEW e \in S
    PROVE  Replaced(S, s, i, e, ReplaceAt(s, i, e))
<1>1. PICK t : t = ReplaceAt(s, i, e)
  OBVIOUS
<1>2. t \in Seq(S) /\ Len(t) = Len(s) /\ \A j \in 1 .. Len(s) : t[j] = IF j = i THEN e ELSE s[j]
  BY <1>1 DEF ReplaceAt
<1>. QED
  BY <1>1, <1>2 DEF Replaced

\* Which children lie before and after a key.
LEMMA KeyIndexIs ==
    ASSUME NEW s \in Seq(Nat), Increasing(s), NEW k \in Nat
    PROVE  /\ GetKeyIndex(s, k) \in 0 .. Len(s)
           /\ \A i \in 1 .. Len(s) : s[i] < k <=> i =< GetKeyIndex(s, k)
<1>. Len(s) \in Nat /\ DOMAIN s = 1 .. Len(s) /\ \A i \in 1 .. Len(s) : s[i] \in Nat
  BY LenProperties, ElementOfSeq
<1>1. PICK below : below = {i \in 1 .. Len(s) : s[i] < k}
  OBVIOUS
<1>2. PICK above : above = {i \in 1 .. Len(s) : ~ (s[i] < k)}
  OBVIOUS
<1>3. PICK n : n \in 0 .. Len(s) /\ below = 1 .. n
  <2>1. CASE above = {}
    BY <2>1, <1>1, <1>2
  <2>2. CASE above # {}
    <3>1. PICK m \in above : \A i \in above : m =< i
      <4>1. above \in SUBSET Nat
        BY <1>2
      <4>. QED
        BY <4>1, <2>2, LeastNatural
    <3>2. m \in 1 .. Len(s)
      BY <3>1, <1>2
    <3>3. \A i \in 1 .. Len(s) : i >= m => ~ (s[i] < k)
      <4>. TAKE i \in 1 .. Len(s)
      <4>1. ~ (s[m] < k) /\ s[m] \in Nat /\ s[i] \in Nat
        BY <3>1, <1>2
      <4>2. i > m => s[m] < s[i]
        BY <3>2 DEF Increasing
      <4>. QED
        BY <4>1, <4>2, <3>2
    <3>4. \A i \in 1 .. Len(s) : i \in below <=> i =< m - 1
      <4>. TAKE i \in 1 .. Len(s)
      <4>1. i \in below => ~ i >= m
        BY <3>3, <1>1
      <4>2. i \notin below => i \in above
        BY <1>1, <1>2
      <4>3. i \in above => m =< i
        BY <3>1
      <4>. QED
        BY <4>1, <4>2, <4>3, <3>2
    <3>5. below = 1 .. m - 1
      BY <3>4, <3>2, <1>1
    <3>. QED
      BY <3>5, <3>2
  <2>. QED
    BY <2>1, <2>2
<1>4. GetKeyIndex(s, k) = Cardinality(below)
  BY <1>1 DEF GetKeyIndex
<1>5. Cardinality(1 .. n) = n
  BY <1>3, FS_Interval
<1>6. GetKeyIndex(s, k) = n
  BY <1>3, <1>4, <1>5
<1>7. \A i \in 1 .. Len(s) : s[i] < k <=> i \in below
  BY <1>1
<1>. QED
  BY <1>3, <1>6, <1>7

\* A child is the one for a key if the separators around it say so.
LEMMA KeyIndexAt ==
    ASSUME NEW s \in Seq(Nat), Increasing(s), NEW k \in Nat, NEW j \in 0 .. Len(s)
    PROVE  GetKeyIndex(s, k) = j <=> /\ j > 0 => s[j] < k
                                     /\ j < Len(s) => k =< s[j + 1]
<1>. Len(s) \in Nat /\ DOMAIN s = 1 .. Len(s) /\ \A i \in 1 .. Len(s) : s[i] \in Nat
  BY LenProperties, ElementOfSeq
<1>1. PICK g : g = GetKeyIndex(s, k)
  OBVIOUS
<1>2. g \in 0 .. Len(s) /\ \A i \in 1 .. Len(s) : s[i] < k <=> i =< g
  BY <1>1, KeyIndexIs
<1>3. ASSUME g = j PROVE (j > 0 => s[j] < k) /\ (j < Len(s) => k =< s[j + 1])
  BY <1>2, <1>3
<1>4. ASSUME j > 0 => s[j] < k, j < Len(s) => k =< s[j + 1] PROVE g = j
  <2>1. ~ g < j
    BY <1>2, <1>4
  <2>2. ~ g > j
    <3>. SUFFICES ASSUME g > j PROVE FALSE
      OBVIOUS
    <3>1. j + 1 \in 1 .. Len(s) /\ j + 1 =< g
      BY <1>2
    <3>2. s[j + 1] < k /\ k =< s[j + 1] /\ s[j + 1] \in Nat
      BY <3>1, <1>2, <1>4
    <3>. QED
      BY <3>2
  <2>. QED
    BY <2>1, <2>2, <1>2
<1>. QED
  BY <1>1, <1>3, <1>4

------------------------------------------------------------------------------
(* Nodes. *)

IsMap(e) ==
    /\ e = [k \in DOMAIN e |-> e[k]]
    /\ DOMAIN e \subseteq Keys /\ IsFiniteSet(DOMAIN e)
    /\ \A k \in DOMAIN e : e[k] \in Values

IsLeaf(n) == n = Leaf(n.entries) /\ IsMap(n.entries)

IsInner(n) ==
    /\ n = Inner(n.keys, n.kids)
    /\ n.keys \in Seq(Keys) /\ Increasing(n.keys)
    /\ n.kids \in Seq(Offsets) /\ Len(n.kids) = Len(n.keys) + 1

IsNode(n) == IsLeaf(n) \/ IsInner(n)

\* The parts of a leaf.
LEMMA LeafIs ==
    ASSUME NEW e
    PROVE  /\ Leaf(e).leaf = TRUE /\ Leaf(e).entries = e
           /\ Leaf(e).keys = <<>> /\ Leaf(e).kids = <<>> /\ LeafKeys(Leaf(e)) = DOMAIN e
BY DEF Leaf, LeafKeys

\* The parts of an inner node.
LEMMA InnerIs ==
    ASSUME NEW keys, NEW kids
    PROVE  /\ Inner(keys, kids).leaf = FALSE /\ Inner(keys, kids).keys = keys
           /\ Inner(keys, kids).kids = kids /\ LeafKeys(Inner(keys, kids)) = {}
BY DEF Inner, LeafKeys

\* A node is a leaf or an inner node, and says which.
LEMMA NodeIs ==
    ASSUME NEW n, IsNode(n)
    PROVE  /\ n.leaf \in BOOLEAN
           /\ n.leaf <=> IsLeaf(n)
           /\ ~ n.leaf <=> IsInner(n)
           /\ n.leaf => n.kids = <<>>
           /\ ~ n.leaf => LeafKeys(n) = {}
<1>1. IsLeaf(n) => n.leaf = TRUE /\ n.kids = <<>>
  BY LeafIs DEF IsLeaf
<1>2. IsInner(n) => n.leaf = FALSE /\ LeafKeys(n) = {}
  <2>1. PICK keys, kids : keys = n.keys /\ kids = n.kids
    OBVIOUS
  <2>2. IsInner(n) => n = Inner(keys, kids)
    BY <2>1 DEF IsInner
  <2>3. Inner(keys, kids).leaf = FALSE /\ LeafKeys(Inner(keys, kids)) = {}
    BY DEF Inner, LeafKeys
  <2>. QED
    BY <2>2, <2>3
<1>3. CASE IsLeaf(n)
  <2>1. n.leaf = TRUE /\ ~ IsInner(n)
    BY <1>1, <1>2, <1>3
  <2>. QED
    BY <2>1, <1>1, <1>3
<1>4. CASE IsInner(n)
  <2>1. n.leaf = FALSE /\ ~ IsLeaf(n)
    BY <1>1, <1>2, <1>4
  <2>. QED
    BY <2>1, <1>2, <1>4
<1>. QED
  BY <1>3, <1>4 DEF IsNode

\* A larger key has a larger rank.
LEMMA RankGrows ==
    ASSUME NEW S \in SUBSET Nat, IsFiniteSet(S), NEW x \in S, NEW y \in S, x < y
    PROVE  /\ Rank(S, x) \in Nat /\ Rank(S, y) \in Nat /\ Rank(S, x) < Rank(S, y)
           /\ Rank(S, y) =< Cardinality(S) /\ Cardinality(S) \in Nat
<1>1. PICK a : a = {z \in S : z =< x}
  OBVIOUS
<1>2. PICK b : b = {z \in S : z =< y}
  OBVIOUS
<1>3. a \in SUBSET b /\ b \in SUBSET S /\ a # b
  <2>1. y \in b /\ y \notin a
    BY <1>1, <1>2
  <2>2. \A z \in S : z =< x => z =< y
    OBVIOUS
  <2>. QED
    BY <2>1, <2>2, <1>1, <1>2
<1>4. IsFiniteSet(b) /\ Cardinality(b) =< Cardinality(S)
  BY <1>3, FS_Subset
<1>5. IsFiniteSet(a) /\ Cardinality(a) =< Cardinality(b) /\ Cardinality(a) # Cardinality(b)
  BY <1>3, <1>4, FS_Subset
<1>6. Cardinality(a) \in Nat /\ Cardinality(b) \in Nat /\ Cardinality(S) \in Nat
  BY <1>4, <1>5, FS_CardinalityType
<1>7. Rank(S, x) = Cardinality(a) /\ Rank(S, y) = Cardinality(b)
  BY <1>1, <1>2 DEF Rank
<1>. QED
  BY <1>4, <1>5, <1>6, <1>7

\* A rank is a number up to that of the keys.
LEMMA RankType ==
    ASSUME NEW S \in SUBSET Nat, IsFiniteSet(S), NEW x \in S
    PROVE  /\ Rank(S, x) \in Nat /\ Cardinality(S) \in Nat
           /\ Rank(S, x) =< Cardinality(S)
<1>1. {z \in S : z =< x} \in SUBSET S
  OBVIOUS
<1>. QED
  BY <1>1, FS_Subset, FS_CardinalityType DEF Rank

\* A finite set of keys has a last one, whose rank is the number of keys.
LEMMA GreatestKey ==
    ASSUME NEW S \in SUBSET Nat, IsFiniteSet(S), S # {}
    PROVE  /\ Max(S) \in S
           /\ \A x \in S : x =< Max(S)
<1>1. PICK d : d = {Cardinality(S) - Rank(S, x) : x \in S}
  OBVIOUS
<1>2. d \in SUBSET Nat /\ d # {}
  <2>1. \A x \in S : Cardinality(S) - Rank(S, x) \in Nat
    BY RankType
  <2>. QED
    BY <2>1, <1>1
<1>3. PICK m \in d : \A n \in d : m =< n
  BY <1>2, LeastNatural
<1>4. PICK k \in S : m = Cardinality(S) - Rank(S, k)
  BY <1>1, <1>3
<1>5. \A x \in S : x =< k
  <2>. SUFFICES ASSUME NEW x \in S, k < x PROVE FALSE
    OBVIOUS
  <2>1. Rank(S, k) < Rank(S, x) /\ Rank(S, k) \in Nat /\ Rank(S, x) \in Nat
        /\ Cardinality(S) \in Nat
    BY RankGrows
  <2>2. m =< Cardinality(S) - Rank(S, x)
    BY <1>1, <1>3
  <2>. QED
    BY <2>1, <2>2, <1>4
<1>. QED
  BY <1>5 DEF Max

\* The left half of a leaf is the keys up to the last of them; neither half
\* is empty.
LEMMA LeftKeysIs ==
    ASSUME NEW S \in SUBSET Nat, IsFiniteSet(S), Cardinality(S) > 1
    PROVE  /\ Max(LeftKeys(S)) \in S
           /\ LeftKeys(S) = {k \in S : k =< Max(LeftKeys(S))}
           /\ \E k \in S : k > Max(LeftKeys(S))
<1>0. Cardinality(S) \in Nat /\ S # {}
  BY FS_CardinalityType, FS_EmptySet
<1>1. PICK mid : mid = (Cardinality(S) - 1) \div 2 + 1
  OBVIOUS
<1>2. mid \in Nat /\ 1 =< mid /\ mid < Cardinality(S)
  BY <1>0, <1>1
<1>3. PICK left : left = LeftKeys(S)
  OBVIOUS
<1>4. left = {k \in S : Rank(S, k) =< mid}
  BY <1>1, <1>3 DEF LeftKeys
<1>5. left # {}
  <2>1. PICK k \in S : \A x \in S : k =< x
    BY <1>0, LeastNatural
  <2>2. {x \in S : x =< k} = {k}
    <3>1. \A x \in S : x =< k <=> x = k
      BY <2>1
    <3>. QED
      BY <3>1
  <2>3. Rank(S, k) = 1
    <3>1. Cardinality({k}) = 1
      BY FS_Singleton
    <3>. QED
      BY <2>2, <3>1 DEF Rank
  <2>. QED
    BY <2>3, <1>2, <1>4
<1>6. left \in SUBSET Nat /\ left \in SUBSET S /\ IsFiniteSet(left)
  <2>1. left \in SUBSET S
    BY <1>4
  <2>. QED
    BY <2>1, FS_Subset
<1>7. PICK m : m = Max(left)
  OBVIOUS
<1>8. m \in left /\ \A x \in left : x =< m
  BY <1>5, <1>6, <1>7, GreatestKey
<1>9. ASSUME NEW k \in S, k =< m PROVE k \in left
  <2>1. CASE k = m
    BY <2>1, <1>8
  <2>2. CASE k < m
    <3>1. Rank(S, k) < Rank(S, m) /\ Rank(S, m) =< mid /\ Rank(S, k) \in Nat /\ Rank(S, m) \in Nat
      BY <2>2, <1>8, <1>6, <1>4, RankGrows
    <3>. QED
      BY <3>1, <1>2, <1>4
  <2>. QED
    BY <2>1, <2>2, <1>8, <1>6, <1>9
<1>10. left = {k \in S : k =< m}
  BY <1>6, <1>8, <1>9
<1>11. \E k \in S : k > m
  <2>. SUFFICES ASSUME \A k \in S : k =< m PROVE FALSE
    BY <1>8, <1>6
  <2>1. {x \in S : x =< m} = S
    OBVIOUS
  <2>2. Rank(S, m) = Cardinality(S)
    BY <2>1 DEF Rank
  <2>. QED
    BY <2>2, <1>8, <1>4, <1>2, <1>0
<1>. QED
  BY <1>3, <1>7, <1>8, <1>6, <1>10, <1>11

------------------------------------------------------------------------------
(* Splits of a node. *)

\* A node has at most one entry or key too many.
NearlyFits(n) ==
    IF n.leaf THEN Cardinality(LeafKeys(n)) =< LeafCapacity + 1
              ELSE Len(n.keys) =< InnerCapacity + 1

\* Part of a map is a map.
LEMMA RestrictIsMap ==
    ASSUME NEW e, IsMap(e), NEW S \in SUBSET DOMAIN e
    PROVE  /\ IsMap(Restrict(e, S)) /\ DOMAIN Restrict(e, S) = S
           /\ \A k \in S : Restrict(e, S)[k] = e[k]
<1>1. PICK r : r = Restrict(e, S)
  OBVIOUS
<1>2. r = [k \in S |-> e[k]]
  BY <1>1 DEF Restrict
<1>3. IsFiniteSet(S)
  BY FS_Subset DEF IsMap
<1>4. IsMap(r) /\ DOMAIN r = S /\ \A k \in S : r[k] = e[k]
  BY <1>2, <1>3 DEF IsMap
<1>. QED
  BY <1>1, <1>4

\* A leaf of a map.
LEMMA LeafOfMap ==
    ASSUME NEW e, IsMap(e)
    PROVE  IsLeaf(Leaf(e))
<1>1. Leaf(e).entries = e
  BY LeafIs
<1>. QED
  BY <1>1 DEF IsLeaf

\* IndexLeafNode::Split keeps every entry, in the half on its side of the
\* split key.
LEMMA LeafSplitIs ==
    ASSUME NEW n, IsLeaf(n), Cardinality(LeafKeys(n)) > 1
    PROVE  LET s == LeafSplit(n) IN
           /\ IsLeaf(s.left) /\ IsLeaf(s.right) /\ s.key \in LeafKeys(n)
           /\ LeafKeys(s.left) = {k \in LeafKeys(n) : k =< s.key}
           /\ LeafKeys(s.right) = {k \in LeafKeys(n) : k > s.key}
           /\ \E k \in LeafKeys(n) : k > s.key
           /\ \A k \in LeafKeys(s.left) : s.left.entries[k] = n.entries[k]
           /\ \A k \in LeafKeys(s.right) : s.right.entries[k] = n.entries[k]
           /\ NearlyFits(n) => ~ NodeOversized(s.left) /\ ~ NodeOversized(s.right)
<1>1. PICK e : e = n.entries
  OBVIOUS
<1>2. IsMap(e) /\ n = Leaf(e)
  BY <1>1 DEF IsLeaf
<1>3. PICK S : S = LeafKeys(n)
  OBVIOUS
<1>4. S = DOMAIN e /\ S \in SUBSET Nat /\ IsFiniteSet(S) /\ n.leaf = TRUE
  <2>1. LeafKeys(n) = DOMAIN e /\ n.leaf = TRUE
    BY <1>2, LeafIs
  <2>. QED
    BY <2>1, <1>2, <1>3, IndexAssumption DEF IsMap
<1>5. PICK L : L = LeftKeys(S)
  OBVIOUS
<1>6. PICK m : m = Max(L)
  OBVIOUS
<1>7. m \in S /\ L = {k \in S : k =< m} /\ \E k \in S : k > m
  BY <1>3, <1>4, <1>5, <1>6, LeftKeysIs
<1>8. PICK R : R = S \ L
  OBVIOUS
<1>9. R = {k \in S : k > m}
  BY <1>7, <1>8, <1>4
<1>10. L \in SUBSET DOMAIN e /\ R \in SUBSET DOMAIN e
  BY <1>7, <1>8, <1>4
<1>11. PICK le : le = Restrict(e, L)
  OBVIOUS
<1>12. PICK re : re = Restrict(e, R)
  OBVIOUS
<1>13. IsMap(le) /\ DOMAIN le = L /\ \A k \in L : le[k] = e[k]
  BY <1>2, <1>10, <1>11, RestrictIsMap
<1>14. IsMap(re) /\ DOMAIN re = R /\ \A k \in R : re[k] = e[k]
  BY <1>2, <1>10, <1>12, RestrictIsMap
<1>15. PICK left : left = Leaf(le)
  OBVIOUS
<1>16. PICK right : right = Leaf(re)
  OBVIOUS
<1>17. IsLeaf(left) /\ left.entries = le /\ left.leaf = TRUE /\ LeafKeys(left) = L
  BY <1>13, <1>15, LeafOfMap, LeafIs
<1>18. IsLeaf(right) /\ right.entries = re /\ right.leaf = TRUE /\ LeafKeys(right) = R
  BY <1>14, <1>16, LeafOfMap, LeafIs
<1>19. LeafSplit(n) = [left |-> left, right |-> right, key |-> m]
  BY <1>1, <1>3, <1>5, <1>6, <1>8, <1>11, <1>12, <1>15, <1>16 DEF LeafSplit
<1>20. ASSUME NearlyFits(n)
       PROVE  ~ NodeOversized(left) /\ ~ NodeOversized(right)
  <2>1. Cardinality(S) =< LeafCapacity + 1 /\ Cardinality(S) \in Nat
    BY <1>20, <1>3, <1>4, FS_CardinalityType DEF NearlyFits
  <2>2. L # S /\ R # S
    BY <1>7, <1>9, <1>4
  <2>3. IsFiniteSet(L) /\ Cardinality(L) =< Cardinality(S) /\ Cardinality(L) # Cardinality(S)
    BY <2>2, <1>4, <1>10, FS_Subset
  <2>4. IsFiniteSet(R) /\ Cardinality(R) =< Cardinality(S) /\ Cardinality(R) # Cardinality(S)
    BY <2>2, <1>4, <1>10, FS_Subset
  <2>5. Cardinality(L) \in Nat /\ Cardinality(R) \in Nat /\ LeafCapacity \in Nat
    BY <2>3, <2>4, FS_CardinalityType, CapacityAssumption
  <2>6. Cardinality(L) =< LeafCapacity /\ Cardinality(R) =< LeafCapacity
    BY <2>1, <2>3, <2>4, <2>5
  <2>. QED
    BY <2>5, <2>6, <1>17, <1>18 DEF NodeOversized
<1>21. PICK s : s = LeafSplit(n)
  OBVIOUS
<1>22. s.left = left /\ s.right = right /\ s.key = m
  BY <1>19, <1>21
<1>. QED
  BY <1>21, <1>22, <1>1, <1>3, <1>4, <1>7, <1>9, <1>13, <1>14, <1>17, <1>18, <1>20

\* An inner node of keys and children.
LEMMA InnerOf ==
    ASSUME NEW keys \in Seq(Keys), Increasing(keys), NEW kids \in Seq(Offsets),
           Len(kids) = Len(keys) + 1
    PROVE  IsInner(Inner(keys, kids))
<1>1. PICK n : n = Inner(keys, kids)
  OBVIOUS
<1>2. n.keys = keys /\ n.kids = kids
  BY <1>1 DEF Inner
<1>. QED
  BY <1>1, <1>2 DEF IsInner

\* A part of an increasing sequence is increasing.
LEMMA SubSeqIncreases ==
    ASSUME NEW s \in Seq(Keys), Increasing(s), NEW a \in 1 .. Len(s) + 1, NEW b \in 0 .. Len(s),
           a =< b + 1
    PROVE  /\ SubSeq(s, a, b) \in Seq(Keys) /\ Len(SubSeq(s, a, b)) = b - a + 1
           /\ \A i \in 1 .. b - a + 1 : SubSeq(s, a, b)[i] = s[a + i - 1]
           /\ Increasing(SubSeq(s, a, b))
<1>. Len(s) \in Nat /\ DOMAIN s = 1 .. Len(s) /\ \A j \in 1 .. Len(s) : s[j] \in Keys
  BY LenProperties, ElementOfSeq
<1>1. PICK t : t = SubSeq(s, a, b)
  OBVIOUS
<1>2. \A i \in a .. b : s[i] \in Keys
  OBVIOUS
<1>3. t \in Seq(Keys) /\ Len(t) = IF a =< b THEN b - a + 1 ELSE 0
  BY <1>1, <1>2, SubSeqProperties
<1>4. \A i \in 1 .. b - a + 1 : t[i] = s[a + i - 1]
  BY <1>1, <1>2, SubSeqProperties
<1>5. Len(t) = b - a + 1 /\ DOMAIN t = 1 .. b - a + 1
  BY <1>3, LenProperties
<1>6. Increasing(t)
  <2>. SUFFICES ASSUME NEW i \in 1 .. b - a + 1, NEW j \in 1 .. b - a + 1, i < j
                PROVE  t[i] < t[j]
    BY <1>5 DEF Increasing
  <2>1. a + i - 1 \in 1 .. Len(s) /\ a + j - 1 \in 1 .. Len(s) /\ a + i - 1 < a + j - 1
    OBVIOUS
  <2>2. s[a + i - 1] < s[a + j - 1]
    BY <2>1 DEF Increasing
  <2>. QED
    BY <2>2, <1>4
<1>. QED
  BY <1>1, <1>3, <1>4, <1>5, <1>6

\* IndexInnerNode::Split: the keys on either side of the one that moves up,
\* with their children.
LEMMA InnerSplitIs ==
    ASSUME NEW n, IsInner(n), Len(n.keys) > InnerCapacity
    PROVE  LET s == InnerSplit(n) IN
           \E mid \in 2 .. Len(n.keys) - 1 :
            /\ s.key = n.keys[mid]
            /\ IsInner(s.left) /\ IsInner(s.right)
            /\ Len(s.left.keys) = mid - 1 /\ Len(s.right.keys) = Len(n.keys) - mid
            /\ \A i \in 1 .. mid - 1 : s.left.keys[i] = n.keys[i]
            /\ \A i \in 1 .. mid : s.left.kids[i] = n.kids[i]
            /\ \A i \in 1 .. Len(n.keys) - mid : s.right.keys[i] = n.keys[mid + i]
            /\ \A i \in 1 .. Len(n.keys) - mid + 1 : s.right.kids[i] = n.kids[mid + i]
            /\ NearlyFits(n) => ~ NodeOversized(s.left) /\ ~ NodeOversized(s.right)
<1>1. PICK keys, kids : keys = n.keys /\ kids = n.kids
  OBVIOUS
<1>2. PICK len : len = Len(keys)
  OBVIOUS
<1>3. /\ keys \in Seq(Keys) /\ Increasing(keys) /\ kids \in Seq(Offsets) /\ Len(kids) = len + 1
      /\ len \in Nat /\ DOMAIN kids = 1 .. len + 1 /\ \A i \in 1 .. len + 1 : kids[i] \in Offsets
      /\ len > 2 /\ InnerCapacity \in Nat
  <2>1. /\ keys \in Seq(Keys) /\ Increasing(keys) /\ kids \in Seq(Offsets) /\ Len(kids) = len + 1
    BY <1>1, <1>2 DEF IsInner
  <2>2. len \in Nat
    BY <2>1, <1>2, LenProperties
  <2>3. DOMAIN kids = 1 .. len + 1 /\ \A i \in 1 .. len + 1 : kids[i] \in Offsets
    BY <2>1, LenProperties, ElementOfSeq
  <2>4. len > InnerCapacity /\ InnerCapacity > 1 /\ InnerCapacity \in Nat
    BY <1>1, <1>2, CapacityAssumption
  <2>5. len > 2
    BY <2>2, <2>4
  <2>. QED
    BY <2>1, <2>2, <2>3, <2>4, <2>5
<1>4. PICK mid : mid = len \div 2 + 1
  OBVIOUS
<1>6. mid \in 2 .. len - 1
  BY <1>3, <1>4
<1>7. PICK lkeys : lkeys = SubSeq(keys, 1, mid - 1)
  OBVIOUS
<1>8. PICK rkeys : rkeys = SubSeq(keys, mid + 1, len)
  OBVIOUS
<1>9. PICK lkids : lkids = SubSeq(kids, 1, mid)
  OBVIOUS
<1>10. PICK rkids : rkids = SubSeq(kids, mid + 1, len + 1)
  OBVIOUS
<1>11. /\ lkeys \in Seq(Keys) /\ Len(lkeys) = mid - 1 /\ Increasing(lkeys)
       /\ \A i \in 1 .. mid - 1 : lkeys[i] = keys[i]
  <2>1. 1 \in 1 .. Len(keys) + 1 /\ mid - 1 \in 0 .. Len(keys) /\ 1 =< (mid - 1) + 1
        /\ (mid - 1) - 1 + 1 = mid - 1
    BY <1>2, <1>3, <1>6
  <2>2. /\ lkeys \in Seq(Keys) /\ Len(lkeys) = (mid - 1) - 1 + 1 /\ Increasing(lkeys)
        /\ \A i \in 1 .. (mid - 1) - 1 + 1 : lkeys[i] = keys[1 + i - 1]
    BY <2>1, <1>3, <1>7, SubSeqIncreases
  <2>3. \A i \in 1 .. mid - 1 : 1 + i - 1 = i
    BY <1>6
  <2>. QED
    BY <2>1, <2>2, <2>3
<1>12. /\ rkeys \in Seq(Keys) /\ Len(rkeys) = len - mid /\ Increasing(rkeys)
       /\ \A i \in 1 .. len - mid : rkeys[i] = keys[mid + i]
  <2>1. mid + 1 \in 1 .. Len(keys) + 1 /\ len \in 0 .. Len(keys) /\ mid + 1 =< len + 1
        /\ len - (mid + 1) + 1 = len - mid
    BY <1>2, <1>3, <1>6
  <2>2. /\ rkeys \in Seq(Keys) /\ Len(rkeys) = len - (mid + 1) + 1 /\ Increasing(rkeys)
        /\ \A i \in 1 .. len - (mid + 1) + 1 : rkeys[i] = keys[(mid + 1) + i - 1]
    BY <2>1, <1>3, <1>8, SubSeqIncreases
  <2>3. \A i \in 1 .. len - mid : (mid + 1) + i - 1 = mid + i
    BY <1>6, <1>3
  <2>. QED
    BY <2>1, <2>2, <2>3
<1>13. /\ lkids \in Seq(Offsets) /\ Len(lkids) = mid
       /\ \A i \in 1 .. mid : lkids[i] = kids[i]
  <2>1. \A i \in 1 .. mid : kids[i] \in Offsets
    BY <1>3, <1>6
  <2>2. /\ lkids \in Seq(Offsets) /\ Len(lkids) = IF 1 =< mid THEN mid - 1 + 1 ELSE 0
        /\ \A i \in 1 .. mid - 1 + 1 : lkids[i] = kids[1 + i - 1]
    BY <2>1, <1>6, <1>9, SubSeqProperties
  <2>3. mid - 1 + 1 = mid /\ 1 =< mid /\ \A i \in 1 .. mid : 1 + i - 1 = i
    BY <1>6
  <2>. QED
    BY <2>2, <2>3
<1>14. /\ rkids \in Seq(Offsets) /\ Len(rkids) = len - mid + 1
       /\ \A i \in 1 .. len - mid + 1 : rkids[i] = kids[mid + i]
  <2>1. \A i \in mid + 1 .. len + 1 : kids[i] \in Offsets
    BY <1>3, <1>6
  <2>2. /\ rkids \in Seq(Offsets)
        /\ Len(rkids) = IF mid + 1 =< len + 1 THEN (len + 1) - (mid + 1) + 1 ELSE 0
        /\ \A i \in 1 .. (len + 1) - (mid + 1) + 1 : rkids[i] = kids[(mid + 1) + i - 1]
    BY <2>1, <1>3, <1>6, <1>10, SubSeqProperties
  <2>3. /\ (len + 1) - (mid + 1) + 1 = len - mid + 1 /\ mid + 1 =< len + 1
        /\ \A i \in 1 .. len - mid + 1 : (mid + 1) + i - 1 = mid + i
    BY <1>3, <1>6
  <2>. QED
    BY <2>2, <2>3
<1>15. PICK left : left = Inner(lkeys, lkids)
  OBVIOUS
<1>16. PICK right : right = Inner(rkeys, rkids)
  OBVIOUS
<1>17. IsInner(left) /\ left.keys = lkeys /\ left.kids = lkids /\ left.leaf = FALSE
  <2>1. Len(lkids) = Len(lkeys) + 1
    BY <1>11, <1>13, <1>6
  <2>2. IsInner(left)
    BY <2>1, <1>11, <1>13, <1>15, InnerOf
  <2>3. left.keys = lkeys /\ left.kids = lkids /\ left.leaf = FALSE
    BY <1>15 DEF Inner
  <2>. QED
    BY <2>2, <2>3
<1>18. IsInner(right) /\ right.keys = rkeys /\ right.kids = rkids /\ right.leaf = FALSE
  <2>1. Len(rkids) = Len(rkeys) + 1
    BY <1>12, <1>14
  <2>2. IsInner(right)
    BY <2>1, <1>12, <1>14, <1>16, InnerOf
  <2>3. right.keys = rkeys /\ right.kids = rkids /\ right.leaf = FALSE
    BY <1>16 DEF Inner
  <2>. QED
    BY <2>2, <2>3
<1>19. PICK s : s = InnerSplit(n)
  OBVIOUS
<1>20. s.left = left /\ s.right = right /\ s.key = keys[mid]
  <2>0. Len(n.keys) = len /\ Len(n.kids) = len + 1
    BY <1>1, <1>2, <1>3
  <2>a. s = [left  |-> Inner(SubSeq(keys, 1, mid - 1), SubSeq(kids, 1, mid)),
             right |-> Inner(SubSeq(keys, mid + 1, len), SubSeq(kids, mid + 1, len + 1)),
             key   |-> keys[mid]]
    BY <2>0, <1>1, <1>4, <1>19, Zenon DEF InnerSplit
  <2>1. s = [left |-> left, right |-> right, key |-> keys[mid]]
    BY <2>a, <1>7, <1>8, <1>9, <1>10, <1>15, <1>16
  <2>. QED
    BY <2>1
<1>21. ASSUME NearlyFits(n)
       PROVE  ~ NodeOversized(left) /\ ~ NodeOversized(right)
  <2>1. n.leaf = FALSE
    <3>1. n = Inner(keys, kids)
      BY <1>1 DEF IsInner
    <3>2. Inner(keys, kids).leaf = FALSE
      BY DEF Inner
    <3>. QED
      BY <3>1, <3>2
  <2>2. len =< InnerCapacity + 1
    BY <2>1, <1>1, <1>2, <1>21 DEF NearlyFits
  <2>3. mid - 1 =< InnerCapacity /\ len - mid =< InnerCapacity
    BY <2>2, <1>3, <1>6
  <2>. QED
    BY <2>3, <1>3, <1>6, <1>11, <1>12, <1>17, <1>18 DEF NodeOversized
<1>22. Len(left.keys) = mid - 1 /\ Len(right.keys) = len - mid
  BY <1>11, <1>12, <1>17, <1>18
<1>. QED
  BY <1>1, <1>2, <1>6, <1>11, <1>12, <1>13, <1>14, <1>17, <1>18, <1>19, <1>20, <1>21, <1>22

------------------------------------------------------------------------------
(* What a split does to the keys that belong to the node. *)

\* The node n, to which the keys of own belong, is split at s into left and
\* right: the first mid children are left's, with the keys up to s.
Halved(n, own, left, right, s, mid) ==
    /\ IsNode(left) /\ IsNode(right) /\ left.leaf = n.leaf /\ right.leaf = n.leaf
    /\ s \in own /\ \E k \in own : k > s
    /\ \A k \in LeafKeys(left) : k \in own /\ k =< s
    /\ \A k \in LeafKeys(right) : k \in own /\ k > s
    /\ \A i \in DOMAIN left.keys : left.keys[i] \in own /\ left.keys[i] =< s
    /\ \A i \in DOMAIN right.keys : right.keys[i] \in own /\ right.keys[i] > s
    /\ mid \in Nat
    /\ \A i \in DOMAIN left.kids :
        /\ i \in DOMAIN n.kids /\ i =< mid /\ left.kids[i] = n.kids[i]
        /\ \A k \in own : k =< s /\ ChildIndex(left, k) = i <=> ChildIndex(n, k) = i
    /\ \A i \in DOMAIN right.kids :
        /\ mid + i \in DOMAIN n.kids /\ i \in Nat \ {0} /\ right.kids[i] = n.kids[mid + i]
        /\ \A k \in own : k > s /\ ChildIndex(right, k) = i <=> ChildIndex(n, k) = mid + i
    /\ \A j \in DOMAIN n.kids :
        /\ j =< mid => j \in DOMAIN left.kids
        /\ j > mid => j - mid \in DOMAIN right.kids

\* IndexLeafNode::Split halves a leaf.
LEMMA LeafHalved ==
    ASSUME NEW n, IsLeaf(n), NodeOversized(n), NEW own \in SUBSET Keys, LeafKeys(n) \subseteq own
    PROVE  LET s == LeafSplit(n) IN Halved(n, own, s.left, s.right, s.key, 0)
<1>1. PICK s : s = LeafSplit(n)
  OBVIOUS
<1>2. n.leaf = TRUE /\ n.kids = <<>>
  BY NodeIs DEF IsNode
<1>3. Cardinality(LeafKeys(n)) > 1
  <2>1. Cardinality(LeafKeys(n)) > LeafCapacity
    BY <1>2 DEF NodeOversized
  <2>2. IsFiniteSet(LeafKeys(n))
    <3>1. PICK e : e = n.entries
      OBVIOUS
    <3>2. n = Leaf(e) /\ IsMap(e)
      BY <3>1 DEF IsLeaf
    <3>3. LeafKeys(n) = DOMAIN e
      BY <3>2, LeafIs
    <3>. QED
      BY <3>2, <3>3 DEF IsMap
  <2>3. Cardinality(LeafKeys(n)) \in Nat
    BY <2>2, FS_CardinalityType
  <2>. QED
    BY <2>1, <2>3, CapacityAssumption
<1>4. /\ IsLeaf(s.left) /\ IsLeaf(s.right) /\ s.key \in LeafKeys(n)
      /\ LeafKeys(s.left) = {k \in LeafKeys(n) : k =< s.key}
      /\ LeafKeys(s.right) = {k \in LeafKeys(n) : k > s.key}
      /\ \E k \in LeafKeys(n) : k > s.key
  BY <1>1, <1>3, LeafSplitIs
<1>5. PICK left, right, key : left = s.left /\ right = s.right /\ key = s.key
  OBVIOUS
<1>6. IsNode(left) /\ IsNode(right)
  BY <1>4, <1>5 DEF IsNode
<1>7. left.leaf = TRUE /\ right.leaf = TRUE /\ left.kids = <<>> /\ right.kids = <<>>
  <2>1. IsLeaf(left) /\ IsLeaf(right)
    BY <1>4, <1>5
  <2>. QED
    BY <2>1, <1>6, NodeIs
<1>8. left.keys = <<>> /\ right.keys = <<>>
  <2>1. PICK le, re : le = left.entries /\ re = right.entries
    OBVIOUS
  <2>2. left = Leaf(le) /\ right = Leaf(re)
    BY <2>1, <1>4, <1>5 DEF IsLeaf
  <2>. QED
    BY <2>2, LeafIs
<1>9. Halved(n, own, left, right, key, 0)
  <2>1. key \in own /\ \E k \in own : k > key
    BY <1>4, <1>5
  <2>2. \A k \in LeafKeys(left) : k \in own /\ k =< key
    BY <1>4, <1>5
  <2>3. \A k \in LeafKeys(right) : k \in own /\ k > key
    BY <1>4, <1>5
  <2>4. DOMAIN left.keys = {} /\ DOMAIN right.keys = {}
        /\ DOMAIN left.kids = {} /\ DOMAIN right.kids = {} /\ DOMAIN n.kids = {}
    BY <1>2, <1>7, <1>8
  <2>. QED
    BY <2>1, <2>2, <2>3, <2>4, <1>2, <1>6, <1>7 DEF Halved
<1>. QED
  BY <1>1, <1>5, <1>9

\* Facts about the parts of an inner node.
LEMMA InnerParts ==
    ASSUME NEW n, IsInner(n)
    PROVE  /\ n.keys \in Seq(Nat) /\ Increasing(n.keys)
           /\ Len(n.keys) \in Nat /\ DOMAIN n.keys = 1 .. Len(n.keys)
           /\ DOMAIN n.kids = 1 .. Len(n.keys) + 1
           /\ \A i \in 1 .. Len(n.keys) : n.keys[i] \in Keys /\ n.keys[i] \in Nat
           /\ \A i \in 1 .. Len(n.keys) + 1 : n.kids[i] \in Offsets
           /\ n.leaf = FALSE
<1>1. n.keys \in Seq(Keys) /\ Increasing(n.keys) /\ n.kids \in Seq(Offsets)
      /\ Len(n.kids) = Len(n.keys) + 1
  BY DEF IsInner
<1>2. Len(n.keys) \in Nat /\ DOMAIN n.keys = 1 .. Len(n.keys)
      /\ \A i \in 1 .. Len(n.keys) : n.keys[i] \in Keys
  BY <1>1, LenProperties, ElementOfSeq
<1>3. DOMAIN n.kids = 1 .. Len(n.kids) /\ \A i \in 1 .. Len(n.kids) : n.kids[i] \in Offsets
  BY <1>1, LenProperties, ElementOfSeq
<1>4. n.keys \in Seq(Nat)
  <2>1. PICK s : s = n.keys
    OBVIOUS
  <2>2. s \in [1 .. Len(s) -> Keys] /\ Len(s) \in Nat
    BY <1>1, <2>1, LenProperties
  <2>3. s \in [1 .. Len(s) -> Nat]
    BY <2>2, IndexAssumption
  <2>4. s \in Seq(Nat)
    BY <2>2, <2>3
  <2>. QED
    BY <2>1, <2>4
<1>5. n.leaf = FALSE
  BY NodeIs DEF IsNode
<1>. QED
  BY <1>1, <1>2, <1>3, <1>4, <1>5, IndexAssumption

\* The child for a key, by the separators around it.
LEMMA ChildIndexAt ==
    ASSUME NEW n, IsInner(n), NEW k \in Nat, NEW i \in 1 .. Len(n.keys) + 1
    PROVE  ChildIndex(n, k) = i <=> /\ i > 1 => n.keys[i - 1] < k
                                    /\ i =< Len(n.keys) => k =< n.keys[i]
<1>1. PICK s : s = n.keys
  OBVIOUS
<1>2. s \in Seq(Nat) /\ Increasing(s) /\ Len(s) \in Nat
  BY <1>1, InnerParts
<1>3. PICK j : j = i - 1
  OBVIOUS
<1>4. j \in 0 .. Len(s) /\ j + 1 = i
  BY <1>1, <1>2, <1>3
<1>5. GetKeyIndex(s, k) = j <=> /\ j > 0 => s[j] < k
                                /\ j < Len(s) => k =< s[j + 1]
  BY <1>2, <1>4, KeyIndexAt
<1>6. GetKeyIndex(s, k) \in 0 .. Len(s)
  BY <1>2, KeyIndexIs
<1>7. ChildIndex(n, k) = GetKeyIndex(s, k) + 1
  BY <1>1 DEF ChildIndex
<1>8. ChildIndex(n, k) = i <=> GetKeyIndex(s, k) = j
  BY <1>4, <1>6, <1>7
<1>9. (j > 0 <=> i > 1) /\ (j < Len(s) <=> i =< Len(s))
  BY <1>4, <1>2
<1>. QED
  BY <1>1, <1>3, <1>4, <1>5, <1>8, <1>9

\* A key leads to a child.
LEMMA ChildIndexType ==
    ASSUME NEW n, IsInner(n), NEW k \in Nat
    PROVE  ChildIndex(n, k) \in DOMAIN n.kids
<1>1. PICK s : s = n.keys
  OBVIOUS
<1>2. s \in Seq(Nat) /\ Increasing(s) /\ Len(s) \in Nat /\ DOMAIN n.kids = 1 .. Len(s) + 1
  BY <1>1, InnerParts
<1>3. GetKeyIndex(s, k) \in 0 .. Len(s)
  BY <1>2, KeyIndexIs
<1>. QED
  BY <1>1, <1>2, <1>3 DEF ChildIndex

\* IndexInnerNode::Split halves an inner node.
LEMMA InnerHalved ==
    ASSUME NEW n, IsInner(n), NodeOversized(n), NEW own \in SUBSET Keys,
           \A i \in DOMAIN n.keys : n.keys[i] \in own
    PROVE  LET s == InnerSplit(n) IN
           \E mid \in Nat : Halved(n, own, s.left, s.right, s.key, mid)
<1>1. PICK s : s = InnerSplit(n)
  OBVIOUS
<1>2. PICK keys, len : keys = n.keys /\ len = Len(n.keys)
  OBVIOUS
<1>3. /\ Increasing(keys) /\ len \in Nat /\ DOMAIN keys = 1 .. len
      /\ DOMAIN n.kids = 1 .. len + 1 /\ \A i \in 1 .. len : keys[i] \in Nat /\ keys[i] \in own
      /\ n.leaf = FALSE
  BY <1>2, InnerParts
<1>4. len > InnerCapacity
  BY <1>2, <1>3 DEF NodeOversized
<1>5. PICK mid \in 2 .. len - 1 :
        /\ s.key = n.keys[mid]
        /\ IsInner(s.left) /\ IsInner(s.right)
        /\ Len(s.left.keys) = mid - 1 /\ Len(s.right.keys) = len - mid
        /\ \A i \in 1 .. mid - 1 : s.left.keys[i] = n.keys[i]
        /\ \A i \in 1 .. mid : s.left.kids[i] = n.kids[i]
        /\ \A i \in 1 .. len - mid : s.right.keys[i] = n.keys[mid + i]
        /\ \A i \in 1 .. len - mid + 1 : s.right.kids[i] = n.kids[mid + i]
  <2>1. Len(n.keys) > InnerCapacity
    BY <1>2, <1>4
  <2>2. \E mid \in 2 .. Len(n.keys) - 1 :
          /\ s.key = n.keys[mid]
          /\ IsInner(s.left) /\ IsInner(s.right)
          /\ Len(s.left.keys) = mid - 1 /\ Len(s.right.keys) = Len(n.keys) - mid
          /\ \A i \in 1 .. mid - 1 : s.left.keys[i] = n.keys[i]
          /\ \A i \in 1 .. mid : s.left.kids[i] = n.kids[i]
          /\ \A i \in 1 .. Len(n.keys) - mid : s.right.keys[i] = n.keys[mid + i]
          /\ \A i \in 1 .. Len(n.keys) - mid + 1 : s.right.kids[i] = n.kids[mid + i]
    BY <2>1, <1>1, InnerSplitIs
  <2>. QED
    BY <2>2, <1>2
<1>6. PICK left, right, key : left = s.left /\ right = s.right /\ key = s.key
  OBVIOUS
<1>7. /\ key = keys[mid] /\ IsInner(left) /\ IsInner(right)
      /\ Len(left.keys) = mid - 1 /\ Len(right.keys) = len - mid
      /\ \A i \in 1 .. mid - 1 : left.keys[i] = keys[i]
      /\ \A i \in 1 .. mid : left.kids[i] = n.kids[i]
      /\ \A i \in 1 .. len - mid : right.keys[i] = keys[mid + i]
      /\ \A i \in 1 .. len - mid + 1 : right.kids[i] = n.kids[mid + i]
  BY <1>2, <1>5, <1>6
<1>8. /\ DOMAIN left.keys = 1 .. mid - 1 /\ DOMAIN left.kids = 1 .. mid
      /\ DOMAIN right.keys = 1 .. len - mid /\ DOMAIN right.kids = 1 .. len - mid + 1
      /\ left.leaf = FALSE /\ right.leaf = FALSE /\ IsNode(left) /\ IsNode(right)
      /\ LeafKeys(left) = {} /\ LeafKeys(right) = {}
  <2>1. IsNode(left) /\ IsNode(right)
    BY <1>7 DEF IsNode
  <2>2. DOMAIN left.keys = 1 .. mid - 1 /\ DOMAIN left.kids = 1 .. (mid - 1) + 1
        /\ left.leaf = FALSE
    BY <1>7, InnerParts
  <2>3. DOMAIN right.keys = 1 .. len - mid /\ DOMAIN right.kids = 1 .. len - mid + 1
        /\ right.leaf = FALSE
    BY <1>7, InnerParts
  <2>4. (mid - 1) + 1 = mid
    OBVIOUS
  <2>5. LeafKeys(left) = {}
    BY <2>1, <2>2, NodeIs
  <2>6. LeafKeys(right) = {}
    BY <2>1, <2>3, NodeIs
  <2>. QED
    BY <2>1, <2>2, <2>3, <2>4, <2>5, <2>6
<1>9. \A i, j \in 1 .. len : i < j => keys[i] < keys[j]
  BY <1>3 DEF Increasing
<1>10. key \in own /\ \E k \in own : k > key
  <2>1. mid \in 1 .. len /\ mid + 1 \in 1 .. len
    <3>1. len \in Nat
      BY <1>3
    <3>. QED
      BY <3>1
  <2>2. keys[mid + 1] > keys[mid] /\ keys[mid + 1] \in own
    BY <2>1, <1>3, <1>9
  <2>. QED
    BY <2>1, <2>2, <1>3, <1>7
<1>11. ASSUME NEW i \in 1 .. mid - 1 PROVE left.keys[i] \in own /\ left.keys[i] =< key
  <2>1. i \in 1 .. len /\ mid \in 1 .. len /\ i < mid /\ left.keys[i] = keys[i]
    <3>1. len \in Nat /\ left.keys[i] = keys[i]
      BY <1>3, <1>7
    <3>. QED
      BY <3>1
  <2>. QED
    BY <2>1, <1>3, <1>7, <1>9
<1>12. ASSUME NEW i \in 1 .. len - mid PROVE right.keys[i] \in own /\ right.keys[i] > key
  <2>1. mid + i \in 1 .. len /\ mid \in 1 .. len /\ mid < mid + i /\ right.keys[i] = keys[mid + i]
    <3>1. len \in Nat /\ right.keys[i] = keys[mid + i]
      BY <1>3, <1>7
    <3>. QED
      BY <3>1
  <2>. QED
    BY <2>1, <1>3, <1>7, <1>9
<1>13. ASSUME NEW i \in 1 .. mid, NEW k \in own
       PROVE  k =< key /\ ChildIndex(left, k) = i <=> ChildIndex(n, k) = i
  <2>1. k \in Nat /\ key \in Nat
    BY <1>10, IndexAssumption
  <2>2. ChildIndex(left, k) = i <=> /\ i > 1 => left.keys[i - 1] < k
                                    /\ i =< mid - 1 => k =< left.keys[i]
    <3>1. i \in 1 .. Len(left.keys) + 1 /\ Len(left.keys) = mid - 1 /\ IsInner(left)
      BY <1>7
    <3>2. ChildIndex(left, k) = i <=> /\ i > 1 => left.keys[i - 1] < k
                                      /\ i =< Len(left.keys) => k =< left.keys[i]
      BY <3>1, <2>1, ChildIndexAt
    <3>. QED
      BY <3>1, <3>2
  <2>3. ChildIndex(n, k) = i <=> /\ i > 1 => keys[i - 1] < k
                                 /\ i =< len => k =< keys[i]
    <3>1. i \in 1 .. Len(n.keys) + 1
      BY <1>2, <1>3
    <3>. QED
      BY <3>1, <2>1, <1>2, ChildIndexAt
  <2>4. i > 1 => left.keys[i - 1] = keys[i - 1]
    BY <1>7
  <2>5. i =< mid - 1 => left.keys[i] = keys[i] /\ keys[i] < key /\ keys[i] \in Nat
    <3>1. mid \in 1 .. len /\ i \in 1 .. len
      BY <1>3
    <3>. QED
      BY <3>1, <1>3, <1>7, <1>9
  <2>6. ~ (i =< mid - 1) => i = mid /\ keys[i] = key
    BY <1>7
  <2>7. i =< len
    BY <1>3
  <2>8. CASE i =< mid - 1
    <3>1. left.keys[i] = keys[i] /\ keys[i] < key /\ keys[i] \in Nat
      BY <2>5, <2>8
    <3>2. k =< keys[i] => k =< key
      BY <3>1, <2>1
    <3>. QED
      BY <3>1, <3>2, <2>8, <2>2, <2>3, <2>4, <2>7
  <2>9. CASE ~ (i =< mid - 1)
    <3>1. i = mid /\ keys[i] = key
      BY <2>6, <2>9
    <3>. QED
      BY <3>1, <2>9, <2>2, <2>3, <2>4, <2>7
  <2>. QED
    BY <2>8, <2>9
<1>14. ASSUME NEW i \in 1 .. len - mid + 1, NEW k \in own
       PROVE  k > key /\ ChildIndex(right, k) = i <=> ChildIndex(n, k) = mid + i
  <2>1. k \in Nat /\ key \in Nat
    BY <1>10, IndexAssumption
  <2>2. ChildIndex(right, k) = i <=> /\ i > 1 => right.keys[i - 1] < k
                                     /\ i =< len - mid => k =< right.keys[i]
    <3>1. i \in 1 .. Len(right.keys) + 1 /\ Len(right.keys) = len - mid /\ IsInner(right)
      BY <1>7
    <3>2. ChildIndex(right, k) = i <=> /\ i > 1 => right.keys[i - 1] < k
                                       /\ i =< Len(right.keys) => k =< right.keys[i]
      BY <3>1, <2>1, ChildIndexAt
    <3>. QED
      BY <3>1, <3>2
  <2>3. ChildIndex(n, k) = mid + i <=> /\ mid + i > 1 => keys[(mid + i) - 1] < k
                                       /\ mid + i =< len => k =< keys[mid + i]
    <3>1. mid + i \in 1 .. Len(n.keys) + 1
      BY <1>2, <1>3
    <3>. QED
      BY <3>1, <2>1, <1>2, ChildIndexAt
  <2>4. i > 1 => /\ right.keys[i - 1] = keys[(mid + i) - 1] /\ key < keys[(mid + i) - 1]
                 /\ keys[(mid + i) - 1] \in Nat
    <3>. SUFFICES ASSUME i > 1
                  PROVE /\ right.keys[i - 1] = keys[(mid + i) - 1]
                        /\ key < keys[(mid + i) - 1]
                        /\ keys[(mid + i) - 1] \in Nat
      OBVIOUS
    <3>1. i - 1 \in 1 .. len - mid /\ mid + (i - 1) = (mid + i) - 1
      BY <1>3
    <3>2. (mid + i) - 1 \in 1 .. len /\ mid \in 1 .. len /\ mid < (mid + i) - 1
      BY <1>3
    <3>. QED
      BY <3>1, <3>2, <1>3, <1>7, <1>9
  <2>5. i = 1 => keys[(mid + i) - 1] = key
    BY <1>7
  <2>6. i =< len - mid => right.keys[i] = keys[mid + i]
    BY <1>7
  <2>7. mid + i > 1 /\ (mid + i =< len <=> i =< len - mid) /\ (i > 1 \/ i = 1)
    BY <1>3
  <2>. QED
    BY <2>1, <2>2, <2>3, <2>4, <2>5, <2>6, <2>7
<1>15. \A i \in 1 .. mid : i \in 1 .. len + 1 /\ i =< mid
  BY <1>3
<1>16. \A i \in 1 .. len - mid + 1 : mid + i \in 1 .. len + 1 /\ i \in Nat \ {0}
  BY <1>3
<1>17. \A j \in 1 .. len + 1 : /\ j =< mid => j \in 1 .. mid
                               /\ j > mid => j - mid \in 1 .. len - mid + 1
  BY <1>3
<1>18. mid \in Nat
  OBVIOUS
<1>19. Halved(n, own, left, right, key, mid)
  BY <1>3, <1>7, <1>8, <1>10, <1>11, <1>12, <1>13, <1>14, <1>15, <1>16, <1>17, <1>18 DEF Halved
<1>. QED
  BY <1>1, <1>6, <1>18, <1>19

------------------------------------------------------------------------------
(* The tree.  N gives the node at each offset, h its height over the       *)
(* leaves, own the keys whose way from the root leads to it.               *)

Typed(N, root, h, own) ==
    /\ N = [o \in DOMAIN N |-> N[o]] /\ DOMAIN N \subseteq Offsets /\ root \in DOMAIN N
    /\ h \in [DOMAIN N -> Nat] /\ own \in [DOMAIN N -> SUBSET Keys] /\ own[root] = Keys
    /\ \A o \in DOMAIN N : IsNode(N[o]) /\ h[o] =< h[root]

\* A leaf has only keys that are looked for in it.
LeavesOk(N, h, own) ==
    \A o \in DOMAIN N : N[o].leaf =>
        h[o] = 0 /\ \A k \in LeafKeys(N[o]) : k \in own[o]

InnersOk(N, own) ==
    \A o \in DOMAIN N : ~ N[o].leaf => \A i \in DOMAIN N[o].keys : N[o].keys[i] \in own[o]

\* c is child i of o.
IsLink(N, h, own, o, i, c) ==
    /\ h[o] = h[c] + 1
    /\ \A k \in Keys : k \in own[c] <=> k \in own[o] /\ ChildIndex(N[o], k) = i

LinksOk(N, root, h, own) ==
    \A o \in DOMAIN N : \A i \in DOMAIN N[o].kids :
        /\ N[o].kids[i] \in DOMAIN N /\ N[o].kids[i] # root
        /\ IsLink(N, h, own, o, i, N[o].kids[i])

OneParent(N) ==
    \A o, p \in DOMAIN N : \A i \in DOMAIN N[o].kids : \A j \in DOMAIN N[p].kids :
        N[o].kids[i] = N[p].kids[j] => o = p /\ i = j

Parented(N, root) ==
    \A c \in DOMAIN N \ {root} : \E o \in DOMAIN N : \E i \in DOMAIN N[o].kids : N[o].kids[i] = c

LeavesApart(N, own) ==
    \A o, p \in DOMAIN N : N[o].leaf /\ N[p].leaf /\ o # p => \A k \in own[o] : k \notin own[p]

IsTree(N, root, h, own) ==
    /\ Typed(N, root, h, own)
    /\ LeavesOk(N, h, own)
    /\ InnersOk(N, own)
    /\ LinksOk(N, root, h, own)
    /\ OneParent(N)
    /\ Parented(N, root)
    /\ LeavesApart(N, own)

------------------------------------------------------------------------------
(* A split of the tree: the node c is gone, its halves at l and r have p   *)
(* as their parent, which is the parent of c or a new root.                *)

SplitNodes(N, c, l, r, p, left, right, parent) ==
    [x \in (DOMAIN N \ {c}) \cup {l, r, p} |->
        IF x = l THEN left ELSE IF x = r THEN right ELSE IF x = p THEN parent ELSE N[x]]

SplitHeights(N, h, c, l, r, p) ==
    [x \in (DOMAIN N \ {c}) \cup {l, r, p} |->
        IF x = l THEN h[c] ELSE IF x = r THEN h[c] ELSE IF x = p THEN h[c] + 1 ELSE h[x]]

SplitOwn(N, own, c, l, r, p, s, top) ==
    [x \in (DOMAIN N \ {c}) \cup {l, r, p} |->
        IF x = l THEN {k \in own[c] : k =< s}
        ELSE IF x = r THEN {k \in own[c] : k > s}
        ELSE IF x = p THEN top ELSE own[x]]

\* p was the parent of c, or is the new root over the old root c.
Above(N, root, h, own, c, p, root2, top) ==
    \/ /\ p \in DOMAIN N \ {c} /\ root2 = root /\ c # root
       /\ top = own[p] /\ h[p] = h[c] + 1
       /\ \E i \in DOMAIN N[p].kids : N[p].kids[i] = c
    \/ c = root /\ p \notin DOMAIN N \ {c} /\ root2 = p /\ top = Keys

\* The new contents of p have l and r in the place of c.
Adopts(N, root, h, own, c, l, r, p, s, top, parent) ==
    /\ IsInner(parent) /\ top \in SUBSET Keys
    /\ \A i \in DOMAIN parent.keys : parent.keys[i] \in top
    /\ \A j \in DOMAIN parent.kids :
        \/ /\ parent.kids[j] = l
           /\ \A k \in Keys : k \in own[c] /\ k =< s <=> k \in top /\ ChildIndex(parent, k) = j
        \/ /\ parent.kids[j] = r
           /\ \A k \in Keys : k \in own[c] /\ k > s <=> k \in top /\ ChildIndex(parent, k) = j
        \/ /\ parent.kids[j] \in DOMAIN N \ {c, p} /\ p \in DOMAIN N \ {c}
           /\ \E i \in DOMAIN N[p].kids : N[p].kids[i] = parent.kids[j]
           /\ \A k \in Keys :
                k \in own[parent.kids[j]] <=> k \in top /\ ChildIndex(parent, k) = j
    /\ \A i, j \in DOMAIN parent.kids : parent.kids[i] = parent.kids[j] => i = j
    /\ \E j \in DOMAIN parent.kids : parent.kids[j] = l
    /\ \E j \in DOMAIN parent.kids : parent.kids[j] = r
    /\ p \in DOMAIN N \ {c} =>
        \A i \in DOMAIN N[p].kids : N[p].kids[i] # c =>
            \E j \in DOMAIN parent.kids : parent.kids[j] = N[p].kids[i]

\* The places of the children are numbers.
LEMMA KidPlaces ==
    ASSUME NEW n, IsNode(n)
    PROVE  \A j \in DOMAIN n.kids : j \in Nat
<1>1. CASE n.leaf
  BY <1>1, NodeIs
<1>2. CASE ~ n.leaf
  <2>1. IsInner(n)
    BY <1>2, NodeIs
  <2>2. DOMAIN n.kids = 1 .. Len(n.keys) + 1 /\ Len(n.keys) \in Nat
    BY <2>1, InnerParts
  <2>. QED
    BY <2>2
<1>. QED
  BY <1>1, <1>2

\* The node c is split into left and right at l and r, under parent at p.
SplitOn(N, root, h, own, c, l, r, p, left, right, s, mid, root2, top, parent) ==
    /\ IsTree(N, root, h, own) /\ c \in DOMAIN N
    /\ l \in Offsets /\ r \in Offsets /\ p \in Offsets /\ l # r /\ p # l /\ p # r
    /\ l \notin DOMAIN N \ {c} /\ r \notin DOMAIN N \ {c}
    /\ Halved(N[c], own[c], left, right, s, mid)
    /\ Above(N, root, h, own, c, p, root2, top)
    /\ Adopts(N, root, h, own, c, l, r, p, s, top, parent)

\* After the split the nodes are still a tree.
LEMMA SplitKeepsTree ==
    ASSUME NEW N, NEW root, NEW h, NEW own, NEW c, NEW l, NEW r, NEW p, NEW left, NEW right,
           NEW s, NEW mid, NEW root2, NEW top, NEW parent,
           SplitOn(N, root, h, own, c, l, r, p, left, right, s, mid, root2, top, parent)
    PROVE  IsTree(SplitNodes(N, c, l, r, p, left, right, parent), root2,
                  SplitHeights(N, h, c, l, r, p), SplitOwn(N, own, c, l, r, p, s, top))
<1>0. /\ IsTree(N, root, h, own) /\ c \in DOMAIN N
      /\ l \in Offsets /\ r \in Offsets /\ p \in Offsets /\ l # r /\ p # l /\ p # r
      /\ l \notin DOMAIN N \ {c} /\ r \notin DOMAIN N \ {c}
      /\ Halved(N[c], own[c], left, right, s, mid)
      /\ Above(N, root, h, own, c, p, root2, top)
      /\ Adopts(N, root, h, own, c, l, r, p, s, top, parent)
  BY DEF SplitOn
<1>. USE <1>0
<1>1. PICK M, g, w : /\ M = SplitNodes(N, c, l, r, p, left, right, parent)
                     /\ g = SplitHeights(N, h, c, l, r, p)
                     /\ w = SplitOwn(N, own, c, l, r, p, s, top)
  OBVIOUS
<1>2. PICK D : D = (DOMAIN N \ {c}) \cup {l, r, p}
  OBVIOUS
<1>3. PICK kept : kept = DOMAIN N \ {c, p}
  OBVIOUS
<1>4. /\ DOMAIN M = D /\ M = [x \in D |-> M[x]]
      /\ M[l] = left /\ M[r] = right /\ M[p] = parent /\ \A x \in kept : M[x] = N[x]
  BY <1>1, <1>2, <1>3 DEF SplitNodes
<1>5. /\ DOMAIN g = D /\ g = [x \in D |-> g[x]]
      /\ g[l] = h[c] /\ g[r] = h[c] /\ g[p] = h[c] + 1 /\ \A x \in kept : g[x] = h[x]
  BY <1>1, <1>2, <1>3 DEF SplitHeights
<1>6. /\ DOMAIN w = D /\ w = [x \in D |-> w[x]]
      /\ w[l] = {k \in own[c] : k =< s} /\ w[r] = {k \in own[c] : k > s}
      /\ w[p] = top /\ \A x \in kept : w[x] = own[x]
  BY <1>1, <1>2, <1>3 DEF SplitOwn
<1>7. /\ l \in D /\ r \in D /\ p \in D /\ kept \subseteq D
      /\ \A x \in D : x = l \/ x = r \/ x = p \/ x \in kept
      /\ l \notin kept /\ r \notin kept /\ p \notin kept
  BY <1>2, <1>3
<1>8. /\ N = [o \in DOMAIN N |-> N[o]] /\ DOMAIN N \subseteq Offsets /\ root \in DOMAIN N
      /\ h \in [DOMAIN N -> Nat] /\ own \in [DOMAIN N -> SUBSET Keys] /\ own[root] = Keys
      /\ \A o \in DOMAIN N : IsNode(N[o]) /\ h[o] =< h[root]
  BY DEF IsTree, Typed
<1>9. \A o \in DOMAIN N : h[o] \in Nat
  BY <1>8
<1>10. \A o \in DOMAIN N : \A i \in DOMAIN N[o].kids :
        /\ N[o].kids[i] \in DOMAIN N /\ N[o].kids[i] # root
        /\ h[o] = h[N[o].kids[i]] + 1
  BY DEF IsTree, LinksOk, IsLink
<1>11. \A o, q \in DOMAIN N : \A i \in DOMAIN N[o].kids : \A j \in DOMAIN N[q].kids :
        N[o].kids[i] = N[q].kids[j] => o = q /\ i = j
  BY DEF IsTree, OneParent
<1>12. /\ IsNode(left) /\ IsNode(right) /\ left.leaf = N[c].leaf /\ right.leaf = N[c].leaf
       /\ mid \in Nat
       /\ \A i \in DOMAIN left.kids :
           i \in DOMAIN N[c].kids /\ i =< mid /\ left.kids[i] = N[c].kids[i]
       /\ \A i \in DOMAIN right.kids :
           mid + i \in DOMAIN N[c].kids /\ i \in Nat \ {0} /\ right.kids[i] = N[c].kids[mid + i]
       /\ \A j \in DOMAIN N[c].kids : /\ j =< mid => j \in DOMAIN left.kids
                                      /\ j > mid => j - mid \in DOMAIN right.kids
  BY DEF Halved
<1>13. /\ IsInner(parent) /\ parent.leaf = FALSE /\ IsNode(parent) /\ top \in SUBSET Keys
       /\ \A i \in DOMAIN parent.keys : parent.keys[i] \in top
  BY InnerParts DEF Adopts, IsNode
<1>14. \A j \in DOMAIN parent.kids :
        \/ parent.kids[j] = l \/ parent.kids[j] = r
        \/ /\ parent.kids[j] \in kept /\ p \in DOMAIN N \ {c}
           /\ \E i \in DOMAIN N[p].kids : N[p].kids[i] = parent.kids[j]
  BY <1>3 DEF Adopts
\* What was a child of c, or of a node that stays as it is, stays in the tree.
<1>15. ASSUME NEW i \in DOMAIN N[c].kids
       PROVE  /\ N[c].kids[i] \in kept /\ N[c].kids[i] # root2
  <2>1. N[c].kids[i] \in DOMAIN N /\ N[c].kids[i] # root /\ h[c] = h[N[c].kids[i]] + 1
    BY <1>10
  <2>2. h[N[c].kids[i]] \in Nat /\ h[c] \in Nat
    BY <2>1, <1>9
  <2>3. N[c].kids[i] # c
    BY <2>1, <2>2
  <2>4. p \in DOMAIN N \ {c} => h[p] = h[c] + 1
    BY DEF Above
  <2>5. N[c].kids[i] # p
    BY <2>1, <2>2, <2>3, <2>4
  <2>. QED
    BY <2>1, <2>3, <2>5, <1>3 DEF Above
<1>16. ASSUME NEW o \in kept, NEW i \in DOMAIN N[o].kids
       PROVE  /\ N[o].kids[i] \in DOMAIN N \ {c} /\ N[o].kids[i] \in D
              /\ N[o].kids[i] # root2
  <2>1. o \in DOMAIN N /\ o # c /\ o # p
    BY <1>3
  <2>2. N[o].kids[i] \in DOMAIN N /\ N[o].kids[i] # root
    BY <2>1, <1>10
  <2>3. N[o].kids[i] # c
    BY <2>1, <2>2, <1>11 DEF Above
  <2>. QED
    BY <2>2, <2>3, <1>2 DEF Above
<1>17. \A x \in DOMAIN N \ {c} : g[x] = h[x] /\ w[x] = own[x]
  <2>. TAKE x \in DOMAIN N \ {c}
  <2>1. CASE x \in kept
    BY <2>1, <1>5, <1>6
  <2>2. CASE x = p
    <3>1. h[p] = h[c] + 1 /\ top = own[p]
      BY <2>2 DEF Above
    <3>. QED
      BY <2>2, <3>1, <1>5, <1>6
  <2>. QED
    BY <2>1, <2>2, <1>3
<1>20. Typed(M, root2, g, w)
  <2>1. D \subseteq Offsets /\ root2 \in D
    BY <1>2, <1>8 DEF Above
  <2>2. g \in [D -> Nat]
    <3>1. \A x \in D : g[x] \in Nat
      BY <1>5, <1>7, <1>9, <1>3
    <3>. QED
      BY <3>1, <1>5
  <2>3. w \in [D -> SUBSET Keys]
    <3>1. \A x \in kept : own[x] \in SUBSET Keys
      BY <1>3, <1>8
    <3>2. w[l] \in SUBSET Keys /\ w[r] \in SUBSET Keys
      <4>1. own[c] \in SUBSET Keys
        BY <1>8
      <4>. QED
        BY <4>1, <1>6
    <3>3. \A x \in D : w[x] \in SUBSET Keys
      BY <3>1, <3>2, <1>6, <1>7, <1>13
    <3>. QED
      BY <3>3, <1>6
  <2>4. w[root2] = Keys
    <3>1. CASE root2 = p /\ top = Keys
      BY <3>1, <1>6
    <3>2. CASE root2 = root /\ c # root
      <4>1. root \in DOMAIN N \ {c}
        BY <3>2, <1>8
      <4>. QED
        BY <4>1, <3>2, <1>17, <1>8
    <3>. QED
      BY <3>1, <3>2 DEF Above
  <2>5. \A x \in D : IsNode(M[x])
    BY <1>3, <1>4, <1>7, <1>8, <1>12, <1>13
  <2>6. \A x \in D : g[x] =< g[root2]
    <3>1. CASE root2 = p /\ c = root
      <4>1. g[root2] = h[root] + 1
        BY <3>1, <1>5
      <4>. QED
        BY <4>1, <3>1, <1>3, <1>5, <1>7, <1>8, <1>9
    <3>2. CASE root2 = root /\ c # root /\ p \in DOMAIN N \ {c} /\ h[p] = h[c] + 1
      <4>1. g[root2] = h[root]
        BY <3>2, <1>17, <1>8
      <4>2. h[c] + 1 =< h[root] /\ h[c] =< h[root]
        BY <3>2, <1>8, <1>9
      <4>. QED
        BY <4>1, <4>2, <1>3, <1>5, <1>7, <1>8
    <3>. QED
      BY <3>1, <3>2 DEF Above
  <2>. QED
    BY <2>1, <2>2, <2>3, <2>4, <2>5, <2>6, <1>4 DEF Typed
<1>21. LeavesOk(M, g, w)
  <2>. SUFFICES ASSUME NEW x \in D, M[x].leaf
                PROVE  g[x] = 0 /\ \A k \in LeafKeys(M[x]) : k \in w[x]
    BY <1>4 DEF LeavesOk
  <2>0. \A o \in DOMAIN N : N[o].leaf => h[o] = 0 /\ \A k \in LeafKeys(N[o]) : k \in own[o]
    BY DEF IsTree, LeavesOk
  <2>1. CASE x = l
    <3>1. N[c].leaf /\ \A k \in LeafKeys(left) : k \in own[c] /\ k =< s
      BY <2>1, <1>4, <1>12 DEF Halved
    <3>. QED
      BY <2>0, <2>1, <3>1, <1>4, <1>5, <1>6
  <2>2. CASE x = r
    <3>1. N[c].leaf /\ \A k \in LeafKeys(right) : k \in own[c] /\ k > s
      BY <2>2, <1>4, <1>12 DEF Halved
    <3>. QED
      BY <2>0, <2>2, <3>1, <1>4, <1>5, <1>6
  <2>3. CASE x = p
    BY <2>3, <1>4, <1>13
  <2>4. CASE x \in kept
    BY <2>0, <2>4, <1>3, <1>4, <1>5, <1>6
  <2>. QED
    BY <2>1, <2>2, <2>3, <2>4, <1>7
<1>22. InnersOk(M, w)
  <2>. SUFFICES ASSUME NEW x \in D, ~ M[x].leaf, NEW i \in DOMAIN M[x].keys
                PROVE  M[x].keys[i] \in w[x]
    BY <1>4 DEF InnersOk
  <2>1. CASE x = l
    <3>1. left.keys[i] \in own[c] /\ left.keys[i] =< s
      BY <2>1, <1>4 DEF Halved
    <3>. QED
      BY <2>1, <3>1, <1>4, <1>6
  <2>2. CASE x = r
    <3>1. right.keys[i] \in own[c] /\ right.keys[i] > s
      BY <2>2, <1>4 DEF Halved
    <3>. QED
      BY <2>2, <3>1, <1>4, <1>6
  <2>3. CASE x = p
    BY <2>3, <1>4, <1>6, <1>13
  <2>4. CASE x \in kept
    <3>1. \A o \in DOMAIN N : ~ N[o].leaf => \A j \in DOMAIN N[o].keys : N[o].keys[j] \in own[o]
      BY DEF IsTree, InnersOk
    <3>. QED
      BY <3>1, <2>4, <1>3, <1>4, <1>6
  <2>. QED
    BY <2>1, <2>2, <2>3, <2>4, <1>7
<1>23. LinksOk(M, root2, g, w)
  <2>. SUFFICES ASSUME NEW x \in D, NEW i \in DOMAIN M[x].kids, NEW d, d = M[x].kids[i]
                PROVE  /\ d \in D /\ d # root2 /\ g[x] = g[d] + 1
                       /\ \A k \in Keys : k \in w[d] <=> k \in w[x] /\ ChildIndex(M[x], k) = i
    BY <1>4 DEF LinksOk, IsLink
  <2>0. \A o \in DOMAIN N : \A j \in DOMAIN N[o].kids : \A k \in Keys :
            k \in own[N[o].kids[j]] <=> k \in own[o] /\ ChildIndex(N[o], k) = j
    BY DEF IsTree, LinksOk, IsLink
  <2>1. CASE x = l
    <3>1. i \in DOMAIN N[c].kids /\ d = N[c].kids[i]
      BY <2>1, <1>4, <1>12
    <3>2. d \in kept /\ d # root2 /\ d \in DOMAIN N \ {c}
      BY <3>1, <1>15, <1>3
    <3>3. g[d] = h[d] /\ w[d] = own[d] /\ h[c] = h[d] + 1
      BY <3>1, <3>2, <1>17, <1>10
    <3>4. ASSUME NEW k \in Keys
          PROVE  k \in own[d] <=> k \in own[c] /\ k =< s /\ ChildIndex(left, k) = i
      <4>1. k \in own[d] <=> k \in own[c] /\ ChildIndex(N[c], k) = i
        BY <2>0, <3>1
      <4>2. k \in own[c] => (k =< s /\ ChildIndex(left, k) = i <=> ChildIndex(N[c], k) = i)
        BY <2>1, <1>4 DEF Halved
      <4>. QED
        BY <4>1, <4>2
    <3>5. \A k \in Keys : k \in w[x] <=> k \in own[c] /\ k =< s
      BY <2>1, <1>6
    <3>6. \A k \in Keys : k \in w[d] <=> k \in w[x] /\ ChildIndex(M[x], k) = i
      BY <2>1, <3>3, <3>4, <3>5, <1>4
    <3>. QED
      BY <2>1, <3>2, <3>3, <3>6, <1>5, <1>7
  <2>2. CASE x = r
    <3>1. mid + i \in DOMAIN N[c].kids /\ d = N[c].kids[mid + i]
      BY <2>2, <1>4, <1>12
    <3>2. d \in kept /\ d # root2 /\ d \in DOMAIN N \ {c}
      BY <3>1, <1>15, <1>3
    <3>3. g[d] = h[d] /\ w[d] = own[d] /\ h[c] = h[d] + 1
      BY <3>1, <3>2, <1>17, <1>10
    <3>4. ASSUME NEW k \in Keys
          PROVE  k \in own[d] <=> k \in own[c] /\ k > s /\ ChildIndex(right, k) = i
      <4>1. k \in own[d] <=> k \in own[c] /\ ChildIndex(N[c], k) = mid + i
        BY <2>0, <3>1
      <4>2. k \in own[c] => (k > s /\ ChildIndex(right, k) = i <=> ChildIndex(N[c], k) = mid + i)
        BY <2>2, <1>4 DEF Halved
      <4>. QED
        BY <4>1, <4>2
    <3>5. \A k \in Keys : k \in w[x] <=> k \in own[c] /\ k > s
      BY <2>2, <1>6
    <3>6. \A k \in Keys : k \in w[d] <=> k \in w[x] /\ ChildIndex(M[x], k) = i
      BY <2>2, <3>3, <3>4, <3>5, <1>4
    <3>. QED
      BY <2>2, <3>2, <3>3, <3>6, <1>5, <1>7
  <2>3. CASE x = p
    <3>0. i \in DOMAIN parent.kids /\ d = parent.kids[i]
      BY <2>3, <1>4
    <3>1. CASE d = l /\ \A k \in Keys :
                k \in own[c] /\ k =< s <=> k \in top /\ ChildIndex(parent, k) = i
      <4>1. d # root2
        BY <3>1, <1>8 DEF Above
      <4>2. \A k \in Keys : k \in w[l] <=> k \in own[c] /\ k =< s
        BY <1>6
      <4>. QED
        <5>1. M[x] = parent /\ w[x] = top /\ g[x] = h[c] + 1 /\ g[d] = h[c]
          BY <2>3, <3>1, <1>4, <1>5, <1>6
        <5>2. \A k \in Keys : k \in w[d] <=> k \in w[x] /\ ChildIndex(M[x], k) = i
          BY <3>1, <4>2, <5>1
        <5>. QED
          BY <3>1, <4>1, <5>1, <5>2, <1>7
    <3>2. CASE d = r /\ \A k \in Keys :
                k \in own[c] /\ k > s <=> k \in top /\ ChildIndex(parent, k) = i
      <4>1. d # root2
        BY <3>2, <1>8 DEF Above
      <4>2. \A k \in Keys : k \in w[r] <=> k \in own[c] /\ k > s
        BY <1>6
      <4>. QED
        <5>1. M[x] = parent /\ w[x] = top /\ g[x] = h[c] + 1 /\ g[d] = h[c]
          BY <2>3, <3>2, <1>4, <1>5, <1>6
        <5>2. \A k \in Keys : k \in w[d] <=> k \in w[x] /\ ChildIndex(M[x], k) = i
          BY <3>2, <4>2, <5>1
        <5>. QED
          BY <3>2, <4>1, <5>1, <5>2, <1>7
    <3>3. CASE /\ d \in DOMAIN N \ {c, p} /\ p \in DOMAIN N \ {c}
               /\ \E j \in DOMAIN N[p].kids : N[p].kids[j] = d
               /\ \A k \in Keys : k \in own[d] <=> k \in top /\ ChildIndex(parent, k) = i
      <4>1. PICK j \in DOMAIN N[p].kids : N[p].kids[j] = d
        BY <3>3
      <4>2. d \in kept /\ d # root /\ h[p] = h[d] + 1
        BY <3>3, <4>1, <1>3, <1>10
      <4>3. root2 = root /\ h[p] = h[c] + 1 /\ h[c] \in Nat /\ h[d] \in Nat
        BY <3>3, <1>9 DEF Above
      <4>4. h[d] = h[c]
        BY <4>2, <4>3
      <4>. QED
        BY <2>3, <3>3, <4>2, <4>3, <4>4, <1>4, <1>5, <1>6, <1>7
    <3>4. \/ /\ d = l
             /\ \A k \in Keys : k \in own[c] /\ k =< s <=> k \in top /\ ChildIndex(parent, k) = i
          \/ /\ d = r
             /\ \A k \in Keys : k \in own[c] /\ k > s <=> k \in top /\ ChildIndex(parent, k) = i
          \/ /\ d \in DOMAIN N \ {c, p} /\ p \in DOMAIN N \ {c}
             /\ \E j \in DOMAIN N[p].kids : N[p].kids[j] = d
             /\ \A k \in Keys : k \in own[d] <=> k \in top /\ ChildIndex(parent, k) = i
      BY <3>0 DEF Adopts
    <3>. QED
      BY <3>1, <3>2, <3>3, <3>4
  <2>4. CASE x \in kept
    <3>1. x \in DOMAIN N \ {c} /\ i \in DOMAIN N[x].kids /\ d = N[x].kids[i]
      BY <2>4, <1>3, <1>4
    <3>2. d \in DOMAIN N \ {c} /\ d \in D /\ d # root2
      BY <2>4, <3>1, <1>16
    <3>3. g[x] = h[x] /\ w[x] = own[x] /\ g[d] = h[d] /\ w[d] = own[d]
      BY <3>1, <3>2, <1>17
    <3>4. h[x] = h[d] + 1
          /\ \A k \in Keys : k \in own[d] <=> k \in own[x] /\ ChildIndex(N[x], k) = i
      BY <2>0, <3>1, <1>10
    <3>. QED
      BY <2>4, <3>2, <3>3, <3>4, <1>4
  <2>. QED
    BY <2>1, <2>2, <2>3, <2>4, <1>7
\* The children of each node, with the parents they had.
<1>24. ASSUME NEW x \in D, NEW i \in DOMAIN M[x].kids
       PROVE  \/ /\ x = p /\ M[x].kids[i] \in {l, r}
              \/ /\ M[x].kids[i] \in DOMAIN N \ {c}
                 /\ \E q \in DOMAIN N : \E j \in DOMAIN N[q].kids :
                        /\ N[q].kids[j] = M[x].kids[i]
                        /\ x = p => q = p /\ p # c
                        /\ x \in kept => q = x /\ j = i
                        /\ x = l => q = c /\ j = i /\ i =< mid
                        /\ x = r => q = c /\ j = mid + i /\ i \in Nat \ {0}
  <2>1. CASE x = l
    <3>1. i \in DOMAIN N[c].kids /\ i =< mid /\ M[x].kids[i] = N[c].kids[i]
      BY <2>1, <1>4, <1>12
    <3>2. M[x].kids[i] \in DOMAIN N \ {c}
      BY <3>1, <1>15, <1>3
    <3>. QED
      BY <2>1, <3>1, <3>2, <1>7
  <2>2. CASE x = r
    <3>1. mid + i \in DOMAIN N[c].kids /\ i \in Nat \ {0} /\ M[x].kids[i] = N[c].kids[mid + i]
      BY <2>2, <1>4, <1>12
    <3>2. M[x].kids[i] \in DOMAIN N \ {c}
      BY <3>1, <1>15, <1>3
    <3>. QED
      BY <2>2, <3>1, <3>2, <1>7
  <2>3. CASE x = p
    <3>1. i \in DOMAIN parent.kids /\ M[x].kids[i] = parent.kids[i]
      BY <2>3, <1>4
    <3>2. CASE parent.kids[i] = l \/ parent.kids[i] = r
      BY <2>3, <3>1, <3>2
    <3>3. CASE /\ parent.kids[i] \in kept /\ p \in DOMAIN N \ {c}
               /\ \E j \in DOMAIN N[p].kids : N[p].kids[j] = parent.kids[i]
      <4>1. PICK j \in DOMAIN N[p].kids : N[p].kids[j] = M[x].kids[i]
        BY <3>1, <3>3
      <4>2. p \in DOMAIN N /\ p # c /\ M[x].kids[i] \in DOMAIN N \ {c}
        BY <3>1, <3>3, <1>3
      <4>. QED
        BY <2>3, <4>1, <4>2, <1>7
    <3>. QED
      BY <3>1, <3>2, <3>3, <1>14
  <2>4. CASE x \in kept
    <3>1. x \in DOMAIN N /\ i \in DOMAIN N[x].kids /\ M[x].kids[i] = N[x].kids[i]
      BY <2>4, <1>3, <1>4
    <3>2. M[x].kids[i] \in DOMAIN N \ {c}
      BY <2>4, <3>1, <1>16
    <3>. QED
      BY <2>4, <3>1, <3>2, <1>7
  <2>. QED
    BY <2>1, <2>2, <2>3, <2>4, <1>7
<1>25. OneParent(M)
  <2>. SUFFICES ASSUME NEW x \in D, NEW y \in D, NEW i \in DOMAIN M[x].kids,
                       NEW j \in DOMAIN M[y].kids, M[x].kids[i] = M[y].kids[j]
                PROVE  x = y /\ i = j
    BY <1>4 DEF OneParent
  <2>1. CASE x = p /\ y = p
    <3>1. \A a, b \in DOMAIN parent.kids : parent.kids[a] = parent.kids[b] => a = b
      BY DEF Adopts
    <3>. QED
      BY <2>1, <3>1, <1>4
  <2>2. CASE M[x].kids[i] \in {l, r}
    <3>1. M[x].kids[i] \notin DOMAIN N \ {c} /\ M[y].kids[j] \notin DOMAIN N \ {c}
      BY <2>2
    <3>2. x = p
      BY <3>1, <1>24
    <3>3. y = p
      BY <3>1, <1>24
    <3>. QED
      BY <3>2, <3>3, <2>1
  <2>3. CASE M[x].kids[i] \notin {l, r} /\ ~ (x = p /\ y = p)
    <3>1. PICK q \in DOMAIN N : \E a \in DOMAIN N[q].kids :
                        /\ N[q].kids[a] = M[x].kids[i]
                        /\ x = p => q = p /\ p # c
                        /\ x \in kept => q = x /\ a = i
                        /\ x = l => q = c /\ a = i /\ i =< mid
                        /\ x = r => q = c /\ a = mid + i /\ i \in Nat \ {0}
      BY <2>3, <1>24
    <3>2. PICK a \in DOMAIN N[q].kids :
                        /\ N[q].kids[a] = M[x].kids[i]
                        /\ x = p => q = p /\ p # c
                        /\ x \in kept => q = x /\ a = i
                        /\ x = l => q = c /\ a = i /\ i =< mid
                        /\ x = r => q = c /\ a = mid + i /\ i \in Nat \ {0}
      BY <3>1
    <3>3. PICK z \in DOMAIN N : \E b \in DOMAIN N[z].kids :
                        /\ N[z].kids[b] = M[y].kids[j]
                        /\ y = p => z = p /\ p # c
                        /\ y \in kept => z = y /\ b = j
                        /\ y = l => z = c /\ b = j /\ j =< mid
                        /\ y = r => z = c /\ b = mid + j /\ j \in Nat \ {0}
      BY <2>3, <1>24
    <3>4. PICK b \in DOMAIN N[z].kids :
                        /\ N[z].kids[b] = M[y].kids[j]
                        /\ y = p => z = p /\ p # c
                        /\ y \in kept => z = y /\ b = j
                        /\ y = l => z = c /\ b = j /\ j =< mid
                        /\ y = r => z = c /\ b = mid + j /\ j \in Nat \ {0}
      BY <3>3
    <3>5. q = z /\ a = b
      BY <3>2, <3>4, <1>11
    <3>6. \A n : n \in kept => n # c /\ n # p
      BY <1>3
    <3>7. CASE x \in kept
      <4>1. y \in kept
        BY <3>2, <3>4, <3>5, <3>6, <3>7, <1>7
      <4>. QED
        BY <3>2, <3>4, <3>5, <3>7, <4>1
    <3>8. CASE x = l
      <4>1. q = c /\ a = i /\ i =< mid
        BY <3>2, <3>8
      <4>2. y = l \/ y = r
        BY <4>1, <3>4, <3>5, <3>6, <1>7
      <4>3. CASE y = l
        BY <4>1, <4>3, <3>4, <3>5, <3>8
      <4>4. CASE y = r
        <5>1. i = mid + j /\ j \in Nat \ {0} /\ i =< mid
          BY <4>1, <4>4, <3>4, <3>5
        <5>. QED
          BY <5>1, <1>12
      <4>. QED
        BY <4>2, <4>3, <4>4
    <3>9. CASE x = r
      <4>1. q = c /\ a = mid + i /\ i \in Nat \ {0}
        BY <3>2, <3>9
      <4>2. y = l \/ y = r
        BY <4>1, <3>4, <3>5, <3>6, <1>7
      <4>3. CASE y = r
        <5>1. mid + i = mid + j /\ j \in Nat
          BY <4>1, <4>3, <3>4, <3>5
        <5>. QED
          BY <5>1, <4>1, <4>3, <3>9, <1>12
      <4>4. CASE y = l
        <5>1. j = mid + i /\ j =< mid
          BY <4>1, <4>4, <3>4, <3>5
        <5>. QED
          BY <5>1, <4>1, <1>12
      <4>. QED
        BY <4>2, <4>3, <4>4
    <3>10. CASE x = p
      <4>1. q = p /\ p # c /\ y # p
        BY <3>2, <3>10, <2>3
      <4>2. y \notin kept /\ y # l /\ y # r
        BY <4>1, <3>4, <3>5, <3>6
      <4>. QED
        BY <4>1, <4>2, <1>7
    <3>. QED
      BY <3>7, <3>8, <3>9, <3>10, <1>7
  <2>. QED
    BY <2>1, <2>2, <2>3
<1>26. Parented(M, root2)
  <2>. SUFFICES ASSUME NEW d \in D, d # root2
                PROVE  \E x \in D : \E i \in DOMAIN M[x].kids : M[x].kids[i] = d
    BY <1>4 DEF Parented
  <2>0. \A x \in DOMAIN N \ {root} :
            \E o \in DOMAIN N : \E i \in DOMAIN N[o].kids : N[o].kids[i] = x
    BY DEF IsTree, Parented
  <2>1. CASE d = l \/ d = r
    <3>1. \E j \in DOMAIN parent.kids : parent.kids[j] = d
      BY <2>1 DEF Adopts
    <3>. QED
      BY <3>1, <1>4, <1>7
  <2>2. CASE d \in DOMAIN N \ {c}
    <3>1. d # root
      BY <2>2 DEF Above
    <3>2. PICK o \in DOMAIN N : \E i \in DOMAIN N[o].kids : N[o].kids[i] = d
      BY <2>0, <2>2, <3>1
    <3>3. PICK i \in DOMAIN N[o].kids : N[o].kids[i] = d
      BY <3>2
    <3>4. CASE o = c
      <4>1. i \in DOMAIN N[c].kids
        BY <3>3, <3>4
      <4>2. PICK j \in DOMAIN N[c].kids : j = i
        BY <4>1
      <4>6. j \in Nat
        <5>1. \A n : IsNode(n) => \A a \in DOMAIN n.kids : a \in Nat
          BY KidPlaces
        <5>2. IsNode(N[c])
          BY <1>8
        <5>. QED
          BY <5>1, <5>2
      <4>3. CASE j =< mid
        <5>1. j \in DOMAIN left.kids /\ left.kids[j] = d
          BY <4>2, <4>3, <3>3, <3>4, <1>12
        <5>. QED
          BY <5>1, <1>4, <1>7
      <4>4. CASE j > mid
        <5>1. j - mid \in DOMAIN right.kids
          BY <4>4, <1>12
        <5>2. mid + (j - mid) = j
          <6>1. mid + (j - mid) \in DOMAIN N[c].kids /\ mid \in Nat /\ j - mid \in Nat
            BY <5>1, <1>12
          <6>2. j \in Nat
            BY <4>6
          <6>. QED
            BY <6>1, <6>2
        <5>3. right.kids[j - mid] = d
          BY <5>1, <5>2, <4>2, <3>3, <3>4, <1>12
        <5>. QED
          BY <5>1, <5>3, <1>4, <1>7
      <4>5. j =< mid \/ j > mid
        BY <4>6, <1>12
      <4>. QED
        BY <4>3, <4>4, <4>5
    <3>5. CASE o # c /\ o = p
      <4>1. p \in DOMAIN N \ {c} /\ d # c /\ i \in DOMAIN N[p].kids /\ N[p].kids[i] = d
        BY <2>2, <3>3, <3>5
      <4>2. \E j \in DOMAIN parent.kids : parent.kids[j] = d
        BY <4>1 DEF Adopts
      <4>. QED
        BY <4>2, <1>4, <1>7
    <3>6. CASE o # c /\ o # p
      <4>1. o \in kept
        BY <3>6, <1>3
      <4>. QED
        BY <4>1, <3>3, <1>4, <1>7
    <3>. QED
      BY <3>4, <3>5, <3>6
  <2>3. CASE d = p
    <3>1. p \in DOMAIN N \ {c}
      BY <2>3 DEF Above
    <3>. QED
      BY <2>2, <2>3, <3>1
  <2>. QED
    BY <2>1, <2>2, <2>3, <1>2
<1>27. LeavesApart(M, w)
  <2>. SUFFICES ASSUME NEW x \in D, NEW y \in D, M[x].leaf, M[y].leaf, x # y,
                       NEW k \in w[x], k \in w[y]
                PROVE  FALSE
    BY <1>4 DEF LeavesApart
  <2>0. \A o, q \in DOMAIN N : N[o].leaf /\ N[q].leaf /\ o # q => \A a \in own[o] : a \notin own[q]
    BY DEF IsTree, LeavesApart
  <2>1. x # p /\ y # p
    BY <1>4, <1>13
  <2>2. \A z \in D : z # p /\ z \notin kept => (z = l \/ z = r) /\ w[z] \subseteq own[c]
    BY <1>6, <1>7
  <2>3. \A z \in D : (z = l \/ z = r) /\ M[z].leaf => N[c].leaf
    BY <1>4, <1>12
  <2>4. \A z \in kept : z \in DOMAIN N /\ z # c /\ w[z] = own[z] /\ M[z] = N[z]
    BY <1>3, <1>4, <1>6
  <2>5. CASE x \in kept /\ y \in kept
    BY <2>0, <2>4, <2>5
  <2>6. CASE x \in kept /\ y \notin kept
    BY <2>0, <2>1, <2>2, <2>3, <2>4, <2>6
  <2>7. CASE x \notin kept /\ y \in kept
    BY <2>0, <2>1, <2>2, <2>3, <2>4, <2>7
  <2>8. CASE x \notin kept /\ y \notin kept
    <3>1. (x = l /\ y = r) \/ (x = r /\ y = l)
      BY <2>1, <2>2, <2>8
    <3>2. k \in w[l] /\ k \in w[r]
      BY <3>1
    <3>3. k =< s /\ k > s /\ k \in own[c] /\ s \in own[c]
      BY <3>2, <1>6 DEF Halved
    <3>4. k \in Nat /\ s \in Nat
      BY <3>3, <1>8, IndexAssumption
    <3>. QED
      BY <3>3, <3>4
  <2>. QED
    BY <2>5, <2>6, <2>7, <2>8
<1>. QED
  BY <1>1, <1>20, <1>21, <1>22, <1>23, <1>25, <1>26, <1>27 DEF IsTree

------------------------------------------------------------------------------
(* IndexInnerNode::AfterAdd and Index::AfterAdd: the halves' parents.      *)

\* parent is n with l and r in the place of its child i, and s between them.
TwoForOne(n, i, s, l, r, parent) ==
    /\ IsInner(parent) /\ Len(parent.keys) = Len(n.keys) + 1
    /\ parent.keys[i] = s /\ parent.kids[i] = l /\ parent.kids[i + 1] = r
    /\ \A j \in 1 .. i - 1 : parent.keys[j] = n.keys[j] /\ parent.kids[j] = n.kids[j]
    /\ \A j \in i + 1 .. Len(n.keys) + 1 : parent.keys[j] = n.keys[j - 1]
    /\ \A j \in i + 2 .. Len(n.keys) + 2 : parent.kids[j] = n.kids[j - 1]

\* A child is replaced by two, with the split key between them.
LEMMA ReplaceChildIs ==
    ASSUME NEW n, IsInner(n), NEW i \in DOMAIN n.kids, NEW s \in Keys,
           NEW l \in Offsets, NEW r \in Offsets,
           i > 1 => n.keys[i - 1] < s, i =< Len(n.keys) => s < n.keys[i]
    PROVE  TwoForOne(n, i, s, l, r, ReplaceChild(n, i, s, l, r))
<1>0. PICK len, parent : len = Len(n.keys) /\ parent = ReplaceChild(n, i, s, l, r)
  OBVIOUS
<1>1. PICK keys, kids : keys = n.keys /\ kids = n.kids
  OBVIOUS
<1>2. keys \in Seq(Keys) /\ kids \in Seq(Offsets) /\ Len(kids) = len + 1 /\ len = Len(keys)
  BY <1>0, <1>1 DEF IsInner
<1>3. /\ Increasing(keys) /\ len \in Nat /\ DOMAIN keys = 1 .. len
      /\ \A j \in 1 .. len : keys[j] \in Nat
  BY <1>0, <1>1, InnerParts
<1>13. i \in 1 .. len + 1
  BY <1>0, <1>1, InnerParts
<1>14. (i > 1 => keys[i - 1] < s) /\ (i =< len => s < keys[i])
  BY <1>0, <1>1
<1>4. PICK keys2 : keys2 = InsertAt(keys, i, s)
  OBVIOUS
<1>5. /\ keys2 \in Seq(Keys) /\ Len(keys2) = len + 1 /\ keys2[i] = s
      /\ \A j \in 1 .. i - 1 : keys2[j] = keys[j]
      /\ \A j \in i + 1 .. len + 1 : keys2[j] = keys[j - 1]
  <2>1. i \in 1 .. Len(keys) + 1
    BY <1>2, <1>13
  <2>2. Inserted(Keys, keys, i, s, keys2)
    BY <2>1, <1>2, <1>4, InsertAtIs
  <2>. QED
    BY <2>2, <1>2 DEF Inserted
<1>6. PICK kids1 : kids1 = ReplaceAt(kids, i, l)
  OBVIOUS
<1>7. /\ kids1 \in Seq(Offsets) /\ Len(kids1) = len + 1 /\ kids1[i] = l
      /\ \A j \in 1 .. len + 1 : j # i => kids1[j] = kids[j]
  <2>1. i \in 1 .. Len(kids)
    BY <1>2, <1>13
  <2>2. Replaced(Offsets, kids, i, l, kids1)
    BY <2>1, <1>2, <1>6, ReplaceAtIs
  <2>. QED
    BY <2>2, <1>2 DEF Replaced
<1>8. PICK kids2, m : kids2 = InsertAt(kids1, m, r) /\ m = i + 1
  OBVIOUS
<1>9. /\ kids2 \in Seq(Offsets) /\ Len(kids2) = (len + 1) + 1 /\ kids2[m] = r
      /\ \A j \in 1 .. m - 1 : kids2[j] = kids1[j]
      /\ \A j \in m + 1 .. (len + 1) + 1 : kids2[j] = kids1[j - 1]
  <2>1. m \in 1 .. Len(kids1) + 1
    BY <1>3, <1>7, <1>8, <1>13
  <2>2. Inserted(Offsets, kids1, m, r, kids2)
    BY <2>1, <1>7, <1>8, InsertAtIs
  <2>. QED
    BY <2>2, <1>7 DEF Inserted
<1>10. /\ \A j \in 1 .. i - 1 : kids2[j] = kids[j]
       /\ kids2[i] = l /\ kids2[i + 1] = r
       /\ \A j \in i + 2 .. len + 2 : kids2[j] = kids[j - 1]
  <2>1. i \in 1 .. m - 1 /\ m - 1 = i /\ i \in Nat
    <3>1. m = i + 1 /\ i \in Nat /\ 1 =< i
      BY <1>3, <1>8, <1>13
    <3>. QED
      BY <3>1
  <2>2. ASSUME NEW j \in 1 .. i - 1 PROVE kids2[j] = kids[j]
    <3>1. j \in 1 .. m - 1 /\ j \in 1 .. len + 1 /\ j # i
      BY <2>1, <1>3, <1>13
    <3>. QED
      BY <3>1, <1>7, <1>9
  <2>3. ASSUME NEW j \in i + 2 .. len + 2 PROVE kids2[j] = kids[j - 1]
    <3>1. j \in m + 1 .. (len + 1) + 1
      BY <2>1, <1>3, <1>8, <1>13
    <3>2. j - 1 \in 1 .. len + 1 /\ j - 1 # i
      BY <2>1, <1>3, <1>13
    <3>. QED
      BY <3>1, <3>2, <1>7, <1>9
  <2>. QED
    BY <2>1, <2>2, <2>3, <1>7, <1>8, <1>9
<1>11. Increasing(keys2)
  <2>. SUFFICES ASSUME NEW a \in 1 .. len + 1, NEW b \in 1 .. len + 1, a < b
                PROVE  keys2[a] < keys2[b]
    <3>1. DOMAIN keys2 = 1 .. len + 1
      BY <1>5, <1>3, LenProperties
    <3>. QED
      BY <3>1 DEF Increasing
  <2>1. \A x, y \in 1 .. len : x < y => keys[x] < keys[y]
    BY <1>3 DEF Increasing
  <2>2. s \in Nat /\ (i > 1 => keys[i - 1] < s) /\ (i =< len => s < keys[i])
    BY <1>14, IndexAssumption
  <2>3. i \in 1 .. len + 1
    BY <1>13
  <2>4. CASE b < i
    <3>1. a \in 1 .. len /\ b \in 1 .. len /\ keys2[a] = keys[a] /\ keys2[b] = keys[b]
      <4>1. a \in 1 .. i - 1 /\ b \in 1 .. i - 1 /\ a \in 1 .. len /\ b \in 1 .. len
        BY <2>3, <2>4, <1>3
      <4>. QED
        BY <4>1, <1>5
    <3>. QED
      BY <3>1, <2>1
  <2>5. CASE b = i
    <3>0. a \in 1 .. len /\ a \in 1 .. i - 1 /\ i - 1 \in 1 .. len /\ i > 1
      BY <2>3, <2>5, <1>3
    <3>1. a \in 1 .. len /\ keys2[a] = keys[a] /\ keys2[b] = s /\ i - 1 \in 1 .. len /\ i > 1
      BY <3>0, <2>5, <1>5
    <3>2. a = i - 1 \/ a < i - 1
      BY <2>3, <2>5, <3>1
    <3>3. keys[a] =< keys[i - 1]
      BY <3>1, <3>2, <2>1, <1>3
    <3>. QED
      BY <3>1, <3>3, <2>2, <1>3
  <2>6. CASE b > i
    <3>0. b \in i + 1 .. len + 1 /\ b - 1 \in 1 .. len /\ i =< len /\ i \in 1 .. len
      BY <2>3, <2>6, <1>3
    <3>1. b - 1 \in 1 .. len /\ keys2[b] = keys[b - 1] /\ i =< len /\ i \in 1 .. len
      BY <3>0, <1>5
    <3>2. s < keys[b - 1]
      <4>1. b - 1 = i \/ i < b - 1
        BY <2>3, <2>6
      <4>2. keys[i] =< keys[b - 1]
        BY <4>1, <3>1, <2>1, <1>3
      <4>. QED
        BY <4>2, <3>1, <2>2, <1>3
    <3>3. CASE a < i
      <4>0. a \in 1 .. len /\ a \in 1 .. i - 1 /\ a < b - 1
        BY <2>3, <2>6, <3>3, <1>3
      <4>1. a \in 1 .. len /\ keys2[a] = keys[a] /\ a < b - 1
        BY <4>0, <1>5
      <4>. QED
        BY <4>1, <3>1, <2>1
    <3>4. CASE a = i
      BY <3>1, <3>2, <3>4, <1>5, <2>3
    <3>5. CASE a > i
      <4>1. a - 1 \in 1 .. len /\ keys2[a] = keys[a - 1] /\ a - 1 < b - 1
        BY <2>3, <3>5, <1>5, <1>3
      <4>. QED
        BY <4>1, <3>1, <2>1
    <3>. QED
      BY <3>3, <3>4, <3>5, <2>3
  <2>. QED
    BY <2>4, <2>5, <2>6, <2>3
<1>12. parent = Inner(keys2, kids2)
  BY <1>0, <1>1, <1>4, <1>6, <1>8 DEF ReplaceChild
<1>15. IsInner(parent)
  <2>1. Len(kids2) = Len(keys2) + 1
    BY <1>3, <1>5, <1>9
  <2>. QED
    BY <2>1, <1>5, <1>9, <1>11, <1>12, InnerOf
<1>16. parent.keys = keys2 /\ parent.kids = kids2
  <2>1. Inner(keys2, kids2).keys = keys2 /\ Inner(keys2, kids2).kids = kids2
    BY DEF Inner
  <2>. QED
    BY <2>1, <1>12
<1>17. TwoForOne(n, i, s, l, r, parent)
  BY <1>0, <1>1, <1>5, <1>10, <1>15, <1>16 DEF TwoForOne
<1>. QED
  BY <1>0, <1>17

IndexMoves(n, i, s, parent, k) ==
    /\ \A j \in 1 .. i - 1 : ChildIndex(parent, k) = j <=> ChildIndex(n, k) = j
    /\ ChildIndex(parent, k) = i <=> ChildIndex(n, k) = i /\ k =< s
    /\ ChildIndex(parent, k) = i + 1 <=> ChildIndex(n, k) = i /\ k > s
    /\ \A j \in i + 2 .. Len(n.keys) + 2 :
        ChildIndex(parent, k) = j <=> ChildIndex(n, k) = j - 1

\* Which child a key belongs to after that.
LEMMA ReplaceChildIndex ==
    ASSUME NEW n, IsInner(n), NEW i \in DOMAIN n.kids, NEW s \in Keys, NEW l, NEW r,
           i > 1 => n.keys[i - 1] < s, i =< Len(n.keys) => s < n.keys[i],
           NEW parent, TwoForOne(n, i, s, l, r, parent), NEW k \in Nat
    PROVE  IndexMoves(n, i, s, parent, k)
<1>1. PICK keys, len : keys = n.keys /\ len = Len(n.keys)
  OBVIOUS
<1>2. len \in Nat /\ i \in 1 .. len + 1 /\ \A j \in 1 .. len : keys[j] \in Nat
  BY <1>1, InnerParts
<1>3. PICK keys2 : keys2 = parent.keys
  OBVIOUS
<1>4. /\ IsInner(parent) /\ Len(keys2) = len + 1
      /\ keys2[i] = s
      /\ \A j \in 1 .. i - 1 : keys2[j] = keys[j]
      /\ \A j \in i + 1 .. len + 1 : keys2[j] = keys[j - 1]
  BY <1>1, <1>3 DEF TwoForOne
<1>5. \A j \in 1 .. len + 1 : ChildIndex(n, k) = j <=> /\ j > 1 => keys[j - 1] < k
                                                       /\ j =< len => k =< keys[j]
  BY <1>1, ChildIndexAt
<1>6. \A j \in 1 .. len + 2 : ChildIndex(parent, k) = j <=> /\ j > 1 => keys2[j - 1] < k
                                                            /\ j =< len + 1 => k =< keys2[j]
  <2>1. \A j \in 1 .. Len(keys2) + 1 :
            ChildIndex(parent, k) = j <=> /\ j > 1 => keys2[j - 1] < k
                                          /\ j =< Len(keys2) => k =< keys2[j]
    BY <1>3, <1>4, ChildIndexAt
  <2>2. Len(keys2) + 1 = len + 2
    BY <1>2, <1>4
  <2>. QED
    BY <2>1, <2>2, <1>4
<1>7. s \in Nat /\ (i > 1 => keys[i - 1] < s) /\ (i =< len => s < keys[i])
  BY <1>1, IndexAssumption
<1>8. ASSUME NEW j \in 1 .. i - 1
      PROVE  ChildIndex(parent, k) = j <=> ChildIndex(n, k) = j
  <2>1. j \in 1 .. len + 1 /\ j \in 1 .. len + 2 /\ j =< len /\ j =< len + 1
    BY <1>2
  <2>2. keys2[j] = keys[j]
    BY <2>1, <1>2, <1>4
  <2>3. j > 1 => keys2[j - 1] = keys[j - 1]
    BY <2>1, <1>2, <1>4
  <2>. QED
    BY <2>1, <2>2, <2>3, <1>5, <1>6
<1>9. i \in 1 .. len + 1 /\ i \in 1 .. len + 2 /\ keys2[i] = s
  BY <1>2, <1>4
<1>10. ChildIndex(parent, k) = i <=> ChildIndex(n, k) = i /\ k =< s
  <2>1. i > 1 => keys2[i - 1] = keys[i - 1]
    BY <1>2, <1>4
  <2>2. i =< len => keys[i] \in Nat
    BY <1>2
  <2>3. k =< s => (i =< len => k =< keys[i])
    BY <2>2, <1>7
  <2>4. i =< len + 1
    BY <1>2
  <2>. QED
    BY <2>1, <2>3, <2>4, <1>5, <1>6, <1>9
<1>11. ChildIndex(parent, k) = i + 1 <=> ChildIndex(n, k) = i /\ k > s
  <2>0. i \in Int /\ len \in Int /\ 1 =< i /\ i =< len + 1
    BY <1>2
  <2>1. /\ i + 1 \in 1 .. len + 2
        /\ i + 1 > 1
        /\ (i + 1) - 1 = i
        /\ i + 1 =< len + 1 <=> i =< len
    BY <2>0
  <2>2. ChildIndex(parent, k) = i + 1 <=> s < k /\ (i + 1 =< len + 1 => k =< keys2[i + 1])
    BY <2>1, <1>6, <1>9
  <2>3. i =< len => keys2[i + 1] = keys[i]
    BY <2>1, <1>2, <1>4
  <2>4. i > 1 => keys[i - 1] \in Nat
    BY <1>2
  <2>5. s < k => (i > 1 => keys[i - 1] < k)
    BY <2>4, <1>7
  <2>. QED
    BY <2>1, <2>2, <2>3, <2>5, <1>5, <1>7, <1>9
<1>12. ASSUME NEW j \in i + 2 .. len + 2
       PROVE  ChildIndex(parent, k) = j <=> ChildIndex(n, k) = j - 1
  <2>1. j \in 1 .. len + 2 /\ j > 1 /\ j - 1 \in 1 .. len + 1 /\ j - 1 > 1
        /\ (j =< len + 1 <=> j - 1 =< len) /\ (j - 1) - 1 = j - 2
    BY <1>2
  <2>2. keys2[j - 1] = keys[(j - 1) - 1]
    <3>1. j - 1 \in i + 1 .. len + 1
      BY <1>2
    <3>. QED
      BY <3>1, <1>4
  <2>3. ASSUME j =< len + 1 PROVE keys2[j] = keys[j - 1]
    <3>1. j \in i + 1 .. len + 1
      BY <2>3, <1>2
    <3>. QED
      BY <3>1, <1>4
  <2>. QED
    BY <2>1, <2>2, <2>3, <1>5, <1>6
<1>. QED
  BY <1>1, <1>8, <1>10, <1>11, <1>12 DEF IndexMoves

\* The halves have the entries of the node, and no others.
Shares(n, left, right) ==
    \A k, v : k \in LeafKeys(n) /\ n.entries[k] = v <=>
        \/ k \in LeafKeys(left) /\ left.entries[k] = v
        \/ k \in LeafKeys(right) /\ right.entries[k] = v

\* A node of a tree that is split.
LEMMA SplitIs ==
    ASSUME NEW n, IsNode(n), NodeOversized(n), NEW own \in SUBSET Keys,
           n.leaf => LeafKeys(n) \subseteq own,
           ~ n.leaf => \A i \in DOMAIN n.keys : n.keys[i] \in own,
           NEW s, s = Split(n)
    PROVE  /\ \E mid \in Nat : Halved(n, own, s.left, s.right, s.key, mid)
           /\ Shares(n, s.left, s.right)
           /\ NearlyFits(n) => ~ NodeOversized(s.left) /\ ~ NodeOversized(s.right)
<1>1. CASE n.leaf
  <2>1. IsLeaf(n) /\ s = LeafSplit(n)
    BY <1>1, NodeIs DEF Split
  <2>2. Cardinality(LeafKeys(n)) > 1
    <3>1. Cardinality(LeafKeys(n)) > LeafCapacity
      BY <1>1 DEF NodeOversized
    <3>2. IsFiniteSet(LeafKeys(n))
      <4>1. PICK e : e = n.entries
        OBVIOUS
      <4>2. n = Leaf(e) /\ IsMap(e)
        BY <2>1, <4>1 DEF IsLeaf
      <4>3. LeafKeys(n) = DOMAIN e
        BY <4>2, LeafIs
      <4>. QED
        BY <4>2, <4>3 DEF IsMap
    <3>3. Cardinality(LeafKeys(n)) \in Nat
      BY <3>2, FS_CardinalityType
    <3>. QED
      BY <3>1, <3>3, CapacityAssumption
  <2>3. /\ s.key \in LeafKeys(n)
        /\ LeafKeys(s.left) = {k \in LeafKeys(n) : k =< s.key}
        /\ LeafKeys(s.right) = {k \in LeafKeys(n) : k > s.key}
        /\ \A k \in LeafKeys(s.left) : s.left.entries[k] = n.entries[k]
        /\ \A k \in LeafKeys(s.right) : s.right.entries[k] = n.entries[k]
        /\ NearlyFits(n) => ~ NodeOversized(s.left) /\ ~ NodeOversized(s.right)
    BY <2>1, <2>2, LeafSplitIs
  <2>4. Halved(n, own, s.left, s.right, s.key, 0)
    BY <1>1, <2>1, LeafHalved
  <2>5. Shares(n, s.left, s.right)
    <3>0. PICK key : key = s.key
      OBVIOUS
    <3>2. key \in Nat /\ \A k \in LeafKeys(n) : k \in Nat
      BY <1>1, <2>3, <3>0, IndexAssumption
    <3>1. \A k \in LeafKeys(n) : k =< s.key \/ k > s.key
      BY <3>0, <3>2
    <3>. QED
      BY <2>3, <3>1 DEF Shares
  <2>. QED
    BY <2>3, <2>4, <2>5
<1>2. CASE ~ n.leaf
  <2>1. IsInner(n) /\ s = InnerSplit(n)
    BY <1>2, NodeIs DEF Split
  <2>2. \E mid \in Nat : Halved(n, own, s.left, s.right, s.key, mid)
    BY <1>2, <2>1, InnerHalved
  <2>3. Len(n.keys) > InnerCapacity
    BY <1>2 DEF NodeOversized
  <2>4. NearlyFits(n) => ~ NodeOversized(s.left) /\ ~ NodeOversized(s.right)
    BY <2>1, <2>3, InnerSplitIs
  <2>5. IsInner(s.left) /\ IsInner(s.right)
    BY <2>1, <2>3, InnerSplitIs
  <2>6. LeafKeys(n) = {} /\ LeafKeys(s.left) = {} /\ LeafKeys(s.right) = {}
    <3>1. PICK left, right : left = s.left /\ right = s.right
      OBVIOUS
    <3>2. IsNode(n) /\ IsNode(left) /\ IsNode(right) /\ ~ left.leaf /\ ~ right.leaf
      BY <2>1, <2>5, <3>1, InnerParts DEF IsNode
    <3>3. LeafKeys(left) = {} /\ LeafKeys(right) = {} /\ LeafKeys(n) = {}
      BY <3>2, <1>2, NodeIs
    <3>. QED
      BY <3>1, <3>3
  <2>. QED
    BY <2>2, <2>4, <2>6 DEF Shares
<1>. QED
  BY <1>1, <1>2 DEF IsNode

\* The split key lies between the separators around the child that is split.
LEMMA SplitKeyBetween ==
    ASSUME NEW n, IsInner(n), NEW i \in DOMAIN n.kids, NEW top \in SUBSET Keys, NEW own,
           \A k \in Keys : k \in own <=> k \in top /\ ChildIndex(n, k) = i, own \in SUBSET Keys,
           NEW s \in own, \E k \in own : k > s
    PROVE  (i > 1 => n.keys[i - 1] < s) /\ (i =< Len(n.keys) => s < n.keys[i])
<1>1. i \in 1 .. Len(n.keys) + 1 /\ Len(n.keys) \in Nat
      /\ \A j \in 1 .. Len(n.keys) : n.keys[j] \in Nat
  BY InnerParts
<1>2. PICK k \in own : k > s
  OBVIOUS
<1>3. k \in Nat /\ s \in Nat /\ ChildIndex(n, k) = i /\ ChildIndex(n, s) = i
  BY <1>2, IndexAssumption
<1>4. (i > 1 => n.keys[i - 1] < s)
  BY <1>1, <1>3, ChildIndexAt
<1>5. (i =< Len(n.keys) => k =< n.keys[i])
  BY <1>1, <1>3, ChildIndexAt
<1>6. i =< Len(n.keys) => n.keys[i] \in Nat
  BY <1>1
<1>7. i =< Len(n.keys) => s < n.keys[i]
  BY <1>2, <1>3, <1>5, <1>6
<1>. QED
  BY <1>4, <1>7

\* IndexInnerNode::AfterAdd: the parent of a node that is split.
LEMMA ChildAdopts ==
    ASSUME NEW N, NEW root, NEW h, NEW own, IsTree(N, root, h, own),
           NEW p \in DOMAIN N, NEW i \in DOMAIN N[p].kids, NEW c, c = N[p].kids[i],
           NEW l \in Offsets, NEW r \in Offsets, l # r, p # l, p # r,
           l \notin DOMAIN N \ {c}, r \notin DOMAIN N \ {c},
           NEW left, NEW right, NEW s, NEW mid, Halved(N[c], own[c], left, right, s, mid),
           NEW parent, parent = ReplaceChild(N[p], i, s, l, r)
    PROVE  /\ Above(N, root, h, own, c, p, root, own[p])
           /\ Adopts(N, root, h, own, c, l, r, p, s, own[p], parent)
           /\ ~ NodeOversized(N[p]) => NearlyFits(parent)
<1>1. PICK n, top : n = N[p] /\ top = own[p]
  OBVIOUS
<1>2. /\ IsNode(n) /\ top \in SUBSET Keys /\ \A o \in DOMAIN N : h[o] \in Nat
      /\ \A o \in DOMAIN N : own[o] \in SUBSET Keys
  BY <1>1 DEF IsTree, Typed
<1>3. IsInner(n)
  <2>1. ~ n.leaf
    BY <1>1, <1>2, NodeIs
  <2>. QED
    BY <2>1, <1>2, NodeIs
<1>4. PICK len : len = Len(n.keys)
  OBVIOUS
<1>5. /\ len \in Nat /\ DOMAIN n.keys = 1 .. len /\ DOMAIN n.kids = 1 .. len + 1
      /\ n.leaf = FALSE /\ i \in 1 .. len + 1
  BY <1>1, <1>3, <1>4, InnerParts
<1>6. \A j \in DOMAIN n.kids :
        /\ n.kids[j] \in DOMAIN N /\ n.kids[j] # root /\ h[p] = h[n.kids[j]] + 1
        /\ \A k \in Keys : k \in own[n.kids[j]] <=> k \in top /\ ChildIndex(n, k) = j
  BY <1>1 DEF IsTree, LinksOk, IsLink
<1>7. c \in DOMAIN N /\ c # root /\ h[p] = h[c] + 1 /\ own[c] \in SUBSET Keys
      /\ \A k \in Keys : k \in own[c] <=> k \in top /\ ChildIndex(n, k) = i
  BY <1>1, <1>2, <1>6
<1>8. p # c
  BY <1>2, <1>7
<1>9. Above(N, root, h, own, c, p, root, own[p])
  BY <1>7, <1>8 DEF Above
<1>10. s \in own[c] /\ \E k \in own[c] : k > s
  BY DEF Halved
<1>11. s \in Keys /\ s \in top
  BY <1>7, <1>10
<1>12. (i > 1 => n.keys[i - 1] < s) /\ (i =< Len(n.keys) => s < n.keys[i])
  <2>1. PICK oc : oc = own[c]
    OBVIOUS
  <2>2. i \in DOMAIN n.kids /\ oc \in SUBSET Keys /\ s \in oc /\ \E k \in oc : k > s
    BY <2>1, <1>1, <1>7, <1>10
  <2>3. \A k \in Keys : k \in oc <=> k \in top /\ ChildIndex(n, k) = i
    BY <2>1, <1>7
  <2>. QED
    BY <2>2, <2>3, <1>2, <1>3, SplitKeyBetween
<1>13. TwoForOne(n, i, s, l, r, parent)
  <2>1. i \in DOMAIN n.kids
    BY <1>1
  <2>2. TwoForOne(n, i, s, l, r, ReplaceChild(n, i, s, l, r))
    BY <2>1, <1>3, <1>11, <1>12, ReplaceChildIs
  <2>. QED
    BY <2>2, <1>1
<1>14. /\ IsInner(parent) /\ Len(parent.keys) = len + 1
       /\ parent.keys[i] = s /\ parent.kids[i] = l /\ parent.kids[i + 1] = r
       /\ \A j \in 1 .. i - 1 : parent.keys[j] = n.keys[j] /\ parent.kids[j] = n.kids[j]
       /\ \A j \in i + 1 .. len + 1 : parent.keys[j] = n.keys[j - 1]
       /\ \A j \in i + 2 .. len + 2 : parent.kids[j] = n.kids[j - 1]
  BY <1>4, <1>13 DEF TwoForOne
<1>15. DOMAIN parent.keys = 1 .. len + 1 /\ DOMAIN parent.kids = 1 .. len + 2
       /\ parent.leaf = FALSE
  <2>1. DOMAIN parent.kids = 1 .. (len + 1) + 1 /\ DOMAIN parent.keys = 1 .. len + 1
        /\ parent.leaf = FALSE
    BY <1>14, InnerParts
  <2>. QED
    BY <2>1, <1>5
<1>16. ASSUME NEW k \in Keys
       PROVE  /\ \A j \in 1 .. i - 1 : ChildIndex(parent, k) = j <=> ChildIndex(n, k) = j
              /\ ChildIndex(parent, k) = i <=> ChildIndex(n, k) = i /\ k =< s
              /\ ChildIndex(parent, k) = i + 1 <=> ChildIndex(n, k) = i /\ k > s
              /\ \A j \in i + 2 .. len + 2 :
                    ChildIndex(parent, k) = j <=> ChildIndex(n, k) = j - 1
  <2>1. k \in Nat
    BY IndexAssumption
  <2>2. i \in DOMAIN n.kids
    BY <1>1
  <2>3. IndexMoves(n, i, s, parent, k)
    BY <2>1, <2>2, <1>3, <1>11, <1>12, <1>13, ReplaceChildIndex
  <2>. QED
    BY <2>3, <1>4 DEF IndexMoves
\* The other children are children of p, and neither c nor the halves.
<1>17. ASSUME NEW j \in 1 .. len + 1, j # i
       PROVE  /\ n.kids[j] \in DOMAIN N \ {c, p} /\ n.kids[j] # l /\ n.kids[j] # r
              /\ \E a \in DOMAIN N[p].kids : N[p].kids[a] = n.kids[j]
              /\ \A k \in Keys : k \in own[n.kids[j]] <=> k \in top /\ ChildIndex(n, k) = j
  <2>1. j \in DOMAIN n.kids /\ i \in DOMAIN n.kids
    BY <1>1, <1>5
  <2>2. n.kids[j] # c
    BY <2>1, <1>17, <1>1 DEF IsTree, OneParent
  <2>3. n.kids[j] \in DOMAIN N /\ n.kids[j] # p
    BY <2>1, <1>2, <1>6
  <2>. QED
    BY <2>1, <2>2, <2>3, <1>1, <1>6
<1>18. \A a, b \in 1 .. len + 1 : n.kids[a] = n.kids[b] => a = b
  BY <1>1, <1>5 DEF IsTree, OneParent
\* Where each child of parent comes from.
<1>19. ASSUME NEW j \in 1 .. len + 2
       PROVE  \/ j = i /\ parent.kids[j] = l
              \/ j = i + 1 /\ parent.kids[j] = r
              \/ j \in 1 .. i - 1 /\ j \in 1 .. len + 1 /\ parent.kids[j] = n.kids[j]
              \/ /\ j \in i + 2 .. len + 2 /\ j - 1 \in 1 .. len + 1 /\ j - 1 # i
                 /\ parent.kids[j] = n.kids[j - 1]
  <2>1. CASE j = i
    BY <2>1, <1>14
  <2>2. CASE j = i + 1
    BY <2>2, <1>14
  <2>3. CASE j < i
    <3>1. j \in 1 .. i - 1 /\ j \in 1 .. len + 1
      BY <2>3, <1>5
    <3>. QED
      BY <3>1, <1>14
  <2>4. CASE j > i + 1
    <3>1. j \in i + 2 .. len + 2 /\ j - 1 \in 1 .. len + 1 /\ j - 1 # i
      BY <2>4, <1>5
    <3>. QED
      BY <3>1, <1>14
  <2>. QED
    BY <2>1, <2>2, <2>3, <2>4, <1>5
<1>20. \A j \in DOMAIN parent.keys : parent.keys[j] \in top
  <2>. SUFFICES ASSUME NEW j \in 1 .. len + 1 PROVE parent.keys[j] \in top
    BY <1>15
  <2>0. \A a \in 1 .. len : n.keys[a] \in top
    BY <1>1, <1>5 DEF IsTree, InnersOk
  <2>1. CASE j = i
    BY <2>1, <1>11, <1>14
  <2>2. CASE j < i
    <3>1. j \in 1 .. i - 1 /\ j \in 1 .. len
      BY <2>2, <1>5
    <3>. QED
      BY <3>1, <2>0, <1>14
  <2>3. CASE j > i
    <3>1. j \in i + 1 .. len + 1 /\ j - 1 \in 1 .. len
      BY <2>3, <1>5
    <3>. QED
      BY <3>1, <2>0, <1>14
  <2>. QED
    BY <2>1, <2>2, <2>3, <1>5
<1>21. ASSUME NEW j \in DOMAIN parent.kids
       PROVE
        \/ /\ parent.kids[j] = l
           /\ \A k \in Keys : k \in own[c] /\ k =< s <=> k \in top /\ ChildIndex(parent, k) = j
        \/ /\ parent.kids[j] = r
           /\ \A k \in Keys : k \in own[c] /\ k > s <=> k \in top /\ ChildIndex(parent, k) = j
        \/ /\ parent.kids[j] \in DOMAIN N \ {c, p} /\ p \in DOMAIN N \ {c}
           /\ \E a \in DOMAIN N[p].kids : N[p].kids[a] = parent.kids[j]
           /\ \A k \in Keys :
                k \in own[parent.kids[j]] <=> k \in top /\ ChildIndex(parent, k) = j
  <2>1. CASE j = i /\ parent.kids[j] = l
    <3>1. \A k \in Keys : k \in own[c] /\ k =< s <=> k \in top /\ ChildIndex(parent, k) = j
      BY <2>1, <1>7, <1>16
    <3>. QED
      BY <2>1, <3>1
  <2>2. CASE j = i + 1 /\ parent.kids[j] = r
    <3>1. \A k \in Keys : k \in own[c] /\ k > s <=> k \in top /\ ChildIndex(parent, k) = j
      BY <2>2, <1>7, <1>16
    <3>. QED
      BY <2>2, <3>1
  <2>3. CASE j \in 1 .. i - 1 /\ j \in 1 .. len + 1 /\ parent.kids[j] = n.kids[j]
    <3>1. j # i
      BY <2>3, <1>5
    <3>2. \A k \in Keys :
            k \in own[parent.kids[j]] <=> k \in top /\ ChildIndex(parent, k) = j
      BY <2>3, <3>1, <1>16, <1>17
    <3>. QED
      BY <2>3, <3>1, <3>2, <1>17, <1>8
  <2>4. CASE /\ j \in i + 2 .. len + 2 /\ j - 1 \in 1 .. len + 1 /\ j - 1 # i
             /\ parent.kids[j] = n.kids[j - 1]
    <3>2. \A k \in Keys :
            k \in own[parent.kids[j]] <=> k \in top /\ ChildIndex(parent, k) = j
      BY <2>4, <1>16, <1>17
    <3>. QED
      BY <2>4, <3>2, <1>17, <1>8
  <2>. QED
    BY <2>1, <2>2, <2>3, <2>4, <1>15, <1>19
<1>22. \A a, b \in DOMAIN parent.kids : parent.kids[a] = parent.kids[b] => a = b
  <2>. SUFFICES ASSUME NEW a \in 1 .. len + 2, NEW b \in 1 .. len + 2,
                       parent.kids[a] = parent.kids[b]
                PROVE  a = b
    BY <1>15
  <2>. DEFINE Old(j, m) == m \in 1 .. len + 1 /\ m # i /\ parent.kids[j] = n.kids[m]
                           /\ ((j < i /\ m = j) \/ (j > i + 1 /\ m = j - 1))
  <2>1. ASSUME NEW j \in 1 .. len + 2
        PROVE  \/ j = i /\ parent.kids[j] = l
               \/ j = i + 1 /\ parent.kids[j] = r
               \/ \E m \in 1 .. len + 1 : Old(j, m)
    <3>1. CASE j \in 1 .. i - 1 /\ j \in 1 .. len + 1 /\ parent.kids[j] = n.kids[j]
      <4>1. j < i /\ j # i
        BY <3>1, <1>5
      <4>2. Old(j, j)
        BY <3>1, <4>1
      <4>. QED
        BY <3>1, <4>2
    <3>2. CASE /\ j \in i + 2 .. len + 2 /\ j - 1 \in 1 .. len + 1 /\ j - 1 # i
               /\ parent.kids[j] = n.kids[j - 1]
      <4>1. j > i + 1
        BY <3>2, <1>5
      <4>2. Old(j, j - 1)
        BY <3>2, <4>1
      <4>. QED
        BY <3>2, <4>2
    <3>. QED
      BY <3>1, <3>2, <1>19
  <2>2. \A j \in 1 .. len + 2 : \A m \in 1 .. len + 1 :
            Old(j, m) => parent.kids[j] # l /\ parent.kids[j] # r
    BY <1>17
  <2>3. ASSUME NEW m \in 1 .. len + 1, NEW q \in 1 .. len + 1, Old(a, m), Old(b, q)
        PROVE  a = b
    <3>1. m = q
      BY <2>3, <1>18
    <3>. QED
      BY <2>3, <3>1, <1>5
  <2>. HIDE DEF Old
  <2>. QED
    BY <2>1, <2>2, <2>3
<1>23. /\ \E j \in DOMAIN parent.kids : parent.kids[j] = l
       /\ \E j \in DOMAIN parent.kids : parent.kids[j] = r
  <2>1. i \in 1 .. len + 2 /\ i + 1 \in 1 .. len + 2
    BY <1>5
  <2>. QED
    BY <2>1, <1>14, <1>15
<1>24. \A j \in DOMAIN N[p].kids : N[p].kids[j] # c =>
            \E a \in DOMAIN parent.kids : parent.kids[a] = N[p].kids[j]
  <2>. SUFFICES ASSUME NEW j \in 1 .. len + 1, j # i
                PROVE  \E a \in 1 .. len + 2 : parent.kids[a] = n.kids[j]
    BY <1>1, <1>5, <1>15
  <2>1. CASE j < i
    <3>1. j \in 1 .. i - 1 /\ j \in 1 .. len + 2
      BY <2>1, <1>5
    <3>. QED
      BY <3>1, <1>14
  <2>2. CASE j > i
    <3>1. j + 1 \in i + 2 .. len + 2 /\ j + 1 \in 1 .. len + 2 /\ (j + 1) - 1 = j
      BY <2>2, <1>5
    <3>2. parent.kids[j + 1] = n.kids[j]
      BY <3>1, <1>14
    <3>. QED
      BY <3>1, <3>2
  <2>. QED
    BY <2>1, <2>2, <1>5
<1>25. Adopts(N, root, h, own, c, l, r, p, s, own[p], parent)
  BY <1>1, <1>2, <1>14, <1>20, <1>21, <1>22, <1>23, <1>24 DEF Adopts
<1>26. ~ NodeOversized(N[p]) => NearlyFits(parent)
  <2>1. ~ NodeOversized(n) => len =< InnerCapacity
    BY <1>4, <1>5, CapacityAssumption DEF NodeOversized
  <2>2. len =< InnerCapacity => NearlyFits(parent)
    BY <1>5, <1>14, <1>15, CapacityAssumption DEF NearlyFits
  <2>. QED
    BY <2>1, <2>2, <1>1
<1>. QED
  BY <1>9, <1>25, <1>26

\* Index::AfterAdd: the new root over the halves of the old one.
LEMMA RootAdopts ==
    ASSUME NEW N, NEW root, NEW h, NEW own, IsTree(N, root, h, own),
           NEW l \in Offsets, NEW r \in Offsets, NEW p \in Offsets, l # r, p # l, p # r,
           l \notin DOMAIN N \ {root}, r \notin DOMAIN N \ {root}, p \notin DOMAIN N \ {root},
           NEW left, NEW right, NEW s, NEW mid,
           Halved(N[root], own[root], left, right, s, mid),
           NEW parent, parent = Inner(<<s>>, <<l, r>>)
    PROVE  /\ SplitOn(N, root, h, own, root, l, r, p, left, right, s, mid, p, Keys, parent)
           /\ ~ NodeOversized(parent)
<1>1. own[root] = Keys /\ root \in DOMAIN N
  BY DEF IsTree, Typed
<1>2. s \in Keys
  BY <1>1 DEF Halved
<1>3. PICK keys, kids : keys = <<s>> /\ kids = <<l, r>>
  OBVIOUS
<1>4. /\ keys \in Seq(Keys) /\ Increasing(keys) /\ kids \in Seq(Offsets)
      /\ Len(keys) = 1 /\ Len(kids) = 2 /\ keys[1] = s /\ kids[1] = l /\ kids[2] = r
      /\ DOMAIN keys = {1} /\ DOMAIN kids = {1, 2}
  BY <1>2, <1>3 DEF Increasing
<1>5. parent = Inner(keys, kids)
  BY <1>3
<1>6. IsInner(parent)
  <2>1. keys \in Seq(Keys) /\ Increasing(keys)
    BY <1>4
  <2>2. kids \in Seq(Offsets) /\ Len(kids) = Len(keys) + 1
    BY <1>4
  <2>3. IsInner(Inner(keys, kids))
    BY <2>1, <2>2, InnerOf
  <2>. QED
    BY <2>3, <1>5
<1>7. parent.keys = keys /\ parent.kids = kids /\ parent.leaf = FALSE
  <2>1. Inner(keys, kids).keys = keys /\ Inner(keys, kids).kids = kids
        /\ Inner(keys, kids).leaf = FALSE
    BY DEF Inner
  <2>. QED
    BY <2>1, <1>5
<1>8. ASSUME NEW k \in Keys
      PROVE  /\ ChildIndex(parent, k) = 1 <=> k =< s
             /\ ChildIndex(parent, k) = 2 <=> k > s
  <2>1. k \in Nat /\ s \in Nat
    BY <1>2, IndexAssumption
  <2>2. 1 \in 1 .. Len(parent.keys) + 1 /\ 2 \in 1 .. Len(parent.keys) + 1
    <3>1. PICK len : len = Len(parent.keys)
      OBVIOUS
    <3>2. len = 1
      BY <3>1, <1>4, <1>7
    <3>3. 1 \in 1 .. len + 1 /\ 2 \in 1 .. len + 1
      BY <3>2
    <3>. QED
      BY <3>1, <3>3
  <2>3. ChildIndex(parent, k) = 1 <=> /\ 1 > 1 => parent.keys[1 - 1] < k
                                      /\ 1 =< Len(parent.keys) => k =< parent.keys[1]
    BY <2>1, <2>2, <1>6, ChildIndexAt
  <2>4. ChildIndex(parent, k) = 2 <=> /\ 2 > 1 => parent.keys[2 - 1] < k
                                      /\ 2 =< Len(parent.keys) => k =< parent.keys[2]
    BY <2>1, <2>2, <1>6, ChildIndexAt
  <2>. QED
    BY <2>1, <2>3, <2>4, <1>4, <1>7
<1>9. Above(N, root, h, own, root, p, p, Keys)
  BY DEF Above
<1>10. ~ NodeOversized(parent)
  BY <1>4, <1>7, CapacityAssumption DEF NodeOversized
<1>11. Adopts(N, root, h, own, root, l, r, p, s, Keys, parent)
  <2>1. \A i \in DOMAIN parent.keys : parent.keys[i] \in Keys
    BY <1>2, <1>4, <1>7
  <2>2. ASSUME NEW j \in DOMAIN parent.kids
        PROVE
          \/ /\ parent.kids[j] = l
             /\ \A k \in Keys :
                    k \in own[root] /\ k =< s <=> k \in Keys /\ ChildIndex(parent, k) = j
          \/ /\ parent.kids[j] = r
             /\ \A k \in Keys :
                    k \in own[root] /\ k > s <=> k \in Keys /\ ChildIndex(parent, k) = j
    <3>1. j = 1 \/ j = 2
      BY <1>4, <1>7
    <3>2. CASE j = 1
      BY <3>2, <1>1, <1>4, <1>7, <1>8
    <3>3. CASE j = 2
      BY <3>3, <1>1, <1>4, <1>7, <1>8
    <3>. QED
      BY <3>1, <3>2, <3>3
  <2>3. \A i, j \in DOMAIN parent.kids : parent.kids[i] = parent.kids[j] => i = j
    BY <1>4, <1>7
  <2>4. /\ \E j \in DOMAIN parent.kids : parent.kids[j] = l
        /\ \E j \in DOMAIN parent.kids : parent.kids[j] = r
    BY <1>4, <1>7
  <2>. QED
    BY <2>1, <2>2, <2>3, <2>4, <1>6 DEF Adopts
<1>. QED
  BY <1>1, <1>9, <1>10, <1>11 DEF SplitOn

\* In M child i of q in N still has a parent: q, or a half of it.
Inherits(N, M, c, l, r, q, i) ==
    \E x \in DOMAIN M :
        /\ IF q = c THEN x \in {l, r} ELSE x = q
        /\ \E j \in DOMAIN M[x].kids : M[x].kids[j] = N[q].kids[i]

\* After a split each node but the halves has a parent: the one it had, or a
\* half of it.
LEMMA SplitParents ==
    ASSUME NEW N, NEW root, NEW h, NEW own, NEW c, NEW l, NEW r, NEW p, NEW left, NEW right,
           NEW s, NEW mid, NEW root2, NEW top, NEW parent,
           SplitOn(N, root, h, own, c, l, r, p, left, right, s, mid, root2, top, parent),
           NEW M, M = SplitNodes(N, c, l, r, p, left, right, parent),
           NEW q \in DOMAIN N, NEW i \in DOMAIN N[q].kids, N[q].kids[i] # c
    PROVE  Inherits(N, M, c, l, r, q, i)
<1>0. /\ IsTree(N, root, h, own) /\ c \in DOMAIN N
      /\ l \in Offsets /\ r \in Offsets /\ p \in Offsets /\ l # r /\ p # l /\ p # r
      /\ l \notin DOMAIN N \ {c} /\ r \notin DOMAIN N \ {c}
      /\ Halved(N[c], own[c], left, right, s, mid)
      /\ Above(N, root, h, own, c, p, root2, top)
      /\ Adopts(N, root, h, own, c, l, r, p, s, top, parent)
  BY DEF SplitOn
<1>. USE <1>0
<1>1. PICK d : d = N[q].kids[i]
  OBVIOUS
<1>2. /\ DOMAIN M = (DOMAIN N \ {c}) \cup {l, r, p}
      /\ M[l] = left /\ M[r] = right /\ M[p] = parent
      /\ \A x \in DOMAIN N \ {c, p} : M[x] = N[x]
  BY DEF SplitNodes
<1>3. /\ mid \in Nat
      /\ \A j \in DOMAIN left.kids : left.kids[j] = N[c].kids[j]
      /\ \A j \in DOMAIN right.kids : right.kids[j] = N[c].kids[mid + j]
      /\ \A j \in DOMAIN N[c].kids : /\ j =< mid => j \in DOMAIN left.kids
                                     /\ j > mid => j - mid \in DOMAIN right.kids
  BY DEF Halved
<1>4. CASE q = c
  <2>1. i \in DOMAIN N[c].kids /\ N[c].kids[i] = d
    BY <1>1, <1>4
  <2>2. i \in Nat
    <3>1. \A n : IsNode(n) => \A a \in DOMAIN n.kids : a \in Nat
      BY KidPlaces
    <3>2. IsNode(N[c])
      BY DEF IsTree, Typed
    <3>. QED
      BY <2>1, <3>1, <3>2
  <2>3. CASE i =< mid
    <3>1. i \in DOMAIN left.kids /\ left.kids[i] = d
      BY <2>1, <2>3, <1>3
    <3>. QED
      BY <3>1, <1>1, <1>2, <1>4 DEF Inherits
  <2>4. CASE i > mid
    <3>1. i - mid \in DOMAIN right.kids /\ mid + (i - mid) = i
      BY <2>1, <2>2, <2>4, <1>3
    <3>2. right.kids[i - mid] = d
      BY <3>1, <2>1, <1>3
    <3>. QED
      BY <3>1, <3>2, <1>1, <1>2, <1>4 DEF Inherits
  <2>. QED
    BY <2>2, <2>3, <2>4, <1>3
<1>5. CASE q # c /\ q = p
  <2>1. \E j \in DOMAIN parent.kids : parent.kids[j] = d
    BY <1>1, <1>5 DEF Adopts
  <2>. QED
    BY <2>1, <1>1, <1>2, <1>5 DEF Inherits
<1>6. CASE q # c /\ q # p
  BY <1>1, <1>2, <1>6 DEF Inherits
<1>. QED
  BY <1>4, <1>5, <1>6

------------------------------------------------------------------------------
(* The entries of a tree. *)

\* The tree has the entry of k with the value v.
Holds(N, k, v) == \E o \in DOMAIN N : k \in LeafKeys(N[o]) /\ N[o].entries[k] = v

SameEntries(N, M) == \A k, v : Holds(M, k, v) <=> Holds(N, k, v)

\* A split keeps the entries.
LEMMA SplitHolds ==
    ASSUME NEW N, NEW root, NEW h, NEW own, NEW c, NEW l, NEW r, NEW p, NEW left, NEW right,
           NEW s, NEW mid, NEW root2, NEW top, NEW parent,
           SplitOn(N, root, h, own, c, l, r, p, left, right, s, mid, root2, top, parent),
           Shares(N[c], left, right), p \in DOMAIN N \ {c} => DOMAIN N[p].kids # {},
           NEW M, M = SplitNodes(N, c, l, r, p, left, right, parent)
    PROVE  SameEntries(N, M)
<1>0. /\ IsTree(N, root, h, own) /\ c \in DOMAIN N
      /\ l \in Offsets /\ r \in Offsets /\ p \in Offsets /\ l # r /\ p # l /\ p # r
      /\ l \notin DOMAIN N \ {c} /\ r \notin DOMAIN N \ {c}
      /\ Halved(N[c], own[c], left, right, s, mid)
      /\ Above(N, root, h, own, c, p, root2, top)
      /\ Adopts(N, root, h, own, c, l, r, p, s, top, parent)
  BY DEF SplitOn
<1>. USE <1>0
<1>. SUFFICES \A k, v : Holds(M, k, v) <=> Holds(N, k, v)
  BY DEF SameEntries
<1>8. IsInner(parent)
  BY DEF Adopts
<1>. USE <1>8
<1>1. /\ DOMAIN M = (DOMAIN N \ {c}) \cup {l, r, p}
      /\ M[l] = left /\ M[r] = right /\ M[p] = parent
      /\ \A x \in DOMAIN N \ {c, p} : M[x] = N[x]
  BY DEF SplitNodes
<1>2. \A n : IsNode(n) /\ ~ n.leaf => LeafKeys(n) = {}
  BY NodeIs
<1>3. \A n : IsNode(n) /\ n.leaf => DOMAIN n.kids = {}
  <2>1. \A n : IsNode(n) /\ n.leaf => n.kids = <<>>
    BY NodeIs
  <2>. QED
    BY <2>1
<1>4. LeafKeys(parent) = {}
  <2>1. IsNode(parent) /\ ~ parent.leaf
    BY InnerParts DEF IsNode
  <2>. QED
    BY <2>1, <1>2
<1>5. p \in DOMAIN N \ {c} => LeafKeys(N[p]) = {}
  <2>. SUFFICES ASSUME p \in DOMAIN N \ {c} PROVE LeafKeys(N[p]) = {}
    OBVIOUS
  <2>1. IsNode(N[p]) /\ DOMAIN N[p].kids # {}
    BY DEF IsTree, Typed
  <2>2. ~ N[p].leaf
    BY <2>1, <1>3
  <2>. QED
    BY <2>1, <2>2, <1>2
<1>. SUFFICES ASSUME NEW k, NEW v PROVE Holds(M, k, v) <=> Holds(N, k, v)
  OBVIOUS
<1>6. ASSUME Holds(N, k, v) PROVE Holds(M, k, v)
  <2>1. PICK o \in DOMAIN N : k \in LeafKeys(N[o]) /\ N[o].entries[k] = v
    BY <1>6 DEF Holds
  <2>2. CASE o = c
    <3>1. \/ k \in LeafKeys(left) /\ left.entries[k] = v
          \/ k \in LeafKeys(right) /\ right.entries[k] = v
      BY <2>1, <2>2 DEF Shares
    <3>. QED
      BY <3>1, <1>1 DEF Holds
  <2>3. CASE o # c
    <3>1. o # p
      BY <2>1, <2>3, <1>5
    <3>. QED
      BY <2>1, <2>3, <3>1, <1>1 DEF Holds
  <2>. QED
    BY <2>2, <2>3
<1>7. ASSUME Holds(M, k, v) PROVE Holds(N, k, v)
  <2>1. PICK o \in DOMAIN M : k \in LeafKeys(M[o]) /\ M[o].entries[k] = v
    BY <1>7 DEF Holds
  <2>2. CASE o = l \/ o = r
    <3>1. k \in LeafKeys(N[c]) /\ N[c].entries[k] = v
      BY <2>1, <2>2, <1>1 DEF Shares
    <3>. QED
      BY <3>1 DEF Holds
  <2>3. CASE o # l /\ o # r
    <3>1. o # p
      BY <2>1, <1>1, <1>4
    <3>2. o \in DOMAIN N \ {c, p}
      BY <2>1, <2>3, <3>1, <1>1
    <3>. QED
      BY <2>1, <3>2, <1>1 DEF Holds
  <2>. QED
    BY <2>2, <2>3
<1>. QED
  BY <1>6, <1>7

------------------------------------------------------------------------------
(* Leaves. *)

WithLeaf(N, o, e) == [x \in DOMAIN N |-> IF x = o THEN Leaf(e) ELSE N[x]]

\* A leaf is given other entries, of keys that belong to it.
LEMMA LeafKeepsTree ==
    ASSUME NEW N, NEW root, NEW h, NEW own, IsTree(N, root, h, own),
           NEW o \in DOMAIN N, N[o].leaf, NEW e, IsMap(e), \A k \in DOMAIN e : k \in own[o]
    PROVE  IsTree(WithLeaf(N, o, e), root, h, own)
<1>1. PICK M, n : M = WithLeaf(N, o, e) /\ n = Leaf(e)
  OBVIOUS
<1>2. /\ DOMAIN M = DOMAIN N /\ M = [x \in DOMAIN N |-> M[x]]
      /\ M[o] = n /\ \A x \in DOMAIN N : x # o => M[x] = N[x]
  BY <1>1 DEF WithLeaf
<1>3. IsLeaf(n) /\ IsNode(n) /\ n.leaf = TRUE /\ n.kids = <<>> /\ LeafKeys(n) = DOMAIN e
  <2>1. IsLeaf(n)
    BY <1>1, LeafOfMap
  <2>2. Leaf(e).leaf = TRUE /\ Leaf(e).kids = <<>> /\ LeafKeys(Leaf(e)) = DOMAIN e
    BY LeafIs
  <2>. QED
    BY <2>1, <2>2, <1>1 DEF IsNode
<1>4. N[o].kids = <<>>
  <2>1. IsNode(N[o])
    BY DEF IsTree, Typed
  <2>. QED
    BY <2>1, NodeIs
<1>5. DOMAIN N[o].kids = {} /\ DOMAIN n.kids = {}
  BY <1>3, <1>4
<1>6. \A x \in DOMAIN N : M[x].leaf = N[x].leaf
  <2>1. N[o].leaf = TRUE
    <3>1. IsNode(N[o])
      BY DEF IsTree, Typed
    <3>. QED
      BY <3>1, NodeIs
  <2>. QED
    BY <2>1, <1>2, <1>3
<1>7. \A x \in DOMAIN N : DOMAIN M[x].kids = DOMAIN N[x].kids
  BY <1>2, <1>5
<1>8. \A x \in DOMAIN N : \A i \in DOMAIN N[x].kids : M[x] = N[x]
  BY <1>2, <1>5
<1>10. Typed(M, root, h, own)
  <2>1. Typed(N, root, h, own)
    BY DEF IsTree
  <2>2. \A x \in DOMAIN N : IsNode(M[x])
    BY <2>1, <1>2, <1>3 DEF Typed
  <2>. QED
    BY <2>1, <2>2, <1>2 DEF Typed
<1>11. LeavesOk(M, h, own)
  <2>1. LeavesOk(N, h, own)
    BY DEF IsTree
  <2>2. h[o] = 0 /\ \A k \in LeafKeys(n) : k \in own[o]
    BY <2>1, <1>3 DEF LeavesOk
  <2>. QED
    BY <2>1, <2>2, <1>2 DEF LeavesOk
<1>12. InnersOk(M, own)
  <2>1. InnersOk(N, own)
    BY DEF IsTree
  <2>. QED
    BY <2>1, <1>2, <1>3 DEF InnersOk
<1>13. LinksOk(M, root, h, own)
  <2>1. LinksOk(N, root, h, own)
    BY DEF IsTree
  <2>. SUFFICES ASSUME NEW x \in DOMAIN N, NEW i \in DOMAIN N[x].kids
                PROVE  /\ N[x].kids[i] \in DOMAIN N /\ N[x].kids[i] # root
                       /\ IsLink(M, h, own, x, i, N[x].kids[i])
    BY <1>2, <1>7, <1>8 DEF LinksOk
  <2>2. /\ N[x].kids[i] \in DOMAIN N /\ N[x].kids[i] # root
        /\ IsLink(N, h, own, x, i, N[x].kids[i])
    BY <2>1 DEF LinksOk
  <2>. QED
    BY <2>2, <1>8 DEF IsLink
<1>14. OneParent(M)
  <2>1. OneParent(N)
    BY DEF IsTree
  <2>. QED
    BY <2>1, <1>2, <1>7, <1>8 DEF OneParent
<1>15. Parented(M, root)
  <2>1. Parented(N, root)
    BY DEF IsTree
  <2>. QED
    BY <2>1, <1>2, <1>7, <1>8 DEF Parented
<1>16. LeavesApart(M, own)
  <2>1. LeavesApart(N, own)
    BY DEF IsTree
  <2>. QED
    BY <2>1, <1>2, <1>6 DEF LeavesApart
<1>. QED
  BY <1>1, <1>10, <1>11, <1>12, <1>13, <1>14, <1>15, <1>16 DEF IsTree

\* The empty index is a tree.
LEMMA TreeStart ==
    LET N == [o \in {1} |-> Leaf([k \in {} |-> NoValue])] IN
    IsTree(N, 1, [o \in {1} |-> 0], [o \in {1} |-> Keys])
<1>1. PICK e : e = [k \in {} |-> NoValue]
  OBVIOUS
<1>2. IsMap(e) /\ DOMAIN e = {}
  BY <1>1, FS_EmptySet DEF IsMap
<1>3. PICK n : n = Leaf(e)
  OBVIOUS
<1>4. IsNode(n) /\ n.leaf = TRUE /\ n.kids = <<>> /\ LeafKeys(n) = {}
  <2>1. IsLeaf(n)
    BY <1>2, <1>3, LeafOfMap
  <2>2. Leaf(e).leaf = TRUE /\ Leaf(e).kids = <<>> /\ LeafKeys(Leaf(e)) = DOMAIN e
    BY LeafIs
  <2>. QED
    BY <2>1, <2>2, <1>2, <1>3 DEF IsNode
<1>5. PICK N, h, own : N = [o \in {1} |-> n] /\ h = [o \in {1} |-> 0] /\ own = [o \in {1} |-> Keys]
  OBVIOUS
<1>6. DOMAIN N = {1} /\ N[1] = n /\ h[1] = 0 /\ own[1] = Keys
  BY <1>5
<1>7. DOMAIN N[1].kids = {}
  BY <1>4, <1>6
<1>8. Typed(N, 1, h, own)
  <2>1. {1} \subseteq Offsets
    BY IndexAssumption DEF Offsets
  <2>. QED
    BY <2>1, <1>4, <1>5, <1>6 DEF Typed
<1>9. LeavesOk(N, h, own) /\ InnersOk(N, own) /\ LeavesApart(N, own)
  BY <1>4, <1>6 DEF LeavesOk, InnersOk, LeavesApart
<1>10. LinksOk(N, 1, h, own) /\ OneParent(N) /\ Parented(N, 1)
  BY <1>6, <1>7 DEF LinksOk, OneParent, Parented
<1>11. IsTree(N, 1, h, own)
  BY <1>8, <1>9, <1>10 DEF IsTree
<1>. QED
  BY <1>1, <1>3, <1>5, <1>11

------------------------------------------------------------------------------
(* The cache and the disk. *)

NodesOf(t) == [o \in DOMAIN t.disk |-> View(t, o)]

\* A cached node that is not marked as modified is the one on disk.
Cached(t) ==
    /\ DOMAIN t.disk \subseteq Offsets
    /\ DOMAIN t.mem \subseteq DOMAIN t.disk
    /\ t.dirty \subseteq DOMAIN t.mem
    /\ \A o \in DOMAIN t.mem \ t.dirty : t.mem[o] = t.disk[o]

\* Only the cached nodes of S may be too big for their blocks.
FitsBut(t, S) ==
    /\ \A o \in DOMAIN t.mem \ S : ~ NodeOversized(t.mem[o])
    /\ \A o \in DOMAIN t.disk : ~ NodeOversized(t.disk[o])

\* From t to f, the blocks of gone are freed and the nodes of new are set.
Became(t, f, gone, new) ==
    /\ Cached(f) /\ f.root = t.root
    /\ DOMAIN f.disk = (DOMAIN t.disk \ gone) \cup new
    /\ DOMAIN f.mem = (DOMAIN t.mem \ gone) \cup new
    /\ \A o \in DOMAIN t.disk \ (gone \cup new) : View(f, o) = View(t, o)

\* The parts of a tree.
LEMMA TreeIs ==
    ASSUME NEW root, NEW mem, NEW dirty, NEW disk
    PROVE  /\ Tree(root, mem, dirty, disk).root = root
           /\ Tree(root, mem, dirty, disk).mem = mem
           /\ Tree(root, mem, dirty, disk).dirty = dirty
           /\ Tree(root, mem, dirty, disk).disk = disk
BY DEF Tree

\* Writing nodes changes none of them.
LEMMA FlushedIs ==
    ASSUME NEW t, Cached(t), NEW o, NEW f, f = Flushed(t, o)
    PROVE  /\ Became(t, f, {}, {})
           /\ f.dirty \subseteq t.dirty
           /\ CachedSubtree(t, o) = DOMAIN t.mem => f.dirty = {}
           /\ FitsBut(t, {}) => FitsBut(f, {})
<1>1. PICK nodes : nodes = CachedSubtree(t, o) \cap t.dirty
  OBVIOUS
<1>2. PICK disk : disk = [x \in DOMAIN t.disk |-> IF x \in nodes THEN t.mem[x] ELSE t.disk[x]]
  OBVIOUS
<1>3. f = Tree(t.root, t.mem, t.dirty \ nodes, disk)
  BY <1>1, <1>2 DEF Flushed
<1>4. f.root = t.root /\ f.mem = t.mem /\ f.dirty = t.dirty \ nodes /\ f.disk = disk
  BY <1>3, TreeIs
<1>5. DOMAIN disk = DOMAIN t.disk
      /\ \A x \in DOMAIN t.disk : disk[x] = IF x \in nodes THEN t.mem[x] ELSE t.disk[x]
  BY <1>2
<1>6. nodes \subseteq t.dirty /\ t.dirty \subseteq DOMAIN t.mem
      /\ DOMAIN t.mem \subseteq DOMAIN t.disk
  BY <1>1 DEF Cached
<1>7. Cached(f)
  <2>1. \A x \in DOMAIN f.mem \ f.dirty : f.mem[x] = f.disk[x]
    <3>. TAKE x \in DOMAIN f.mem \ f.dirty
    <3>1. x \in DOMAIN t.disk /\ x \in DOMAIN t.mem
      BY <1>4, <1>6
    <3>2. CASE x \in nodes
      BY <3>1, <3>2, <1>4, <1>5
    <3>3. CASE x \notin nodes
      <4>1. x \in DOMAIN t.mem \ t.dirty
        BY <3>1, <3>3, <1>4
      <4>. QED
        BY <3>1, <3>3, <4>1, <1>4, <1>5 DEF Cached
    <3>. QED
      BY <3>2, <3>3
  <2>2. DOMAIN f.disk \subseteq Offsets /\ DOMAIN f.mem \subseteq DOMAIN f.disk
        /\ f.dirty \subseteq DOMAIN f.mem
    BY <1>4, <1>5, <1>6 DEF Cached
  <2>. QED
    BY <2>1, <2>2 DEF Cached
<1>8. \A x \in DOMAIN t.disk : View(f, x) = View(t, x)
  <2>. TAKE x \in DOMAIN t.disk
  <2>1. CASE x \in DOMAIN t.mem
    BY <2>1, <1>4 DEF View
  <2>2. CASE x \notin DOMAIN t.mem
    <3>1. x \notin nodes
      BY <2>2, <1>6
    <3>. QED
      BY <2>2, <3>1, <1>4, <1>5 DEF View
  <2>. QED
    BY <2>1, <2>2
<1>9. Became(t, f, {}, {})
  BY <1>4, <1>5, <1>7, <1>8 DEF Became
<1>10. ASSUME FitsBut(t, {}) PROVE FitsBut(f, {})
  <2>1. \A x \in DOMAIN f.mem \ {} : ~ NodeOversized(f.mem[x])
    BY <1>4, <1>10 DEF FitsBut
  <2>2. \A x \in DOMAIN f.disk : ~ NodeOversized(f.disk[x])
    <3>. TAKE x \in DOMAIN f.disk
    <3>1. f.disk[x] = t.disk[x] \/ (x \in DOMAIN t.mem /\ f.disk[x] = t.mem[x])
      BY <1>4, <1>5, <1>6
    <3>2. x \in DOMAIN t.disk
      BY <1>4, <1>5
    <3>. QED
      BY <3>1, <3>2, <1>10 DEF FitsBut
  <2>. QED
    BY <2>1, <2>2 DEF FitsBut
<1>11. ASSUME CachedSubtree(t, o) = DOMAIN t.mem PROVE f.dirty = {}
  <2>1. nodes = t.dirty
    BY <1>1, <1>6, <1>11
  <2>. QED
    BY <2>1, <1>4
<1>. QED
  BY <1>4, <1>9, <1>10, <1>11

\* Reading nodes changes none of them.
LEMMA LoadedIs ==
    ASSUME NEW t, Cached(t), NEW nodes, nodes \subseteq DOMAIN t.disk,
           NEW f, f = LoadedAll(t, nodes)
    PROVE  /\ Cached(f) /\ f.root = t.root /\ f.disk = t.disk /\ f.dirty = t.dirty
           /\ DOMAIN f.mem = DOMAIN t.mem \cup nodes
           /\ \A o \in DOMAIN t.disk : View(f, o) = View(t, o)
           /\ NodesOf(f) = NodesOf(t)
           /\ FitsBut(t, {}) => FitsBut(f, {})
<1>1. PICK mem : mem = [x \in DOMAIN t.mem \cup nodes |-> View(t, x)]
  OBVIOUS
<1>2. f = Tree(t.root, mem, t.dirty, t.disk)
  BY <1>1 DEF LoadedAll
<1>3. f.root = t.root /\ f.mem = mem /\ f.dirty = t.dirty /\ f.disk = t.disk
  BY <1>2, TreeIs
<1>4. /\ DOMAIN mem = DOMAIN t.mem \cup nodes
      /\ \A x \in DOMAIN t.mem \cup nodes :
            mem[x] = IF x \in DOMAIN t.mem THEN t.mem[x] ELSE t.disk[x]
  BY <1>1 DEF View
<1>5. Cached(f)
  <2>1. \A x \in DOMAIN f.mem \ f.dirty : f.mem[x] = f.disk[x]
    BY <1>3, <1>4 DEF Cached
  <2>2. DOMAIN f.disk \subseteq Offsets /\ DOMAIN f.mem \subseteq DOMAIN f.disk
        /\ f.dirty \subseteq DOMAIN f.mem
    BY <1>3, <1>4 DEF Cached
  <2>. QED
    BY <2>1, <2>2 DEF Cached
<1>6. \A o \in DOMAIN t.disk : View(f, o) = View(t, o)
  BY <1>3, <1>4 DEF View
<1>7. NodesOf(f) = NodesOf(t)
  BY <1>3, <1>6 DEF NodesOf
<1>8. ASSUME FitsBut(t, {}) PROVE FitsBut(f, {})
  <2>1. \A x \in DOMAIN f.mem \ {} : ~ NodeOversized(f.mem[x])
    BY <1>3, <1>4, <1>8 DEF FitsBut, Cached
  <2>2. \A x \in DOMAIN f.disk : ~ NodeOversized(f.disk[x])
    BY <1>3, <1>8 DEF FitsBut
  <2>. QED
    BY <2>1, <2>2 DEF FitsBut
<1>. QED
  BY <1>3, <1>4, <1>5, <1>6, <1>7, <1>8

\* A node whose block is freed is gone from the cache too.
LEMMA FreedIs ==
    ASSUME NEW t, Cached(t), NEW o, NEW f, f = Freed(t, o)
    PROVE  /\ Became(t, f, {o}, {})
           /\ FitsBut(t, {o}) => FitsBut(f, {})
<1>1. PICK mem, disk : mem = Restrict(t.mem, DOMAIN t.mem \ {o})
                       /\ disk = Restrict(t.disk, DOMAIN t.disk \ {o})
  OBVIOUS
<1>2. f = Tree(t.root, mem, t.dirty \ {o}, disk)
  BY <1>1 DEF Freed
<1>3. f.root = t.root /\ f.mem = mem /\ f.dirty = t.dirty \ {o} /\ f.disk = disk
  BY <1>2, TreeIs
<1>4. /\ DOMAIN mem = DOMAIN t.mem \ {o} /\ \A x \in DOMAIN t.mem \ {o} : mem[x] = t.mem[x]
      /\ DOMAIN disk = DOMAIN t.disk \ {o} /\ \A x \in DOMAIN t.disk \ {o} : disk[x] = t.disk[x]
  BY <1>1 DEF Restrict
<1>5. Cached(f)
  <2>1. \A x \in DOMAIN f.mem \ f.dirty : f.mem[x] = f.disk[x]
    BY <1>3, <1>4 DEF Cached
  <2>2. DOMAIN f.disk \subseteq Offsets /\ DOMAIN f.mem \subseteq DOMAIN f.disk
        /\ f.dirty \subseteq DOMAIN f.mem
    BY <1>3, <1>4 DEF Cached
  <2>. QED
    BY <2>1, <2>2 DEF Cached
<1>6. \A x \in DOMAIN t.disk \ {o} : View(f, x) = View(t, x)
  BY <1>3, <1>4 DEF View
<1>7. Became(t, f, {o}, {})
  BY <1>3, <1>4, <1>5, <1>6 DEF Became
<1>8. ASSUME FitsBut(t, {o}) PROVE FitsBut(f, {})
  BY <1>3, <1>4, <1>8 DEF FitsBut
<1>. QED
  BY <1>7, <1>8

\* From t to f, the node at o is set, and may not fit.
SetNode(t, f, o, node) ==
    /\ Became(t, f, {}, {o}) /\ View(f, o) = node
    /\ FitsBut(t, {o}) => FitsBut(f, {o})

\* A node that is changed.
LEMMA ChangedIs ==
    ASSUME NEW t, Cached(t), NEW o \in DOMAIN t.disk, NEW node, NEW f, f = Changed(t, o, node)
    PROVE  SetNode(t, f, o, node)
<1>1. PICK mem : mem = Extend(t.mem, o, node)
  OBVIOUS
<1>2. f = Tree(t.root, mem, t.dirty \cup {o}, t.disk)
  BY <1>1 DEF Changed
<1>3. f.root = t.root /\ f.mem = mem /\ f.dirty = t.dirty \cup {o} /\ f.disk = t.disk
  BY <1>2, TreeIs
<1>4. /\ DOMAIN mem = DOMAIN t.mem \cup {o} /\ mem[o] = node
      /\ \A x \in DOMAIN t.mem : x # o => mem[x] = t.mem[x]
  BY <1>1 DEF Extend
<1>5. Cached(f)
  <2>1. \A x \in DOMAIN f.mem \ f.dirty : f.mem[x] = f.disk[x]
    BY <1>3, <1>4 DEF Cached
  <2>2. DOMAIN f.disk \subseteq Offsets /\ DOMAIN f.mem \subseteq DOMAIN f.disk
        /\ f.dirty \subseteq DOMAIN f.mem
    BY <1>3, <1>4 DEF Cached
  <2>. QED
    BY <2>1, <2>2 DEF Cached
<1>6. \A x \in DOMAIN t.disk \ {o} : View(f, x) = View(t, x)
  BY <1>3, <1>4 DEF View
<1>7. Became(t, f, {}, {o})
  BY <1>3, <1>4, <1>5, <1>6 DEF Became
<1>8. View(f, o) = node
  BY <1>3, <1>4 DEF View
<1>9. ASSUME FitsBut(t, {o}) PROVE FitsBut(f, {o})
  BY <1>3, <1>4, <1>9 DEF FitsBut
<1>. QED
  BY <1>7, <1>8, <1>9 DEF SetNode

\* From t to f, node is new, at o.
PlacedNode(t, f, o, node) ==
    /\ o \in Offsets \ DOMAIN t.disk
    /\ Became(t, f, {}, {o}) /\ View(f, o) = node
    /\ FitsBut(t, {}) /\ ~ NodeOversized(node) => FitsBut(f, {})

\* A new node is given a block that is not in use, and written.
LEMMA PlacedIs ==
    ASSUME NEW t, Cached(t), Offsets \ DOMAIN t.disk # {}, NEW node, NEW f, f = Placed(t, node),
           NEW o, o = FreshOffset(t)
    PROVE  PlacedNode(t, f, o, node)
<1>1. o \in Offsets \ DOMAIN t.disk
  <2>1. PICK free : free = Offsets \ DOMAIN t.disk
    OBVIOUS
  <2>2. free \in SUBSET Nat /\ free # {}
    BY <2>1 DEF Offsets
  <2>3. \E x \in free : \A y \in free : x =< y
    BY <2>2, LeastNatural
  <2>4. o = CHOOSE x \in free : \A y \in free : x =< y
    BY <2>1 DEF FreshOffset, Min
  <2>. QED
    BY <2>1, <2>3, <2>4
<1>2. PICK mem, disk : mem = Extend(t.mem, o, node) /\ disk = Extend(t.disk, o, node)
  OBVIOUS
<1>3. PICK u : u = Tree(t.root, mem, t.dirty \cup {o}, disk)
  OBVIOUS
<1>4. f = Flushed(u, o)
  BY <1>2, <1>3 DEF Placed
<1>5. u.root = t.root /\ u.mem = mem /\ u.dirty = t.dirty \cup {o} /\ u.disk = disk
  BY <1>3, TreeIs
<1>6. /\ DOMAIN mem = DOMAIN t.mem \cup {o} /\ mem[o] = node
      /\ \A x \in DOMAIN t.mem : x # o => mem[x] = t.mem[x]
      /\ DOMAIN disk = DOMAIN t.disk \cup {o} /\ disk[o] = node
      /\ \A x \in DOMAIN t.disk : x # o => disk[x] = t.disk[x]
  BY <1>2 DEF Extend
<1>7. Cached(u)
  <2>1. \A x \in DOMAIN u.mem \ u.dirty : u.mem[x] = u.disk[x]
    BY <1>5, <1>6 DEF Cached
  <2>2. DOMAIN u.disk \subseteq Offsets /\ DOMAIN u.mem \subseteq DOMAIN u.disk
        /\ u.dirty \subseteq DOMAIN u.mem
    BY <1>1, <1>5, <1>6 DEF Cached
  <2>. QED
    BY <2>1, <2>2 DEF Cached
<1>8. Became(u, f, {}, {}) /\ (FitsBut(u, {}) => FitsBut(f, {}))
  BY <1>4, <1>7, FlushedIs
<1>9. \A x \in DOMAIN t.disk \ {o} : View(u, x) = View(t, x)
  BY <1>5, <1>6 DEF View
<1>10. Became(t, f, {}, {o})
  <2>1. \A x \in DOMAIN t.disk \ {o} : View(f, x) = View(t, x)
    BY <1>5, <1>6, <1>8, <1>9 DEF Became
  <2>. QED
    BY <2>1, <1>5, <1>6, <1>8 DEF Became
<1>11. View(f, o) = node
  <2>1. View(u, o) = node
    BY <1>5, <1>6 DEF View
  <2>. QED
    BY <2>1, <1>5, <1>6, <1>8 DEF Became
<1>12. ASSUME FitsBut(t, {}), ~ NodeOversized(node) PROVE FitsBut(f, {})
  <2>1. FitsBut(u, {})
    BY <1>5, <1>6, <1>12 DEF FitsBut
  <2>. QED
    BY <2>1, <1>8
<1>. QED
  BY <1>1, <1>10, <1>11, <1>12 DEF PlacedNode

\* c is split in t: s is the result, with the contents of halves.
SplitOff(t, c, s, halves) ==
    /\ s.left \in Offsets /\ s.left \notin DOMAIN t.disk \ {c}
    /\ s.right \in Offsets /\ s.right \notin DOMAIN t.disk \ {c}
    /\ s.left # s.right /\ s.key = halves.key
    /\ Became(t, s.tree, {c}, {s.left, s.right})
    /\ View(s.tree, s.left) = halves.left /\ View(s.tree, s.right) = halves.right
    /\ FitsBut(t, {c}) /\ ~ NodeOversized(halves.left) /\ ~ NodeOversized(halves.right)
        => FitsBut(s.tree, {})

\* The halves of a node are given two blocks, of which one may be its own.
LEMMA SplitNodeIs ==
    ASSUME NEW t, Cached(t), NEW c \in DOMAIN t.mem, Offsets \ DOMAIN t.disk # {},
           NEW s, s = SplitNode(t, c), NEW halves, halves = Split(t.mem[c])
    PROVE  SplitOff(t, c, s, halves)
<1>1. PICK freed, p1, p2 : /\ freed = Freed(t, c)
                           /\ p1 = Placed(freed, halves.left)
                           /\ p2 = Placed(p1, halves.right)
  OBVIOUS
<1>2. PICK l, r : l = FreshOffset(freed) /\ r = FreshOffset(p1)
  OBVIOUS
<1>3. s = [tree |-> p2, left |-> l, right |-> r, key |-> halves.key]
  BY <1>1, <1>2 DEF SplitNode
<1>4. s.tree = p2 /\ s.left = l /\ s.right = r /\ s.key = halves.key
  BY <1>3
<1>5. Became(t, freed, {c}, {}) /\ (FitsBut(t, {c}) => FitsBut(freed, {}))
  BY <1>1, FreedIs
<1>6. c \in Offsets /\ c \in DOMAIN t.disk
  BY DEF Cached
<1>7. Cached(freed) /\ c \in Offsets \ DOMAIN freed.disk
  BY <1>5, <1>6 DEF Became
<1>8. PICK L : L = halves.left
  OBVIOUS
<1>9. PICK R : R = halves.right
  OBVIOUS
<1>10. /\ l \in Offsets \ DOMAIN freed.disk
       /\ Became(freed, p1, {}, {l}) /\ View(p1, l) = L
       /\ FitsBut(freed, {}) /\ ~ NodeOversized(L) => FitsBut(p1, {})
  <2>1. Offsets \ DOMAIN freed.disk # {} /\ p1 = Placed(freed, L)
    BY <1>1, <1>7, <1>8
  <2>. QED
    BY <2>1, <1>2, <1>7, PlacedIs DEF PlacedNode
<1>11. Cached(p1) /\ Offsets \ DOMAIN p1.disk # {}
  <2>1. PICK x \in Offsets : x \notin DOMAIN t.disk
    OBVIOUS
  <2>2. x # c /\ x \notin DOMAIN freed.disk /\ c \notin DOMAIN freed.disk
    BY <2>1, <1>5, <1>6 DEF Became
  <2>3. DOMAIN p1.disk = DOMAIN freed.disk \cup {l}
    BY <1>10 DEF Became
  <2>4. x \notin DOMAIN p1.disk \/ c \notin DOMAIN p1.disk
    BY <2>2, <2>3
  <2>. QED
    BY <2>4, <1>6, <1>10 DEF Became
<1>12. /\ r \in Offsets \ DOMAIN p1.disk
       /\ Became(p1, p2, {}, {r}) /\ View(p2, r) = R
       /\ FitsBut(p1, {}) /\ ~ NodeOversized(R) => FitsBut(p2, {})
  <2>1. p2 = Placed(p1, R)
    BY <1>1, <1>9
  <2>. QED
    BY <2>1, <1>2, <1>11, PlacedIs DEF PlacedNode
<1>13. /\ DOMAIN freed.disk = DOMAIN t.disk \ {c} /\ DOMAIN p1.disk = DOMAIN freed.disk \cup {l}
       /\ DOMAIN p2.disk = DOMAIN p1.disk \cup {r} /\ DOMAIN freed.mem = DOMAIN t.mem \ {c}
       /\ DOMAIN p1.mem = DOMAIN freed.mem \cup {l} /\ DOMAIN p2.mem = DOMAIN p1.mem \cup {r}
       /\ p2.root = t.root /\ Cached(p2)
  BY <1>5, <1>10, <1>12 DEF Became
<1>14. l # r /\ l \notin DOMAIN t.disk \ {c} /\ r \notin DOMAIN t.disk \ {c}
  BY <1>10, <1>12, <1>13
<1>15. \A x \in DOMAIN t.disk \ ({c} \cup {l, r}) : View(p2, x) = View(t, x)
  <2>. TAKE x \in DOMAIN t.disk \ ({c} \cup {l, r})
  <2>1. View(freed, x) = View(t, x)
    BY <1>5 DEF Became
  <2>2. View(p1, x) = View(freed, x)
    BY <1>10, <1>13 DEF Became
  <2>3. View(p2, x) = View(p1, x)
    BY <1>12, <1>13 DEF Became
  <2>. QED
    BY <2>1, <2>2, <2>3
<1>16. Became(t, p2, {c}, {l, r})
  <2>1. DOMAIN p2.disk = (DOMAIN t.disk \ {c}) \cup {l, r}
        /\ DOMAIN p2.mem = (DOMAIN t.mem \ {c}) \cup {l, r}
    BY <1>13
  <2>. QED
    BY <2>1, <1>13, <1>15 DEF Became
<1>17. View(p2, l) = L /\ View(p2, r) = R
  <2>1. View(p2, l) = View(p1, l)
    BY <1>12, <1>13, <1>14 DEF Became
  <2>. QED
    BY <2>1, <1>10, <1>12
<1>. QED
  BY <1>4, <1>5, <1>8, <1>9, <1>10, <1>12, <1>14, <1>16, <1>17 DEF SplitOff

------------------------------------------------------------------------------
(* Splits of nodes in the cache. *)

\* The root is cached, and so is a parent of every other cached node.
Rooted(t) ==
    /\ t.root \in DOMAIN t.mem
    /\ \A x \in DOMAIN t.mem \ {t.root} :
        \E o \in DOMAIN t.mem : \E i \in DOMAIN View(t, o).kids : View(t, o).kids[i] = x

\* t is a tree, and its root and the parents of cached nodes are cached.
Grounded(t, h, own) == Cached(t) /\ Rooted(t) /\ IsTree(NodesOf(t), t.root, h, own)

FreeOf(t) == Offsets \ DOMAIN t.disk

\* The nodes of a tree.
LEMMA NodesOfIs ==
    ASSUME NEW t
    PROVE  DOMAIN NodesOf(t) = DOMAIN t.disk /\ \A o \in DOMAIN t.disk : NodesOf(t)[o] = View(t, o)
BY DEF NodesOf

\* The node c of t is split into left and right at l and r, under parent at p.
SplitOf(t, N, h, own, c, l, r, p, left, right, s, mid, root2, top, parent) ==
    /\ Grounded(t, h, own) /\ N = NodesOf(t) /\ c \in DOMAIN t.mem
    /\ p \in DOMAIN N \ {c} => p \in DOMAIN t.mem
    /\ p \in DOMAIN N \ {c} => DOMAIN N[p].kids # {}
    /\ Shares(N[c], left, right)
    /\ SplitOn(N, t.root, h, own, c, l, r, p, left, right, s, mid, root2, top, parent)

\* u is t after that split.
SplitTo(t, c, l, r, p, left, right, root2, parent, u) ==
    /\ Cached(u) /\ u.root = root2
    /\ DOMAIN u.disk = (DOMAIN t.disk \ {c}) \cup {l, r, p}
    /\ DOMAIN u.mem = (DOMAIN t.mem \ {c}) \cup {l, r, p}
    /\ View(u, l) = left /\ View(u, r) = right /\ View(u, p) = parent
    /\ \A x \in DOMAIN t.disk \ {c, l, r, p} : View(u, x) = View(t, x)

\* What the new tree looks like.
LEMMA SplitNodesOf ==
    ASSUME NEW t, NEW c, NEW l, NEW r, NEW p, l # r, p # l, p # r, NEW left, NEW right, NEW root2,
           NEW parent, NEW u, SplitTo(t, c, l, r, p, left, right, root2, parent, u)
    PROVE  NodesOf(u) = SplitNodes(NodesOf(t), c, l, r, p, left, right, parent)
<1>1. PICK N : N = NodesOf(t)
  OBVIOUS
<1>2. DOMAIN N = DOMAIN t.disk /\ \A o \in DOMAIN t.disk : N[o] = View(t, o)
  BY <1>1, NodesOfIs
<1>3. DOMAIN u.disk = (DOMAIN N \ {c}) \cup {l, r, p}
  BY <1>2 DEF SplitTo
<1>4. \A x \in DOMAIN u.disk :
          View(u, x) = IF x = l THEN left ELSE IF x = r THEN right
                       ELSE IF x = p THEN parent ELSE N[x]
  BY <1>2, <1>3 DEF SplitTo
<1>5. NodesOf(u) = [x \in DOMAIN u.disk |-> IF x = l THEN left ELSE IF x = r THEN right
                                            ELSE IF x = p THEN parent ELSE N[x]]
  BY <1>4 DEF NodesOf
<1>. QED
  BY <1>1, <1>3, <1>5 DEF SplitNodes

\* After a split the parents of cached nodes are still cached.
LEMMA SplitRooted ==
    ASSUME NEW t, NEW N, NEW h, NEW own, NEW c, NEW l, NEW r, NEW p, NEW left, NEW right,
           NEW s, NEW mid, NEW root2, NEW top, NEW parent, NEW u,
           SplitOf(t, N, h, own, c, l, r, p, left, right, s, mid, root2, top, parent),
           SplitTo(t, c, l, r, p, left, right, root2, parent, u)
    PROVE  Rooted(u)
<1>1. PICK M : M = NodesOf(u)
  OBVIOUS
<1>2. DOMAIN N = DOMAIN t.disk /\ \A o \in DOMAIN t.disk : N[o] = View(t, o)
  BY NodesOfIs DEF SplitOf
<1>3. DOMAIN M = DOMAIN u.disk /\ \A o \in DOMAIN u.disk : M[o] = View(u, o)
  BY <1>1, NodesOfIs
<1>5. DOMAIN t.mem \subseteq DOMAIN t.disk /\ t.root \in DOMAIN t.mem /\ c \in DOMAIN N
      /\ IsTree(N, t.root, h, own)
  BY <1>2 DEF SplitOf, Grounded, Cached, Rooted
<1>15. SplitOn(N, t.root, h, own, c, l, r, p, left, right, s, mid, root2, top, parent)
       /\ (p \in DOMAIN N \ {c} => p \in DOMAIN t.mem)
  BY DEF SplitOf
<1>6. /\ Halved(N[c], own[c], left, right, s, mid)
      /\ Adopts(N, t.root, h, own, c, l, r, p, s, top, parent)
      /\ Above(N, t.root, h, own, c, p, root2, top)
      /\ l \notin DOMAIN N \ {c} /\ r \notin DOMAIN N \ {c}
      /\ l # r /\ p # l /\ p # r
      /\ p \in DOMAIN N \ {c} => p \in DOMAIN t.mem
  BY <1>15 DEF SplitOn
<1>14. DOMAIN u.mem = (DOMAIN t.mem \ {c}) \cup {l, r, p} /\ DOMAIN u.mem \subseteq DOMAIN u.disk
       /\ u.root = root2
  BY DEF SplitTo, Cached
<1>4. M = SplitNodes(N, c, l, r, p, left, right, parent) /\ M[p] = parent
  <2>1. N = NodesOf(t)
    BY DEF SplitOf
  <2>2. M = SplitNodes(N, c, l, r, p, left, right, parent)
    BY <2>1, <1>1, <1>6, SplitNodesOf
  <2>. QED
    BY <2>2, <1>6 DEF SplitNodes
<1>7. u.root \in DOMAIN u.mem
  BY <1>5, <1>6, <1>14 DEF Above
<1>8. SUFFICES ASSUME NEW x \in DOMAIN u.mem, x # root2
               PROVE  \E o \in DOMAIN u.mem : \E i \in DOMAIN M[o].kids : M[o].kids[i] = x
  BY <1>3, <1>7, <1>14 DEF Rooted
<1>9. CASE x = l \/ x = r
  <2>1. \E j \in DOMAIN parent.kids : parent.kids[j] = x
    BY <1>6, <1>9 DEF Adopts
  <2>2. p \in DOMAIN u.mem
    BY <1>14
  <2>. QED
    BY <2>1, <2>2, <1>4
<1>10. CASE x # l /\ x # r
  <2>1. x \in DOMAIN t.mem \ {c}
    <3>1. p \in DOMAIN N \ {c} \/ x # p
      BY <1>6, <1>8 DEF Above
    <3>. QED
      BY <3>1, <1>2, <1>6, <1>8, <1>10, <1>14
  <2>2. x # t.root
    BY <2>1, <1>6, <1>8 DEF Above
  <2>3. PICK q \in DOMAIN t.mem : \E i \in DOMAIN View(t, q).kids : View(t, q).kids[i] = x
    BY <2>1, <2>2 DEF SplitOf, Grounded, Rooted
  <2>4. q \in DOMAIN N /\ N[q] = View(t, q)
    BY <2>3, <1>2, <1>5
  <2>5. PICK i \in DOMAIN N[q].kids : N[q].kids[i] = x
    BY <2>3, <2>4
  <2>6. PICK o \in DOMAIN M :
            /\ IF q = c THEN o \in {l, r} ELSE o = q
            /\ \E j \in DOMAIN M[o].kids : M[o].kids[j] = N[q].kids[i]
    <3>1. N[q].kids[i] # c
      BY <2>1, <2>5
    <3>2. Inherits(N, M, c, l, r, q, i)
      BY <3>1, <2>4, <2>5, <1>4, <1>15, SplitParents
    <3>. QED
      BY <3>2 DEF Inherits
  <2>7. o \in DOMAIN u.mem
    BY <2>3, <2>6, <1>14
  <2>. QED
    BY <2>5, <2>6, <2>7
<1>. QED
  BY <1>9, <1>10

\* A split of a tree, its root and the parents of cached nodes cached, gives
\* another one with the same entries.
LEMMA SplitGrounded ==
    ASSUME NEW t, NEW N, NEW h, NEW own, NEW c, NEW l, NEW r, NEW p, NEW left, NEW right,
           NEW s, NEW mid, NEW root2, NEW top, NEW parent, NEW u,
           SplitOf(t, N, h, own, c, l, r, p, left, right, s, mid, root2, top, parent),
           SplitTo(t, c, l, r, p, left, right, root2, parent, u)
    PROVE  /\ Grounded(u, SplitHeights(N, h, c, l, r, p), SplitOwn(N, own, c, l, r, p, s, top))
           /\ SameEntries(N, NodesOf(u))
<1>1. PICK M : M = NodesOf(u)
  OBVIOUS
<1>2. DOMAIN N = DOMAIN t.disk
  BY NodesOfIs DEF SplitOf
<1>3. SplitOn(N, t.root, h, own, c, l, r, p, left, right, s, mid, root2, top, parent)
  BY DEF SplitOf
<1>4. l # r /\ p # l /\ p # r
  BY <1>3 DEF SplitOn
<1>5. M = SplitNodes(N, c, l, r, p, left, right, parent)
  <2>1. N = NodesOf(t)
    BY DEF SplitOf
  <2>. QED
    BY <2>1, <1>1, <1>4, SplitNodesOf
<1>6. IsTree(SplitNodes(N, c, l, r, p, left, right, parent), root2,
             SplitHeights(N, h, c, l, r, p), SplitOwn(N, own, c, l, r, p, s, top))
  BY <1>3, SplitKeepsTree
<1>7. Rooted(u)
  BY SplitRooted
<1>8. SameEntries(N, M)
  <2>1. Shares(N[c], left, right) /\ (p \in DOMAIN N \ {c} => DOMAIN N[p].kids # {})
    BY DEF SplitOf
  <2>. QED
    BY <2>1, <1>3, <1>5, SplitHolds
<1>9. u.root = root2 /\ Cached(u)
  BY DEF SplitTo
<1>. QED
  BY <1>1, <1>5, <1>6, <1>7, <1>8, <1>9 DEF Grounded

\* A split takes one block.
LEMMA SplitTakesOne ==
    ASSUME NEW D \in SUBSET Offsets, NEW c \in D, NEW l \in Offsets, NEW r \in Offsets,
           l \notin D \ {c}, r \notin D \ {c}, l # r
    PROVE  /\ Cardinality(Offsets \ D) \in Nat
           /\ Cardinality(Offsets \ ((D \ {c}) \cup {l, r})) = Cardinality(Offsets \ D) - 1
<1>1. IsFiniteSet(Offsets)
  BY FS_Interval, IndexAssumption DEF Offsets
<1>2. PICK F : F = Offsets \ D
  OBVIOUS
<1>3. IsFiniteSet(F) /\ Cardinality(F) \in Nat
  BY <1>1, <1>2, FS_Subset, FS_CardinalityType
<1>4. PICK G : G = F \cup {c}
  OBVIOUS
<1>5. IsFiniteSet(G) /\ Cardinality(G) = Cardinality(F) + 1
  BY <1>2, <1>3, <1>4, FS_AddElement
<1>6. PICK H : H = G \ {l}
  OBVIOUS
<1>7. l \in G /\ r \in G
  BY <1>2, <1>4
<1>8. IsFiniteSet(H) /\ Cardinality(H) = Cardinality(G) - 1 /\ r \in H
  BY <1>5, <1>6, <1>7, FS_RemoveElement
<1>9. Cardinality(H \ {r}) = Cardinality(H) - 1
  BY <1>8, FS_RemoveElement
<1>10. H \ {r} = Offsets \ ((D \ {c}) \cup {l, r})
  BY <1>2, <1>4, <1>6
<1>11. Cardinality(H \ {r}) = Cardinality(F) - 1
  BY <1>3, <1>5, <1>8, <1>9
<1>. QED
  BY <1>2, <1>3, <1>10, <1>11

\* A cached node of a tree that is too big can be split.
LEMMA SplittableIs ==
    ASSUME NEW t, NEW h, NEW own, Grounded(t, h, own), NEW c \in DOMAIN t.mem,
           NodeOversized(t.mem[c]), NEW s, s = Split(t.mem[c])
    PROVE  /\ t.mem[c] = NodesOf(t)[c] /\ c \in DOMAIN NodesOf(t)
           /\ \E mid \in Nat : Halved(NodesOf(t)[c], own[c], s.left, s.right, s.key, mid)
           /\ Shares(NodesOf(t)[c], s.left, s.right)
           /\ NearlyFits(View(t, c)) => ~ NodeOversized(s.left) /\ ~ NodeOversized(s.right)
<1>1. PICK N : N = NodesOf(t)
  OBVIOUS
<1>2. DOMAIN N = DOMAIN t.disk /\ \A o \in DOMAIN t.disk : N[o] = View(t, o)
  BY <1>1, NodesOfIs
<1>3. c \in DOMAIN N /\ N[c] = t.mem[c] /\ View(t, c) = t.mem[c]
  BY <1>2 DEF Grounded, Cached, View
<1>4. IsTree(N, t.root, h, own)
  BY <1>1 DEF Grounded
<1>5. PICK n, top : n = N[c] /\ top = own[c]
  OBVIOUS
<1>6. IsNode(n) /\ top \in SUBSET Keys
  BY <1>3, <1>4, <1>5 DEF IsTree, Typed
<1>7. n.leaf => LeafKeys(n) \subseteq top
  BY <1>3, <1>4, <1>5 DEF IsTree, LeavesOk
<1>8. ~ n.leaf => \A i \in DOMAIN n.keys : n.keys[i] \in top
  BY <1>3, <1>4, <1>5 DEF IsTree, InnersOk
<1>9. NodeOversized(n) /\ s = Split(n)
  BY <1>3, <1>5
<1>10. \E mid \in Nat : Halved(n, top, s.left, s.right, s.key, mid)
  BY <1>6, <1>7, <1>8, <1>9, SplitIs
<1>11. Shares(n, s.left, s.right)
  BY <1>6, <1>7, <1>8, <1>9, SplitIs
<1>12. NearlyFits(n) => ~ NodeOversized(s.left) /\ ~ NodeOversized(s.right)
  BY <1>6, <1>7, <1>8, <1>9, SplitIs
<1>. QED
  BY <1>1, <1>3, <1>5, <1>10, <1>11, <1>12

\* From t to u, whose heights and keys of each node are h, own and h2, own2,
\* only o and what is lower than o may have changed.
Grown(t, h, own, u, h2, own2, o) ==
    /\ Grounded(u, h2, own2) /\ u.root = t.root
    /\ SameEntries(NodesOf(t), NodesOf(u))
    /\ \A x \in DOMAIN t.disk : h[x] >= h[o] =>
        /\ x \in DOMAIN u.disk /\ h2[x] = h[x] /\ own2[x] = own[x]
        /\ x \in DOMAIN t.mem => x \in DOMAIN u.mem
        /\ x # o => View(u, x) = View(t, x)
    /\ FitsBut(u, {o}) /\ NearlyFits(View(u, o))

\* IndexInnerNode::AfterAdd, when the child is too big.
LEMMA AfterAddIs ==
    ASSUME NEW t, NEW h, NEW own, Grounded(t, h, own),
           NEW o \in DOMAIN t.mem, NEW i \in DOMAIN View(t, o).kids,
           NEW c, c = View(t, o).kids[i], c \in DOMAIN t.mem, NodeOversized(t.mem[c]),
           FitsBut(t, {c}), NearlyFits(View(t, c)), FreeOf(t) # {},
           NEW u, u = AfterAdd(t, o, i)
    PROVE  /\ \E h2, own2 : Grown(t, h, own, u, h2, own2, o)
           /\ Cardinality(FreeOf(u)) = Cardinality(FreeOf(t)) - 1
<1>1. PICK N : N = NodesOf(t)
  OBVIOUS
<1>2. DOMAIN N = DOMAIN t.disk /\ \A x \in DOMAIN t.disk : N[x] = View(t, x)
  BY <1>1, NodesOfIs
<1>3. Cached(t) /\ Rooted(t) /\ IsTree(N, t.root, h, own)
  BY <1>1 DEF Grounded
<1>4. /\ o \in DOMAIN N /\ N[o] = View(t, o) /\ t.mem[o] = View(t, o)
      /\ c \in DOMAIN N /\ N[c] = View(t, c) /\ t.mem[c] = View(t, c)
  BY <1>2, <1>3 DEF Cached, View
<1>5. PICK s, halves : s = SplitNode(t, c) /\ halves = Split(t.mem[c])
  OBVIOUS
<1>6. PICK l, r, key : l = s.left /\ r = s.right /\ key = s.key
  OBVIOUS
<1>7. PICK left, right : left = halves.left /\ right = halves.right
  OBVIOUS
<1>8. PICK v : v = s.tree
  OBVIOUS
<1>9. PICK parent : parent = ReplaceChild(t.mem[o], i, key, l, r)
  OBVIOUS
<1>10. u = Changed(v, o, parent)
  <2>1. c = t.mem[o].kids[i]
    BY <1>4
  <2>. QED
    BY <2>1, <1>5, <1>6, <1>8, <1>9 DEF AfterAdd
<1>11. \E m \in Nat : Halved(N[c], own[c], halves.left, halves.right, halves.key, m)
  BY <1>1, <1>5, SplittableIs
<1>12. Shares(N[c], halves.left, halves.right)
  BY <1>1, <1>5, SplittableIs
<1>13. ~ NodeOversized(left) /\ ~ NodeOversized(right)
  <2>1. ~ NodeOversized(halves.left) /\ ~ NodeOversized(halves.right)
    BY <1>5, SplittableIs
  <2>. QED
    BY <2>1, <1>7
<1>14. /\ l \in Offsets /\ l \notin DOMAIN t.disk \ {c}
       /\ r \in Offsets /\ r \notin DOMAIN t.disk \ {c}
       /\ l # r /\ key = halves.key
       /\ Became(t, v, {c}, {l, r})
       /\ View(v, l) = left /\ View(v, r) = right
       /\ FitsBut(v, {})
  <2>0. Offsets \ DOMAIN t.disk # {}
    BY DEF FreeOf
  <2>1. SplitOff(t, c, s, halves)
    BY <2>0, <1>3, <1>5, SplitNodeIs
  <2>2. /\ l \in Offsets /\ l \notin DOMAIN t.disk \ {c}
        /\ r \in Offsets /\ r \notin DOMAIN t.disk \ {c}
        /\ l # r /\ key = halves.key
    BY <2>1, <1>6 DEF SplitOff
  <2>3. Became(t, v, {c}, {l, r})
    BY <2>1, <1>6, <1>8 DEF SplitOff
  <2>4. View(v, l) = left /\ View(v, r) = right
    BY <2>1, <1>6, <1>7, <1>8 DEF SplitOff
  <2>5. FitsBut(v, {})
    BY <2>1, <1>7, <1>8, <1>13 DEF SplitOff
  <2>. QED
    BY <2>2, <2>3, <2>4, <2>5
<1>15. PICK mid \in Nat : Halved(N[c], own[c], left, right, key, mid)
  BY <1>7, <1>11, <1>14
<1>16. h[o] = h[c] + 1 /\ h[c] \in Nat /\ h[o] \in Nat /\ o # c /\ c # t.root
  <2>1. i \in DOMAIN N[o].kids /\ c = N[o].kids[i]
    BY <1>4
  <2>2. h[o] = h[c] + 1 /\ c # t.root
    BY <2>1, <1>3, <1>4 DEF IsTree, LinksOk, IsLink
  <2>3. h[c] \in Nat /\ h[o] \in Nat
    BY <1>3, <1>4 DEF IsTree, Typed
  <2>. QED
    BY <2>2, <2>3
<1>17. o # l /\ o # r
  BY <1>2, <1>4, <1>14, <1>16
<1>18. /\ Above(N, t.root, h, own, c, o, t.root, own[o])
       /\ Adopts(N, t.root, h, own, c, l, r, o, key, own[o], parent)
       /\ ~ NodeOversized(N[o]) => NearlyFits(parent)
  <2>1. /\ i \in DOMAIN N[o].kids /\ c = N[o].kids[i] /\ parent = ReplaceChild(N[o], i, key, l, r)
        /\ l \notin DOMAIN N \ {c} /\ r \notin DOMAIN N \ {c}
    BY <1>2, <1>4, <1>9, <1>14
  <2>2. Above(N, t.root, h, own, c, o, t.root, own[o])
    BY <2>1, <1>3, <1>4, <1>14, <1>15, <1>17, ChildAdopts
  <2>3. Adopts(N, t.root, h, own, c, l, r, o, key, own[o], parent)
    BY <2>1, <1>3, <1>4, <1>14, <1>15, <1>17, ChildAdopts
  <2>4. ~ NodeOversized(N[o]) => NearlyFits(parent)
    BY <2>1, <1>3, <1>4, <1>14, <1>15, <1>17, ChildAdopts
  <2>. QED
    BY <2>2, <2>3, <2>4
<1>19. /\ Cached(v) /\ v.root = t.root
       /\ DOMAIN v.disk = (DOMAIN t.disk \ {c}) \cup {l, r}
       /\ DOMAIN v.mem = (DOMAIN t.mem \ {c}) \cup {l, r}
       /\ \A x \in DOMAIN t.disk \ {c, l, r} : View(v, x) = View(t, x)
  <2>1. {c} \cup {l, r} = {c, l, r}
    OBVIOUS
  <2>. QED
    BY <2>1, <1>14 DEF Became
<1>20. o \in DOMAIN v.disk /\ o \in DOMAIN v.mem
  BY <1>2, <1>4, <1>16, <1>19
<1>21. /\ Became(v, u, {}, {o}) /\ View(u, o) = parent
       /\ FitsBut(u, {o})
  <2>1. SetNode(v, u, o, parent)
    BY <1>10, <1>19, <1>20, ChangedIs
  <2>2. FitsBut(v, {o})
    BY <1>14 DEF FitsBut
  <2>. QED
    BY <2>1, <2>2 DEF SetNode
<1>22. /\ Cached(u) /\ u.root = t.root
       /\ DOMAIN u.disk = (DOMAIN t.disk \ {c}) \cup {l, r}
       /\ DOMAIN u.disk = (DOMAIN t.disk \ {c}) \cup {l, r, o}
       /\ DOMAIN u.mem = (DOMAIN t.mem \ {c}) \cup {l, r, o}
       /\ \A x \in DOMAIN v.disk : x # o => View(u, x) = View(v, x)
  BY <1>19, <1>20, <1>21 DEF Became
<1>23. \A x \in DOMAIN t.disk \ {c, l, r, o} : View(u, x) = View(t, x)
  BY <1>19, <1>22
<1>24. View(u, l) = left /\ View(u, r) = right
  BY <1>14, <1>17, <1>19, <1>22
<1>26. SplitTo(t, c, l, r, o, left, right, t.root, parent, u)
  BY <1>21, <1>22, <1>23, <1>24 DEF SplitTo
<1>27. PICK h2, own2 : /\ h2 = SplitHeights(N, h, c, l, r, o)
                       /\ own2 = SplitOwn(N, own, c, l, r, o, key, own[o])
  OBVIOUS
<1>28. SplitOf(t, N, h, own, c, l, r, o, left, right, key, mid, t.root, own[o], parent)
  <2>1. l \notin DOMAIN N \ {c} /\ r \notin DOMAIN N \ {c} /\ o \in Offsets
    BY <1>2, <1>3, <1>4, <1>14 DEF Cached
  <2>2. Shares(N[c], left, right)
    BY <1>7, <1>12
  <2>3. DOMAIN N[o].kids # {}
    BY <1>4
  <2>. QED
    BY <2>1, <2>2, <2>3, <1>1, <1>3, <1>4, <1>14, <1>15, <1>17, <1>18 DEF SplitOf, SplitOn
<1>29. Grounded(u, h2, own2)
  BY <1>26, <1>27, <1>28, SplitGrounded
<1>30. SameEntries(N, NodesOf(u))
  BY <1>26, <1>28, SplitGrounded
<1>31. ASSUME NEW x \in DOMAIN t.disk, h[x] >= h[o]
       PROVE  /\ x \in DOMAIN u.disk /\ h2[x] = h[x] /\ own2[x] = own[x]
              /\ x \in DOMAIN t.mem => x \in DOMAIN u.mem
              /\ x # o => View(u, x) = View(t, x)
  <2>1. x # c
    BY <1>16, <1>31
  <2>2. x # l /\ x # r
    BY <2>1, <1>14
  <2>3. x \in DOMAIN u.disk /\ (x \in DOMAIN t.mem => x \in DOMAIN u.mem)
    BY <2>1, <1>22
  <2>4. x # o => View(u, x) = View(t, x)
    BY <2>1, <2>2, <1>23
  <2>5. x \in (DOMAIN N \ {c}) \cup {l, r, o}
    BY <2>1, <1>2
  <2>6. h2[x] = IF x = o THEN h[c] + 1 ELSE h[x]
    BY <2>2, <2>5, <1>27 DEF SplitHeights
  <2>7. own2[x] = own[x]
    BY <2>2, <2>5, <1>27 DEF SplitOwn
  <2>. QED
    BY <2>3, <2>4, <2>6, <2>7, <1>16
<1>32. NearlyFits(View(u, o))
  <2>1. ~ NodeOversized(t.mem[o])
    BY <1>16 DEF FitsBut
  <2>. QED
    BY <2>1, <1>4, <1>18, <1>21
<1>33. Grown(t, h, own, u, h2, own2, o)
  BY <1>1, <1>21, <1>22, <1>29, <1>30, <1>31, <1>32 DEF Grown
<1>34. Cardinality(FreeOf(u)) = Cardinality(FreeOf(t)) - 1
  <2>1. DOMAIN t.disk \in SUBSET Offsets /\ c \in DOMAIN t.disk
    BY <1>2, <1>3, <1>4 DEF Cached
  <2>2. Cardinality(Offsets \ ((DOMAIN t.disk \ {c}) \cup {l, r}))
            = Cardinality(Offsets \ DOMAIN t.disk) - 1
    BY <2>1, <1>14, SplitTakesOne
  <2>. QED
    BY <2>2, <1>22 DEF FreeOf
<1>. QED
  BY <1>33, <1>34

\* From t to u the tree is still a tree of nodes that fit, with the same
\* entries.
Settled(t, u) ==
    /\ \E h, own : Grounded(u, h, own)
    /\ FitsBut(u, {}) /\ SameEntries(NodesOf(t), NodesOf(u))

Rerooted(t, p, u) ==
    /\ u.root = p /\ u.disk = t.disk /\ u.mem = t.mem
    /\ Cached(t) => Cached(u)
    /\ FitsBut(t, {}) => FitsBut(u, {})
    /\ \A x : View(u, x) = View(t, x)

\* Another root.
LEMMA RerootIs ==
    ASSUME NEW t, NEW p, NEW u, u = Tree(p, t.mem, t.dirty, t.disk)
    PROVE  Rerooted(t, p, u)
<1>1. u.root = p /\ u.mem = t.mem /\ u.dirty = t.dirty /\ u.disk = t.disk
  BY TreeIs
<1>2. Cached(t) => Cached(u)
  BY <1>1 DEF Cached
<1>3. FitsBut(t, {}) => FitsBut(u, {})
  BY <1>1 DEF FitsBut
<1>4. \A x : View(u, x) = View(t, x)
  BY <1>1 DEF View
<1>. QED
  BY <1>1, <1>2, <1>3, <1>4 DEF Rerooted

\* How many blocks are free.
LEMMA FreeIs ==
    ASSUME NEW t
    PROVE  /\ Cardinality(FreeOf(t)) \in Nat
           /\ Cardinality(FreeOf(t)) > 0 => FreeOf(t) # {}
<1>1. IsFiniteSet(Offsets)
  BY FS_Interval, IndexAssumption DEF Offsets
<1>2. Cardinality(FreeOf(t)) \in Nat
  BY <1>1, FS_Subset, FS_CardinalityType DEF FreeOf
<1>3. FreeOf(t) = {} => Cardinality(FreeOf(t)) = 0
  BY FS_EmptySet
<1>. QED
  BY <1>2, <1>3

\* Index::AfterAdd.
LEMMA SplitRootIs ==
    ASSUME NEW t, NEW h, NEW own, Grounded(t, h, own),
           FitsBut(t, {t.root}), NearlyFits(View(t, t.root)), Cardinality(FreeOf(t)) > 1,
           NEW u, u = SplitRoot(t)
    PROVE  Settled(t, u)
<1>1. PICK N, c : N = NodesOf(t) /\ c = t.root
  OBVIOUS
<1>2. DOMAIN N = DOMAIN t.disk /\ \A x \in DOMAIN t.disk : N[x] = View(t, x)
  BY <1>1, NodesOfIs
<1>3. Cached(t) /\ Rooted(t) /\ IsTree(N, c, h, own)
  BY <1>1 DEF Grounded
<1>4. c \in DOMAIN t.mem /\ c \in DOMAIN N /\ c \in Offsets
  BY <1>1, <1>2, <1>3 DEF Cached, Rooted
<1>5. CASE ~ NodeOversized(t.mem[c])
  <2>1. u = t
    BY <1>1, <1>5 DEF SplitRoot
  <2>2. FitsBut(t, {})
    BY <1>1, <1>5 DEF FitsBut
  <2>3. SameEntries(N, N)
    BY DEF SameEntries
  <2>. QED
    BY <2>1, <2>2, <2>3, <1>1 DEF Settled
<1>6. CASE NodeOversized(t.mem[c])
  <2>1. PICK s, halves : s = SplitNode(t, c) /\ halves = Split(t.mem[c])
    OBVIOUS
  <2>2. PICK l, r, key : l = s.left /\ r = s.right /\ key = s.key
    OBVIOUS
  <2>3. PICK left, right : left = halves.left /\ right = halves.right
    OBVIOUS
  <2>4. PICK v, parent : v = s.tree /\ parent = Inner(<<key>>, <<l, r>>)
    OBVIOUS
  <2>5. PICK placed, p : placed = Placed(v, parent) /\ p = FreshOffset(v)
    OBVIOUS
  <2>6. u = Tree(p, placed.mem, placed.dirty, placed.disk)
    BY <2>1, <2>2, <2>4, <2>5, <1>1, <1>6 DEF SplitRoot
  <2>7. /\ t.mem[c] = N[c]
        /\ \E m \in Nat : Halved(N[c], own[c], halves.left, halves.right, halves.key, m)
    BY <1>1, <1>4, <1>6, <2>1, SplittableIs
  <2>8. Shares(N[c], left, right)
    <3>1. Shares(N[c], halves.left, halves.right)
      BY <1>1, <1>4, <1>6, <2>1, SplittableIs
    <3>. QED
      BY <3>1, <2>3
  <2>9. ~ NodeOversized(left) /\ ~ NodeOversized(right)
    <3>1. ~ NodeOversized(halves.left) /\ ~ NodeOversized(halves.right)
      BY <1>1, <1>4, <1>6, <2>1, SplittableIs
    <3>. QED
      BY <3>1, <2>3
  <2>10. FreeOf(t) # {} /\ Cardinality(FreeOf(t)) \in Nat
    <3>1. Cardinality(FreeOf(t)) \in Nat /\ (Cardinality(FreeOf(t)) > 0 => FreeOf(t) # {})
      BY FreeIs
    <3>. QED
      BY <3>1
  <2>11. SplitOff(t, c, s, halves)
    <3>1. Offsets \ DOMAIN t.disk # {}
      BY <2>10 DEF FreeOf
    <3>. QED
      BY <3>1, <1>3, <1>4, <2>1, SplitNodeIs
  <2>12. /\ l \in Offsets /\ l \notin DOMAIN t.disk \ {c}
         /\ r \in Offsets /\ r \notin DOMAIN t.disk \ {c}
         /\ l # r /\ key = halves.key
    BY <2>11, <2>2 DEF SplitOff
  <2>13. Became(t, v, {c}, {l, r})
    BY <2>11, <2>2, <2>4 DEF SplitOff
  <2>14. View(v, l) = left /\ View(v, r) = right
    BY <2>11, <2>2, <2>3, <2>4 DEF SplitOff
  <2>15. FitsBut(v, {})
    <3>1. FitsBut(t, {c})
      BY <1>1
    <3>. QED
      BY <3>1, <2>11, <2>3, <2>4, <2>9 DEF SplitOff
  <2>16. PICK mid \in Nat : Halved(N[c], own[c], left, right, key, mid)
    BY <2>3, <2>7, <2>12
  <2>17. /\ Cached(v)
         /\ DOMAIN v.disk = (DOMAIN t.disk \ {c}) \cup {l, r}
         /\ DOMAIN v.mem = (DOMAIN t.mem \ {c}) \cup {l, r}
         /\ \A x \in DOMAIN t.disk \ {c, l, r} : View(v, x) = View(t, x)
    <3>1. {c} \cup {l, r} = {c, l, r}
      OBVIOUS
    <3>. QED
      BY <3>1, <2>13 DEF Became
  <2>18. Offsets \ DOMAIN v.disk # {}
    <3>1. DOMAIN t.disk \in SUBSET Offsets /\ c \in DOMAIN t.disk
      BY <1>2, <1>3, <1>4 DEF Cached
    <3>6. PICK D : D = DOMAIN t.disk
      OBVIOUS
    <3>7. /\ D \in SUBSET Offsets /\ c \in D /\ l \in Offsets /\ r \in Offsets
          /\ l \notin D \ {c} /\ r \notin D \ {c} /\ l # r
      BY <3>1, <3>6, <2>12
    <3>8. Cardinality(Offsets \ ((D \ {c}) \cup {l, r})) = Cardinality(Offsets \ D) - 1
      BY <3>7, SplitTakesOne
    <3>2. Cardinality(Offsets \ ((DOMAIN t.disk \ {c}) \cup {l, r}))
              = Cardinality(Offsets \ DOMAIN t.disk) - 1
      BY <3>6, <3>8
    <3>3. Cardinality(FreeOf(v)) = Cardinality(FreeOf(t)) - 1
      BY <3>2, <2>17 DEF FreeOf
    <3>4. Cardinality(FreeOf(v)) > 0
      BY <3>3, <2>10
    <3>5. FreeOf(v) # {}
      BY <3>4, FreeIs
    <3>. QED
      BY <3>5 DEF FreeOf
  <2>19. PlacedNode(v, placed, p, parent)
    BY <2>5, <2>17, <2>18, PlacedIs
  <2>20. p \in Offsets \ DOMAIN v.disk /\ Became(v, placed, {}, {p}) /\ View(placed, p) = parent
    BY <2>19 DEF PlacedNode
  <2>22. FitsBut(v, {}) /\ ~ NodeOversized(parent) => FitsBut(placed, {})
    BY <2>19 DEF PlacedNode
  <2>23. p # l /\ p # r /\ p \notin DOMAIN N \ {c} /\ p \in Offsets
    BY <2>17, <2>20, <1>2
  <2>24. /\ l \notin DOMAIN N \ {c} /\ r \notin DOMAIN N \ {c}
    BY <2>12, <1>2
  <2>25. /\ SplitOn(N, c, h, own, c, l, r, p, left, right, key, mid, p, Keys, parent)
         /\ ~ NodeOversized(parent)
    BY <2>4, <2>12, <2>16, <2>23, <2>24, <1>3, RootAdopts
  <2>26. /\ DOMAIN placed.disk = DOMAIN v.disk \cup {p}
         /\ DOMAIN placed.mem = DOMAIN v.mem \cup {p}
         /\ Cached(placed)
         /\ \A x \in DOMAIN v.disk : View(placed, x) = View(v, x)
    BY <2>20 DEF Became
  <2>27. /\ u.root = p /\ u.disk = placed.disk /\ u.mem = placed.mem
         /\ Cached(u) /\ (FitsBut(placed, {}) => FitsBut(u, {}))
         /\ \A x : View(u, x) = View(placed, x)
    <3>1. Rerooted(placed, p, u)
      BY <2>6, RerootIs
    <3>. QED
      BY <3>1, <2>26 DEF Rerooted
  <2>28. SplitTo(t, c, l, r, p, left, right, p, parent, u)
    <3>1. DOMAIN u.disk = (DOMAIN t.disk \ {c}) \cup {l, r, p}
          /\ DOMAIN u.mem = (DOMAIN t.mem \ {c}) \cup {l, r, p}
      BY <2>17, <2>26, <2>27
    <3>2. View(u, l) = left /\ View(u, r) = right /\ View(u, p) = parent
      BY <2>14, <2>17, <2>20, <2>26, <2>27
    <3>3. \A x \in DOMAIN t.disk \ {c, l, r, p} : View(u, x) = View(t, x)
      BY <2>17, <2>26, <2>27
    <3>. QED
      BY <3>1, <3>2, <3>3, <2>27 DEF SplitTo
  <2>29. SplitOf(t, N, h, own, c, l, r, p, left, right, key, mid, p, Keys, parent)
    BY <1>1, <1>4, <2>8, <2>23, <2>25 DEF SplitOf
  <2>30. \E h2, own2 : Grounded(u, h2, own2)
    BY <2>28, <2>29, SplitGrounded
  <2>31. SameEntries(N, NodesOf(u))
    BY <2>28, <2>29, SplitGrounded
  <2>. QED
    BY <1>1, <2>15, <2>22, <2>25, <2>27, <2>30, <2>31 DEF Settled
<1>. QED
  BY <1>5, <1>6

------------------------------------------------------------------------------
(* The way from a node to the leaf for a key. *)

\* Every node below x but x has a parent below x.
LEMMA BelowParent ==
    ASSUME NEW kids, NEW h, NEW top, Falling(kids, h, top), NEW x \in DOMAIN kids
    PROVE  \A y \in Below(kids, x) :
            y = x \/ \E q \in Below(kids, x) \cap DOMAIN kids : y \in kids[q]
<1> DEFINE S == {y \in Below(kids, x) :
                    y = x \/ \E q \in Below(kids, x) \cap DOMAIN kids : y \in kids[q]}
<1>1. x \in S
  BY BelowCloses
<1>2. ASSUME NEW y \in S \cap DOMAIN kids, NEW c \in kids[y] PROVE c \in S
  <2>1. c \in DOMAIN kids /\ y \in Below(kids, x)
    BY DEF Falling
  <2>2. Below(kids, y) \subseteq Below(kids, x)
    BY <2>1, BelowTransitive
  <2>3. c \in Below(kids, c) /\ Below(kids, c) \subseteq Below(kids, y)
    BY <2>1, BelowCloses
  <2>. QED
    BY <2>1, <2>2, <2>3
<1>3. Below(kids, x) \subseteq S
  <2>. HIDE DEF S
  <2>. QED
    BY <1>1, <1>2, BelowLeast
<1>. QED
  BY <1>3

\* c, child i of the inner node o, is the one for k.
IsChildFor(t, h, own, o, k, i, c) ==
    /\ i \in DOMAIN View(t, o).kids /\ c = View(t, o).kids[i]
    /\ c \in DOMAIN t.disk /\ c # t.root /\ h[o] = h[c] + 1
    /\ h[c] \in Nat /\ h[o] \in Nat
    /\ k \in own[o] => k \in own[c]

\* The child for a key.
LEMMA ChildForIs ==
    ASSUME NEW t, NEW h, NEW own, IsTree(NodesOf(t), t.root, h, own),
           NEW o \in DOMAIN t.disk, ~ View(t, o).leaf, NEW k \in Keys,
           NEW i, i = ChildIndex(View(t, o), k), NEW c, c = ChildFor(t, o, k)
    PROVE  IsChildFor(t, h, own, o, k, i, c)
<1>1. PICK N : N = NodesOf(t)
  OBVIOUS
<1>2. DOMAIN N = DOMAIN t.disk /\ N[o] = View(t, o) /\ IsTree(N, t.root, h, own)
  BY <1>1, NodesOfIs
<1>3. IsInner(N[o])
  BY <1>2, NodeIs DEF IsTree, Typed
<1>4. i \in DOMAIN N[o].kids
  <2>1. k \in Nat
    BY IndexAssumption
  <2>. QED
    BY <2>1, <1>2, <1>3, ChildIndexType
<1>5. c = N[o].kids[i]
  BY <1>2 DEF ChildFor
<1>6. c \in DOMAIN N /\ c # t.root /\ IsLink(N, h, own, o, i, c)
  BY <1>2, <1>4, <1>5 DEF IsTree, LinksOk
<1>7. h[c] \in Nat /\ h[o] \in Nat
  BY <1>2, <1>6 DEF IsTree, Typed
<1>. QED
  BY <1>2, <1>4, <1>5, <1>6, <1>7 DEF IsLink, IsChildFor

\* The way to a leaf falls.
LEMMA KidsForFalls ==
    ASSUME NEW t, NEW h, NEW own, IsTree(NodesOf(t), t.root, h, own), NEW k \in Keys
    PROVE  Falling(KidsFor(t, k), h, h[t.root])
<1>1. PICK kids : kids = KidsFor(t, k)
  OBVIOUS
<1>2. DOMAIN NodesOf(t) = DOMAIN t.disk
  BY NodesOfIs
<1>3. DOMAIN kids = DOMAIN t.disk
      /\ \A o \in DOMAIN t.disk : kids[o] = IF View(t, o).leaf THEN {} ELSE {ChildFor(t, o, k)}
  BY <1>1 DEF KidsFor
<1>4. h \in [DOMAIN kids -> Nat] /\ h[t.root] \in Nat
      /\ \A o \in DOMAIN kids : h[o] =< h[t.root]
  BY <1>2, <1>3 DEF IsTree, Typed
<1>5. ASSUME NEW o \in DOMAIN kids, NEW c \in kids[o] PROVE c \in DOMAIN kids /\ h[c] < h[o]
  <2>1. ~ View(t, o).leaf /\ c = ChildFor(t, o, k)
    BY <1>3, <1>5
  <2>2. PICK i : i = ChildIndex(View(t, o), k)
    OBVIOUS
  <2>4. IsChildFor(t, h, own, o, k, i, c)
    BY <2>1, <2>2, <1>3, ChildForIs
  <2>3. c \in DOMAIN t.disk /\ h[o] = h[c] + 1 /\ h[c] \in Nat
    BY <2>4 DEF IsChildFor
  <2>. QED
    BY <2>3, <1>3
<1>. QED
  BY <1>1, <1>4, <1>5 DEF Falling

\* Every node on the way from o is one to which k belongs, and one is a leaf.
OnWay(t, own, o, k) ==
    /\ Way(t, o, k) \subseteq DOMAIN t.disk
    /\ o \in Way(t, o, k)
    /\ \A x \in Way(t, o, k) : k \in own[x]
    /\ \E x \in Way(t, o, k) : View(t, x).leaf

\* The way from a node to which k belongs leads to a leaf for k.
LEMMA WayIs ==
    ASSUME NEW t, NEW h, NEW own, IsTree(NodesOf(t), t.root, h, own), NEW k \in Keys,
           NEW o \in DOMAIN t.disk, k \in own[o]
    PROVE  OnWay(t, own, o, k)
<1>1. PICK kids : kids = KidsFor(t, k)
  OBVIOUS
<1>2. DOMAIN kids = DOMAIN t.disk
      /\ \A x \in DOMAIN t.disk : kids[x] = IF View(t, x).leaf THEN {} ELSE {ChildFor(t, x, k)}
  BY <1>1 DEF KidsFor
<1>3. Falling(kids, h, h[t.root])
  BY <1>1, KidsForFalls
<1>4. PICK way : way = Below(kids, o)
  OBVIOUS
<1>5. way = Way(t, o, k)
  BY <1>1, <1>4 DEF Way
<1>6. way \subseteq DOMAIN t.disk
  BY <1>2, <1>3, <1>4, BelowNodes
<1>7. o \in way
  BY <1>2, <1>3, <1>4, BelowCloses
<1>8. way \subseteq {x \in DOMAIN t.disk : k \in own[x]}
  <2>1. PICK S : S = {x \in DOMAIN t.disk : k \in own[x]}
    OBVIOUS
  <2>2. o \in S
    BY <2>1
  <2>3. ASSUME NEW y \in S \cap DOMAIN kids, NEW c \in kids[y] PROVE c \in S
    <3>1. y \in DOMAIN t.disk /\ k \in own[y]
      BY <2>1, <2>3
    <3>2. ~ View(t, y).leaf /\ c = ChildFor(t, y, k)
      BY <2>3, <3>1, <1>2
    <3>3. PICK i : i = ChildIndex(View(t, y), k)
      OBVIOUS
    <3>5. IsChildFor(t, h, own, y, k, i, c)
      BY <3>1, <3>2, <3>3, ChildForIs
    <3>4. c \in DOMAIN t.disk /\ k \in own[c]
      BY <3>1, <3>5 DEF IsChildFor
    <3>. QED
      BY <3>4, <2>1
  <2>4. way \subseteq S
    BY <2>2, <2>3, <1>2, <1>3, <1>4, BelowLeast
  <2>. QED
    BY <2>1, <2>4
<1>9. \E x \in way : View(t, x).leaf
  <2>1. PICK H : H = {h[x] : x \in way}
    OBVIOUS
  <2>2. H \in SUBSET Nat /\ H # {}
    BY <2>1, <1>2, <1>3, <1>6, <1>7 DEF Falling
  <2>3. PICK n \in H : \A m \in H : n =< m
    BY <2>2, LeastNatural
  <2>4. PICK x \in way : h[x] = n
    BY <2>1, <2>3
  <2>5. ASSUME ~ View(t, x).leaf PROVE FALSE
    <3>1. PICK c : c = ChildFor(t, x, k)
      OBVIOUS
    <3>2. c \in kids[x] /\ x \in DOMAIN kids
      BY <3>1, <2>4, <2>5, <1>2, <1>6
    <3>3. c \in DOMAIN kids /\ h[c] < h[x] /\ h[c] \in Nat /\ h[x] \in Nat
      BY <3>2, <1>3 DEF Falling
    <3>4. Below(kids, x) \subseteq way
      BY <2>4, <1>2, <1>3, <1>4, BelowTransitive
    <3>5. c \in Below(kids, c) /\ Below(kids, c) \subseteq Below(kids, x)
      BY <3>2, <3>3, <1>3, BelowCloses
    <3>6. h[c] \in H
      BY <3>4, <3>5, <2>1
    <3>. QED
      BY <3>3, <3>6, <2>3, <2>4
  <2>. QED
    BY <2>5, <2>4
<1>. QED
  BY <1>5, <1>6, <1>7, <1>8, <1>9 DEF OnWay

\* o is the one leaf for k.
IsLeafFor(t, own, k, o) ==
    /\ o \in DOMAIN t.disk /\ o \in Way(t, t.root, k) /\ View(t, o).leaf /\ k \in own[o]
    /\ \A x \in DOMAIN t.disk : View(t, x).leaf /\ k \in own[x] => x = o

\* There is one leaf for a key.
LEMMA LeafForIs ==
    ASSUME NEW t, NEW h, NEW own, IsTree(NodesOf(t), t.root, h, own), NEW k \in Keys,
           NEW o, o = LeafFor(t, k)
    PROVE  IsLeafFor(t, own, k, o)
<1>1. DOMAIN NodesOf(t) = DOMAIN t.disk /\ \A x \in DOMAIN t.disk : NodesOf(t)[x] = View(t, x)
  BY NodesOfIs
<1>2. t.root \in DOMAIN t.disk /\ k \in own[t.root]
  BY <1>1 DEF IsTree, Typed
<1>3. OnWay(t, own, t.root, k)
  BY <1>2, WayIs
<1>4. o \in Way(t, t.root, k) /\ View(t, o).leaf
  BY <1>3 DEF OnWay, LeafFor
<1>5. o \in DOMAIN t.disk /\ k \in own[o]
  BY <1>3, <1>4 DEF OnWay
<1>6. \A x \in DOMAIN t.disk : View(t, x).leaf /\ k \in own[x] => x = o
  BY <1>1, <1>4, <1>5 DEF IsTree, LeavesApart
<1>. QED
  BY <1>4, <1>5, <1>6 DEF IsLeafFor

\* Every node of nodes but the root has its parent among them.
Linked(t, nodes) ==
    \A x \in nodes \ {t.root} :
        \E o \in nodes : \E i \in DOMAIN View(t, o).kids : View(t, o).kids[i] = x

\* The nodes on the way from the root are linked.
LEMMA WayLinked ==
    ASSUME NEW t, NEW h, NEW own, IsTree(NodesOf(t), t.root, h, own), NEW k \in Keys
    PROVE  Linked(t, Way(t, t.root, k))
<1>1. PICK kids : kids = KidsFor(t, k)
  OBVIOUS
<1>2. DOMAIN kids = DOMAIN t.disk
      /\ \A x \in DOMAIN t.disk : kids[x] = IF View(t, x).leaf THEN {} ELSE {ChildFor(t, x, k)}
  BY <1>1 DEF KidsFor
<1>3. Falling(kids, h, h[t.root])
  BY <1>1, KidsForFalls
<1>4. PICK way : way = Below(kids, t.root)
  OBVIOUS
<1>5. way = Way(t, t.root, k)
  BY <1>1, <1>4 DEF Way
<1>6. t.root \in DOMAIN kids
  BY <1>2, NodesOfIs DEF IsTree, Typed
<1>7. \A y \in way : y = t.root \/ \E q \in way \cap DOMAIN kids : y \in kids[q]
  BY <1>3, <1>4, <1>6, BelowParent
<1>8. ASSUME NEW x \in way \ {t.root}
      PROVE  \E o \in way : \E i \in DOMAIN View(t, o).kids : View(t, o).kids[i] = x
  <2>1. PICK q \in way \cap DOMAIN kids : x \in kids[q]
    BY <1>7
  <2>2. ~ View(t, q).leaf /\ x = ChildFor(t, q, k) /\ q \in DOMAIN t.disk
    BY <2>1, <1>2
  <2>3. PICK i : i = ChildIndex(View(t, q), k)
    OBVIOUS
  <2>5. IsChildFor(t, h, own, q, k, i, x)
    BY <2>2, <2>3, ChildForIs
  <2>4. i \in DOMAIN View(t, q).kids /\ x = View(t, q).kids[i]
    BY <2>5 DEF IsChildFor
  <2>. QED
    BY <2>1, <2>4
<1>. QED
  BY <1>5, <1>8 DEF Linked

\* Reading linked nodes: the same tree, with more of it cached.
LEMMA LoadedGrounded ==
    ASSUME NEW t, NEW h, NEW own, Grounded(t, h, own),
           NEW nodes, nodes \subseteq DOMAIN t.disk, Linked(t, nodes),
           NEW u, u = LoadedAll(t, nodes)
    PROVE  Grounded(u, h, own)
<1>1. Cached(t) /\ Rooted(t) /\ IsTree(NodesOf(t), t.root, h, own)
  BY DEF Grounded
<1>2. /\ Cached(u) /\ u.root = t.root
      /\ DOMAIN u.mem = DOMAIN t.mem \cup nodes
      /\ \A o \in DOMAIN t.disk : View(u, o) = View(t, o)
      /\ NodesOf(u) = NodesOf(t)
  BY <1>1, LoadedIs
<1>3. DOMAIN t.mem \subseteq DOMAIN t.disk
  BY <1>1 DEF Cached
<1>4. ASSUME NEW x \in DOMAIN u.mem \ {u.root}
      PROVE  \E o \in DOMAIN u.mem : \E i \in DOMAIN View(u, o).kids : View(u, o).kids[i] = x
  <2>1. PICK o \in DOMAIN u.mem : \E i \in DOMAIN View(t, o).kids : View(t, o).kids[i] = x
    BY <1>1, <1>2, <1>4 DEF Rooted, Linked
  <2>2. View(u, o) = View(t, o)
    BY <2>1, <1>2, <1>3
  <2>. QED
    BY <2>1, <2>2
<1>5. Rooted(u)
  BY <1>1, <1>2, <1>4 DEF Rooted
<1>. QED
  BY <1>1, <1>2, <1>5 DEF Grounded

------------------------------------------------------------------------------
(* The splits on the way back up. *)

\* A node that fits nearly fits.
LEMMA FitsNearly ==
    ASSUME NEW n, IsNode(n), ~ NodeOversized(n)
    PROVE  NearlyFits(n)
<1>1. CASE n.leaf
  <2>1. IsFiniteSet(LeafKeys(n))
    BY <1>1, NodeIs DEF IsLeaf, IsMap, LeafKeys
  <2>2. PICK m \in Nat : m = Cardinality(LeafKeys(n))
    BY <2>1, FS_CardinalityType
  <2>3. m =< LeafCapacity /\ LeafCapacity \in Nat
    BY <2>2, <1>1, CapacityAssumption DEF NodeOversized
  <2>4. m =< LeafCapacity + 1
    BY <2>3
  <2>. QED
    BY <2>2, <2>4, <1>1 DEF NearlyFits
<1>2. CASE ~ n.leaf
  <2>1. IsInner(n)
    BY <1>2, NodeIs
  <2>2. PICK m \in Nat : m = Len(n.keys)
    BY <2>1, InnerParts
  <2>3. m =< InnerCapacity /\ InnerCapacity \in Nat
    BY <2>2, <1>2, CapacityAssumption DEF NodeOversized
  <2>4. m =< InnerCapacity + 1
    BY <2>3
  <2>. QED
    BY <2>2, <2>4, <1>2 DEF NearlyFits
<1>. QED
  BY <1>1, <1>2

\* Every node of a tree is a node.
LEMMA NodesAre ==
    ASSUME NEW t, NEW h, NEW own, IsTree(NodesOf(t), t.root, h, own)
    PROVE  /\ \A o \in DOMAIN t.disk : IsNode(View(t, o)) /\ h[o] \in Nat /\ own[o] \in SUBSET Keys
           /\ t.root \in DOMAIN t.disk
<1>1. DOMAIN NodesOf(t) = DOMAIN t.disk /\ \A x \in DOMAIN t.disk : NodesOf(t)[x] = View(t, x)
  BY NodesOfIs
<1>. QED
  BY <1>1 DEF IsTree, Typed

\* Nothing has changed yet.
LEMMA GrownStart ==
    ASSUME NEW t, NEW h, NEW own, Grounded(t, h, own), NEW o,
           FitsBut(t, {o}), NearlyFits(View(t, o))
    PROVE  Grown(t, h, own, t, h, own, o)
<1>1. SameEntries(NodesOf(t), NodesOf(t))
  BY DEF SameEntries
<1>. QED
  BY <1>1 DEF Grown

\* First a part below c changes, then one below its parent o.
LEMMA GrownAbove ==
    ASSUME NEW t, NEW h, NEW own, NEW u, NEW h1, NEW own1, NEW v, NEW h2, NEW own2, NEW c, NEW o,
           Grown(t, h, own, u, h1, own1, c), Grown(u, h1, own1, v, h2, own2, o),
           o \in DOMAIN t.disk, h \in [DOMAIN t.disk -> Nat],
           c \in DOMAIN t.disk, h[o] = h[c] + 1
    PROVE  Grown(t, h, own, v, h2, own2, o)
<1>1. PICK a, b : a = h[c] /\ b = h[o]
  OBVIOUS
<1>2. a \in Nat /\ b \in Nat /\ b = a + 1
  BY <1>1
<1>3. h1[o] = b
  <2>1. h[o] >= h[c]
    BY <1>1, <1>2
  <2>. QED
    BY <2>1, <1>1 DEF Grown
<1>4. SameEntries(NodesOf(t), NodesOf(v))
  BY DEF Grown, SameEntries
<1>5. ASSUME NEW x \in DOMAIN t.disk, h[x] >= h[o]
      PROVE  /\ x \in DOMAIN v.disk /\ h2[x] = h[x] /\ own2[x] = own[x]
             /\ x \in DOMAIN t.mem => x \in DOMAIN v.mem
             /\ x # o => View(v, x) = View(t, x)
  <2>1. PICK n \in Nat : n = h[x]
    OBVIOUS
  <2>2. n >= b /\ n >= a /\ n # a
    <3>1. n >= b
      BY <2>1, <1>1, <1>5
    <3>. QED
      BY <3>1, <1>2
  <2>3. h[x] >= h[c] /\ x # c
    BY <2>1, <2>2, <1>1
  <2>4. /\ x \in DOMAIN u.disk /\ h1[x] = h[x] /\ own1[x] = own[x]
        /\ x \in DOMAIN t.mem => x \in DOMAIN u.mem
        /\ View(u, x) = View(t, x)
    BY <2>3 DEF Grown
  <2>5. h1[x] >= h1[o]
    BY <2>1, <2>2, <2>4, <1>3
  <2>6. /\ x \in DOMAIN v.disk /\ h2[x] = h1[x] /\ own2[x] = own1[x]
        /\ x \in DOMAIN u.mem => x \in DOMAIN v.mem
        /\ x # o => View(v, x) = View(u, x)
    BY <2>4, <2>5 DEF Grown
  <2>. QED
    BY <2>4, <2>6
<1>6. Grounded(v, h2, own2) /\ v.root = t.root /\ FitsBut(v, {o}) /\ NearlyFits(View(v, o))
  BY DEF Grown
<1>. QED
  BY <1>4, <1>5, <1>6 DEF Grown

\* AfterAdd of the parent of what has changed.
LEMMA AfterStep ==
    ASSUME NEW t, NEW h, NEW own, Grounded(t, h, own), NEW k, NEW o \in DOMAIN t.mem, NEW i,
           NEW c \in DOMAIN t.mem, IsChildFor(t, h, own, o, k, i, c),
           NEW v, NEW h1, NEW own1, Grown(t, h, own, v, h1, own1, c), FreeOf(v) # {},
           NEW u, u = AfterAdd(v, o, i)
    PROVE  /\ \E h2, own2 : Grown(t, h, own, u, h2, own2, o)
           /\ Cardinality(FreeOf(u)) >= Cardinality(FreeOf(v)) - 1
<1>1. DOMAIN NodesOf(t) = DOMAIN t.disk
  BY NodesOfIs
<1>2. h \in [DOMAIN t.disk -> Nat] /\ DOMAIN t.mem \subseteq DOMAIN t.disk
  BY <1>1 DEF Grounded, IsTree, Typed, Cached
<1>3. PICK a, b : a = h[c] /\ b = h[o]
  OBVIOUS
<1>4. a \in Nat /\ b \in Nat /\ b = a + 1
  BY <1>3 DEF IsChildFor
<1>5. h[o] >= h[c] /\ h[c] >= h[c] /\ o # c
  <2>1. b >= a /\ a >= a /\ b # a
    BY <1>4
  <2>. QED
    BY <2>1, <1>3
<1>6. /\ o \in DOMAIN v.mem /\ View(v, o) = View(t, o)
      /\ c \in DOMAIN v.mem
  BY <1>2, <1>5 DEF Grown
<1>7. i \in DOMAIN View(v, o).kids /\ c = View(v, o).kids[i]
  BY <1>6 DEF IsChildFor
<1>8. FitsBut(v, {c}) /\ NearlyFits(View(v, c)) /\ Grounded(v, h1, own1)
  BY DEF Grown
<1>9. Cardinality(FreeOf(v)) \in Nat
  BY FreeIs
<1>10. o \in DOMAIN t.disk /\ c \in DOMAIN t.disk /\ h[o] = h[c] + 1
  BY <1>2 DEF IsChildFor
<1>11. CASE NodeOversized(v.mem[c])
  <2>1. \E h2, own2 : Grown(v, h1, own1, u, h2, own2, o)
    BY <1>6, <1>7, <1>8, <1>11, AfterAddIs
  <2>2. Cardinality(FreeOf(u)) = Cardinality(FreeOf(v)) - 1
    BY <1>6, <1>7, <1>8, <1>11, AfterAddIs
  <2>3. PICK h2, own2 : Grown(v, h1, own1, u, h2, own2, o)
    BY <2>1
  <2>4. Grown(t, h, own, u, h2, own2, o)
    BY <2>3, <1>2, <1>10, GrownAbove
  <2>. QED
    BY <2>2, <2>4, <1>9
<1>12. CASE ~ NodeOversized(v.mem[c])
  <2>1. v.mem[o] = View(v, o)
    BY <1>6 DEF View
  <2>2. u = v
    BY <2>1, <1>7, <1>12 DEF AfterAdd
  <2>3. FitsBut(v, {o}) /\ ~ NodeOversized(v.mem[o])
    BY <1>5, <1>6, <1>8, <1>12 DEF FitsBut
  <2>4. NearlyFits(View(v, o))
    <3>1. o \in DOMAIN v.disk
      BY <1>6, <1>8 DEF Grounded, Cached
    <3>2. IsNode(View(v, o))
      BY <3>1, <1>8, NodesAre DEF Grounded
    <3>. QED
      BY <2>1, <2>3, <3>2, FitsNearly
  <2>5. Grown(v, h1, own1, v, h1, own1, o)
    BY <2>3, <2>4, <1>8, GrownStart
  <2>6. Grown(t, h, own, v, h1, own1, o)
    BY <2>5, <1>2, <1>10, GrownAbove
  <2>. QED
    BY <2>2, <2>6, <1>9
<1>. QED
  BY <1>11, <1>12

\* How long the way from o is.
WayLength(t, o, k) ==
    /\ Cardinality(Way(t, o, k)) \in Nat
    /\ View(t, o).leaf => Cardinality(Way(t, o, k)) = 1
    /\ ~ View(t, o).leaf =>
        /\ ChildFor(t, o, k) \in Way(t, o, k)
        /\ Cardinality(Way(t, o, k)) = Cardinality(Way(t, ChildFor(t, o, k), k)) + 1
    /\ \A x \in Way(t, o, k) :
        /\ Cardinality(Way(t, x, k)) \in Nat
        /\ Cardinality(Way(t, x, k)) =< Cardinality(Way(t, o, k))
        /\ Way(t, x, k) \subseteq Way(t, o, k)

\* The way is one node longer at each inner node.
LEMMA WayLengthIs ==
    ASSUME NEW t, NEW h, NEW own, IsTree(NodesOf(t), t.root, h, own), NEW k \in Keys,
           NEW o \in DOMAIN t.disk, DOMAIN t.disk \subseteq Offsets
    PROVE  WayLength(t, o, k)
<1>1. PICK kids : kids = KidsFor(t, k)
  OBVIOUS
<1>2. DOMAIN kids = DOMAIN t.disk
      /\ \A x \in DOMAIN t.disk : kids[x] = IF View(t, x).leaf THEN {} ELSE {ChildFor(t, x, k)}
  BY <1>1 DEF KidsFor
<1>3. Falling(kids, h, h[t.root])
  BY <1>1, KidsForFalls
<1>4. \A x : Way(t, x, k) = Below(kids, x)
  BY <1>1 DEF Way
<1>5. ASSUME NEW x \in DOMAIN t.disk
      PROVE  IsFiniteSet(Way(t, x, k)) /\ Cardinality(Way(t, x, k)) \in Nat
  <2>1. IsFiniteSet(Offsets)
    BY FS_Interval, IndexAssumption DEF Offsets
  <2>2. Way(t, x, k) \subseteq Offsets
    BY <1>2, <1>3, <1>4, BelowNodes
  <2>. QED
    BY <2>1, <2>2, FS_Subset, FS_CardinalityType
<1>6. Below(kids, o) = {o} \cup UNION {Below(kids, c) : c \in kids[o]}
  BY <1>2, <1>3, BelowIs
<1>7. ASSUME View(t, o).leaf PROVE Cardinality(Way(t, o, k)) = 1
  <2>1. Below(kids, o) = {o}
    BY <1>2, <1>6, <1>7
  <2>. QED
    BY <2>1, <1>4, FS_Singleton
<1>8. ASSUME ~ View(t, o).leaf
      PROVE  /\ ChildFor(t, o, k) \in Way(t, o, k)
             /\ Cardinality(Way(t, o, k)) = Cardinality(Way(t, ChildFor(t, o, k), k)) + 1
  <2>1. PICK c : c = ChildFor(t, o, k)
    OBVIOUS
  <2>2. kids[o] = {c}
    BY <2>1, <1>2, <1>8
  <2>3. c \in DOMAIN kids /\ h[c] < h[o] /\ h[c] \in Nat /\ h[o] \in Nat
    BY <2>2, <1>2, <1>3 DEF Falling
  <2>4. Below(kids, o) = Below(kids, c) \cup {o}
    BY <2>2, <1>6
  <2>5. c \in Below(kids, c)
    BY <2>3, <1>3, BelowCloses
  <2>6. \A y \in Below(kids, c) : y = c \/ h[y] < h[c]
    BY <2>3, <1>3, BelowLower
  <2>7. o \notin Below(kids, c)
    BY <2>3, <2>6
  <2>8. PICK w : w = Way(t, c, k)
    OBVIOUS
  <2>9. IsFiniteSet(w) /\ o \notin w /\ Way(t, o, k) = w \cup {o}
    BY <2>3, <2>4, <2>7, <2>8, <1>2, <1>4, <1>5
  <2>10. Cardinality(w \cup {o}) = Cardinality(w) + 1
    BY <2>9, FS_AddElement
  <2>11. c \in Way(t, o, k)
    BY <2>4, <2>5, <1>4
  <2>. QED
    BY <2>1, <2>8, <2>9, <2>10, <2>11
<1>9. ASSUME NEW x \in Way(t, o, k)
      PROVE  /\ Cardinality(Way(t, x, k)) \in Nat
             /\ Cardinality(Way(t, x, k)) =< Cardinality(Way(t, o, k))
             /\ Way(t, x, k) \subseteq Way(t, o, k)
  <2>1. x \in Below(kids, o)
    BY <1>4
  <2>2. x \in DOMAIN kids /\ Below(kids, x) \subseteq Below(kids, o)
    BY <2>1, <1>2, <1>3, BelowTransitive
  <2>3. PICK v, w : v = Way(t, x, k) /\ w = Way(t, o, k)
    OBVIOUS
  <2>4. v \subseteq w /\ IsFiniteSet(w) /\ Cardinality(v) \in Nat
    BY <2>2, <2>3, <1>2, <1>4, <1>5
  <2>5. Cardinality(v) =< Cardinality(w)
    BY <2>4, FS_Subset
  <2>. QED
    BY <2>3, <2>4, <2>5
<1>. QED
  BY <1>5, <1>7, <1>8, <1>9 DEF WayLength

AfterOf(t, k, f, o) ==
    IF View(t, o).leaf THEN t
    ELSE AfterAdd(f[ChildFor(t, o, k)], o, ChildIndex(View(t, o), k))

\* The recursion of SplitBelow ends.
LEMMA AfterExists ==
    ASSUME NEW t, NEW h, NEW own, IsTree(NodesOf(t), t.root, h, own), NEW k \in Keys
    PROVE  \E f : f = [o \in DOMAIN t.disk |-> AfterOf(t, k, f, o)]
<1>1. PICK D : D = DOMAIN t.disk
  OBVIOUS
<1>2. PICK top : top = h[t.root]
  OBVIOUS
<1>3. PICK kids : kids = KidsFor(t, k)
  OBVIOUS
<1>4. DOMAIN kids = D
      /\ \A x \in D : kids[x] = IF View(t, x).leaf THEN {} ELSE {ChildFor(t, x, k)}
  BY <1>1, <1>3 DEF KidsFor
<1>5. Falling(kids, h, top)
  BY <1>2, <1>3, KidsForFalls
<1>6. top \in Nat /\ \A x \in D : h[x] \in Nat /\ h[x] =< top
  BY <1>4, <1>5 DEF Falling
<1>7. \A x \in D : ~ View(t, x).leaf => ChildFor(t, x, k) \in D /\ h[ChildFor(t, x, k)] < h[x]
  BY <1>4, <1>5 DEF Falling
<1> DEFINE
    Solves(f, n) == \A x \in D : h[x] < n => f[x] = AfterOf(t, k, f, x)
    Bad == {n \in Nat : ~ \E f : f = [x \in D |-> f[x]] /\ Solves(f, n)}
<1>8. Bad = {}
  <2>. SUFFICES ASSUME Bad # {} PROVE FALSE
    OBVIOUS
  <2>1. PICK n \in Bad : \A m \in Bad : n =< m
    BY LeastNatural
  <2>2. n # 0
    <3>. DEFINE e == [x \in D |-> {}]
    <3>1. \A x \in D : ~ (h[x] < 0)
      BY <1>6
    <3>2. e = [x \in D |-> e[x]] /\ Solves(e, 0)
      BY <3>1
    <3>. QED
      BY <3>2, <2>1
  <2>3. n - 1 \in Nat /\ n - 1 \notin Bad
    BY <2>1, <2>2
  <2>4. PICK f : f = [x \in D |-> f[x]] /\ Solves(f, n - 1)
    BY <2>3
  <2>. DEFINE g == [x \in D |-> AfterOf(t, k, f, x)]
  <2>5. ASSUME NEW x \in D, h[x] < n
        PROVE  g[x] = AfterOf(t, k, g, x)
    <3>1. CASE View(t, x).leaf
      BY <3>1 DEF AfterOf
    <3>2. CASE ~ View(t, x).leaf
      <4>1. PICK c : c = ChildFor(t, x, k)
        OBVIOUS
      <4>2. c \in D /\ h[c] < h[x] /\ h[c] \in Nat /\ h[x] \in Nat
        BY <4>1, <3>2, <1>6, <1>7
      <4>3. h[c] < n - 1
        BY <4>2, <2>3, <2>5
      <4>4. g[c] = f[c]
        BY <4>2, <4>3, <2>4
      <4>5. AfterOf(t, k, g, x) = AfterOf(t, k, f, x)
        <5>. HIDE DEF g
        <5>. QED
          BY <4>1, <4>4, <3>2 DEF AfterOf
      <4>. QED
        BY <4>5
    <3>. QED
      BY <3>1, <3>2
  <2>6. g = [x \in D |-> g[x]] /\ Solves(g, n)
    BY <2>5
  <2>7. \E f2 : f2 = [x \in D |-> f2[x]] /\ Solves(f2, n)
    <3>. HIDE DEF g, Solves
    <3>. QED
      BY <2>6
  <2>. HIDE DEF Solves
  <2>. QED
    BY <2>1, <2>7
<1>9. top + 1 \in Nat /\ top + 1 \notin Bad
  BY <1>6, <1>8
<1>10. PICK f : f = [x \in D |-> f[x]] /\ Solves(f, top + 1)
  BY <1>9
<1>11. \A x \in D : h[x] < top + 1
  BY <1>6
<1>12. \A x \in D : f[x] = AfterOf(t, k, f, x)
  BY <1>10, <1>11
<1>13. f = [x \in D |-> AfterOf(t, k, f, x)]
  BY <1>10, <1>12
<1>. QED
  BY <1>1, <1>13

\* u is t after the splits up to o, for each of which there was a block.
SplitUpTo(t, h, own, k, o, u) ==
    /\ \E h2, own2 : Grown(t, h, own, u, h2, own2, o)
    /\ Cardinality(FreeOf(u)) + Cardinality(Way(t, o, k)) >= Cardinality(FreeOf(t)) + 1

\* AfterAdd at each inner node on the way back up.
LEMMA SplitBelowIs ==
    ASSUME NEW t, NEW h, NEW own, Grounded(t, h, own), NEW k \in Keys,
           Way(t, t.root, k) \subseteq DOMAIN t.mem,
           FitsBut(t, {LeafFor(t, k)}), NearlyFits(View(t, LeafFor(t, k))),
           Cardinality(FreeOf(t)) > Cardinality(Way(t, t.root, k)),
           NEW u, u = SplitBelow(t, k)
    PROVE  SplitUpTo(t, h, own, k, t.root, u)
<1>1. Cached(t) /\ Rooted(t) /\ IsTree(NodesOf(t), t.root, h, own)
  BY DEF Grounded
<1>2. DOMAIN t.disk \subseteq Offsets /\ DOMAIN t.mem \subseteq DOMAIN t.disk
  BY <1>1 DEF Cached
<1>3. PICK root : root = t.root
  OBVIOUS
<1>4. PICK way : way = Way(t, root, k)
  OBVIOUS
<1>5. root \in DOMAIN t.disk /\ k \in own[root]
  BY <1>1, <1>3, NodesOfIs DEF IsTree, Typed
<1>6. OnWay(t, own, root, k)
  BY <1>1, <1>5, WayIs
<1>7. WayLength(t, root, k)
  BY <1>1, <1>2, <1>5, WayLengthIs
<1>8. PICK len \in Nat : len = Cardinality(way)
  BY <1>4, <1>7 DEF WayLength
<1>9. PICK free \in Nat : free = Cardinality(FreeOf(t))
  BY FreeIs
<1>10. free > len
  BY <1>3, <1>4, <1>8, <1>9
<1> DEFINE a == CHOOSE f : f = [o \in DOMAIN t.disk |-> AfterOf(t, k, f, o)]
<1>11. a = [o \in DOMAIN t.disk |-> AfterOf(t, k, a, o)]
  BY <1>1, AfterExists
<1>12. u = a[root]
  BY <1>3 DEF SplitBelow, AfterOf
<1>. HIDE DEF a
<1>13. \A o \in DOMAIN t.disk : a[o] = AfterOf(t, k, a, o)
  BY <1>11
<1> DEFINE Bad == {n \in Nat : \E o \in way : h[o] = n /\ ~ SplitUpTo(t, h, own, k, o, a[o])}
<1>14. Bad = {}
  <2>. SUFFICES ASSUME Bad # {} PROVE FALSE
    OBVIOUS
  <2>1. PICK n \in Bad : \A m \in Bad : n =< m
    BY LeastNatural
  <2>2. PICK o \in way : h[o] = n /\ ~ SplitUpTo(t, h, own, k, o, a[o])
    BY <2>1
  <2>3. o \in DOMAIN t.disk /\ o \in DOMAIN t.mem /\ k \in own[o]
    BY <1>3, <1>4, <1>6 DEF OnWay
  <2>4. WayLength(t, o, k)
    BY <2>3, <1>1, <1>2, WayLengthIs
  <2>5. a[o] = AfterOf(t, k, a, o)
    BY <2>3, <1>13
  <2>6. PICK m \in Nat : m = Cardinality(Way(t, o, k))
    BY <2>4 DEF WayLength
  <2>7. m =< len
    BY <2>6, <1>4, <1>7, <1>8 DEF WayLength
  <2>8. CASE View(t, o).leaf
    <3>1. a[o] = t
      BY <2>5, <2>8 DEF AfterOf
    <3>2. o = LeafFor(t, k)
      <4>1. IsLeafFor(t, own, k, LeafFor(t, k))
        BY <1>1, LeafForIs
      <4>. QED
        BY <4>1, <2>3, <2>8 DEF IsLeafFor
    <3>3. Grown(t, h, own, t, h, own, o)
      BY <3>2, GrownStart
    <3>4. m = 1
      BY <2>4, <2>6, <2>8 DEF WayLength
    <3>5. Cardinality(FreeOf(t)) + Cardinality(Way(t, o, k)) >= Cardinality(FreeOf(t)) + 1
      <4>1. free + m >= free + 1
        BY <3>4
      <4>. QED
        BY <4>1, <2>6, <1>9
    <3>6. SplitUpTo(t, h, own, k, o, t)
      BY <3>3, <3>5 DEF SplitUpTo
    <3>. QED
      BY <3>1, <3>6, <2>2
  <2>9. CASE ~ View(t, o).leaf
    <3>1. PICK i, c : i = ChildIndex(View(t, o), k) /\ c = ChildFor(t, o, k)
      OBVIOUS
    <3>2. IsChildFor(t, h, own, o, k, i, c)
      BY <3>1, <2>3, <2>9, <1>1, ChildForIs
    <3>3. h[c] \in Nat /\ h[c] < n
      <4>1. h[o] = h[c] + 1 /\ h[c] \in Nat
        BY <3>2 DEF IsChildFor
      <4>. QED
        BY <4>1, <2>2
    <3>4. c \in way /\ m = Cardinality(Way(t, c, k)) + 1
      <4>1. c \in Way(t, o, k) /\ m = Cardinality(Way(t, c, k)) + 1
        BY <2>4, <2>6, <2>9, <3>1 DEF WayLength
      <4>2. Way(t, o, k) \subseteq way
        BY <1>4, <1>7 DEF WayLength
      <4>. QED
        BY <4>1, <4>2
    <3>5. SplitUpTo(t, h, own, k, c, a[c])
      BY <3>3, <3>4, <2>1
    <3>6. PICK v : v = a[c]
      OBVIOUS
    <3>7. PICK h1, own1 : Grown(t, h, own, v, h1, own1, c)
      BY <3>5, <3>6 DEF SplitUpTo
    <3>8. PICK m1 \in Nat : m1 = Cardinality(Way(t, c, k))
      BY <3>4, <1>7, <1>4 DEF WayLength
    <3>9. PICK f1 \in Nat : f1 = Cardinality(FreeOf(v))
      BY FreeIs
    <3>10. f1 + m1 >= free + 1 /\ m = m1 + 1
      BY <3>4, <3>5, <3>6, <3>8, <3>9, <1>9 DEF SplitUpTo
    <3>11. f1 > 0
      BY <3>10, <2>7, <1>10
    <3>12. FreeOf(v) # {}
      BY <3>9, <3>11, FreeIs
    <3>13. c \in DOMAIN t.mem
      BY <3>4, <1>3, <1>4
    <3>14. PICK w : w = AfterAdd(v, o, i)
      OBVIOUS
    <3>15. \E h2, own2 : Grown(t, h, own, w, h2, own2, o)
      BY <3>2, <3>7, <3>12, <3>13, <3>14, <2>3, AfterStep
    <3>16. Cardinality(FreeOf(w)) >= Cardinality(FreeOf(v)) - 1
      BY <3>2, <3>7, <3>12, <3>13, <3>14, <2>3, AfterStep
    <3>17. PICK f2 \in Nat : f2 = Cardinality(FreeOf(w))
      BY FreeIs
    <3>18. f2 + m >= free + 1
      <4>1. f2 >= f1 - 1
        BY <3>9, <3>16, <3>17
      <4>. QED
        BY <4>1, <3>10
    <3>19. SplitUpTo(t, h, own, k, o, w)
      BY <3>15, <3>17, <3>18, <2>6, <1>9 DEF SplitUpTo
    <3>20. a[o] = w
      BY <2>5, <2>9, <3>1, <3>6, <3>14 DEF AfterOf
    <3>. QED
      BY <3>19, <3>20, <2>2
  <2>. QED
    BY <2>8, <2>9
<1>15. root \in way /\ h[root] \in Nat
  BY <1>1, <1>3, <1>4, <1>5, <1>6, NodesAre DEF OnWay
<1>16. SplitUpTo(t, h, own, k, root, a[root])
  BY <1>14, <1>15
<1>. QED
  BY <1>3, <1>12, <1>16

\* The splits of Add keep the tree and its entries.
LEMMA AddSplitsIs ==
    ASSUME NEW t, NEW h, NEW own, Grounded(t, h, own), NEW k \in Keys,
           Way(t, t.root, k) \subseteq DOMAIN t.mem,
           FitsBut(t, {LeafFor(t, k)}), NearlyFits(View(t, LeafFor(t, k))),
           Cardinality(FreeOf(t)) > Cardinality(Way(t, t.root, k)),
           NEW u, u = SplitRoot(SplitBelow(t, k))
    PROVE  Settled(t, u)
<1>1. PICK v : v = SplitBelow(t, k)
  OBVIOUS
<1>2. SplitUpTo(t, h, own, k, t.root, v)
  BY <1>1, SplitBelowIs
<1>3. PICK h2, own2 : Grown(t, h, own, v, h2, own2, t.root)
  BY <1>2 DEF SplitUpTo
<1>4. Grounded(v, h2, own2) /\ v.root = t.root /\ SameEntries(NodesOf(t), NodesOf(v))
  BY <1>3 DEF Grown
<1>5. FitsBut(v, {v.root}) /\ NearlyFits(View(v, v.root))
  BY <1>3, <1>4 DEF Grown
<1>6. Cardinality(FreeOf(v)) > 1
  <2>1. WayLength(t, t.root, k)
    BY WayLengthIs, NodesAre DEF Grounded, Cached
  <2>2. PICK len \in Nat : len = Cardinality(Way(t, t.root, k))
    BY <2>1 DEF WayLength
  <2>3. PICK a \in Nat : a = Cardinality(FreeOf(t))
    BY FreeIs
  <2>4. PICK b \in Nat : b = Cardinality(FreeOf(v))
    BY FreeIs
  <2>5. a > len /\ b + len >= a + 1
    BY <1>2, <2>2, <2>3, <2>4 DEF SplitUpTo
  <2>6. b > 1
    BY <2>5
  <2>. QED
    BY <2>4, <2>6
<1>7. Settled(v, u)
  BY <1>1, <1>4, <1>5, <1>6, SplitRootIs
<1>. QED
  BY <1>4, <1>7 DEF Settled, SameEntries

------------------------------------------------------------------------------
(* New entries for the leaf of a key. *)

\* u is t with the entries e in the leaf o for k, which may not fit.
PutTo(t, h, own, k, o, e, u) ==
    /\ Grounded(u, h, own) /\ u.root = t.root /\ u.disk = t.disk /\ FitsBut(u, {o})
    /\ DOMAIN u.mem = DOMAIN t.mem \cup {o}
    /\ NodesOf(u) = WithLeaf(NodesOf(t), o, e) /\ View(u, o) = Leaf(e)
    /\ Way(u, t.root, k) = Way(t, t.root, k) /\ LeafFor(u, k) = o

\* The leaf of a key is given other entries.
LEMMA PutIs ==
    ASSUME NEW t, NEW h, NEW own, Grounded(t, h, own), FitsBut(t, {}), NEW k \in Keys,
           NEW o, o = LeafFor(t, k), o \in DOMAIN t.mem,
           NEW e, IsMap(e), \A x \in DOMAIN e : x \in own[o],
           NEW u, u = Put(t, k, e)
    PROVE  PutTo(t, h, own, k, o, e, u)
<1>1. PICK N : N = NodesOf(t)
  OBVIOUS
<1>2. DOMAIN N = DOMAIN t.disk /\ \A x \in DOMAIN t.disk : N[x] = View(t, x)
  BY <1>1, NodesOfIs
<1>3. Cached(t) /\ Rooted(t) /\ IsTree(N, t.root, h, own)
  BY <1>1 DEF Grounded
<1>4. IsLeafFor(t, own, k, o)
  BY <1>1, <1>3, LeafForIs
<1>5. o \in DOMAIN t.disk /\ View(t, o).leaf /\ N[o].leaf
  BY <1>2, <1>4 DEF IsLeafFor
<1>6. PICK node : node = Leaf(e)
  OBVIOUS
<1>7. u = Changed(t, o, node)
  BY <1>6 DEF Put
<1>8. SetNode(t, u, o, node)
  BY <1>3, <1>5, <1>7, ChangedIs
<1>9. u.disk = t.disk
  BY <1>7, TreeIs DEF Changed
<1>10. /\ Cached(u) /\ u.root = t.root /\ DOMAIN u.mem = DOMAIN t.mem \cup {o}
       /\ View(u, o) = node /\ \A x \in DOMAIN t.disk : x # o => View(u, x) = View(t, x)
  BY <1>8 DEF SetNode, Became
<1>11. FitsBut(u, {o})
  <2>1. FitsBut(t, {o})
    BY DEF FitsBut
  <2>. QED
    BY <2>1, <1>8 DEF SetNode
<1>12. NodesOf(u) = WithLeaf(N, o, e)
  <2>1. \A x \in DOMAIN t.disk : View(u, x) = IF x = o THEN Leaf(e) ELSE N[x]
    BY <1>2, <1>6, <1>10
  <2>. QED
    BY <2>1, <1>2, <1>9 DEF NodesOf, WithLeaf
<1>13. IsTree(WithLeaf(N, o, e), t.root, h, own)
  BY <1>2, <1>3, <1>5, LeafKeepsTree
<1>14. Rooted(u)
  <2>1. ASSUME NEW x \in DOMAIN u.mem \ {u.root}
        PROVE  \E q \in DOMAIN u.mem : \E i \in DOMAIN View(u, q).kids : View(u, q).kids[i] = x
    <3>1. x \in DOMAIN t.mem \ {t.root}
      BY <2>1, <1>10
    <3>2. PICK q \in DOMAIN t.mem : \E i \in DOMAIN View(t, q).kids : View(t, q).kids[i] = x
      BY <3>1, <1>3 DEF Rooted
    <3>3. q # o
      <4>1. IsNode(View(t, o))
        BY <1>1, <1>3, <1>5, NodesAre
      <4>2. View(t, o).kids = <<>>
        BY <4>1, <1>5, NodeIs
      <4>. QED
        BY <3>2, <4>2
    <3>4. q \in DOMAIN t.disk
      BY <3>2, <1>3 DEF Cached
    <3>. QED
      BY <3>2, <3>3, <3>4, <1>10
  <2>2. u.root \in DOMAIN u.mem
    BY <1>3, <1>10 DEF Rooted
  <2>. QED
    BY <2>1, <2>2 DEF Rooted
<1>15. Grounded(u, h, own)
  BY <1>10, <1>12, <1>13, <1>14 DEF Grounded
<1>16. View(u, o).leaf
  BY <1>6, <1>10, LeafIs
<1>17. Way(u, t.root, k) = Way(t, t.root, k)
  <2>1. \A x \in DOMAIN t.disk :
            (IF View(u, x).leaf THEN {} ELSE {ChildFor(u, x, k)})
                = (IF View(t, x).leaf THEN {} ELSE {ChildFor(t, x, k)})
    <3>. TAKE x \in DOMAIN t.disk
    <3>1. CASE x = o
      BY <3>1, <1>5, <1>16
    <3>2. CASE x # o
      BY <3>2, <1>10 DEF ChildFor
    <3>. QED
      BY <3>1, <3>2
  <2>2. KidsFor(u, k) = KidsFor(t, k)
    BY <2>1, <1>9 DEF KidsFor
  <2>. QED
    BY <2>2 DEF Way
<1>18. LeafFor(u, k) = o
  <2>1. IsLeafFor(u, own, k, LeafFor(u, k))
    BY <1>15, LeafForIs DEF Grounded
  <2>2. k \in own[o] /\ o \in DOMAIN u.disk
    BY <1>4, <1>9 DEF IsLeafFor
  <2>. QED
    BY <2>1, <2>2, <1>16 DEF IsLeafFor
<1>. QED
  BY <1>1, <1>6, <1>9, <1>10, <1>11, <1>12, <1>15, <1>17, <1>18 DEF PutTo

\* The entries are those of the other leaves, and e.
LEMMA PutHolds ==
    ASSUME NEW N, NEW o \in DOMAIN N, NEW e, NEW own, LeavesApart(N, own), N[o].leaf,
           \A x \in DOMAIN N : \A k \in LeafKeys(N[x]) : N[x].leaf /\ k \in own[x],
           \A k \in DOMAIN e : k \in own[o],
           NEW k, NEW v
    PROVE  Holds(WithLeaf(N, o, e), k, v)
            <=> IF k \in own[o] THEN k \in DOMAIN e /\ e[k] = v ELSE Holds(N, k, v)
<1>1. PICK M : M = WithLeaf(N, o, e)
  OBVIOUS
<1>2. DOMAIN M = DOMAIN N /\ M[o] = Leaf(e) /\ \A x \in DOMAIN N \ {o} : M[x] = N[x]
  BY <1>1 DEF WithLeaf
<1>3. LeafKeys(M[o]) = DOMAIN e /\ M[o].entries = e
  BY <1>2, LeafIs
<1>4. \A x \in DOMAIN N \ {o} : k \in LeafKeys(N[x]) => k \notin own[o]
  BY DEF LeavesApart
<1>5. CASE k \in own[o]
  <2>1. Holds(M, k, v) <=> k \in DOMAIN e /\ e[k] = v
    BY <1>2, <1>3, <1>4, <1>5 DEF Holds
  <2>. QED
    BY <2>1, <1>1, <1>5
<1>6. CASE k \notin own[o]
  <2>1. k \notin DOMAIN e /\ k \notin LeafKeys(N[o])
    BY <1>6
  <2>2. Holds(M, k, v) <=> Holds(N, k, v)
    BY <2>1, <1>2, <1>3 DEF Holds
  <2>. QED
    BY <2>2, <1>1, <1>6
<1>. QED
  BY <1>5, <1>6

\* The entry of a key is in the leaf for it.
LEMMA LeafHolds ==
    ASSUME NEW t, NEW h, NEW own, IsTree(NodesOf(t), t.root, h, own), NEW k \in Keys, NEW v
    PROVE  Holds(NodesOf(t), k, v) <=> k \in DOMAIN EntriesFor(t, k) /\ EntriesFor(t, k)[k] = v
<1>1. PICK N, o : N = NodesOf(t) /\ o = LeafFor(t, k)
  OBVIOUS
<1>2. DOMAIN N = DOMAIN t.disk /\ \A x \in DOMAIN t.disk : N[x] = View(t, x)
  BY <1>1, NodesOfIs
<1>3. IsLeafFor(t, own, k, o)
  BY <1>1, LeafForIs
<1>4. EntriesFor(t, k) = N[o].entries /\ o \in DOMAIN N
  BY <1>1, <1>2, <1>3 DEF EntriesFor, IsLeafFor
<1>5. \A x \in DOMAIN N : k \in LeafKeys(N[x]) => x = o
  <2>. TAKE x \in DOMAIN N
  <2>1. IsNode(N[x])
    BY <1>1 DEF IsTree, Typed
  <2>2. k \in LeafKeys(N[x]) => N[x].leaf
    BY <2>1, NodeIs
  <2>3. k \in LeafKeys(N[x]) => k \in own[x]
    BY <2>2, <1>1 DEF IsTree, LeavesOk
  <2>. QED
    BY <2>2, <2>3, <1>2, <1>3 DEF IsLeafFor
<1>. QED
  BY <1>1, <1>4, <1>5 DEF Holds, LeafKeys

------------------------------------------------------------------------------
(* The cache is written, and dropped. *)

\* Everything is below the root, if every other node has a parent.
LEMMA BelowAll ==
    ASSUME NEW kids, NEW h, NEW top, Falling(kids, h, top), NEW root \in DOMAIN kids,
           \A x \in DOMAIN kids \ {root} : \E o \in DOMAIN kids : x \in kids[o]
    PROVE  Below(kids, root) = DOMAIN kids
<1>1. PICK B : B = Below(kids, root)
  OBVIOUS
<1>2. B \subseteq DOMAIN kids /\ root \in B
  BY <1>1, BelowNodes, BelowCloses
<1>3. top \in Nat /\ \A x \in DOMAIN kids : h[x] \in Nat /\ h[x] =< top
  BY DEF Falling
<1> DEFINE Bad == {n \in Nat : \E x \in DOMAIN kids \ B : n = top - h[x]}
<1>4. Bad = {}
  <2>. SUFFICES ASSUME Bad # {} PROVE FALSE
    OBVIOUS
  <2>1. PICK n \in Bad : \A m \in Bad : n =< m
    BY LeastNatural
  <2>2. PICK x \in DOMAIN kids \ B : n = top - h[x]
    BY <2>1
  <2>3. x # root
    BY <2>2, <1>2
  <2>4. PICK o \in DOMAIN kids : x \in kids[o]
    BY <2>2, <2>3
  <2>5. h[x] < h[o]
    BY <2>4 DEF Falling
  <2>6. PICK a \in Nat, b \in Nat : a = h[x] /\ b = h[o]
    BY <1>3, <2>2, <2>4
  <2>7. top - b \in Nat /\ top - b < top - a
    BY <1>3, <2>4, <2>5, <2>6
  <2>8. o \in B
    <3>1. ASSUME o \notin B PROVE FALSE
      <4>1. top - b \in Bad
        BY <2>4, <2>6, <2>7, <3>1
      <4>2. n =< top - b
        BY <4>1, <2>1
      <4>. QED
        BY <4>2, <2>2, <2>6, <2>7, <1>3
    <3>. QED
      BY <3>1
  <2>9. Below(kids, o) \subseteq B
    BY <2>8, <1>1, BelowTransitive
  <2>10. x \in Below(kids, x) /\ Below(kids, x) \subseteq Below(kids, o)
    BY <2>2, <2>4, BelowCloses
  <2>. QED
    BY <2>2, <2>9, <2>10
<1>5. ASSUME NEW x \in DOMAIN kids PROVE x \in B
  <2>1. top - h[x] \in Nat
    BY <1>3
  <2>. QED
    BY <2>1, <1>4
<1>. QED
  BY <1>1, <1>2, <1>5

\* The children of o are nodes, lower than o, for keys of o.
KidsOf(t, h, own, o) ==
    /\ ToSet(View(t, o).kids) = {View(t, o).kids[i] : i \in DOMAIN View(t, o).kids}
    /\ \A i \in DOMAIN View(t, o).kids :
        /\ View(t, o).kids[i] \in DOMAIN t.disk
        /\ h[View(t, o).kids[i]] < h[o] /\ h[View(t, o).kids[i]] \in Nat
        /\ own[View(t, o).kids[i]] \subseteq own[o]

\* The children of a node.
LEMMA KidIs ==
    ASSUME NEW t, NEW h, NEW own, IsTree(NodesOf(t), t.root, h, own), NEW o \in DOMAIN t.disk
    PROVE  KidsOf(t, h, own, o)
<1>1. PICK N : N = NodesOf(t)
  OBVIOUS
<1>2. DOMAIN N = DOMAIN t.disk /\ N[o] = View(t, o) /\ IsTree(N, t.root, h, own)
  BY <1>1, NodesOfIs
<1>3. ASSUME NEW i \in DOMAIN N[o].kids, NEW c, c = N[o].kids[i]
      PROVE  c \in DOMAIN t.disk /\ h[c] < h[o] /\ h[c] \in Nat /\ own[c] \subseteq own[o]
  <2>1. c \in DOMAIN N /\ IsLink(N, h, own, o, i, c)
    BY <1>2, <1>3 DEF IsTree, LinksOk
  <2>2. h[c] \in Nat /\ h[o] \in Nat /\ own[c] \subseteq Keys
    BY <2>1, <1>2 DEF IsTree, Typed
  <2>3. h[o] = h[c] + 1 /\ own[c] \subseteq own[o]
    BY <2>1, <2>2 DEF IsLink
  <2>4. h[c] < h[o]
    BY <2>2, <2>3
  <2>. QED
    BY <2>1, <2>2, <2>3, <2>4, <1>2
<1>4. \A i \in DOMAIN View(t, o).kids :
                /\ View(t, o).kids[i] \in DOMAIN t.disk
                /\ h[View(t, o).kids[i]] < h[o] /\ h[View(t, o).kids[i]] \in Nat
                /\ own[View(t, o).kids[i]] \subseteq own[o]
  BY <1>2, <1>3
<1>5. ToSet(View(t, o).kids) = {View(t, o).kids[i] : i \in DOMAIN View(t, o).kids}
  BY DEF ToSet
<1>. QED
  BY <1>4, <1>5 DEF KidsOf

\* All that is cached is below the root.
LEMMA RootCaches ==
    ASSUME NEW t, NEW h, NEW own, Grounded(t, h, own)
    PROVE  CachedSubtree(t, t.root) = DOMAIN t.mem
<1>1. Cached(t) /\ Rooted(t) /\ IsTree(NodesOf(t), t.root, h, own)
  BY DEF Grounded
<1>2. PICK kids : kids = CachedKids(t)
  OBVIOUS
<1>3. DOMAIN kids = DOMAIN t.mem
      /\ \A x \in DOMAIN t.mem : kids[x] = ToSet(View(t, x).kids) \cap DOMAIN t.mem
  BY <1>2 DEF CachedKids, View
<1>4. DOMAIN t.mem \subseteq DOMAIN t.disk /\ t.root \in DOMAIN t.mem
  BY <1>1 DEF Cached, Rooted
<1>5. PICK g : g = [x \in DOMAIN t.mem |-> h[x]]
  OBVIOUS
<1>6. \A x \in DOMAIN t.disk : h[x] \in Nat /\ h[x] =< h[t.root]
  BY <1>1, NodesOfIs DEF IsTree, Typed
<1>7. ASSUME NEW x \in DOMAIN kids, NEW c \in kids[x] PROVE c \in DOMAIN kids /\ g[c] < g[x]
  <2>0. KidsOf(t, h, own, x)
    BY <1>1, <1>3, <1>4, KidIs
  <2>1. PICK i \in DOMAIN View(t, x).kids : c = View(t, x).kids[i]
    BY <2>0, <1>3, <1>7 DEF KidsOf
  <2>2. h[c] < h[x]
    BY <2>0, <2>1 DEF KidsOf
  <2>. QED
    BY <2>2, <1>3, <1>5, <1>7
<1>8. Falling(kids, g, h[t.root])
  BY <1>3, <1>4, <1>5, <1>6, <1>7 DEF Falling
<1>9. ASSUME NEW x \in DOMAIN kids \ {t.root} PROVE \E o \in DOMAIN kids : x \in kids[o]
  <2>1. PICK o \in DOMAIN t.mem : \E i \in DOMAIN View(t, o).kids : View(t, o).kids[i] = x
    BY <1>1, <1>3, <1>9 DEF Rooted
  <2>2. x \in ToSet(View(t, o).kids)
    <3>1. KidsOf(t, h, own, o)
      BY <2>1, <1>1, <1>4, KidIs
    <3>. QED
      BY <2>1, <3>1 DEF KidsOf
  <2>. QED
    BY <2>1, <2>2, <1>3, <1>9
<1>10. Below(kids, t.root) = DOMAIN kids
  BY <1>3, <1>4, <1>8, <1>9, BelowAll
<1>. QED
  BY <1>2, <1>3, <1>10 DEF CachedSubtree

\* u has the nodes of t, wherever they are.
SameTree(t, h, own, u) ==
    /\ Grounded(u, h, own) /\ FitsBut(u, {}) /\ u.root = t.root /\ NodesOf(u) = NodesOf(t)
    /\ DOMAIN u.disk = DOMAIN t.disk
    /\ \A x \in DOMAIN t.disk : View(u, x) = View(t, x)

\* Index::Write writes all that is modified.
LEMMA WriteIs ==
    ASSUME NEW t, NEW h, NEW own, Grounded(t, h, own), FitsBut(t, {}),
           NEW u, u = Flushed(t, t.root)
    PROVE  SameTree(t, h, own, u) /\ u.dirty = {} /\ DOMAIN u.mem = DOMAIN t.mem
<1>1. Cached(t) /\ Rooted(t) /\ IsTree(NodesOf(t), t.root, h, own)
  BY DEF Grounded
<1>2. CachedSubtree(t, t.root) = DOMAIN t.mem
  BY RootCaches
<1>3. Became(t, u, {}, {})
  BY <1>1, FlushedIs
<1>4. u.dirty = {}
  BY <1>1, <1>2, FlushedIs
<1>5. FitsBut(u, {})
  BY <1>1, FlushedIs
<1>6. /\ Cached(u) /\ u.root = t.root /\ DOMAIN u.disk = DOMAIN t.disk
      /\ DOMAIN u.mem = DOMAIN t.mem /\ \A x \in DOMAIN t.disk : View(u, x) = View(t, x)
  BY <1>3 DEF Became
<1>7. NodesOf(u) = NodesOf(t)
  BY <1>6 DEF NodesOf
<1>8. Rooted(u)
  <2>1. DOMAIN t.mem \subseteq DOMAIN t.disk
    BY <1>1 DEF Cached
  <2>. QED
    BY <2>1, <1>1, <1>6 DEF Rooted
<1>. QED
  BY <1>1, <1>4, <1>5, <1>6, <1>7, <1>8 DEF SameTree, Grounded

\* IndexNode::ClearCached drops nothing that was not written.
LEMMA ClearedIs ==
    ASSUME NEW t, NEW h, NEW own, Grounded(t, h, own), FitsBut(t, {}),
           NEW pinned, pinned \subseteq DOMAIN t.disk, Linked(t, pinned \cup {t.root}),
           NEW u, u = Cleared(t, pinned)
    PROVE  SameTree(t, h, own, u)
<1>1. Cached(t) /\ Rooted(t) /\ IsTree(NodesOf(t), t.root, h, own)
  BY DEF Grounded
<1>2. PICK f : f = Flushed(t, t.root)
  OBVIOUS
<1>3. SameTree(t, h, own, f) /\ f.dirty = {} /\ DOMAIN f.mem = DOMAIN t.mem
  BY <1>2, WriteIs
<1>4. /\ Cached(f) /\ f.root = t.root /\ DOMAIN f.disk = DOMAIN t.disk /\ FitsBut(f, {})
      /\ \A x \in DOMAIN t.disk : View(f, x) = View(t, x)
  BY <1>3 DEF SameTree, Grounded
<1>5. PICK kept : kept = (pinned \cup {f.root}) \cap DOMAIN f.mem
  OBVIOUS
<1>6. PICK mem : mem = Restrict(f.mem, kept)
  OBVIOUS
<1>7. u = Tree(f.root, mem, f.dirty, f.disk)
  BY <1>2, <1>5, <1>6 DEF Cleared
<1>8. u.root = t.root /\ u.mem = mem /\ u.dirty = {} /\ u.disk = f.disk
  BY <1>3, <1>4, <1>7, TreeIs
<1>9. DOMAIN mem = kept /\ \A x \in kept : mem[x] = f.mem[x]
  BY <1>6 DEF Restrict
<1>10. \A x \in DOMAIN f.mem : f.mem[x] = f.disk[x] /\ x \in DOMAIN f.disk
  BY <1>3, <1>4 DEF Cached
<1>11. Cached(u)
  BY <1>4, <1>5, <1>8, <1>9, <1>10 DEF Cached
<1>12. \A x \in DOMAIN t.disk : View(u, x) = View(t, x)
  <2>. TAKE x \in DOMAIN t.disk
  <2>1. View(u, x) = f.disk[x]
    BY <1>5, <1>8, <1>9, <1>10 DEF View
  <2>2. View(f, x) = f.disk[x]
    BY <1>10 DEF View
  <2>. QED
    BY <2>1, <2>2, <1>4
<1>13. NodesOf(u) = NodesOf(t)
  BY <1>4, <1>8, <1>12 DEF NodesOf
<1>14. FitsBut(u, {})
  BY <1>4, <1>5, <1>8, <1>9 DEF FitsBut
<1>15. Rooted(u)
  <2>1. kept = (pinned \cup {t.root}) \cap DOMAIN t.mem
    BY <1>3, <1>4, <1>5
  <2>2. u.root \in DOMAIN u.mem
    BY <2>1, <1>1, <1>8, <1>9 DEF Rooted
  <2>3. ASSUME NEW x \in DOMAIN u.mem \ {u.root}
        PROVE  \E o \in DOMAIN u.mem : \E i \in DOMAIN View(u, o).kids : View(u, o).kids[i] = x
    <3>1. x \in pinned /\ x \in DOMAIN t.mem /\ x # t.root
      BY <2>1, <2>3, <1>8, <1>9
    <3>2. PICK o \in pinned \cup {t.root} :
              \E i \in DOMAIN View(t, o).kids : View(t, o).kids[i] = x
      BY <3>1 DEF Linked
    <3>3. PICK q \in DOMAIN t.mem : \E i \in DOMAIN View(t, q).kids : View(t, q).kids[i] = x
      BY <3>1, <1>1 DEF Rooted
    <3>4. o \in DOMAIN t.disk /\ q \in DOMAIN t.disk
      <4>1. t.root \in DOMAIN t.mem /\ DOMAIN t.mem \subseteq DOMAIN t.disk
        BY <1>1 DEF Rooted, Cached
      <4>. QED
        BY <4>1, <3>2, <3>3
    <3>5. o = q
      <4>1. PICK N : N = NodesOf(t)
        OBVIOUS
      <4>2. o \in DOMAIN N /\ q \in DOMAIN N /\ N[o] = View(t, o) /\ N[q] = View(t, q)
        BY <4>1, <3>4, NodesOfIs
      <4>3. OneParent(N)
        BY <4>1, <1>1 DEF IsTree
      <4>. QED
        BY <4>2, <4>3, <3>2, <3>3 DEF OneParent
    <3>6. o \in DOMAIN u.mem
      BY <3>2, <3>3, <3>5, <2>1, <1>8, <1>9
    <3>. QED
      BY <3>2, <3>4, <3>6, <1>12
  <2>. QED
    BY <2>2, <2>3 DEF Rooted
<1>. QED
  BY <1>1, <1>4, <1>8, <1>11, <1>12, <1>13, <1>14, <1>15 DEF SameTree, Grounded

------------------------------------------------------------------------------
(* Positions of iterators. *)

StepOf(t, pos, f, d) ==
    IF d = 0 THEN t.root
    ELSE LET kids == View(t, f[d - 1]).kids
         IN  IF pos[d] \in DOMAIN kids THEN kids[pos[d]] ELSE f[d - 1]

\* The recursion of Steps ends.
LEMMA StepsExist ==
    ASSUME NEW t, NEW pos, NEW len \in Nat, len = Len(pos)
    PROVE  /\ DOMAIN Steps(t, pos) = 0 .. len
           /\ \A d \in 0 .. len : Steps(t, pos)[d] = StepOf(t, pos, Steps(t, pos), d)
<1>1. PICK D : D = 0 .. len
  OBVIOUS
<1> DEFINE
    Solves(f, n) == \A d \in D : d < n => f[d] = StepOf(t, pos, f, d)
    Bad == {n \in Nat : ~ \E f : f = [d \in D |-> f[d]] /\ Solves(f, n)}
<1>2. Bad = {}
  <2>. SUFFICES ASSUME Bad # {} PROVE FALSE
    OBVIOUS
  <2>1. PICK n \in Bad : \A m \in Bad : n =< m
    BY LeastNatural
  <2>2. n # 0
    <3>. DEFINE e == [d \in D |-> {}]
    <3>1. \A d \in D : ~ (d < 0)
      BY <1>1
    <3>2. e = [d \in D |-> e[d]] /\ Solves(e, 0)
      BY <3>1
    <3>. QED
      BY <3>2, <2>1
  <2>3. n - 1 \in Nat /\ n - 1 \notin Bad
    BY <2>1, <2>2
  <2>4. PICK f : f = [d \in D |-> f[d]] /\ Solves(f, n - 1)
    BY <2>3
  <2>. DEFINE g == [d \in D |-> StepOf(t, pos, f, d)]
  <2>5. ASSUME NEW d \in D, d < n
        PROVE  g[d] = StepOf(t, pos, g, d)
    <3>1. CASE d = 0
      BY <3>1 DEF StepOf
    <3>2. CASE d # 0
      <4>1. d - 1 \in D /\ d - 1 < n - 1
        BY <3>2, <2>3, <2>5, <1>1
      <4>2. g[d - 1] = f[d - 1]
        BY <4>1, <2>4
      <4>3. StepOf(t, pos, g, d) = StepOf(t, pos, f, d)
        <5>. HIDE DEF g
        <5>. QED
          BY <4>2, <3>2 DEF StepOf
      <4>. QED
        BY <4>3
    <3>. QED
      BY <3>1, <3>2
  <2>6. g = [d \in D |-> g[d]] /\ Solves(g, n)
    BY <2>5
  <2>7. \E f2 : f2 = [d \in D |-> f2[d]] /\ Solves(f2, n)
    <3>. HIDE DEF g, Solves
    <3>. QED
      BY <2>6
  <2>. HIDE DEF Solves
  <2>. QED
    BY <2>1, <2>7
<1>. HIDE DEF Bad
<1>3. len + 1 \in Nat /\ len + 1 \notin Bad
  BY <1>2
<1>4. PICK f : f = [d \in D |-> f[d]] /\ Solves(f, len + 1)
  BY <1>3 DEF Bad
<1>5. \A d \in D : d < len + 1
  BY <1>1
<1>6. f = [d \in D |-> StepOf(t, pos, f, d)]
  BY <1>4, <1>5
<1> DEFINE s == CHOOSE step : step = [d \in 0 .. len |-> StepOf(t, pos, step, d)]
<1>7. s = [d \in D |-> StepOf(t, pos, s, d)]
  BY <1>1, <1>6
<1>8. Steps(t, pos) = s
  BY DEF Steps, StepOf
<1>. HIDE DEF s
<1>. QED
  BY <1>1, <1>7, <1>8

\* The nodes that a position leads through.
StepsAre(t, pos) ==
    /\ \A d \in 0 .. Len(pos) : Steps(t, pos)[d] \in DOMAIN t.disk
    /\ Steps(t, pos)[0] = t.root
    /\ NodesOn(t, pos) \subseteq DOMAIN t.disk /\ t.root \in NodesOn(t, pos)
    /\ Linked(t, NodesOn(t, pos))

\* Each is the root or a child of the one before.
LEMMA StepsIs ==
    ASSUME NEW t, NEW h, NEW own, IsTree(NodesOf(t), t.root, h, own), NEW pos \in Seq(Nat)
    PROVE  StepsAre(t, pos)
<1>1. PICK len \in Nat : len = Len(pos)
  OBVIOUS
<1>2. PICK s : s = Steps(t, pos)
  OBVIOUS
<1>3. \A d \in 0 .. len : s[d] = StepOf(t, pos, s, d)
  BY <1>1, <1>2, StepsExist
<1>4. s[0] = t.root /\ t.root \in DOMAIN t.disk
  <2>1. 0 \in 0 .. len
    OBVIOUS
  <2>2. s[0] = t.root
    BY <2>1, <1>3 DEF StepOf
  <2>3. t.root \in DOMAIN t.disk
    BY NodesAre
  <2>. QED
    BY <2>2, <2>3
<1>5. ASSUME NEW d \in 0 .. len, d # 0
      PROVE  \/ s[d] = s[d - 1]
             \/ \E i \in DOMAIN View(t, s[d - 1]).kids : s[d] = View(t, s[d - 1]).kids[i]
  BY <1>3, <1>5 DEF StepOf
<1> DEFINE Bad == {n \in Nat : n \in 0 .. len /\ s[n] \notin DOMAIN t.disk}
<1>6. Bad = {}
  <2>. SUFFICES ASSUME Bad # {} PROVE FALSE
    OBVIOUS
  <2>1. PICK n \in Bad : \A m \in Bad : n =< m
    BY LeastNatural
  <2>2. n \in 0 .. len /\ s[n] \notin DOMAIN t.disk /\ n # 0
    BY <2>1, <1>4
  <2>3. n - 1 \in Nat /\ n - 1 \in 0 .. len /\ n - 1 \notin Bad
    BY <2>1, <2>2
  <2>4. s[n - 1] \in DOMAIN t.disk
    BY <2>3
  <2>5. PICK i \in DOMAIN View(t, s[n - 1]).kids : s[n] = View(t, s[n - 1]).kids[i]
    BY <2>2, <2>4, <1>5
  <2>6. KidsOf(t, h, own, s[n - 1])
    BY <2>4, KidIs
  <2>. QED
    BY <2>2, <2>5, <2>6 DEF KidsOf
<1>7. \A d \in 0 .. len : s[d] \in DOMAIN t.disk
  BY <1>6
<1>. HIDE DEF Bad
<1>8. NodesOn(t, pos) = {s[d] : d \in 0 .. len}
  BY <1>1, <1>2 DEF NodesOn
<1>9. ASSUME NEW x \in NodesOn(t, pos) \ {t.root}
      PROVE  \E o \in NodesOn(t, pos) : \E i \in DOMAIN View(t, o).kids : View(t, o).kids[i] = x
  <2>1. PICK E : E = {d \in 0 .. len : s[d] = x}
    OBVIOUS
  <2>2. E \in SUBSET Nat /\ E # {}
    BY <2>1, <1>8, <1>9
  <2>3. PICK d \in E : \A m \in E : d =< m
    BY <2>2, LeastNatural
  <2>4. d \in 0 .. len /\ s[d] = x /\ d # 0
    BY <2>1, <2>3, <1>4, <1>9
  <2>5. d - 1 \in 0 .. len /\ ~ (d =< d - 1)
    BY <2>4
  <2>6. s[d - 1] # x
    BY <2>1, <2>3, <2>5
  <2>7. \E i \in DOMAIN View(t, s[d - 1]).kids : s[d] = View(t, s[d - 1]).kids[i]
    BY <2>4, <2>6, <1>5
  <2>. QED
    BY <2>4, <2>5, <2>7, <1>8
<1>10. Linked(t, NodesOn(t, pos))
  BY <1>9 DEF Linked
<1>11. t.root \in NodesOn(t, pos)
  BY <1>4, <1>8
<1>12. NodesOn(t, pos) \subseteq DOMAIN t.disk
  BY <1>7, <1>8
<1>. QED
  BY <1>1, <1>2, <1>4, <1>7, <1>10, <1>11, <1>12 DEF StepsAre

BeginStep(t, f, x) == IF View(t, x).leaf THEN <<1>> ELSE <<1>> \o f[View(t, x).kids[1]]

\* The recursion of begin() ends.
LEMMA BeginIs ==
    ASSUME NEW t, NEW h, NEW own, IsTree(NodesOf(t), t.root, h, own), NEW o \in DOMAIN t.disk
    PROVE  /\ BeginOf(t, o) \in Seq(Nat) /\ Len(BeginOf(t, o)) > 0
           /\ BeginOf(t, o) = IF View(t, o).leaf THEN <<1>>
                              ELSE <<1>> \o BeginOf(t, View(t, o).kids[1])
<1>1. PICK D : D = DOMAIN t.disk
  OBVIOUS
<1>2. PICK top : top = h[t.root]
  OBVIOUS
<1>3. top \in Nat /\ \A x \in D : h[x] \in Nat /\ h[x] =< top
  BY <1>1, <1>2, NodesOfIs DEF IsTree, Typed
<1>4. ASSUME NEW x \in D, ~ View(t, x).leaf, NEW c, c = View(t, x).kids[1]
      PROVE  c \in D /\ h[c] < h[x]
  <2>1. IsNode(View(t, x))
    BY <1>1, NodesAre
  <2>2. IsInner(View(t, x))
    BY <2>1, <1>4, NodeIs
  <2>3. PICK n \in Nat : n = Len(View(t, x).keys)
    BY <2>2, InnerParts
  <2>4. DOMAIN View(t, x).kids = 1 .. n + 1
    BY <2>2, <2>3, InnerParts
  <2>5. 1 \in DOMAIN View(t, x).kids
    BY <2>3, <2>4
  <2>6. KidsOf(t, h, own, x)
    BY <1>1, KidIs
  <2>. QED
    BY <2>5, <2>6, <1>1, <1>4 DEF KidsOf
<1> DEFINE
    Solves(f, n) == \A x \in D : h[x] < n => f[x] = BeginStep(t, f, x)
    Bad == {n \in Nat : ~ \E f : f = [x \in D |-> f[x]] /\ Solves(f, n)}
<1>5. Bad = {}
  <2>. SUFFICES ASSUME Bad # {} PROVE FALSE
    OBVIOUS
  <2>1. PICK n \in Bad : \A m \in Bad : n =< m
    BY LeastNatural
  <2>2. n # 0
    <3>. DEFINE e == [x \in D |-> {}]
    <3>1. \A x \in D : ~ (h[x] < 0)
      BY <1>3
    <3>2. e = [x \in D |-> e[x]] /\ Solves(e, 0)
      BY <3>1
    <3>. QED
      BY <3>2, <2>1
  <2>3. n - 1 \in Nat /\ n - 1 \notin Bad
    BY <2>1, <2>2
  <2>4. PICK f : f = [x \in D |-> f[x]] /\ Solves(f, n - 1)
    BY <2>3
  <2>. DEFINE g == [x \in D |-> BeginStep(t, f, x)]
  <2>5. ASSUME NEW x \in D, h[x] < n
        PROVE  g[x] = BeginStep(t, g, x)
    <3>1. CASE View(t, x).leaf
      BY <3>1 DEF BeginStep
    <3>2. CASE ~ View(t, x).leaf
      <4>1. PICK c : c = View(t, x).kids[1]
        OBVIOUS
      <4>2. c \in D /\ h[c] < h[x] /\ h[c] \in Nat /\ h[x] \in Nat
        BY <4>1, <3>2, <1>3, <1>4
      <4>3. h[c] < n - 1
        BY <4>2, <2>3, <2>5
      <4>4. g[c] = f[c]
        BY <4>2, <4>3, <2>4
      <4>5. BeginStep(t, g, x) = BeginStep(t, f, x)
        <5>. HIDE DEF g
        <5>. QED
          BY <4>1, <4>4, <3>2 DEF BeginStep
      <4>. QED
        BY <4>5
    <3>. QED
      BY <3>1, <3>2
  <2>6. g = [x \in D |-> g[x]] /\ Solves(g, n)
    BY <2>5
  <2>7. \E f2 : f2 = [x \in D |-> f2[x]] /\ Solves(f2, n)
    <3>. HIDE DEF g, Solves
    <3>. QED
      BY <2>6
  <2>. HIDE DEF Solves
  <2>. QED
    BY <2>1, <2>7
<1>. HIDE DEF Bad
<1>6. top + 1 \in Nat /\ top + 1 \notin Bad
  BY <1>3, <1>5
<1>7. PICK f : f = [x \in D |-> f[x]] /\ Solves(f, top + 1)
  BY <1>6 DEF Bad
<1>8. \A x \in D : h[x] < top + 1
  BY <1>3
<1>9. f = [x \in D |-> BeginStep(t, f, x)]
  BY <1>7, <1>8
<1> DEFINE b == CHOOSE begin : begin = [x \in DOMAIN t.disk |-> BeginStep(t, begin, x)]
<1>10. b = [x \in D |-> BeginStep(t, b, x)]
  BY <1>1, <1>9
<1>11. \A x : BeginOf(t, x) = b[x]
  BY DEF BeginOf, BeginStep
<1>. HIDE DEF b
<1>12. \A x \in D : b[x] = BeginStep(t, b, x)
  BY <1>10
<1> DEFINE Wrong == {n \in Nat : \E x \in D : h[x] = n /\ ~ (b[x] \in Seq(Nat) /\ Len(b[x]) > 0)}
<1>13. Wrong = {}
  <2>. SUFFICES ASSUME Wrong # {} PROVE FALSE
    OBVIOUS
  <2>1. PICK n \in Wrong : \A m \in Wrong : n =< m
    BY LeastNatural
  <2>2. PICK x \in D : h[x] = n /\ ~ (b[x] \in Seq(Nat) /\ Len(b[x]) > 0)
    BY <2>1
  <2>3. CASE View(t, x).leaf
    <3>1. b[x] = <<1>>
      BY <2>3, <1>12 DEF BeginStep
    <3>. QED
      BY <3>1, <2>2
  <2>4. CASE ~ View(t, x).leaf
    <3>1. PICK c : c = View(t, x).kids[1]
      OBVIOUS
    <3>2. c \in D /\ h[c] < n /\ h[c] \in Nat
      BY <3>1, <2>2, <2>4, <1>3, <1>4
    <3>3. b[c] \in Seq(Nat) /\ Len(b[c]) > 0
      BY <3>2, <2>1
    <3>4. b[x] = <<1>> \o b[c]
      BY <3>1, <2>4, <1>12 DEF BeginStep
    <3>5. PICK s \in Seq(Nat) : s = b[c]
      BY <3>3
    <3>6. <<1>> \o s \in Seq(Nat) /\ Len(<<1>> \o s) = 1 + Len(s)
      OBVIOUS
    <3>. QED
      BY <3>3, <3>4, <3>5, <3>6, <2>2
  <2>. QED
    BY <2>3, <2>4
<1>14. b[o] \in Seq(Nat) /\ Len(b[o]) > 0
  BY <1>1, <1>3, <1>13
<1>15. b[o] = BeginStep(t, b, o)
  BY <1>1, <1>12
<1>. QED
  BY <1>11, <1>14, <1>15 DEF BeginStep

\* A position is a non-empty sequence of numbers.
IsPosition(pos) == pos \in Seq(Nat) /\ Len(pos) > 0

\* A position whose last steps are others.
LEMMA PositionFrom ==
    ASSUME NEW pos \in Seq(Nat), NEW d \in 0 .. Len(pos), NEW rest, IsPosition(rest)
    PROVE  IsPosition(SubSeq(pos, 1, d) \o rest)
<1>1. PICK head : head = SubSeq(pos, 1, d)
  OBVIOUS
<1>2. \A i \in 1 .. d : pos[i] \in Nat
  <2>. TAKE i \in 1 .. d
  <2>1. PICK n \in Nat : n = Len(pos)
    OBVIOUS
  <2>2. i \in 1 .. n
    BY <2>1
  <2>. QED
    BY <2>1, <2>2
<1>3. head \in Seq(Nat)
  BY <1>1, <1>2, SubSeqProperties
<1>4. head \o rest \in Seq(Nat) /\ Len(head \o rest) = Len(head) + Len(rest)
  BY <1>3, ConcatProperties DEF IsPosition
<1>5. PICK a \in Nat, b \in Nat : a = Len(head) /\ b = Len(rest)
  BY <1>3 DEF IsPosition
<1>6. b > 0
  BY <1>5 DEF IsPosition
<1>7. a + b > 0
  BY <1>5, <1>6
<1>. QED
  BY <1>1, <1>4, <1>5, <1>7 DEF IsPosition

\* A position and more steps.
LEMMA PositionThen ==
    ASSUME NEW pos, IsPosition(pos), NEW rest, IsPosition(rest)
    PROVE  IsPosition(pos \o rest)
<1>1. pos \o rest \in Seq(Nat) /\ Len(pos \o rest) = Len(pos) + Len(rest)
  BY ConcatProperties DEF IsPosition
<1>2. PICK a \in Nat, b \in Nat : a = Len(pos) /\ b = Len(rest)
  BY DEF IsPosition
<1>3. a > 0
  BY <1>2 DEF IsPosition
<1>4. a + b > 0
  BY <1>2, <1>3
<1>. QED
  BY <1>1, <1>2, <1>4 DEF IsPosition

\* A position of one step.
LEMMA OneStep ==
    ASSUME NEW n \in Nat
    PROVE  IsPosition(<<n>>)
BY DEF IsPosition

\* How many children a node has.
LEMMA KidsAre ==
    ASSUME NEW n, IsNode(n)
    PROVE  Len(n.kids) \in Nat /\ DOMAIN n.kids = 1 .. Len(n.kids)
<1>1. CASE n.leaf
  <2>1. n.kids = <<>>
    BY <1>1, NodeIs
  <2>. QED
    BY <2>1
<1>2. CASE ~ n.leaf
  <2>1. IsInner(n)
    BY <1>2, NodeIs
  <2>. QED
    BY <2>1 DEF IsInner
<1>. QED
  BY <1>1, <1>2

\* The position of end().
LEMMA EndIs ==
    ASSUME NEW t, NEW h, NEW own, IsTree(NodesOf(t), t.root, h, own), NEW o \in DOMAIN t.disk
    PROVE  IsPosition(EndOf(t, o))
<1>1. PICK n : n = View(t, o)
  OBVIOUS
<1>2. IsNode(n)
  BY <1>1, NodesAre
<1>3. CASE n.leaf
  <2>1. IsFiniteSet(LeafKeys(n))
    BY <1>2, <1>3, NodeIs DEF IsLeaf, IsMap, LeafKeys
  <2>2. PICK m \in Nat : m = Cardinality(LeafKeys(n))
    BY <2>1, FS_CardinalityType
  <2>3. EndOf(t, o) = <<m + 1>>
    BY <2>2, <1>1, <1>3 DEF EndOf
  <2>4. m + 1 \in Nat
    OBVIOUS
  <2>. QED
    BY <2>3, <2>4, OneStep
<1>4. CASE ~ n.leaf
  <2>1. PICK m \in Nat : m = Len(n.kids)
    BY <1>2, KidsAre
  <2>2. EndOf(t, o) = <<m + 1>>
    BY <2>1, <1>1, <1>4 DEF EndOf
  <2>3. m + 1 \in Nat
    OBVIOUS
  <2>. QED
    BY <2>2, <2>3, OneStep
<1>. QED
  BY <1>3, <1>4

\* The position of begin().
LEMMA BeginPosition ==
    ASSUME NEW t, NEW h, NEW own, IsTree(NodesOf(t), t.root, h, own), NEW o \in DOMAIN t.disk
    PROVE  IsPosition(BeginOf(t, o))
<1>1. BeginOf(t, o) \in Seq(Nat) /\ Len(BeginOf(t, o)) > 0
  BY BeginIs
<1>. QED
  BY <1>1 DEF IsPosition

\* operator++ leads to a position.
LEMMA NextIs ==
    ASSUME NEW t, NEW h, NEW own, IsTree(NodesOf(t), t.root, h, own), NEW pos, IsPosition(pos)
    PROVE  IsPosition(NextOf(t, pos))
<1>1. PICK n \in Nat : n = Len(pos)
  BY DEF IsPosition
<1>2. n > 0 /\ pos \in Seq(Nat) /\ DOMAIN pos = 1 .. n
  BY <1>1 DEF IsPosition
<1>3. StepsAre(t, pos)
  BY <1>2, StepsIs
<1>4. PICK s : s = Steps(t, pos)
  OBVIOUS
<1>5. \A d \in 0 .. n : s[d] \in DOMAIN t.disk
  BY <1>1, <1>3, <1>4 DEF StepsAre
<1>6. PICK inLeaf : inLeaf = <<pos[n] + 1>>
  OBVIOUS
<1>7. IsPosition(inLeaf)
  <2>1. pos[n] \in Nat
    BY <1>1, <1>2
  <2>2. pos[n] + 1 \in Nat
    BY <2>1
  <2>. QED
    BY <2>2, <1>6, OneStep
<1>8. PICK levels : levels = {d \in 1 .. n - 1 : LaterKids(t, pos, d) # {}}
  OBVIOUS
<1>9. PICK d : d = Max(levels)
  OBVIOUS
<1>10. PICK j : j = Min(LaterKids(t, pos, d))
  OBVIOUS
<1>11. PICK kid : kid = View(t, s[d - 1]).kids[j]
  OBVIOUS
<1>12. NextOf(t, pos) = IF inLeaf # EndOf(t, s[n]) THEN SubSeq(pos, 1, n - 1) \o inLeaf
                        ELSE IF levels = {} THEN EndOf(t, t.root)
                        ELSE SubSeq(pos, 1, d - 1) \o <<j>> \o BeginOf(t, kid)
  BY <1>1, <1>4, <1>6, <1>8, <1>9, <1>10, <1>11 DEF NextOf
<1>13. CASE inLeaf # EndOf(t, s[n])
  <2>1. n - 1 \in 0 .. Len(pos)
    BY <1>1, <1>2
  <2>2. PICK head : head = SubSeq(pos, 1, n - 1) \o inLeaf
    OBVIOUS
  <2>3. IsPosition(head)
    BY <2>1, <2>2, <1>2, <1>7, PositionFrom
  <2>. QED
    BY <2>2, <2>3, <1>12, <1>13
<1>14. CASE ~ (inLeaf # EndOf(t, s[n])) /\ levels = {}
  <2>1. IsPosition(EndOf(t, t.root))
    BY <1>5, EndIs, NodesAre
  <2>. QED
    BY <2>1, <1>12, <1>14
<1>15. CASE ~ (inLeaf # EndOf(t, s[n])) /\ levels # {}
  <2>1. levels \in SUBSET Nat /\ IsFiniteSet(levels)
    <3>1. IsFiniteSet(1 .. n - 1)
      BY FS_Interval
    <3>. QED
      BY <3>1, <1>8, FS_Subset
  <2>2. d \in levels
    BY <2>1, <1>9, <1>15, GreatestKey
  <2>3. d \in 1 .. n - 1 /\ LaterKids(t, pos, d) # {}
    BY <2>2, <1>8
  <2>4. d \in Nat /\ d - 1 \in 0 .. n /\ d \in 1 .. n
    BY <2>3
  <2>5. PICK o : o = s[d - 1]
    OBVIOUS
  <2>6. o \in DOMAIN t.disk
    BY <2>4, <2>5, <1>5
  <2>7. IsNode(View(t, o))
    BY <2>6, NodesAre
  <2>8. PICK len \in Nat : len = Len(View(t, o).kids)
    BY <2>7, KidsAre
  <2>9. DOMAIN View(t, o).kids = 1 .. len
    BY <2>7, <2>8, KidsAre
  <2>10. PICK p \in Nat : p = pos[d]
    BY <2>4, <1>2
  <2>11. PICK later : later = LaterKids(t, pos, d)
    OBVIOUS
  <2>12. later \subseteq p + 1 .. len
    BY <2>5, <2>8, <2>10, <2>11, <1>4 DEF LaterKids
  <2>13. later \in SUBSET Nat /\ later # {}
    BY <2>3, <2>11, <2>12
  <2>14. j \in later
    <3>1. \E x \in later : \A y \in later : x =< y
      BY <2>13, LeastNatural
    <3>2. j = CHOOSE x \in later : \A y \in later : x =< y
      BY <2>11, <1>10 DEF Min
    <3>. QED
      BY <3>1, <3>2
  <2>15. j \in Nat /\ j \in 1 .. len
    BY <2>12, <2>13, <2>14
  <2>16. kid \in DOMAIN t.disk
    <3>1. KidsOf(t, h, own, o)
      BY <2>6, KidIs
    <3>2. j \in DOMAIN View(t, o).kids /\ kid = View(t, o).kids[j]
      BY <2>5, <2>9, <2>15, <1>11
    <3>. QED
      BY <3>1, <3>2 DEF KidsOf
  <2>17. IsPosition(BeginOf(t, kid))
    BY <2>16, BeginPosition
  <2>18. IsPosition(<<j>>)
    BY <2>15, OneStep
  <2>19. d - 1 \in 0 .. Len(pos)
    BY <2>4, <1>1
  <2>20. PICK head : head = SubSeq(pos, 1, d - 1) \o <<j>>
    OBVIOUS
  <2>21. IsPosition(head)
    BY <2>18, <2>19, <2>20, <1>2, PositionFrom
  <2>22. PICK rest : rest = BeginOf(t, kid)
    OBVIOUS
  <2>23. NextOf(t, pos) = head \o rest
    BY <2>20, <2>22, <1>12, <1>15
  <2>24. IsPosition(head \o rest)
    BY <2>17, <2>21, <2>22, PositionThen
  <2>. QED
    BY <2>23, <2>24
<1>. QED
  BY <1>13, <1>14, <1>15

------------------------------------------------------------------------------
(* The operations on a tree. *)

\* t is t0 with the nodes on the way to k cached.
DescendedTo(t0, h, own, k, t) ==
    /\ Grounded(t, h, own) /\ FitsBut(t, {}) /\ t.root = t0.root /\ t.disk = t0.disk
    /\ NodesOf(t) = NodesOf(t0)
    /\ Way(t, t.root, k) = Way(t0, t0.root, k) /\ Way(t, t.root, k) \subseteq DOMAIN t.mem

\* The nodes on the way to a key are read.
LEMMA DescendedIs ==
    ASSUME NEW t0, NEW h, NEW own, Grounded(t0, h, own), FitsBut(t0, {}), NEW k \in Keys,
           NEW t, t = Descended(t0, k)
    PROVE  DescendedTo(t0, h, own, k, t)
<1>1. Cached(t0) /\ IsTree(NodesOf(t0), t0.root, h, own)
  BY DEF Grounded
<1>2. PICK way : way = Way(t0, t0.root, k)
  OBVIOUS
<1>3. way \subseteq DOMAIN t0.disk
  <2>1. t0.root \in DOMAIN t0.disk /\ k \in own[t0.root]
    BY <1>1, NodesOfIs DEF IsTree, Typed
  <2>2. OnWay(t0, own, t0.root, k)
    BY <2>1, <1>1, WayIs
  <2>. QED
    BY <2>2, <1>2 DEF OnWay
<1>4. Linked(t0, way)
  BY <1>1, <1>2, WayLinked
<1>5. t = LoadedAll(t0, way)
  BY <1>2 DEF Descended
<1>6. Grounded(t, h, own)
  BY <1>3, <1>4, <1>5, LoadedGrounded
<1>7. /\ t.root = t0.root /\ t.disk = t0.disk
      /\ DOMAIN t.mem = DOMAIN t0.mem \cup way
      /\ \A o \in DOMAIN t0.disk : View(t, o) = View(t0, o)
      /\ NodesOf(t) = NodesOf(t0)
      /\ FitsBut(t0, {}) => FitsBut(t, {})
  BY <1>1, <1>3, <1>5, LoadedIs
<1>8. Way(t, t.root, k) = way
  <2>1. \A o \in DOMAIN t0.disk :
            (IF View(t, o).leaf THEN {} ELSE {ChildFor(t, o, k)})
                = (IF View(t0, o).leaf THEN {} ELSE {ChildFor(t0, o, k)})
    BY <1>7 DEF ChildFor
  <2>2. KidsFor(t, k) = KidsFor(t0, k)
    BY <2>1, <1>7 DEF KidsFor
  <2>. QED
    BY <2>2, <1>2, <1>7 DEF Way
<1>. QED
  BY <1>2, <1>6, <1>7, <1>8 DEF DescendedTo

\* M has the entries of N, but that of k: which holds v, if has is true.
EntryChanged(N, M, k, has, v) ==
    \A j, w : Holds(M, j, w) <=> IF j = k THEN has /\ w = v ELSE Holds(N, j, w)

\* u is a tree with those entries.
EntrySet(t, u, k, has, v) ==
    /\ \E h, own : Grounded(u, h, own)
    /\ FitsBut(u, {}) /\ EntryChanged(NodesOf(t), NodesOf(u), k, has, v)

\* The entries of the leaf for k, of which only that of k changes.
IsEntries(t, own, k, e, has, v) ==
    /\ IsMap(e) /\ \A x \in DOMAIN e : x \in own[LeafFor(t, k)]
    /\ k \in DOMAIN e <=> has
    /\ has => e[k] = v
    /\ \A x : x # k => (x \in DOMAIN e <=> x \in DOMAIN EntriesFor(t, k))
    /\ \A x \in DOMAIN e : x # k => e[x] = EntriesFor(t, k)[x]

\* What the leaf for k is before.
LEMMA EntriesAre ==
    ASSUME NEW t, NEW h, NEW own, IsTree(NodesOf(t), t.root, h, own), NEW k \in Keys
    PROVE  /\ IsMap(EntriesFor(t, k)) /\ k \in own[LeafFor(t, k)]
           /\ \A x \in DOMAIN EntriesFor(t, k) : x \in own[LeafFor(t, k)]
           /\ View(t, LeafFor(t, k)).leaf
           /\ LeafKeys(View(t, LeafFor(t, k))) = DOMAIN EntriesFor(t, k)
           /\ LeafFor(t, k) \in DOMAIN t.disk
           /\ LeafFor(t, k) \in Way(t, t.root, k)
<1>1. PICK N, o : N = NodesOf(t) /\ o = LeafFor(t, k)
  OBVIOUS
<1>2. DOMAIN N = DOMAIN t.disk /\ \A x \in DOMAIN t.disk : N[x] = View(t, x)
  BY <1>1, NodesOfIs
<1>3. IsLeafFor(t, own, k, o)
  BY <1>1, LeafForIs
<1>4. o \in DOMAIN N /\ N[o] = View(t, o) /\ N[o].leaf /\ k \in own[o] /\ o \in Way(t, t.root, k)
  BY <1>2, <1>3 DEF IsLeafFor
<1>5. IsNode(N[o])
  BY <1>1, <1>4 DEF IsTree, Typed
<1>6. IsMap(N[o].entries)
  BY <1>4, <1>5, NodeIs DEF IsLeaf
<1>7. EntriesFor(t, k) = N[o].entries /\ LeafKeys(N[o]) = DOMAIN N[o].entries
  BY <1>1, <1>4 DEF EntriesFor, LeafKeys
<1>8. \A x \in LeafKeys(N[o]) : x \in own[o]
  BY <1>1, <1>4 DEF IsTree, LeavesOk
<1>. QED
  BY <1>1, <1>2, <1>4, <1>6, <1>7, <1>8

\* The entries of the tree after those of the leaf are set.
LEMMA PutEntries ==
    ASSUME NEW t, NEW h, NEW own, IsTree(NodesOf(t), t.root, h, own), NEW k \in Keys,
           NEW e, NEW has \in BOOLEAN, NEW v, IsEntries(t, own, k, e, has, v),
           NEW M, M = WithLeaf(NodesOf(t), LeafFor(t, k), e)
    PROVE  EntryChanged(NodesOf(t), M, k, has, v)
<1>1. PICK N, o : N = NodesOf(t) /\ o = LeafFor(t, k)
  OBVIOUS
<1>2. DOMAIN N = DOMAIN t.disk /\ (\A x \in DOMAIN t.disk : N[x] = View(t, x))
      /\ IsTree(N, t.root, h, own)
  BY <1>1, NodesOfIs
<1>3. IsLeafFor(t, own, k, o)
  BY <1>1, LeafForIs
<1>4. o \in DOMAIN N /\ N[o].leaf /\ k \in own[o]
  BY <1>2, <1>3 DEF IsLeafFor
<1>5. PICK old : old = EntriesFor(t, k)
  OBVIOUS
<1>6. N[o].entries = old /\ LeafKeys(N[o]) = DOMAIN old
  BY <1>1, <1>2, <1>4, <1>5 DEF EntriesFor, LeafKeys
<1>7. /\ \A x \in DOMAIN e : x \in own[o]
      /\ k \in DOMAIN e <=> has
      /\ has => e[k] = v
      /\ \A x : x # k => (x \in DOMAIN e <=> x \in DOMAIN old)
      /\ \A x \in DOMAIN e : x # k => e[x] = old[x]
  BY <1>1, <1>5 DEF IsEntries
<1>8. \A x \in DOMAIN N : \A j \in LeafKeys(N[x]) : N[x].leaf /\ j \in own[x]
  <2>. TAKE x \in DOMAIN N
  <2>1. IsNode(N[x])
    BY <1>2 DEF IsTree, Typed
  <2>2. ~ N[x].leaf => LeafKeys(N[x]) = {}
    BY <2>1, NodeIs
  <2>3. N[x].leaf => \A j \in LeafKeys(N[x]) : j \in own[x]
    BY <1>2 DEF IsTree, LeavesOk
  <2>. QED
    BY <2>2, <2>3
<1>9. LeavesApart(N, own)
  BY <1>2 DEF IsTree
<1>. SUFFICES ASSUME NEW j, NEW w
              PROVE  Holds(M, j, w) <=> IF j = k THEN has /\ w = v ELSE Holds(N, j, w)
  BY <1>1 DEF EntryChanged
<1>10. Holds(M, j, w) <=> IF j \in own[o] THEN j \in DOMAIN e /\ e[j] = w ELSE Holds(N, j, w)
  BY <1>1, <1>4, <1>7, <1>8, <1>9, PutHolds
<1>11. j \in own[o] => (Holds(N, j, w) <=> j \in DOMAIN old /\ old[j] = w)
  <2>. SUFFICES ASSUME j \in own[o]
                PROVE  Holds(N, j, w) <=> j \in DOMAIN old /\ old[j] = w
    OBVIOUS
  <2>1. \A x \in DOMAIN N : j \in LeafKeys(N[x]) => x = o
    BY <1>4, <1>8, <1>9 DEF LeavesApart
  <2>. QED
    BY <2>1, <1>4, <1>6 DEF Holds
<1>12. CASE j = k
  BY <1>4, <1>7, <1>10, <1>12
<1>13. CASE j # k
  <2>1. CASE j \in own[o]
    BY <2>1, <1>7, <1>10, <1>11, <1>13
  <2>2. CASE j \notin own[o]
    BY <2>2, <1>10, <1>13
  <2>. QED
    BY <2>1, <2>2
<1>. QED
  BY <1>12, <1>13

\* The entries that Add gives the leaf: at most one more.
LEMMA AddedEntries ==
    ASSUME NEW t, NEW h, NEW own, IsTree(NodesOf(t), t.root, h, own), NEW k \in Keys,
           NEW v \in Values, NEW e, e = Extend(EntriesFor(t, k), k, v),
           ~ NodeOversized(View(t, LeafFor(t, k)))
    PROVE  IsEntries(t, own, k, e, TRUE, v) /\ NearlyFits(Leaf(e))
<1>1. PICK old, o : old = EntriesFor(t, k) /\ o = LeafFor(t, k)
  OBVIOUS
<1>2. /\ IsMap(old) /\ k \in own[o]
      /\ \A x \in DOMAIN old : x \in own[o]
      /\ View(t, o).leaf /\ LeafKeys(View(t, o)) = DOMAIN old
  BY <1>1, EntriesAre
<1>3. e = [x \in DOMAIN old \cup {k} |-> IF x = k THEN v ELSE old[x]]
  BY <1>1 DEF Extend
<1>4. /\ DOMAIN old \subseteq Keys /\ IsFiniteSet(DOMAIN old)
      /\ \A x \in DOMAIN old : old[x] \in Values
  BY <1>2 DEF IsMap
<1>5. DOMAIN e = DOMAIN old \cup {k} /\ e[k] = v /\ \A x \in DOMAIN old : x # k => e[x] = old[x]
  BY <1>3
<1>6. IsFiniteSet(DOMAIN e)
  BY <1>4, <1>5, FS_AddElement
<1>7. IsMap(e)
  <2>1. e = [x \in DOMAIN e |-> e[x]]
    BY <1>3
  <2>2. DOMAIN e \subseteq Keys /\ \A x \in DOMAIN e : e[x] \in Values
    BY <1>4, <1>5
  <2>. QED
    BY <2>1, <2>2, <1>6 DEF IsMap
<1>8. IsEntries(t, own, k, e, TRUE, v)
  BY <1>1, <1>2, <1>5, <1>7 DEF IsEntries
<1>9. PICK n \in Nat : n = Cardinality(DOMAIN old)
  BY <1>4, FS_CardinalityType
<1>10. n =< LeafCapacity /\ LeafCapacity \in Nat
  BY <1>1, <1>2, <1>9, CapacityAssumption DEF NodeOversized
<1>11. Cardinality(DOMAIN e) =< LeafCapacity + 1
  <2>1. CASE k \in DOMAIN old
    <3>1. DOMAIN e = DOMAIN old
      BY <2>1, <1>5
    <3>2. n =< LeafCapacity + 1
      BY <1>10
    <3>. QED
      BY <3>1, <3>2, <1>9
  <2>2. CASE k \notin DOMAIN old
    <3>1. Cardinality(DOMAIN e) = n + 1
      BY <2>2, <1>4, <1>5, <1>9, FS_AddElement
    <3>2. n + 1 =< LeafCapacity + 1
      BY <1>10
    <3>. QED
      BY <3>1, <3>2
  <2>. QED
    BY <2>1, <2>2
<1>12. Leaf(e).leaf /\ LeafKeys(Leaf(e)) = DOMAIN e
  BY LeafIs
<1>. QED
  BY <1>8, <1>11, <1>12 DEF NearlyFits

\* The entries that Remove leaves in the leaf.
LEMMA RemovedEntries ==
    ASSUME NEW t, NEW h, NEW own, IsTree(NodesOf(t), t.root, h, own), NEW k \in Keys, NEW v,
           NEW e, e = Restrict(EntriesFor(t, k), DOMAIN EntriesFor(t, k) \ {k}),
           ~ NodeOversized(View(t, LeafFor(t, k)))
    PROVE  IsEntries(t, own, k, e, FALSE, v) /\ ~ NodeOversized(Leaf(e))
<1>1. PICK old, o : old = EntriesFor(t, k) /\ o = LeafFor(t, k)
  OBVIOUS
<1>2. /\ IsMap(old) /\ k \in own[o]
      /\ \A x \in DOMAIN old : x \in own[o]
      /\ View(t, o).leaf /\ LeafKeys(View(t, o)) = DOMAIN old
  BY <1>1, EntriesAre
<1>3. PICK S : S = DOMAIN old \ {k}
  OBVIOUS
<1>4. e = Restrict(old, S) /\ S \in SUBSET DOMAIN old
  BY <1>1, <1>3
<1>5. IsMap(e) /\ DOMAIN e = S /\ \A x \in S : e[x] = old[x]
  <2>1. IsMap(Restrict(old, S))
    BY <1>2, <1>4, RestrictIsMap
  <2>2. DOMAIN e = S /\ \A x \in S : e[x] = old[x]
    BY <1>4 DEF Restrict
  <2>. QED
    BY <2>1, <2>2, <1>4
<1>6. IsEntries(t, own, k, e, FALSE, v)
  BY <1>1, <1>2, <1>3, <1>5 DEF IsEntries
<1>7. IsFiniteSet(DOMAIN old)
  BY <1>2 DEF IsMap
<1>8. PICK n \in Nat : n = Cardinality(DOMAIN old)
  BY <1>7, FS_CardinalityType
<1>9. PICK m \in Nat : m = Cardinality(DOMAIN e)
  BY <1>5 , FS_CardinalityType DEF IsMap
<1>10. m =< n
  BY <1>3, <1>5, <1>7, <1>8, <1>9, FS_Subset
<1>11. n =< LeafCapacity /\ LeafCapacity \in Nat
  BY <1>1, <1>2, <1>8, CapacityAssumption DEF NodeOversized
<1>12. ~ (m > LeafCapacity)
  BY <1>10, <1>11
<1>13. Leaf(e).leaf /\ LeafKeys(Leaf(e)) = DOMAIN e
  BY LeafIs
<1>. QED
  BY <1>6, <1>9, <1>12, <1>13 DEF NodeOversized

\* Nodes that fit, wherever they are.
LEMMA FitsView ==
    ASSUME NEW t, FitsBut(t, {}), NEW o \in DOMAIN t.disk
    PROVE  ~ NodeOversized(View(t, o))
BY DEF FitsBut, View

\* Index::AddOrUpdate up to its AfterAccess.
LEMMA AddIs ==
    ASSUME NEW t0, NEW h, NEW own, Grounded(t0, h, own), FitsBut(t0, {}), NEW k \in Keys,
           NEW v \in Values, Cardinality(FreeOf(t0)) > Cardinality(Way(t0, t0.root, k)),
           NEW t, t = Descended(t0, k), NEW e, e = Extend(EntriesFor(t, k), k, v),
           NEW u, u = SplitRoot(SplitBelow(Put(t, k, e), k))
    PROVE  EntrySet(t0, u, k, TRUE, v)
<1>1. DescendedTo(t0, h, own, k, t)
  BY DescendedIs
<1>2. /\ Grounded(t, h, own) /\ FitsBut(t, {}) /\ t.root = t0.root /\ t.disk = t0.disk
      /\ NodesOf(t) = NodesOf(t0)
      /\ Way(t, t.root, k) = Way(t0, t0.root, k) /\ Way(t, t.root, k) \subseteq DOMAIN t.mem
  BY <1>1 DEF DescendedTo
<1>3. IsTree(NodesOf(t), t.root, h, own)
  BY <1>2 DEF Grounded
<1>4. PICK o : o = LeafFor(t, k)
  OBVIOUS
<1>5. o \in DOMAIN t.disk /\ o \in Way(t, t.root, k)
  BY <1>3, <1>4, EntriesAre
<1>6. o \in DOMAIN t.mem
  BY <1>2, <1>5
<1>7. ~ NodeOversized(View(t, o))
  BY <1>2, <1>5, FitsView
<1>8. IsEntries(t, own, k, e, TRUE, v) /\ NearlyFits(Leaf(e))
  BY <1>3, <1>4, <1>7, AddedEntries
<1>9. IsMap(e) /\ \A x \in DOMAIN e : x \in own[o]
  BY <1>4, <1>8 DEF IsEntries
<1>10. PICK p : p = Put(t, k, e)
  OBVIOUS
<1>11. PutTo(t, h, own, k, o, e, p)
  BY <1>2, <1>4, <1>6, <1>9, <1>10, PutIs
<1>12. /\ Grounded(p, h, own) /\ p.root = t.root /\ p.disk = t.disk /\ FitsBut(p, {o})
       /\ DOMAIN p.mem = DOMAIN t.mem \cup {o}
       /\ NodesOf(p) = WithLeaf(NodesOf(t), o, e) /\ View(p, o) = Leaf(e)
       /\ Way(p, t.root, k) = Way(t, t.root, k) /\ LeafFor(p, k) = o
  BY <1>11 DEF PutTo
<1>13. Way(p, p.root, k) \subseteq DOMAIN p.mem
  BY <1>2, <1>12
<1>14. Cardinality(FreeOf(p)) > Cardinality(Way(p, p.root, k))
  <2>1. FreeOf(p) = FreeOf(t0)
    BY <1>2, <1>12 DEF FreeOf
  <2>. QED
    BY <2>1, <1>2, <1>12
<1>15. FitsBut(p, {LeafFor(p, k)}) /\ NearlyFits(View(p, LeafFor(p, k)))
  BY <1>8, <1>12
<1>16. u = SplitRoot(SplitBelow(p, k))
  BY <1>10
<1>17. Settled(p, u)
  BY <1>12, <1>13, <1>14, <1>15, <1>16, AddSplitsIs
<1>18. EntryChanged(NodesOf(t), NodesOf(p), k, TRUE, v)
  BY <1>3, <1>4, <1>8, <1>12, PutEntries
<1>. QED
  BY <1>2, <1>17, <1>18 DEF EntrySet, EntryChanged, Settled, SameEntries

\* Index::Remove.
LEMMA RemoveIs ==
    ASSUME NEW t0, NEW h, NEW own, Grounded(t0, h, own), FitsBut(t0, {}), NEW k \in Keys, NEW v,
           NEW t, t = Descended(t0, k),
           NEW e, e = Restrict(EntriesFor(t, k), DOMAIN EntriesFor(t, k) \ {k}),
           NEW u, u = Put(t, k, e)
    PROVE  EntrySet(t0, u, k, FALSE, v)
<1>1. DescendedTo(t0, h, own, k, t)
  BY DescendedIs
<1>2. /\ Grounded(t, h, own) /\ FitsBut(t, {}) /\ NodesOf(t) = NodesOf(t0)
      /\ Way(t, t.root, k) \subseteq DOMAIN t.mem
  BY <1>1 DEF DescendedTo
<1>3. IsTree(NodesOf(t), t.root, h, own)
  BY <1>2 DEF Grounded
<1>4. PICK o : o = LeafFor(t, k)
  OBVIOUS
<1>5. o \in DOMAIN t.disk /\ o \in Way(t, t.root, k)
  BY <1>3, <1>4, EntriesAre
<1>6. o \in DOMAIN t.mem
  BY <1>2, <1>5
<1>7. ~ NodeOversized(View(t, o))
  BY <1>2, <1>5, FitsView
<1>8. IsEntries(t, own, k, e, FALSE, v) /\ ~ NodeOversized(Leaf(e))
  BY <1>3, <1>4, <1>7, RemovedEntries
<1>9. IsMap(e) /\ \A x \in DOMAIN e : x \in own[o]
  BY <1>4, <1>8 DEF IsEntries
<1>10. PutTo(t, h, own, k, o, e, u)
  BY <1>2, <1>4, <1>6, <1>9, PutIs
<1>11. /\ Grounded(u, h, own) /\ FitsBut(u, {o}) /\ o \in DOMAIN u.mem
       /\ NodesOf(u) = WithLeaf(NodesOf(t), o, e) /\ View(u, o) = Leaf(e)
  BY <1>10 DEF PutTo
<1>12. FitsBut(u, {})
  <2>1. ~ NodeOversized(u.mem[o])
    BY <1>8, <1>11 DEF View
  <2>. QED
    BY <2>1, <1>11 DEF FitsBut
<1>13. EntryChanged(NodesOf(t), NodesOf(u), k, FALSE, v)
  BY <1>3, <1>4, <1>8, <1>11, PutEntries
<1>. QED
  BY <1>2, <1>11, <1>12, <1>13 DEF EntrySet

------------------------------------------------------------------------------
(* The inductive invariant: the nodes, read from the cache or the disk, are *)
(* a tree in which every key belongs to one leaf; a cached node that is not *)
(* marked as modified is the one on disk; the parents of cached nodes are   *)
(* cached, so that writing the cached nodes below the root writes all.      *)

TreeOk(t) == (\E h, own : Grounded(t, h, own)) /\ FitsBut(t, {})

IInv ==
    /\ TreeOk(tree)
    /\ accesses \in 0 .. AccessLimit - 1
    /\ result \in Values \cup {NoValue}
    /\ iter \in [open : BOOLEAN, pos : Seq(Nat)]
    /\ iter.open => IsPosition(iter.pos)

\* u has the nodes of t, perhaps in other places.
SameNodes(t, u) == u.root = t.root /\ NodesOf(u) = NodesOf(t)
Untouched(t, u) == Settled(t, u) /\ SameNodes(t, u)

\* The same tree is settled.
LEMMA SameSettled ==
    ASSUME NEW t, NEW h, NEW own, NEW u, SameTree(t, h, own, u)
    PROVE  Untouched(t, u)
BY DEF SameTree, Untouched, SameNodes, Settled, SameEntries

\* Nothing happens to the tree.
LEMMA StillSettled ==
    ASSUME NEW t, TreeOk(t)
    PROVE  Untouched(t, t)
BY DEF TreeOk, Untouched, SameNodes, Settled, SameEntries

\* One change after another.
LEMMA SettledThen ==
    ASSUME NEW t, NEW u, NEW v, Untouched(t, u), Untouched(u, v)
    PROVE  Untouched(t, v)
BY DEF Untouched, SameNodes, Settled, SameEntries

\* What is settled is a tree.
LEMMA SettledOk ==
    ASSUME NEW t, NEW u, Settled(t, u)
    PROVE  TreeOk(u)
BY DEF Settled, TreeOk

\* Clearing the cache, with or without an iterator.
LEMMA ClearKeeps ==
    ASSUME NEW t, TreeOk(t), NEW P, P = {} \/ \E pos \in Seq(Nat) : P = NodesOn(t, pos),
           NEW u, u = Cleared(t, P)
    PROVE  Untouched(t, u)
<1>1. PICK h, own : Grounded(t, h, own) /\ FitsBut(t, {})
  BY DEF TreeOk
<1>2. IsTree(NodesOf(t), t.root, h, own)
  BY <1>1 DEF Grounded
<1>3. P \subseteq DOMAIN t.disk /\ Linked(t, P \cup {t.root})
  <2>1. CASE P = {}
    BY <2>1 DEF Linked
  <2>2. CASE \E pos \in Seq(Nat) : P = NodesOn(t, pos)
    <3>1. PICK pos \in Seq(Nat) : P = NodesOn(t, pos)
      BY <2>2
    <3>2. StepsAre(t, pos)
      BY <1>2, StepsIs
    <3>3. P \subseteq DOMAIN t.disk /\ t.root \in P /\ Linked(t, P)
      BY <3>1, <3>2 DEF StepsAre
    <3>4. P \cup {t.root} = P
      BY <3>3
    <3>. QED
      BY <3>3, <3>4
  <2>. QED
    BY <2>1, <2>2
<1>4. SameTree(t, h, own, u)
  BY <1>1, <1>3, ClearedIs
<1>. QED
  BY <1>4, SameSettled

\* Reading the nodes of a position.
LEMMA LoadKeeps ==
    ASSUME NEW t, TreeOk(t), NEW pos \in Seq(Nat), NEW u, u = LoadedAll(t, NodesOn(t, pos))
    PROVE  Untouched(t, u)
<1>1. PICK h, own : Grounded(t, h, own) /\ FitsBut(t, {})
  BY DEF TreeOk
<1>2. IsTree(NodesOf(t), t.root, h, own)
  BY <1>1 DEF Grounded
<1>3. PICK P : P = NodesOn(t, pos)
  OBVIOUS
<1>4. StepsAre(t, pos)
  BY <1>2, StepsIs
<1>5. P \subseteq DOMAIN t.disk /\ Linked(t, P)
  BY <1>3, <1>4 DEF StepsAre
<1>6. u = LoadedAll(t, P)
  BY <1>3
<1>7. Grounded(u, h, own)
  BY <1>1, <1>5, <1>6, LoadedGrounded
<1>8. Cached(t)
  BY <1>1 DEF Grounded
<1>9. NodesOf(u) = NodesOf(t)
  BY <1>5, <1>6, <1>8, LoadedIs
<1>10. FitsBut(u, {})
  BY <1>1, <1>5, <1>6, <1>8, LoadedIs
<1>11. u.root = t.root
  BY <1>5, <1>6, <1>8, LoadedIs
<1>. QED
  BY <1>6, <1>7, <1>9, <1>10, <1>11 DEF Untouched, SameNodes, Settled, SameEntries

\* Reading the nodes on the way to a key.
LEMMA DescendKeeps ==
    ASSUME NEW t, TreeOk(t), NEW k \in Keys, NEW u, u = Descended(t, k)
    PROVE  Untouched(t, u)
<1>1. PICK h, own : Grounded(t, h, own) /\ FitsBut(t, {})
  BY DEF TreeOk
<1>2. DescendedTo(t, h, own, k, u)
  BY <1>1, DescendedIs
<1>. QED
  BY <1>2 DEF DescendedTo, Untouched, SameNodes, Settled, SameEntries

\* AfterAccess.
LEMMA AccessKeeps ==
    ASSUME IInv, NEW t, TreeOk(t), AfterAccess(t)
    PROVE  Untouched(t, tree') /\ accesses' \in 0 .. AccessLimit - 1
<1>1. accesses' \in 0 .. AccessLimit - 1
  <2>1. PICK n \in Nat : n = accesses + 1
    BY DEF IInv
  <2>2. AccessLimit \in Nat \ {0} /\ accesses' = n % AccessLimit
    BY <2>1, IndexAssumption DEF AfterAccess
  <2>3. n % AccessLimit \in 0 .. AccessLimit - 1
    BY <2>1, <2>2
  <2>. QED
    BY <2>2, <2>3
<1>2. CASE tree' = t
  BY <1>1, <1>2, StillSettled
<1>3. CASE tree' = Cleared(t, Pinned(t))
  <2>1. PICK P : P = Pinned(t)
    OBVIOUS
  <2>2. P = {} \/ \E pos \in Seq(Nat) : P = NodesOn(t, pos)
    BY <2>1 DEF Pinned, IInv, IsPosition
  <2>3. PICK u : u = Cleared(t, P)
    OBVIOUS
  <2>4. Untouched(t, u)
    BY <2>2, <2>3, ClearKeeps
  <2>. QED
    BY <2>1, <2>3, <2>4, <1>1, <1>3
<1>4. tree' = t \/ tree' = Cleared(t, Pinned(t))
  BY DEF AfterAccess
<1>. QED
  BY <1>2, <1>3, <1>4

------------------------------------------------------------------------------
(* What each action does: the tree stays a tree, and its entries change as *)
(* the action says.                                                        *)

\* The rest of the invariant, after a step.
RestOk ==
    /\ accesses' \in 0 .. AccessLimit - 1
    /\ result' \in Values \cup {NoValue}
    /\ iter' \in [open : BOOLEAN, pos : Seq(Nat)]
    /\ iter'.open => IsPosition(iter'.pos)

\* The entries stay, or that of k is set or removed.
Kept == Untouched(tree, tree') /\ RestOk
ChangedAt(k, has, v) == EntrySet(tree, tree', k, has, v) /\ RestOk

\* Initially the root is an empty leaf, cached and written.
LEMMA InitHolds == Init => IInv
<1>. SUFFICES ASSUME Init
              PROVE  IInv
  OBVIOUS
<1>1. PICK empty : empty = Leaf([k \in {} |-> NoValue])
  OBVIOUS
<1>2. PICK N : N = [o \in {1} |-> empty]
  OBVIOUS
<1>3. tree = Tree(1, N, {}, N)
  BY <1>1, <1>2 DEF Init
<1>4. tree.root = 1 /\ tree.mem = N /\ tree.dirty = {} /\ tree.disk = N
  BY <1>3, TreeIs
<1>5. DOMAIN N = {1} /\ N[1] = empty
  BY <1>2
<1>6. PICK h, own : h = [o \in {1} |-> 0] /\ own = [o \in {1} |-> Keys]
  OBVIOUS
<1>7. IsTree(N, 1, h, own)
  BY <1>1, <1>2, <1>6, TreeStart
<1>8. NodesOf(tree) = N
  <2>1. NodesOf(tree) = [o \in {1} |-> View(tree, o)]
    BY <1>4, <1>5 DEF NodesOf
  <2>2. View(tree, 1) = empty
    BY <1>4, <1>5 DEF View
  <2>. QED
    BY <2>1, <2>2, <1>2
<1>9. Cached(tree)
  <2>1. 1 \in Offsets
    BY IndexAssumption DEF Offsets
  <2>. QED
    BY <2>1, <1>4, <1>5 DEF Cached
<1>10. Rooted(tree)
  BY <1>4, <1>5 DEF Rooted
<1>11. Grounded(tree, h, own)
  BY <1>4, <1>7, <1>8, <1>9, <1>10 DEF Grounded
<1>12. FitsBut(tree, {})
  <2>1. empty.leaf = TRUE /\ LeafKeys(empty) = {}
    BY <1>1, LeafIs
  <2>2. Cardinality({}) = 0
    BY FS_EmptySet
  <2>3. ~ (0 > LeafCapacity)
    BY CapacityAssumption
  <2>4. ~ NodeOversized(empty)
    BY <2>1, <2>2, <2>3 DEF NodeOversized
  <2>. QED
    BY <2>4, <1>4, <1>5 DEF FitsBut
<1>13. TreeOk(tree)
  BY <1>11, <1>12 DEF TreeOk
<1>14. accesses \in 0 .. AccessLimit - 1
  <2>1. accesses = 0 /\ AccessLimit \in Nat \ {0}
    BY IndexAssumption DEF Init
  <2>. QED
    BY <2>1
<1>15. iter \in [open : BOOLEAN, pos : Seq(Nat)] /\ ~ iter.open
  BY DEF Init, NoIterator, NoPosition
<1>16. result = NoValue
  BY DEF Init
<1>. QED
  BY <1>13, <1>14, <1>15, <1>16 DEF IInv

\* Get reads the nodes on the way to the key.
LEMMA GetStep ==
    ASSUME IInv, NEW k \in Keys, Get(k)
    PROVE  Kept
<1>1. PICK t : t = Descended(tree, k)
  OBVIOUS
<1>2. PICK e : e = EntriesFor(t, k)
  OBVIOUS
<1>3. TreeOk(tree)
  BY DEF IInv
<1>4. Untouched(tree, t)
  BY <1>1, <1>3, DescendKeeps
<1>5. TreeOk(t)
  BY <1>4, SettledOk DEF Untouched
<1>6. AfterAccess(t) /\ iter' = iter
      /\ result' = IF k \in DOMAIN e THEN e[k] ELSE NoValue
  BY <1>1, <1>2 DEF Get
<1>7. Untouched(t, tree') /\ accesses' \in 0 .. AccessLimit - 1
  BY <1>5, <1>6, AccessKeeps
<1>8. Untouched(tree, tree')
  BY <1>4, <1>7, SettledThen
<1>9. result' \in Values \cup {NoValue}
  <2>1. PICK h, own : IsTree(NodesOf(t), t.root, h, own)
    BY <1>5 DEF TreeOk, Grounded
  <2>2. IsMap(e)
    BY <2>1, <1>2, EntriesAre
  <2>. QED
    BY <2>2, <1>6 DEF IsMap
<1>10. RestOk
  BY <1>6, <1>7, <1>9 DEF RestOk, IInv
<1>. QED
  BY <1>8, <1>10 DEF Kept

\* AddOrUpdate sets the value of the key.
LEMMA AddStep ==
    ASSUME IInv, NEW k \in Keys, NEW v \in ValuesOf[k], AddOrUpdate(k, v)
    PROVE  ChangedAt(k, TRUE, v)
<1>1. PICK t : t = Descended(tree, k)
  OBVIOUS
<1>2. PICK e : e = Extend(EntriesFor(t, k), k, v)
  OBVIOUS
<1>3. PICK u : u = SplitRoot(SplitBelow(Put(t, k, e), k))
  OBVIOUS
<1>4. v \in Values
  BY IndexAssumption
<1>5. PICK h, own : Grounded(tree, h, own) /\ FitsBut(tree, {})
  BY DEF IInv, TreeOk
<1>6. Cardinality(FreeOf(tree)) > Cardinality(Way(tree, tree.root, k))
  BY DEF AddOrUpdate, RoomToSplit, FreeOf
<1>7. EntrySet(tree, u, k, TRUE, v)
  BY <1>1, <1>2, <1>3, <1>4, <1>5, <1>6, AddIs
<1>8. TreeOk(u)
  BY <1>7 DEF EntrySet, TreeOk
<1>9. AfterAccess(u) /\ result' = NoValue /\ iter' = iter
  BY <1>1, <1>2, <1>3 DEF AddOrUpdate
<1>10. Untouched(u, tree') /\ accesses' \in 0 .. AccessLimit - 1
  BY <1>8, <1>9, AccessKeeps
<1>11. EntrySet(tree, tree', k, TRUE, v)
  BY <1>7, <1>10 DEF EntrySet, Untouched, Settled, SameEntries, EntryChanged
<1>12. RestOk
  BY <1>9, <1>10 DEF RestOk, IInv
<1>. QED
  BY <1>11, <1>12 DEF ChangedAt

\* Remove removes the entry of the key.
LEMMA RemoveStep ==
    ASSUME IInv, NEW k \in Keys, RemoveKey(k)
    PROVE  ChangedAt(k, FALSE, NoValue)
<1>1. PICK t : t = Descended(tree, k)
  OBVIOUS
<1>2. PICK e : e = Restrict(EntriesFor(t, k), DOMAIN EntriesFor(t, k) \ {k})
  OBVIOUS
<1>3. PICK u : u = Put(t, k, e)
  OBVIOUS
<1>4. PICK h, own : Grounded(tree, h, own) /\ FitsBut(tree, {})
  BY DEF IInv, TreeOk
<1>5. EntrySet(tree, u, k, FALSE, NoValue)
  BY <1>1, <1>2, <1>3, <1>4, RemoveIs
<1>6. tree' = u /\ result' = NoValue /\ accesses' = accesses /\ iter' = iter
  BY <1>1, <1>2, <1>3 DEF RemoveKey
<1>7. RestOk
  BY <1>6 DEF RestOk, IInv
<1>. QED
  BY <1>5, <1>6, <1>7 DEF ChangedAt

\* Write changes only the disk.
LEMMA WriteStep ==
    ASSUME IInv, Write
    PROVE  Kept
<1>1. PICK h, own : Grounded(tree, h, own) /\ FitsBut(tree, {})
  BY DEF IInv, TreeOk
<1>2. PICK u : u = Flushed(tree, tree.root)
  OBVIOUS
<1>3. SameTree(tree, h, own, u)
  BY <1>1, <1>2, WriteIs
<1>4. Untouched(tree, u)
  BY <1>3, SameSettled
<1>5. tree' = u /\ result' = NoValue /\ accesses' = accesses /\ iter' = iter
  BY <1>2 DEF Write
<1>6. RestOk
  BY <1>5 DEF RestOk, IInv
<1>. QED
  BY <1>4, <1>5, <1>6 DEF Kept

\* A later process finds the same tree: nothing was left to write.
LEMMA ReopenStep ==
    ASSUME IInv, Reopen
    PROVE  Kept
<1>1. PICK h, own : Grounded(tree, h, own) /\ FitsBut(tree, {})
  BY DEF IInv, TreeOk
<1>2. PICK t : t = tree
  OBVIOUS
<1>3. PICK mem : mem = [o \in {t.root} |-> t.disk[o]]
  OBVIOUS
<1>4. PICK u : u = Tree(t.root, mem, {}, t.disk)
  OBVIOUS
<1>5. u.root = t.root /\ u.mem = mem /\ u.dirty = {} /\ u.disk = t.disk
  BY <1>4, TreeIs
<1>6. t.dirty = {}
  BY <1>2 DEF Reopen
<1>7. Grounded(t, h, own) /\ Cached(t) /\ Rooted(t) /\ IsTree(NodesOf(t), t.root, h, own)
      /\ FitsBut(t, {})
  BY <1>1, <1>2 DEF Grounded
<1>8. t.root \in DOMAIN t.disk
  BY <1>7 DEF Rooted, Cached
<1>9. \A o \in DOMAIN t.disk : View(t, o) = t.disk[o]
  BY <1>6, <1>7 DEF Cached, View
<1>10. \A o \in DOMAIN t.disk : View(u, o) = t.disk[o]
  BY <1>3, <1>5 DEF View
<1>11. NodesOf(u) = NodesOf(t)
  BY <1>5, <1>9, <1>10 DEF NodesOf
<1>12. Cached(u)
  BY <1>3, <1>5, <1>7, <1>8 DEF Cached
<1>13. Rooted(u)
  BY <1>3, <1>5 DEF Rooted
<1>14. Grounded(u, h, own)
  BY <1>5, <1>7, <1>11, <1>12, <1>13 DEF Grounded
<1>15. FitsBut(u, {})
  BY <1>3, <1>5, <1>7, <1>8 DEF FitsBut
<1>16. Untouched(t, u)
  BY <1>5, <1>11, <1>14, <1>15 DEF Untouched, SameNodes, Settled, SameEntries
<1>17. tree' = u /\ result' = NoValue /\ accesses' = 0 /\ iter' = iter
  BY <1>2, <1>3, <1>4 DEF Reopen
<1>18. 0 \in 0 .. AccessLimit - 1
  <2>1. AccessLimit \in Nat \ {0}
    BY IndexAssumption
  <2>. QED
    BY <2>1
<1>19. RestOk
  BY <1>17, <1>18 DEF RestOk, IInv
<1>. QED
  BY <1>2, <1>16, <1>17, <1>19 DEF Kept

\* begin() reads the nodes it stands on.
LEMMA BeginStepKeeps ==
    ASSUME IInv, Begin
    PROVE  Kept
<1>1. TreeOk(tree)
  BY DEF IInv
<1>2. PICK h, own : IsTree(NodesOf(tree), tree.root, h, own)
  BY <1>1 DEF TreeOk, Grounded
<1>3. PICK pos : pos = BeginOf(tree, tree.root)
  OBVIOUS
<1>4. tree.root \in DOMAIN tree.disk
  BY <1>2, NodesAre
<1>5. IsPosition(pos)
  BY <1>2, <1>3, <1>4, BeginPosition
<1>6. PICK u : u = LoadedAll(tree, NodesOn(tree, pos))
  OBVIOUS
<1>7. pos \in Seq(Nat)
  BY <1>5 DEF IsPosition
<1>8. Untouched(tree, u)
  BY <1>1, <1>6, <1>7, LoadKeeps
<1>9. tree' = u /\ result' = NoValue /\ accesses' = accesses /\ iter' = [open |-> TRUE, pos |-> pos]
  BY <1>3, <1>6 DEF Begin
<1>10. RestOk
  BY <1>5, <1>7, <1>9 DEF RestOk, IInv
<1>. QED
  BY <1>8, <1>9, <1>10 DEF Kept

\* ++ reads the nodes it comes to and may clear the cache around it.
LEMMA AdvanceStep ==
    ASSUME IInv, Advance
    PROVE  Kept
<1>1. TreeOk(tree)
  BY DEF IInv
<1>2. PICK h, own : IsTree(NodesOf(tree), tree.root, h, own)
  BY <1>1 DEF TreeOk, Grounded
<1>3. PICK pos : pos = NextOf(tree, iter.pos)
  OBVIOUS
<1>4. PICK old : old = iter.pos
  OBVIOUS
<1>5. IsPosition(old)
  BY <1>4 DEF IInv, Advance
<1>6. IsPosition(pos)
  BY <1>2, <1>3, <1>4, <1>5, NextIs
<1>7. pos \in Seq(Nat)
  BY <1>6 DEF IsPosition
<1>8. PICK t : t = LoadedAll(tree, NodesOn(tree, pos))
  OBVIOUS
<1>9. Untouched(tree, t)
  BY <1>1, <1>7, <1>8, LoadKeeps
<1>10. TreeOk(t)
  BY <1>9, SettledOk DEF Untouched
<1>11. PICK u, P : P = NodesOn(t, pos) /\ u = Cleared(t, P)
  OBVIOUS
<1>12. P = {} \/ \E p \in Seq(Nat) : P = NodesOn(t, p)
  BY <1>7, <1>11
<1>13. Untouched(t, u)
  BY <1>10, <1>11, <1>12, ClearKeeps
<1>14. tree' = t \/ tree' = u
  BY <1>3, <1>8, <1>11 DEF Advance
<1>15. Untouched(tree, u)
  BY <1>9, <1>13, SettledThen
<1>16. Untouched(tree, tree')
  BY <1>9, <1>14, <1>15
<1>17. result' = NoValue /\ accesses' = accesses /\ iter' = [iter EXCEPT !.pos = pos]
  BY <1>3 DEF Advance
<1>18. iter' \in [open : BOOLEAN, pos : Seq(Nat)] /\ iter'.pos = pos
  BY <1>7, <1>17 DEF IInv
<1>19. RestOk
  BY <1>6, <1>17, <1>18 DEF RestOk, IInv
<1>. QED
  BY <1>16, <1>19 DEF Kept

\* The iterator is destroyed.
LEMMA CloseStep ==
    ASSUME IInv, Close
    PROVE  Kept
<1>1. /\ TreeOk(tree) /\ tree' = tree /\ accesses' = accesses
      /\ result' = NoValue /\ iter' = NoIterator
  BY DEF IInv, Close
<1>2. Untouched(tree, tree')
  BY <1>1, StillSettled
<1>3. NoIterator \in [open : BOOLEAN, pos : Seq(Nat)] /\ ~ NoIterator.open
  BY DEF NoIterator, NoPosition
<1>4. RestOk
  BY <1>1, <1>3 DEF RestOk, IInv
<1>. QED
  BY <1>2, <1>4 DEF Kept

\* Nothing happens.
LEMMA StutterStep ==
    ASSUME IInv, UNCHANGED vars
    PROVE  Kept
<1>1. TreeOk(tree) /\ tree' = tree /\ accesses' = accesses /\ result' = result /\ iter' = iter
  BY DEF IInv, vars
<1>2. Untouched(tree, tree')
  BY <1>1, StillSettled
<1>3. RestOk
  BY <1>1 DEF RestOk, IInv
<1>. QED
  BY <1>2, <1>3 DEF Kept

\* A step that keeps or changes the entries leaves the invariant true.
LEMMA KeptInv ==
    ASSUME Kept
    PROVE  IInv'
<1>1. TreeOk(tree')
  BY DEF Kept, Untouched, Settled, TreeOk
<1>. QED
  BY <1>1 DEF Kept, RestOk, IInv

\* The same for a step that changes an entry.
LEMMA ChangedInv ==
    ASSUME NEW k, NEW has, NEW v, ChangedAt(k, has, v)
    PROVE  IInv'
<1>1. TreeOk(tree')
  BY DEF ChangedAt, EntrySet, TreeOk
<1>. QED
  BY <1>1 DEF ChangedAt, RestOk, IInv

\* Every step keeps the invariant.
LEMMA StepHolds == IInv /\ [Next]_vars => IInv'
<1>. SUFFICES ASSUME IInv, [Next]_vars
              PROVE  IInv'
  OBVIOUS
<1>1. ASSUME NEW k \in Keys, Get(k) PROVE IInv'
  BY <1>1, GetStep, KeptInv
<1>2. ASSUME NEW k \in Keys, RemoveKey(k) PROVE IInv'
  BY <1>2, RemoveStep, ChangedInv
<1>3. ASSUME NEW k \in Keys, NEW v \in ValuesOf[k], AddOrUpdate(k, v) PROVE IInv'
  BY <1>3, AddStep, ChangedInv
<1>4. CASE Write
  BY <1>4, WriteStep, KeptInv
<1>5. CASE Reopen
  BY <1>5, ReopenStep, KeptInv
<1>6. CASE Begin
  BY <1>6, BeginStepKeeps, KeptInv
<1>7. CASE Advance
  BY <1>7, AdvanceStep, KeptInv
<1>8. CASE Close
  BY <1>8, CloseStep, KeptInv
<1>9. CASE UNCHANGED vars
  BY <1>9, StutterStep, KeptInv
<1>. QED
  BY <1>1, <1>2, <1>3, <1>4, <1>5, <1>6, <1>7, <1>8, <1>9 DEF Next

\* The inductive invariant holds in every state that is reached.
THEOREM InductiveInvariant == Spec => []IInv
<1>. QED
  BY InitHolds, StepHolds, PTL DEF Spec

\* TypeOK: the root and every cached node are blocks in use, every modified
\* node is cached, and the counter of accesses stays below its limit.
LEMMA TypeFollows == IInv => TypeOK
<1>. SUFFICES ASSUME IInv
              PROVE  TypeOK
  OBVIOUS
<1>1. PICK h, own : Grounded(tree, h, own)
  BY DEF IInv, TreeOk
<1>2. Cached(tree) /\ Rooted(tree)
  BY <1>1 DEF Grounded
<1>3. /\ DOMAIN tree.disk \subseteq Offsets /\ DOMAIN tree.mem \subseteq DOMAIN tree.disk
      /\ tree.dirty \subseteq DOMAIN tree.mem /\ tree.root \in DOMAIN tree.mem
  BY <1>2 DEF Cached, Rooted
<1>. QED
  BY <1>3 DEF TypeOK, IInv

\* The root and every cached node are blocks in use, every modified node is
\* cached, and the counter of accesses stays below its limit.
THEOREM TypeCorrect == Spec => []TypeOK
<1>. QED
  BY InductiveInvariant, TypeFollows, PTL

------------------------------------------------------------------------------
(* The tree is well formed. *)

\* The children of the nodes lie lower.
LEMMA TreeFalls ==
    ASSUME NEW t, NEW h, NEW own, IsTree(NodesOf(t), t.root, h, own)
    PROVE  Falling(Kids(t), h, h[t.root]) /\ DOMAIN Kids(t) = DOMAIN t.disk
<1>1. DOMAIN Kids(t) = DOMAIN t.disk /\ \A o \in DOMAIN t.disk : Kids(t)[o] = ToSet(View(t, o).kids)
  BY DEF Kids
<1>2. h \in [DOMAIN t.disk -> Nat] /\ t.root \in DOMAIN t.disk
      /\ \A o \in DOMAIN t.disk : h[o] =< h[t.root]
  BY NodesOfIs DEF IsTree, Typed
<1>3. \A o \in DOMAIN t.disk : \A c \in Kids(t)[o] : c \in DOMAIN t.disk /\ h[c] < h[o]
  <2>. TAKE o \in DOMAIN t.disk
  <2>1. KidsOf(t, h, own, o)
    BY KidIs
  <2>. QED
    BY <2>1, <1>1 DEF KidsOf
<1>. QED
  BY <1>1, <1>2, <1>3 DEF Falling

\* Every block in use is a node of the tree.
LEMMA AllNodes ==
    ASSUME NEW t, NEW h, NEW own, IsTree(NodesOf(t), t.root, h, own)
    PROVE  Below(Kids(t), t.root) = DOMAIN t.disk
<1>1. PICK kids : kids = Kids(t)
  OBVIOUS
<1>2. Falling(kids, h, h[t.root]) /\ DOMAIN kids = DOMAIN t.disk
  BY <1>1, TreeFalls
<1>3. PICK N : N = NodesOf(t)
  OBVIOUS
<1>4. DOMAIN N = DOMAIN t.disk /\ \A o \in DOMAIN t.disk : N[o] = View(t, o)
  BY <1>3, NodesOfIs
<1>5. Parented(N, t.root) /\ t.root \in DOMAIN N
  BY <1>3 DEF IsTree, Typed
<1>6. \A x \in DOMAIN kids \ {t.root} : \E o \in DOMAIN kids : x \in kids[o]
  <2>. TAKE x \in DOMAIN kids \ {t.root}
  <2>1. PICK o \in DOMAIN N : \E i \in DOMAIN N[o].kids : N[o].kids[i] = x
    BY <1>2, <1>4, <1>5 DEF Parented
  <2>2. KidsOf(t, h, own, o) /\ o \in DOMAIN t.disk
    BY <2>1, <1>4, KidIs
  <2>3. x \in ToSet(View(t, o).kids)
    BY <2>1, <2>2, <1>4 DEF KidsOf
  <2>. QED
    BY <2>2, <2>3, <1>1, <1>2 DEF Kids
<1>7. Below(kids, t.root) = DOMAIN kids
  BY <1>2, <1>4, <1>5, <1>6, BelowAll
<1>. QED
  BY <1>1, <1>2, <1>7

\* The keys below a node are among those that belong to it.
LEMMA KeysOwned ==
    ASSUME NEW t, NEW h, NEW own, IsTree(NodesOf(t), t.root, h, own), NEW o \in DOMAIN t.disk
    PROVE  KeysBelow(t, o) \subseteq own[o]
<1>1. PICK kids : kids = Kids(t)
  OBVIOUS
<1>2. Falling(kids, h, h[t.root]) /\ DOMAIN kids = DOMAIN t.disk
  BY <1>1, TreeFalls
<1>3. PICK S : S = {x \in DOMAIN t.disk : own[x] \subseteq own[o]}
  OBVIOUS
<1>4. \A y \in S \cap DOMAIN kids : kids[y] \subseteq S
  <2>. TAKE y \in S \cap DOMAIN kids
  <2>1. KidsOf(t, h, own, y) /\ own[y] \subseteq own[o]
    BY <1>2, <1>3, KidIs
  <2>2. kids[y] = ToSet(View(t, y).kids)
    BY <1>1, <1>2 DEF Kids
  <2>3. \A c \in kids[y] : c \in DOMAIN t.disk /\ own[c] \subseteq own[y]
    BY <2>1, <2>2 DEF KidsOf
  <2>. QED
    BY <2>1, <2>3, <1>3
<1>5. Below(kids, o) \subseteq S
  BY <1>2, <1>3, <1>4, BelowLeast
<1>6. PICK N : N = NodesOf(t)
  OBVIOUS
<1>7. DOMAIN N = DOMAIN t.disk /\ \A x \in DOMAIN t.disk : N[x] = View(t, x)
  BY <1>6, NodesOfIs
<1>8. \A x \in S : LeafKeys(View(t, x)) \subseteq own[o]
  <2>. TAKE x \in S
  <2>1. IsNode(View(t, x))
    BY <1>3, NodesAre
  <2>2. ~ View(t, x).leaf => LeafKeys(View(t, x)) = {}
    BY <2>1, NodeIs
  <2>3. View(t, x).leaf => LeafKeys(View(t, x)) \subseteq own[x]
    BY <1>3, <1>6, <1>7 DEF IsTree, LeavesOk
  <2>4. own[x] \subseteq own[o]
    BY <1>3
  <2>. QED
    BY <2>2, <2>3, <2>4
<1>. QED
  BY <1>1, <1>5, <1>8 DEF KeysBelow

\* The separators of an inner node are around the keys below its children.
LEMMA SeparatesKids ==
    ASSUME NEW t, NEW h, NEW own, IsTree(NodesOf(t), t.root, h, own),
           NEW o \in DOMAIN t.disk, NEW node, node = View(t, o), ~ node.leaf,
           NEW i \in DOMAIN node.kids, NEW k \in KeysBelow(t, node.kids[i])
    PROVE  (i > 1 => node.keys[i - 1] < k) /\ (i <= Len(node.keys) => k <= node.keys[i])
<1>1. PICK N, c : N = NodesOf(t) /\ c = node.kids[i]
  OBVIOUS
<1>2. DOMAIN N = DOMAIN t.disk /\ N[o] = node
  BY <1>1, NodesOfIs
<1>3. c \in DOMAIN N /\ IsLink(N, h, own, o, i, c)
  BY <1>1, <1>2 DEF IsTree, LinksOk
<1>4. k \in own[c] /\ own[c] \in SUBSET Keys
  BY <1>1, <1>2, <1>3, KeysOwned, NodesAre
<1>5. k \in Keys /\ k \in Nat
  BY <1>4, IndexAssumption
<1>6. ChildIndex(node, k) = i
  BY <1>2, <1>3, <1>4, <1>5 DEF IsLink
<1>7. IsInner(node)
  BY NodesAre, NodeIs
<1>8. i \in 1 .. Len(node.keys) + 1
  BY <1>7, InnerParts
<1>. QED
  BY <1>5, <1>6, <1>7, <1>8, ChildIndexAt

\* An inner node has a child more than keys.
LEMMA InnerKids ==
    ASSUME NEW n, IsNode(n), ~ n.leaf
    PROVE  Len(n.kids) = Len(n.keys) + 1
BY NodeIs DEF IsInner

\* Different nodes have different children.
LEMMA KidsApart ==
    ASSUME NEW t, NEW h, NEW own, IsTree(NodesOf(t), t.root, h, own),
           NEW o \in DOMAIN t.disk, NEW p \in DOMAIN t.disk, o # p
    PROVE  ToSet(View(t, o).kids) \cap ToSet(View(t, p).kids) = {}
<1>1. PICK N : N = NodesOf(t)
  OBVIOUS
<1>2. DOMAIN N = DOMAIN t.disk /\ \A x \in DOMAIN t.disk : N[x] = View(t, x)
  BY <1>1, NodesOfIs
<1>3. OneParent(N)
  BY <1>1 DEF IsTree
<1>4. KidsOf(t, h, own, o) /\ KidsOf(t, h, own, p)
  BY KidIs
<1>5. /\ ToSet(View(t, o).kids) = {View(t, o).kids[i] : i \in DOMAIN View(t, o).kids}
      /\ ToSet(View(t, p).kids) = {View(t, p).kids[i] : i \in DOMAIN View(t, p).kids}
  BY <1>4 DEF KidsOf
<1>6. \A i \in DOMAIN View(t, o).kids : \A j \in DOMAIN View(t, p).kids :
        View(t, o).kids[i] # View(t, p).kids[j]
  BY <1>2, <1>3 DEF OneParent
<1>. QED
  BY <1>5, <1>6

\* The invariant says that the tree is well formed.
LEMMA FormFollows == IInv => WellFormed
<1>. SUFFICES ASSUME IInv
              PROVE  WellFormed
  OBVIOUS
<1>1. PICK h, own : Grounded(tree, h, own) /\ FitsBut(tree, {})
  BY DEF IInv, TreeOk
<1>2. IsTree(NodesOf(tree), tree.root, h, own)
  BY <1>1 DEF Grounded
<1>3. Nodes = DOMAIN tree.disk
  BY <1>2, AllNodes DEF Nodes
<1>4. Separated
  <2>. SUFFICES ASSUME NEW o \in Nodes, ~ View(tree, o).leaf
                PROVE  LET node == View(tree, o) IN
                       /\ Len(node.kids) = Len(node.keys) + 1
                       /\ \A i \in DOMAIN node.kids : \A k \in KeysBelow(tree, node.kids[i]) :
                            /\ i > 1 => node.keys[i - 1] < k
                            /\ i <= Len(node.keys) => k <= node.keys[i]
    BY DEF Separated
  <2>1. IsNode(View(tree, o)) /\ o \in DOMAIN tree.disk
    BY <1>2, <1>3, NodesAre
  <2>2. Len(View(tree, o).kids) = Len(View(tree, o).keys) + 1
    BY <2>1, InnerKids
  <2>3. PICK node : node = View(tree, o)
    OBVIOUS
  <2>4. \A i \in DOMAIN node.kids : \A k \in KeysBelow(tree, node.kids[i]) :
            (i > 1 => node.keys[i - 1] < k) /\ (i <= Len(node.keys) => k <= node.keys[i])
    BY <2>1, <2>3, <1>2, SeparatesKids
  <2>. QED
    BY <2>2, <2>3, <2>4
<1>5. NodesFit
  BY <1>1 DEF NodesFit, FitsBut
<1>6. NodesOwned
  BY <1>2, <1>3, KidsApart DEF NodesOwned
<1>. QED
  BY <1>4, <1>5, <1>6 DEF WellFormed

\* After any sequence of operations keys are found on the way their separators
\* point, every node fits in its block, and the blocks in use are the nodes.
THEOREM WellFormedTree == Spec => []WellFormed
<1>. QED
  BY InductiveInvariant, FormFollows, PTL

------------------------------------------------------------------------------
(* The index is a map. *)

\* Contents, of the tree t.
ContentsOf(t) ==
    LET nodes == {View(t, o) : o \in Below(Kids(t), t.root)}
    IN  [k \in UNION {LeafKeys(n) : n \in nodes} |->
            (CHOOSE n \in nodes : k \in LeafKeys(n)).entries[k]]

\* m is a function that has the entries of the nodes N.
IsView(m, N) ==
    /\ m = [k \in DOMAIN m |-> m[k]]
    /\ \A k, v : Holds(N, k, v) <=> k \in DOMAIN m /\ m[k] = v

\* A key is in one node at most.
LEMMA KeyInOne ==
    ASSUME NEW t, NEW h, NEW own, IsTree(NodesOf(t), t.root, h, own),
           NEW o \in DOMAIN t.disk, NEW p \in DOMAIN t.disk, NEW k,
           k \in LeafKeys(View(t, o)), k \in LeafKeys(View(t, p))
    PROVE  o = p
<1>1. PICK N : N = NodesOf(t)
  OBVIOUS
<1>2. DOMAIN N = DOMAIN t.disk /\ \A x \in DOMAIN t.disk : N[x] = View(t, x)
  BY <1>1, NodesOfIs
<1>3. \A x \in DOMAIN N : k \in LeafKeys(N[x]) => N[x].leaf /\ k \in own[x]
  <2>. TAKE x \in DOMAIN N
  <2>1. IsNode(N[x])
    BY <1>1 DEF IsTree, Typed
  <2>2. ~ N[x].leaf => LeafKeys(N[x]) = {}
    BY <2>1, NodeIs
  <2>3. N[x].leaf => \A j \in LeafKeys(N[x]) : j \in own[x]
    BY <1>1 DEF IsTree, LeavesOk
  <2>. QED
    BY <2>2, <2>3
<1>4. LeavesApart(N, own)
  BY <1>1 DEF IsTree
<1>. QED
  BY <1>2, <1>3, <1>4 DEF LeavesApart

\* The contents are the entries of the nodes.
LEMMA ContentsAre ==
    ASSUME NEW t, NEW h, NEW own, IsTree(NodesOf(t), t.root, h, own)
    PROVE  IsView(ContentsOf(t), NodesOf(t))
<1>1. PICK N : N = NodesOf(t)
  OBVIOUS
<1>2. DOMAIN N = DOMAIN t.disk /\ \A x \in DOMAIN t.disk : N[x] = View(t, x)
  BY <1>1, NodesOfIs
<1>3. PICK nodes : nodes = {View(t, o) : o \in DOMAIN t.disk}
  OBVIOUS
<1>4. Below(Kids(t), t.root) = DOMAIN t.disk
  BY AllNodes
<1>5. PICK m : m = ContentsOf(t)
  OBVIOUS
<1>6. m = [k \in UNION {LeafKeys(n) : n \in nodes} |->
            (CHOOSE n \in nodes : k \in LeafKeys(n)).entries[k]]
  BY <1>3, <1>4, <1>5 DEF ContentsOf
<1>7. m = [k \in DOMAIN m |-> m[k]]
  BY <1>6
<1>8. \A k : k \in DOMAIN m <=> \E o \in DOMAIN t.disk : k \in LeafKeys(View(t, o))
  BY <1>3, <1>6
<1>9. \A o \in DOMAIN t.disk : \A k \in LeafKeys(View(t, o)) : m[k] = View(t, o).entries[k]
  <2>. TAKE o \in DOMAIN t.disk
  <2>. TAKE k \in LeafKeys(View(t, o))
  <2>1. PICK n : n = CHOOSE x \in nodes : k \in LeafKeys(x)
    OBVIOUS
  <2>2. View(t, o) \in nodes
    BY <1>3
  <2>3. n \in nodes /\ k \in LeafKeys(n)
    BY <2>1, <2>2
  <2>4. PICK p \in DOMAIN t.disk : n = View(t, p)
    BY <2>3, <1>3
  <2>5. p = o
    BY <2>3, <2>4, KeyInOne
  <2>6. m[k] = n.entries[k]
    BY <2>1, <1>6, <1>8
  <2>. QED
    BY <2>4, <2>5, <2>6
<1>10. \A k, v : Holds(N, k, v) <=> k \in DOMAIN m /\ m[k] = v
  BY <1>2, <1>8, <1>9 DEF Holds
<1>. QED
  BY <1>1, <1>5, <1>7, <1>10 DEF IsView

\* The same entries are the same map.
LEMMA SameMap ==
    ASSUME NEW m, NEW N, NEW m2, NEW M, IsView(m, N), IsView(m2, M), SameEntries(N, M)
    PROVE  m2 = m
<1>1. m = [k \in DOMAIN m |-> m[k]] /\ m2 = [k \in DOMAIN m2 |-> m2[k]]
  BY DEF IsView
<1>2. \A k, v : k \in DOMAIN m2 /\ m2[k] = v <=> k \in DOMAIN m /\ m[k] = v
  BY DEF IsView, SameEntries
<1>3. DOMAIN m2 = DOMAIN m
  BY <1>2
<1>4. \A k \in DOMAIN m : m2[k] = m[k]
  BY <1>2
<1>. QED
  BY <1>1, <1>3, <1>4

\* M has v for k and, for other keys, what N has.
EntryPut(N, M, k, v) == EntryChanged(N, M, k, TRUE, v)

\* The map m with the value v for k.
WithEntry(m, k, v) == [x \in DOMAIN m \cup {k} |-> IF x = k THEN v ELSE m[x]]

\* One entry is set.
LEMMA SetMap ==
    ASSUME NEW m, NEW N, NEW m2, NEW M, IsView(m, N), IsView(m2, M), NEW k, NEW v,
           EntryPut(N, M, k, v)
    PROVE  m2 = WithEntry(m, k, v)
<1>1. m2 = [x \in DOMAIN m2 |-> m2[x]]
  BY DEF IsView
<1>2. \A x, w : x \in DOMAIN m2 /\ m2[x] = w
                    <=> IF x = k THEN w = v ELSE x \in DOMAIN m /\ m[x] = w
  BY DEF IsView, EntryPut, EntryChanged
<1>3. DOMAIN m2 = DOMAIN m \cup {k}
  BY <1>2
<1>4. \A x \in DOMAIN m2 : m2[x] = IF x = k THEN v ELSE m[x]
  BY <1>2
<1>. QED
  BY <1>1, <1>3, <1>4 DEF WithEntry

\* One entry is removed.
LEMMA RemoveMap ==
    ASSUME NEW m, NEW N, NEW m2, NEW M, IsView(m, N), IsView(m2, M), NEW k, NEW v,
           EntryChanged(N, M, k, FALSE, v)
    PROVE  m2 = Restrict(m, DOMAIN m \ {k})
<1>1. m2 = [x \in DOMAIN m2 |-> m2[x]]
  BY DEF IsView
<1>2. \A x, w : x \in DOMAIN m2 /\ m2[x] = w <=> x # k /\ x \in DOMAIN m /\ m[x] = w
  BY DEF IsView, EntryChanged
<1>3. DOMAIN m2 = DOMAIN m \ {k}
  BY <1>2
<1>4. \A x \in DOMAIN m2 : m2[x] = m[x]
  BY <1>2
<1>. QED
  BY <1>1, <1>3, <1>4 DEF Restrict

\* The contents in the invariant's states.
ContentsOk == IsView(Contents, NodesOf(tree))

\* The contents are a function with the entries of the nodes.
LEMMA ContentsFollow == IInv => ContentsOk
<1>. SUFFICES ASSUME IInv
              PROVE  ContentsOk
  OBVIOUS
<1>1. PICK h, own : IsTree(NodesOf(tree), tree.root, h, own)
  BY DEF IInv, TreeOk, Grounded
<1>2. IsView(ContentsOf(tree), NodesOf(tree))
  BY <1>1, ContentsAre
<1>3. Contents = ContentsOf(tree)
  BY DEF Contents, ContentsOf, Nodes
<1>. QED
  BY <1>2, <1>3 DEF ContentsOk

\* What is kept is the same map.
LEMMA KeptMap ==
    ASSUME Kept, ContentsOk, ContentsOk'
    PROVE  Contents' = Contents
<1>1. IsView(Contents, NodesOf(tree)) /\ IsView(Contents', NodesOf(tree'))
  BY DEF ContentsOk, NodesOf, View
<1>2. SameEntries(NodesOf(tree), NodesOf(tree'))
  BY DEF Kept, Untouched, Settled
<1>. QED
  BY <1>1, <1>2, SameMap

\* What Get returns is the value of the key in the map.
LEMMA GetMap ==
    ASSUME IInv, ContentsOk, NEW k \in Keys, Get(k)
    PROVE  result' = IF k \in DOMAIN Contents THEN Contents[k] ELSE NoValue
<1>1. PICK t, e : t = Descended(tree, k) /\ e = EntriesFor(t, k)
  OBVIOUS
<1>2. Untouched(tree, t)
  BY <1>1, DescendKeeps DEF IInv
<1>3. PICK h, own : IsTree(NodesOf(t), t.root, h, own)
  BY <1>2 DEF Untouched, Settled, Grounded
<1>4. \A v : Holds(NodesOf(t), k, v) <=> k \in DOMAIN e /\ e[k] = v
  BY <1>1, <1>3, LeafHolds
<1>5. \A v : Holds(NodesOf(t), k, v) <=> k \in DOMAIN Contents /\ Contents[k] = v
  BY <1>2 DEF Untouched, Settled, SameEntries, ContentsOk, IsView
<1>6. k \in DOMAIN e <=> k \in DOMAIN Contents
  BY <1>4, <1>5
<1>7. k \in DOMAIN e => e[k] = Contents[k]
  BY <1>4, <1>5
<1>8. result' = IF k \in DOMAIN e THEN e[k] ELSE NoValue
  BY <1>1 DEF Get
<1>. QED
  BY <1>6, <1>7, <1>8

\* AddOrUpdate sets the value of the key in the map.
LEMMA AddMap ==
    ASSUME ContentsOk, ContentsOk', NEW k, NEW v, ChangedAt(k, TRUE, v)
    PROVE  Contents' = WithEntry(Contents, k, v)
<1>1. IsView(Contents, NodesOf(tree)) /\ IsView(Contents', NodesOf(tree'))
  BY DEF ContentsOk, NodesOf, View
<1>2. EntryPut(NodesOf(tree), NodesOf(tree'), k, v)
  BY DEF ChangedAt, EntrySet, EntryPut
<1>. QED
  BY <1>1, <1>2, SetMap

\* Remove removes the key from the map.
LEMMA DropMap ==
    ASSUME ContentsOk, ContentsOk', NEW k, NEW v, ChangedAt(k, FALSE, v)
    PROVE  Contents' = Restrict(Contents, DOMAIN Contents \ {k})
<1>1. IsView(Contents, NodesOf(tree)) /\ IsView(Contents', NodesOf(tree'))
  BY DEF ContentsOk, NodesOf, View
<1>2. EntryChanged(NodesOf(tree), NodesOf(tree'), k, FALSE, v)
  BY DEF ChangedAt, EntrySet
<1>. QED
  BY <1>1, <1>2, RemoveMap

\* The map is empty at first.
LEMMA MapInit == Init => Map!Init
<1>. SUFFICES ASSUME Init
              PROVE  Map!Init
  OBVIOUS
<1>1. IsView(Contents, NodesOf(tree))
  BY InitHolds, ContentsFollow DEF ContentsOk
<1>2. PICK empty : empty = Leaf([k \in {} |-> NoValue])
  OBVIOUS
<1>3. tree = Tree(1, [o \in {1} |-> empty], {}, [o \in {1} |-> empty])
  BY <1>2 DEF Init
<1>4. tree.mem = [o \in {1} |-> empty] /\ tree.disk = [o \in {1} |-> empty]
  BY <1>3, TreeIs
<1>5. LeafKeys(empty) = {}
  BY <1>2, LeafIs
<1>6. DOMAIN NodesOf(tree) = {1} /\ NodesOf(tree)[1] = empty
  BY <1>4 DEF NodesOf, View
<1>7. \A k, v : ~ Holds(NodesOf(tree), k, v)
  BY <1>5, <1>6 DEF Holds
<1>8. DOMAIN Contents = {} /\ Contents = [k \in DOMAIN Contents |-> Contents[k]]
  BY <1>1, <1>7 DEF IsView
<1>9. Contents = [k \in {} |-> NoValue]
  BY <1>8
<1>10. result = NoValue
  BY DEF Init
<1>. QED
  BY <1>9, <1>10 DEF Map!Init

\* Every step is a step of the map or leaves it and the result alone.
LEMMA MapStep == IInv /\ ContentsOk /\ ContentsOk' /\ [Next]_vars => [Map!Next]_(Map!vars)
<1>. SUFFICES ASSUME IInv, ContentsOk, ContentsOk', [Next]_vars
              PROVE  [Map!Next]_(Map!vars)
  OBVIOUS
<1>1. ASSUME NEW k \in Keys, Get(k) PROVE Map!Get(k)
  <2>1. Contents' = Contents
    BY <1>1, GetStep, KeptMap
  <2>2. result' = IF k \in DOMAIN Contents THEN Contents[k] ELSE NoValue
    BY <1>1, GetMap
  <2>. QED
    BY <2>1, <2>2 DEF Map!Get, Map!Lookup
<1>2. ASSUME NEW k \in Keys, RemoveKey(k) PROVE Map!Remove(k)
  <2>1. Contents' = Restrict(Contents, DOMAIN Contents \ {k})
    BY <1>2, RemoveStep, DropMap
  <2>2. result' = NoValue
    BY <1>2 DEF RemoveKey
  <2>. QED
    BY <2>1, <2>2 DEF Map!Remove, Map!Restrict, Restrict
<1>3. ASSUME NEW k \in Keys, NEW v \in ValuesOf[k], AddOrUpdate(k, v)
      PROVE  v \in Values /\ Map!Set(k, v)
  <2>1. Contents' = WithEntry(Contents, k, v)
    BY <1>3, AddStep, AddMap
  <2>2. result' = NoValue
    BY <1>3 DEF AddOrUpdate
  <2>3. v \in Values
    BY IndexAssumption
  <2>. QED
    BY <2>1, <2>2, <2>3 DEF Map!Set, WithEntry
<1>4. ASSUME Kept, result' = NoValue PROVE Map!Other
  <2>1. Contents' = Contents
    BY <1>4, KeptMap
  <2>. QED
    BY <2>1, <1>4 DEF Map!Other
<1>5. CASE Write
  BY <1>5, <1>4, WriteStep DEF Write, Map!Next
<1>6. CASE Reopen
  BY <1>6, <1>4, ReopenStep DEF Reopen, Map!Next
<1>7. CASE Begin
  BY <1>7, <1>4, BeginStepKeeps DEF Begin, Map!Next
<1>8. CASE Advance
  BY <1>8, <1>4, AdvanceStep DEF Advance, Map!Next
<1>9. CASE Close
  BY <1>9, <1>4, CloseStep DEF Close, Map!Next
<1>10. CASE UNCHANGED vars
  <2>1. Contents' = Contents
    BY <1>10, StutterStep, KeptMap
  <2>2. result' = result
    BY <1>10 DEF vars
  <2>. QED
    BY <2>1, <2>2 DEF Map!vars
<1>11. CASE \E k \in Keys : Get(k) \/ RemoveKey(k) \/ \E v \in ValuesOf[k] : AddOrUpdate(k, v)
  <2>1. PICK k \in Keys : Get(k) \/ RemoveKey(k) \/ \E v \in ValuesOf[k] : AddOrUpdate(k, v)
    BY <1>11
  <2>2. Map!Get(k) \/ Map!Remove(k) \/ \E v \in Values : Map!Set(k, v)
    BY <2>1, <1>1, <1>2, <1>3
  <2>. QED
    BY <2>2 DEF Map!Next
<1>. QED
  BY <1>5, <1>6, <1>7, <1>8, <1>9, <1>10, <1>11 DEF Next

\* Splits, the cache and the disk are invisible: with the map that the nodes
\* hold, wherever they are, every behaviour of the index is one of a map.
THEOREM ImplementsIndexMap == Spec => ImplementsMap
<1>1. Spec => []ContentsOk
  BY InductiveInvariant, ContentsFollow, PTL
<1>. QED
  BY <1>1, InductiveInvariant, MapInit, MapStep, PTL DEF Spec, ImplementsMap, Map!Spec

------------------------------------------------------------------------------
(* The way of an iterator: the nodes that its position leads through.      *)

\* Trees with the same nodes look the same.
LEMMA SameViews ==
    ASSUME NEW t, NEW u, SameNodes(t, u)
    PROVE  /\ u.root = t.root /\ DOMAIN u.disk = DOMAIN t.disk
           /\ \A o \in DOMAIN t.disk : View(u, o) = View(t, o)
<1>1. u.root = t.root /\ NodesOf(u) = NodesOf(t)
  BY DEF SameNodes
<1>2. DOMAIN u.disk = DOMAIN t.disk
  BY <1>1, NodesOfIs
<1>3. \A o \in DOMAIN t.disk : View(u, o) = View(t, o)
  BY <1>1, <1>2, NodesOfIs
<1>. QED
  BY <1>1, <1>2, <1>3

\* Positions whose first m steps are the same.
Agree(pos, qos, m) ==
    /\ pos \in Seq(Nat) /\ qos \in Seq(Nat) /\ m \in Nat /\ m =< Len(pos) /\ m =< Len(qos)
    /\ \A d \in 1 .. m : qos[d] = pos[d]

SameSteps(t, pos, u, qos, m) == \A d \in 0 .. m : Steps(u, qos)[d] = Steps(t, pos)[d]

\* They lead through the same nodes.
LEMMA StepsAgree ==
    ASSUME NEW t, NEW h, NEW own, IsTree(NodesOf(t), t.root, h, own),
           NEW u, SameNodes(t, u), NEW pos, NEW qos, NEW m, Agree(pos, qos, m)
    PROVE  SameSteps(t, pos, u, qos, m)
<1>0. /\ pos \in Seq(Nat) /\ qos \in Seq(Nat) /\ m \in Nat /\ m =< Len(pos) /\ m =< Len(qos)
      /\ \A d \in 1 .. m : qos[d] = pos[d]
  BY DEF Agree
<1>1. PICK s, r : s = Steps(t, pos) /\ r = Steps(u, qos)
  OBVIOUS
<1>2. PICK a \in Nat, b \in Nat : a = Len(pos) /\ b = Len(qos)
  BY <1>0
<1>3. \A d \in 0 .. a : s[d] = StepOf(t, pos, s, d)
  BY <1>1, <1>2, StepsExist
<1>4. \A d \in 0 .. b : r[d] = StepOf(u, qos, r, d)
  BY <1>1, <1>2, StepsExist
<1>5. \A d \in 0 .. a : s[d] \in DOMAIN t.disk
  BY <1>0, <1>1, <1>2, StepsIs DEF StepsAre
<1>6. u.root = t.root /\ \A o \in DOMAIN t.disk : View(u, o) = View(t, o)
  BY SameViews
<1>7. PICK S : S = {d \in 0 .. m : r[d] # s[d]}
  OBVIOUS
<1>8. CASE S = {}
  BY <1>1, <1>7, <1>8 DEF SameSteps
<1>9. CASE S # {}
  <2>1. S \in SUBSET Nat
    BY <1>0, <1>7
  <2>2. PICK n \in S : \A x \in S : n =< x
    BY <2>1, <1>9, LeastNatural
  <2>3. n \in 0 .. m /\ r[n] # s[n] /\ n \in 0 .. a /\ n \in 0 .. b /\ m \in Nat
    BY <2>2, <1>0, <1>2, <1>7
  <2>4. r[n] = StepOf(u, qos, r, n) /\ s[n] = StepOf(t, pos, s, n)
    BY <2>3, <1>3, <1>4
  <2>5. n # 0
    <3>1. ASSUME n = 0 PROVE r[n] = s[n]
      BY <3>1, <2>4, <1>6 DEF StepOf
    <3>. QED
      BY <3>1, <2>3
  <2>6. n - 1 \in 0 .. m /\ n - 1 \in 0 .. a /\ n \in 1 .. m /\ ~ (n =< n - 1)
    BY <2>3, <2>5
  <2>7. n - 1 \notin S
    BY <2>2, <2>6
  <2>8. r[n - 1] = s[n - 1] /\ qos[n] = pos[n]
    BY <2>6, <2>7, <1>0, <1>7
  <2>9. View(u, s[n - 1]) = View(t, s[n - 1])
    BY <2>6, <1>5, <1>6
  <2>10. StepOf(u, qos, r, n) = StepOf(t, pos, s, n)
    BY <2>5, <2>8, <2>9 DEF StepOf
  <2>. QED
    BY <2>3, <2>4, <2>10
<1>. QED
  BY <1>8, <1>9

\* A position stands in a leaf: it names a child in each inner node.
Path(t, pos) ==
    /\ IsPosition(pos)
    /\ \A d \in 1 .. Len(pos) - 1 : pos[d] \in DOMAIN View(t, Steps(t, pos)[d - 1]).kids
    /\ View(t, Steps(t, pos)[Len(pos) - 1]).leaf

\* The nodes s of a path of n steps, and the keys that belong to each.
Follows(t, own, pos, s, d) ==
    /\ s[d - 1] \in DOMAIN t.disk /\ IsInner(View(t, s[d - 1]))
    /\ pos[d] \in DOMAIN View(t, s[d - 1]).kids
    /\ s[d] = View(t, s[d - 1]).kids[pos[d]]
    /\ \A k \in Keys :
        k \in own[s[d]] <=> k \in own[s[d - 1]] /\ ChildIndex(View(t, s[d - 1]), k) = pos[d]

IsPath(t, own, pos, s, n) ==
    /\ n = Len(pos) /\ n \in Nat /\ n > 0 /\ pos \in Seq(Nat) /\ s = Steps(t, pos)
    /\ \A d \in 0 .. n : s[d] \in DOMAIN t.disk
    /\ s[0] = t.root /\ s[n] = s[n - 1] /\ View(t, s[n]).leaf
    /\ \A d \in 1 .. n - 1 : Follows(t, own, pos, s, d)

\* A leaf has no children.
LEMMA LeafKids ==
    ASSUME NEW n, IsNode(n), n.leaf
    PROVE  DOMAIN n.kids = {}
BY NodeIs

\* A node with children is an inner node.
LEMMA WithKids ==
    ASSUME NEW n, IsNode(n), n.kids # <<>>
    PROVE  IsInner(n)
BY NodeIs

\* A step to a child leads to the keys between its separators.
LEMMA StepFollows ==
    ASSUME NEW t, NEW h, NEW own, IsTree(NodesOf(t), t.root, h, own), NEW pos \in Seq(Nat),
           NEW s, s = Steps(t, pos), NEW d \in Nat, d > 0, d =< Len(pos),
           pos[d] \in DOMAIN View(t, s[d - 1]).kids
    PROVE  Follows(t, own, pos, s, d)
<1>1. PICK n \in Nat : n = Len(pos)
  OBVIOUS
<1>2. d \in 0 .. n /\ d - 1 \in 0 .. n /\ d # 0
  BY <1>1
<1>3. s[d] = StepOf(t, pos, s, d)
  BY <1>1, <1>2, StepsExist
<1>4. PICK o, i : o = s[d - 1] /\ i = pos[d]
  OBVIOUS
<1>5. o \in DOMAIN t.disk
  BY <1>1, <1>2, <1>4, StepsIs DEF StepsAre
<1>6. IsNode(View(t, o))
  BY <1>5, NodesAre
<1>7. IsInner(View(t, o))
  BY <1>4, <1>6, LeafKids, NodeIs
<1>8. s[d] = View(t, o).kids[i]
  BY <1>2, <1>3, <1>4 DEF StepOf
<1>9. PICK N : N = NodesOf(t)
  OBVIOUS
<1>10. DOMAIN N = DOMAIN t.disk /\ N[o] = View(t, o)
  BY <1>5, <1>9, NodesOfIs
<1>11. IsLink(N, h, own, o, i, s[d])
  BY <1>4, <1>5, <1>8, <1>9, <1>10 DEF IsTree, LinksOk
<1>12. \A k \in Keys : k \in own[s[d]] <=> k \in own[o] /\ ChildIndex(View(t, o), k) = i
  BY <1>10, <1>11 DEF IsLink
<1>. QED
  BY <1>4, <1>5, <1>7, <1>8, <1>12 DEF Follows

\* In a leaf a position goes no further.
LEMMA LeafStays ==
    ASSUME NEW t, NEW h, NEW own, IsTree(NodesOf(t), t.root, h, own), NEW pos \in Seq(Nat),
           NEW s, s = Steps(t, pos), NEW d \in Nat, d > 0, d =< Len(pos), View(t, s[d - 1]).leaf
    PROVE  s[d] = s[d - 1] /\ s[d] \in DOMAIN t.disk
<1>1. PICK n \in Nat : n = Len(pos)
  OBVIOUS
<1>2. d \in 0 .. n /\ d - 1 \in 0 .. n /\ d # 0
  BY <1>1
<1>3. s[d] = StepOf(t, pos, s, d)
  BY <1>1, <1>2, StepsExist
<1>4. s[d - 1] \in DOMAIN t.disk
  BY <1>1, <1>2, StepsIs DEF StepsAre
<1>5. DOMAIN View(t, s[d - 1]).kids = {}
  BY <1>4, LeafKids, NodesAre
<1>6. s[d] = s[d - 1]
  BY <1>2, <1>3, <1>5 DEF StepOf
<1>. QED
  BY <1>4, <1>6

\* The nodes of a path.
LEMMA PathIs ==
    ASSUME NEW t, NEW h, NEW own, IsTree(NodesOf(t), t.root, h, own), NEW pos, Path(t, pos)
    PROVE  IsPath(t, own, pos, Steps(t, pos), Len(pos))
<1>1. PICK n \in Nat : n = Len(pos)
  BY DEF Path, IsPosition
<1>2. PICK s : s = Steps(t, pos)
  OBVIOUS
<1>3. pos \in Seq(Nat) /\ n > 0
  BY <1>1 DEF Path, IsPosition
<1>4. /\ \A d \in 1 .. n - 1 : pos[d] \in DOMAIN View(t, s[d - 1]).kids
      /\ View(t, s[n - 1]).leaf
  BY <1>1, <1>2 DEF Path
<1>5. s[0] = t.root /\ \A d \in 0 .. n : s[d] \in DOMAIN t.disk
  BY <1>1, <1>2, <1>3, StepsIs DEF StepsAre
<1>6. n =< Len(pos)
  BY <1>1
<1>7. s[n] = s[n - 1]
  BY <1>2, <1>3, <1>4, <1>6, LeafStays
<1>8. View(t, s[n]).leaf
  BY <1>4, <1>7
<1>9. \A d \in 1 .. n - 1 : Follows(t, own, pos, s, d)
  <2>. TAKE d \in 1 .. n - 1
  <2>1. d \in Nat /\ d > 0 /\ d =< Len(pos)
    BY <1>1
  <2>2. pos[d] \in DOMAIN View(t, s[d - 1]).kids
    BY <1>4
  <2>. QED
    BY <2>1, <2>2, <1>2, <1>3, StepFollows
<1>. QED
  BY <1>1, <1>2, <1>3, <1>5, <1>7, <1>8, <1>9 DEF IsPath

------------------------------------------------------------------------------
(* begin() leads to the leaf with the first keys.                          *)

\* Two sequences after each other.
Joined(c, r, p) ==
    /\ p \in Seq(Nat) /\ Len(p) = Len(c) + Len(r)
    /\ \A i \in 1 .. Len(c) : p[i] = c[i]
    /\ \A i \in 1 .. Len(r) : p[Len(c) + i] = r[i]

\* Concatenation is that.
LEMMA JoinedIs ==
    ASSUME NEW c \in Seq(Nat), NEW r \in Seq(Nat), NEW p, p = c \o r
    PROVE  Joined(c, r, p)
<1>1. PICK a \in Nat, b \in Nat : a = Len(c) /\ b = Len(r)
  OBVIOUS
<1>2. /\ p \in Seq(Nat) /\ Len(p) = a + b
      /\ \A i \in 1 .. a + b : p[i] = IF i <= a THEN c[i] ELSE r[i - a]
  BY <1>1, ConcatProperties
<1>3. \A i \in 1 .. a : p[i] = c[i]
  <2>. TAKE i \in 1 .. a
  <2>1. i \in 1 .. a + b /\ i <= a
    OBVIOUS
  <2>. QED
    BY <2>1, <1>2
<1>4. \A i \in 1 .. b : p[a + i] = r[i]
  <2>. TAKE i \in 1 .. b
  <2>1. a + i \in 1 .. a + b /\ ~ (a + i <= a) /\ (a + i) - a = i
    OBVIOUS
  <2>2. p[a + i] = r[(a + i) - a]
    BY <2>1, <1>2
  <2>. QED
    BY <2>1, <2>2
<1>. QED
  BY <1>1, <1>2, <1>3, <1>4 DEF Joined

\* A greater key leads to the same child or to a later one.
LEMMA ChildIndexGrows ==
    ASSUME NEW n, IsInner(n), NEW k \in Nat, NEW j \in Nat, k =< j
    PROVE  ChildIndex(n, k) =< ChildIndex(n, j)
<1>1. PICK a, b : a = ChildIndex(n, k) /\ b = ChildIndex(n, j)
  OBVIOUS
<1>2. PICK len \in Nat : len = Len(n.keys)
  BY InnerParts
<1>3. a \in 1 .. len + 1 /\ b \in 1 .. len + 1
  BY <1>1, <1>2, ChildIndexType, InnerParts
<1>4. CASE a =< b
  BY <1>1, <1>4
<1>5. CASE ~ (a =< b)
  <2>1. a > 1 /\ b =< len /\ a - 1 \in 1 .. len /\ b \in 1 .. len /\ b =< a - 1
    BY <1>3, <1>5
  <2>2. n.keys[a - 1] < k
    BY <2>1, <1>1, <1>2, <1>3, ChildIndexAt
  <2>3. j =< n.keys[b]
    BY <2>1, <1>1, <1>2, <1>3, ChildIndexAt
  <2>4. n.keys[b] \in Nat /\ n.keys[a - 1] \in Nat
    BY <2>1, <1>2, InnerParts
  <2>5. n.keys[b] =< n.keys[a - 1]
    <3>1. Increasing(n.keys) /\ DOMAIN n.keys = 1 .. len
      BY <1>2, InnerParts
    <3>2. CASE b = a - 1
      BY <2>4, <3>2
    <3>3. CASE b # a - 1
      <4>1. b < a - 1
        BY <3>3, <2>1, <1>3
      <4>2. n.keys[b] < n.keys[a - 1]
        BY <4>1, <3>1, <2>1 DEF Increasing
      <4>. QED
        BY <4>2, <2>4
    <3>. QED
      BY <3>2, <3>3
  <2>6. j < k
    BY <2>2, <2>3, <2>4, <2>5
  <2>. QED
    BY <2>6
<1>. QED
  BY <1>4, <1>5

\* The first keys of o belong to f.
Leftmost(t, own, o, f) ==
    /\ f \in DOMAIN t.disk /\ View(t, f).leaf
    /\ \A j \in Keys : j \in own[f] =>
        /\ j \in own[o]
        /\ \A k \in Keys : k \in own[o] /\ k =< j => k \in own[f]

\* From step m on, at o, the position p leads to the leftmost leaf.
FirstLeaf(t, own, o, p, m) ==
    /\ p \in Seq(Nat) /\ Len(p) > m
    /\ \A d \in m + 1 .. Len(p) - 1 : p[d] \in DOMAIN View(t, Steps(t, p)[d - 1]).kids
    /\ View(t, Steps(t, p)[Len(p) - 1]).leaf
    /\ p[Len(p)] = 1
    /\ Leftmost(t, own, o, Steps(t, p)[Len(p)])

BeginLeads(t, own, o) ==
    \A c \in Seq(Nat) : Steps(t, c \o BeginOf(t, o))[Len(c)] = o =>
        FirstLeaf(t, own, o, c \o BeginOf(t, o), Len(c))

\* In a leaf.
LEMMA LeafLeads ==
    ASSUME NEW t, NEW h, NEW own, IsTree(NodesOf(t), t.root, h, own), NEW o \in DOMAIN t.disk,
           View(t, o).leaf
    PROVE  BeginLeads(t, own, o)
<1>1. PICK b : b = BeginOf(t, o)
  OBVIOUS
<1>2. b = <<1>>
  BY <1>1, BeginIs
<1>. SUFFICES ASSUME NEW c \in Seq(Nat), Steps(t, c \o b)[Len(c)] = o
              PROVE  FirstLeaf(t, own, o, c \o b, Len(c))
  BY <1>1 DEF BeginLeads
<1>3. PICK p, s : p = c \o b /\ s = Steps(t, p)
  OBVIOUS
<1>4. PICK m \in Nat : m = Len(c)
  OBVIOUS
<1>5. b \in Seq(Nat) /\ Len(b) = 1 /\ b[1] = 1
  BY <1>2
<1>6. Joined(c, b, p)
  BY <1>3, <1>5, JoinedIs
<1>7. p \in Seq(Nat) /\ Len(p) = m + 1 /\ p[m + 1] = 1
  BY <1>4, <1>5, <1>6 DEF Joined
<1>8. s[m] = o
  BY <1>3, <1>4
<1>9. m + 1 \in Nat /\ m + 1 > 0 /\ (m + 1) - 1 = m /\ m + 1 =< Len(p)
  BY <1>7
<1>10. s[m + 1] = o
  <2>1. PICK d \in Nat : d = m + 1
    OBVIOUS
  <2>2. d > 0 /\ d =< Len(p) /\ d - 1 = m
    BY <2>1, <1>9
  <2>3. p \in Seq(Nat) /\ s = Steps(t, p)
    BY <1>3, <1>7
  <2>4. View(t, s[d - 1]).leaf /\ s[d - 1] = o
    BY <2>2, <1>8
  <2>5. s[d] = s[d - 1] /\ s[d] \in DOMAIN t.disk
    BY <2>2, <2>3, <2>4, LeafStays
  <2>. QED
    BY <2>1, <2>4, <2>5
<1>11. Leftmost(t, own, o, o)
  BY DEF Leftmost
<1>12. m + 1 .. (m + 1) - 1 = {} /\ m + 1 > m
  OBVIOUS
<1>. QED
  BY <1>3, <1>4, <1>7, <1>8, <1>9, <1>10, <1>11, <1>12 DEF FirstLeaf

\* The leftmost leaf of the first child is that of the node.
LEMMA LeftmostAbove ==
    ASSUME NEW t, NEW h, NEW own, IsTree(NodesOf(t), t.root, h, own), NEW pos, NEW s, NEW d,
           Follows(t, own, pos, s, d), pos[d] = 1, NEW f, Leftmost(t, own, s[d], f)
    PROVE  Leftmost(t, own, s[d - 1], f)
<1>1. PICK o, c, n : o = s[d - 1] /\ c = s[d] /\ n = View(t, o)
  OBVIOUS
<1>2. IsInner(n) /\ \A k \in Keys : k \in own[c] <=> k \in own[o] /\ ChildIndex(n, k) = 1
  BY <1>1 DEF Follows
<1>3. f \in DOMAIN t.disk /\ View(t, f).leaf
  BY DEF Leftmost
<1>4. ASSUME NEW j \in Keys, j \in own[f]
      PROVE  j \in own[o] /\ \A k \in Keys : k \in own[o] /\ k =< j => k \in own[f]
  <2>1. j \in own[c] /\ \A k \in Keys : k \in own[c] /\ k =< j => k \in own[f]
    BY <1>1, <1>4 DEF Leftmost
  <2>2. j \in own[o] /\ ChildIndex(n, j) = 1
    BY <2>1, <1>2
  <2>3. ASSUME NEW k \in Keys, k \in own[o], k =< j PROVE k \in own[f]
    <3>1. k \in Nat /\ j \in Nat
      BY IndexAssumption
    <3>2. PICK i : i = ChildIndex(n, k)
      OBVIOUS
    <3>3. i =< 1
      BY <3>1, <3>2, <2>2, <2>3, <1>2, ChildIndexGrows
    <3>4. i \in Nat /\ i > 0
      <4>1. i \in DOMAIN n.kids
        BY <3>1, <3>2, <1>2, ChildIndexType
      <4>2. PICK len \in Nat : len = Len(n.keys)
        BY <1>2, InnerParts
      <4>3. DOMAIN n.kids = 1 .. len + 1
        BY <4>2, <1>2, InnerParts
      <4>. QED
        BY <4>1, <4>3
    <3>5. i = 1
      BY <3>3, <3>4
    <3>6. k \in own[c]
      BY <3>2, <3>5, <2>3, <1>2
    <3>. QED
      BY <3>6, <2>1, <2>3
  <2>. QED
    BY <2>2, <2>3
<1>. QED
  BY <1>1, <1>3, <1>4 DEF Leftmost

\* In an inner node.
LEMMA InnerLeads ==
    ASSUME NEW t, NEW h, NEW own, IsTree(NodesOf(t), t.root, h, own), NEW o \in DOMAIN t.disk,
           ~ View(t, o).leaf, NEW kid, kid = View(t, o).kids[1], kid \in DOMAIN t.disk,
           BeginLeads(t, own, kid)
    PROVE  BeginLeads(t, own, o)
<1>1. PICK b, rest, one : b = BeginOf(t, o) /\ rest = BeginOf(t, kid) /\ one = <<1>>
  OBVIOUS
<1>2. b = one \o rest
  <2>1. BeginOf(t, o) = IF View(t, o).leaf THEN <<1>>
                        ELSE <<1>> \o BeginOf(t, View(t, o).kids[1])
    BY BeginIs
  <2>2. BeginOf(t, o) = <<1>> \o BeginOf(t, kid)
    BY <2>1
  <2>. QED
    BY <2>2, <1>1
<1>3. rest \in Seq(Nat) /\ Len(rest) > 0 /\ one \in Seq(Nat) /\ Len(one) = 1 /\ one[1] = 1
  <2>1. rest \in Seq(Nat) /\ Len(rest) > 0
    BY <1>1, BeginIs
  <2>2. one \in Seq(Nat) /\ Len(one) = 1 /\ one[1] = 1
    BY <1>1
  <2>. QED
    BY <2>1, <2>2
<1>. SUFFICES ASSUME NEW c \in Seq(Nat), Steps(t, c \o b)[Len(c)] = o
              PROVE  FirstLeaf(t, own, o, c \o b, Len(c))
  BY <1>1 DEF BeginLeads
<1>4. PICK p, s, q : p = c \o b /\ s = Steps(t, p) /\ q = c \o one
  OBVIOUS
<1>5. PICK m \in Nat : m = Len(c)
  OBVIOUS
<1>6. Joined(c, one, q)
  BY <1>3, <1>4, JoinedIs
<1>7. q \in Seq(Nat) /\ Len(q) = m + 1 /\ q[m + 1] = 1
  BY <1>3, <1>5, <1>6 DEF Joined
<1>8. p = q \o rest
  <2>1. (c \o one) \o rest = c \o (one \o rest)
    BY <1>3
  <2>. QED
    BY <2>1, <1>2, <1>4
<1>9. Joined(q, rest, p)
  BY <1>3, <1>7, <1>8, JoinedIs
<1>10. PICK e \in Nat : e = Len(rest)
  BY <1>3
<1>11. p \in Seq(Nat) /\ Len(p) = m + 1 + e /\ p[m + 1] = q[m + 1] /\ e > 0
  <2>1. m + 1 \in 1 .. m + 1
    OBVIOUS
  <2>. QED
    BY <2>1, <1>3, <1>7, <1>9, <1>10 DEF Joined
<1>12. s[m] = o
  BY <1>4, <1>5
<1>13. 1 \in DOMAIN View(t, o).kids
  <2>1. IsInner(View(t, o))
    BY NodesAre, NodeIs
  <2>2. PICK len \in Nat : len = Len(View(t, o).keys)
    BY <2>1, InnerParts
  <2>3. DOMAIN View(t, o).kids = 1 .. len + 1
    BY <2>1, <2>2, InnerParts
  <2>. QED
    BY <2>3
<1>14. m + 1 \in Nat /\ m + 1 > 0 /\ (m + 1) - 1 = m /\ m + 1 =< Len(p)
  BY <1>10, <1>11
<1>15. p[m + 1] \in DOMAIN View(t, s[(m + 1) - 1]).kids /\ p[m + 1] = 1
  BY <1>7, <1>11, <1>12, <1>13, <1>14
<1>16. Follows(t, own, p, s, m + 1)
  BY <1>4, <1>11, <1>14, <1>15, StepFollows
<1>17. s[m + 1] = kid
  BY <1>12, <1>14, <1>15, <1>16 DEF Follows
<1>18. Steps(t, q \o rest)[Len(q)] = kid
  BY <1>4, <1>7, <1>8, <1>17
<1>19. FirstLeaf(t, own, kid, p, m + 1)
  BY <1>1, <1>7, <1>8, <1>18 DEF BeginLeads
<1>20. Leftmost(t, own, s[m + 1], s[Len(p)])
  BY <1>4, <1>17, <1>19 DEF FirstLeaf
<1>21. Leftmost(t, own, s[(m + 1) - 1], s[Len(p)])
  BY <1>15, <1>16, <1>20, LeftmostAbove
<1>22. Leftmost(t, own, o, s[Len(p)])
  BY <1>12, <1>14, <1>21
<1>23. \A d \in m + 1 .. Len(p) - 1 : p[d] \in DOMAIN View(t, s[d - 1]).kids
  <2>. TAKE d \in m + 1 .. Len(p) - 1
  <2>1. d = m + 1 \/ d \in (m + 1) + 1 .. Len(p) - 1
    BY <1>10, <1>11
  <2>. QED
    BY <2>1, <1>4, <1>15, <1>19 DEF FirstLeaf
<1>24. Len(p) > m
  BY <1>10, <1>11
<1>25. View(t, s[Len(p) - 1]).leaf /\ p[Len(p)] = 1
  BY <1>4, <1>19 DEF FirstLeaf
<1>. QED
  BY <1>4, <1>5, <1>11, <1>22, <1>23, <1>24, <1>25 DEF FirstLeaf

\* In every node, by its height.
LEMMA BeginLeadsOn ==
    ASSUME NEW t, NEW h, NEW own, IsTree(NodesOf(t), t.root, h, own), NEW o \in DOMAIN t.disk
    PROVE  BeginLeads(t, own, o)
<1>1. PICK bad : bad = {x \in DOMAIN t.disk : ~ BeginLeads(t, own, x)}
  OBVIOUS
<1>2. PICK S : S = {h[x] : x \in bad}
  OBVIOUS
<1>3. CASE S = {}
  BY <1>1, <1>2, <1>3
<1>4. CASE S # {}
  <2>1. S \in SUBSET Nat
    <3>1. \A x \in DOMAIN t.disk : h[x] \in Nat
      BY NodesAre
    <3>. QED
      BY <3>1, <1>1, <1>2
  <2>2. PICK n \in S : \A m \in S : n =< m
    BY <2>1, <1>4, LeastNatural
  <2>3. PICK x \in bad : h[x] = n
    BY <2>2, <1>2
  <2>4. x \in DOMAIN t.disk /\ ~ BeginLeads(t, own, x) /\ n \in Nat
    BY <2>1, <2>2, <2>3, <1>1
  <2>5. ~ View(t, x).leaf
    BY <2>4, LeafLeads
  <2>6. PICK kid : kid = View(t, x).kids[1]
    OBVIOUS
  <2>7. IsInner(View(t, x))
    BY <2>4, <2>5, NodesAre, NodeIs
  <2>8. 1 \in DOMAIN View(t, x).kids
    <3>1. PICK len \in Nat : len = Len(View(t, x).keys)
      BY <2>7, InnerParts
    <3>2. DOMAIN View(t, x).kids = 1 .. len + 1
      BY <2>7, <3>1, InnerParts
    <3>. QED
      BY <3>2
  <2>9. KidsOf(t, h, own, x)
    BY <2>4, KidIs
  <2>10. kid \in DOMAIN t.disk /\ h[kid] < h[x] /\ h[kid] \in Nat
    BY <2>6, <2>8, <2>9 DEF KidsOf
  <2>11. ~ (n =< h[kid])
    BY <2>3, <2>4, <2>10
  <2>12. h[kid] \notin S
    BY <2>2, <2>11
  <2>13. BeginLeads(t, own, kid)
    BY <2>10, <2>12, <1>1, <1>2
  <2>14. BeginLeads(t, own, x)
    BY <2>4, <2>5, <2>6, <2>10, <2>13, InnerLeads
  <2>. QED
    BY <2>4, <2>14
<1>. QED
  BY <1>3, <1>4

------------------------------------------------------------------------------
(* The order of the keys: in a leaf by rank, along a path by separators.   *)

\* Keys of the same rank are the same.
LEMMA RankUnique ==
    ASSUME NEW S \in SUBSET Nat, IsFiniteSet(S), NEW x \in S, NEW y \in S,
           Rank(S, x) = Rank(S, y)
    PROVE  x = y
<1>1. x \in Nat /\ y \in Nat
  OBVIOUS
<1>2. CASE x < y
  <2>1. Rank(S, x) \in Nat /\ Rank(S, y) \in Nat /\ Rank(S, x) < Rank(S, y)
    BY <1>2, RankGrows
  <2>. QED
    BY <2>1
<1>3. CASE y < x
  <2>1. Rank(S, x) \in Nat /\ Rank(S, y) \in Nat /\ Rank(S, y) < Rank(S, x)
    BY <1>3, RankGrows
  <2>. QED
    BY <2>1
<1>. QED
  BY <1>1, <1>2, <1>3

\* The first key has rank 1.
LEMMA RankFirst ==
    ASSUME NEW S \in SUBSET Nat, IsFiniteSet(S), S # {}
    PROVE  \E k \in S : Rank(S, k) = 1 /\ \A x \in S : k =< x
<1>1. PICK k \in S : \A x \in S : k =< x
  BY LeastNatural
<1>2. {x \in S : x =< k} = {k}
  <2>1. \A x \in S : x =< k => x = k
    <3>. TAKE x \in S
    <3>1. x \in Nat /\ k \in Nat /\ k =< x
      BY <1>1
    <3>. QED
      BY <3>1
  <2>2. k =< k
    OBVIOUS
  <2>. QED
    BY <2>1, <2>2
<1>3. Cardinality({k}) = 1
  BY FS_Singleton
<1>4. Rank(S, k) = 1
  BY <1>2, <1>3 DEF Rank
<1>. QED
  BY <1>1, <1>4

\* The key with the greatest rank is the greatest.
LEMMA RankLast ==
    ASSUME NEW S \in SUBSET Nat, IsFiniteSet(S), NEW x \in S, Rank(S, x) = Cardinality(S)
    PROVE  \A y \in S : y =< x
<1>. TAKE y \in S
<1>1. x \in Nat /\ y \in Nat
  OBVIOUS
<1>2. CASE x < y
  <2>1. /\ Rank(S, x) \in Nat /\ Rank(S, y) \in Nat /\ Rank(S, x) < Rank(S, y)
        /\ Rank(S, y) =< Cardinality(S)
    BY <1>2, RankGrows
  <2>. QED
    BY <2>1
<1>. QED
  BY <1>1, <1>2

\* Any other key is followed by the one with the next rank.
LEMMA RankNext ==
    ASSUME NEW S \in SUBSET Nat, IsFiniteSet(S), NEW x \in S, Rank(S, x) # Cardinality(S)
    PROVE  \E k \in S : k > x /\ Rank(S, k) = Rank(S, x) + 1 /\ \A y \in S : y > x => k =< y
<1>1. PICK A, B : A = {y \in S : y =< x} /\ B = {y \in S : y > x}
  OBVIOUS
<1>2. B # {}
  <2>1. ASSUME B = {} PROVE A = S
    <3>1. \A y \in S : y =< x
      <4>. TAKE y \in S
      <4>1. y \in Nat /\ x \in Nat /\ ~ (y > x)
        BY <2>1, <1>1
      <4>. QED
        BY <4>1
    <3>. QED
      BY <3>1, <1>1
  <2>. QED
    BY <2>1, <1>1 DEF Rank
<1>3. B \in SUBSET Nat
  BY <1>1
<1>4. PICK k \in B : \A y \in B : k =< y
  BY <1>2, <1>3, LeastNatural
<1>5. k \in S /\ k > x /\ k \in Nat /\ x \in Nat
  BY <1>1, <1>3, <1>4
<1>6. {y \in S : y =< k} = A \cup {k}
  <2>1. ASSUME NEW y \in S, y =< k PROVE y \in A \cup {k}
    <3>1. y \in Nat
      OBVIOUS
    <3>2. CASE y =< x
      BY <3>2, <1>1
    <3>3. CASE ~ (y =< x)
      <4>1. y > x
        BY <3>1, <3>3, <1>5
      <4>2. k =< y
        BY <4>1, <1>1, <1>4
      <4>. QED
        BY <4>2, <2>1, <3>1, <1>5
    <3>. QED
      BY <3>2, <3>3
  <2>2. ASSUME NEW y \in A PROVE y \in S /\ y =< k
    <3>1. y \in S /\ y =< x /\ y \in Nat
      BY <1>1
    <3>. QED
      BY <3>1, <1>5
  <2>3. k \in S /\ k =< k
    BY <1>5
  <2>. QED
    BY <2>1, <2>2, <2>3
<1>7. k \notin A
  <2>1. ~ (k =< x)
    BY <1>5
  <2>. QED
    BY <2>1, <1>1
<1>8. IsFiniteSet(A)
  BY <1>1, FS_Subset
<1>9. Cardinality(A \cup {k}) = Cardinality(A) + 1
  BY <1>7, <1>8, FS_AddElement
<1>10. Rank(S, k) = Rank(S, x) + 1
  BY <1>1, <1>6, <1>9 DEF Rank
<1>. QED
  BY <1>1, <1>4, <1>5, <1>10

\* A position stands on the entry of k.
OnKey(t, pos, k) ==
    LET node == View(t, Steps(t, pos)[Len(pos)])
    IN  node.leaf /\ k \in LeafKeys(node) /\ Rank(LeafKeys(node), k) = pos[Len(pos)]

\* The keys of a leaf.
LEMMA LeafKeysAre ==
    ASSUME NEW t, NEW h, NEW own, IsTree(NodesOf(t), t.root, h, own), NEW o \in DOMAIN t.disk,
           View(t, o).leaf
    PROVE  /\ LeafKeys(View(t, o)) \in SUBSET Nat /\ IsFiniteSet(LeafKeys(View(t, o)))
           /\ LeafKeys(View(t, o)) \subseteq Keys /\ LeafKeys(View(t, o)) \subseteq own[o]
<1>1. IsLeaf(View(t, o))
  BY NodesAre, NodeIs
<1>2. LeafKeys(View(t, o)) \subseteq Keys /\ IsFiniteSet(LeafKeys(View(t, o)))
  BY <1>1 DEF IsLeaf, IsMap, LeafKeys
<1>3. PICK N : N = NodesOf(t)
  OBVIOUS
<1>4. DOMAIN N = DOMAIN t.disk /\ N[o] = View(t, o)
  BY <1>3, NodesOfIs
<1>5. LeafKeys(View(t, o)) \subseteq own[o]
  BY <1>3, <1>4 DEF IsTree, LeavesOk
<1>. QED
  BY <1>2, <1>5, IndexAssumption

\* The key at a position is that of the entry it stands on.
LEMMA KeyAtIs ==
    ASSUME NEW t, NEW h, NEW own, IsTree(NodesOf(t), t.root, h, own), NEW pos, IsPosition(pos),
           NEW k, OnKey(t, pos, k)
    PROVE  KeyAt(t, pos) = k
<1>1. PICK o, node, r : /\ o = Steps(t, pos)[Len(pos)] /\ node = View(t, o)
                        /\ r = pos[Len(pos)]
  OBVIOUS
<1>2. PICK n \in Nat : n = Len(pos)
  BY DEF IsPosition
<1>3. o \in DOMAIN t.disk
  <2>1. pos \in Seq(Nat) /\ n \in 0 .. n
    BY <1>2 DEF IsPosition
  <2>2. StepsAre(t, pos)
    BY <2>1, StepsIs
  <2>. QED
    BY <2>1, <2>2, <1>1, <1>2 DEF StepsAre
<1>4. node.leaf /\ k \in LeafKeys(node) /\ Rank(LeafKeys(node), k) = r
  BY <1>1 DEF OnKey
<1>5. PICK S : S = LeafKeys(node)
  OBVIOUS
<1>6. S \in SUBSET Nat /\ IsFiniteSet(S)
  BY <1>1, <1>3, <1>4, <1>5, LeafKeysAre
<1>7. \A x \in S : Rank(S, x) = r => x = k
  BY <1>4, <1>5, <1>6, RankUnique
<1>8. {x \in S : Rank(S, x) = r} = {k}
  BY <1>4, <1>5, <1>7
<1>9. KeyAt(t, pos) = CHOOSE x \in {x \in S : Rank(S, x) = r} : TRUE
  BY <1>1, <1>4, <1>5, <1>8 DEF KeyAt
<1>. QED
  BY <1>8, <1>9

\* A position with a key stands on its entry.
LEMMA KeyAtHas ==
    ASSUME NEW t, NEW pos, KeyAt(t, pos) # NoValue
    PROVE  OnKey(t, pos, KeyAt(t, pos))
<1>1. PICK node, r : node = View(t, Steps(t, pos)[Len(pos)]) /\ r = pos[Len(pos)]
  OBVIOUS
<1>2. PICK found : found = {k \in LeafKeys(node) : Rank(LeafKeys(node), k) = r}
  OBVIOUS
<1>3. KeyAt(t, pos) = IF node.leaf /\ found # {} THEN CHOOSE k \in found : TRUE ELSE NoValue
  BY <1>1, <1>2 DEF KeyAt
<1>4. node.leaf /\ found # {}
  BY <1>3
<1>5. KeyAt(t, pos) \in found
  BY <1>3, <1>4
<1>. QED
  BY <1>1, <1>2, <1>4, <1>5 DEF OnKey

------------------------------------------------------------------------------

\* The keys of the last node of a path belong to each node on it.
LEMMA PathOwns ==
    ASSUME NEW t, NEW own, NEW pos, NEW s, NEW n, IsPath(t, own, pos, s, n),
           NEW k \in Keys, k \in own[s[n]]
    PROVE  \A d \in 0 .. n : k \in own[s[d]]
<1>1. /\ n \in Nat /\ n > 0 /\ s[n] = s[n - 1]
      /\ \A d \in 1 .. n - 1 : Follows(t, own, pos, s, d)
  BY DEF IsPath
<1>2. ASSUME NEW b \in 0 .. n, k \notin own[s[b]] PROVE FALSE
  <2>1. PICK S : S = {d \in b .. n - 1 : k \in own[s[d]]}
    OBVIOUS
  <2>2. b # n /\ n - 1 \in b .. n - 1
    BY <1>1, <1>2
  <2>3. n - 1 \in S /\ S \in SUBSET Nat
    BY <2>1, <2>2, <1>1
  <2>4. PICK e \in S : \A d \in S : e =< d
    BY <2>3, LeastNatural
  <2>5. e \in b .. n - 1 /\ k \in own[s[e]]
    BY <2>1, <2>4
  <2>6. e # b
    BY <2>5, <1>2
  <2>7. e - 1 \in b .. n - 1 /\ ~ (e =< e - 1) /\ e \in 1 .. n - 1
    BY <2>5, <2>6, <1>1
  <2>8. k \notin own[s[e - 1]]
    BY <2>1, <2>4, <2>7
  <2>9. Follows(t, own, pos, s, e)
    BY <2>7, <1>1
  <2>. QED
    BY <2>5, <2>8, <2>9 DEF Follows
<1>. QED
  BY <1>2

\* The keys between two keys of a node on a path belong to it.
LEMMA PathConvex ==
    ASSUME NEW t, NEW h, NEW own, IsTree(NodesOf(t), t.root, h, own),
           NEW pos, NEW s, NEW n, IsPath(t, own, pos, s, n),
           NEW b \in 0 .. n, NEW a \in Keys, NEW c \in Keys, NEW k \in Keys, a =< k, k =< c,
           a \in own[s[b]], c \in own[s[b]]
    PROVE  k \in own[s[b]]
<1>1. /\ n \in Nat /\ n > 0 /\ s[n] = s[n - 1] /\ s[0] = t.root
      /\ \A d \in 1 .. n - 1 : Follows(t, own, pos, s, d)
  BY DEF IsPath
<1>2. a \in Nat /\ c \in Nat /\ k \in Nat
  BY IndexAssumption
<1>3. PICK S : S = {d \in 0 .. n - 1 : a \in own[s[d]] /\ c \in own[s[d]] /\ k \notin own[s[d]]}
  OBVIOUS
<1>4. S = {}
  <2>. SUFFICES ASSUME S # {}
                PROVE  FALSE
    OBVIOUS
  <2>1. S \in SUBSET Nat
    BY <1>3
  <2>2. PICK e \in S : \A d \in S : e =< d
    BY <2>1, LeastNatural
  <2>3. e \in 0 .. n - 1 /\ a \in own[s[e]] /\ c \in own[s[e]] /\ k \notin own[s[e]]
    BY <2>2, <1>3
  <2>4. own[t.root] = Keys
    BY DEF IsTree, Typed
  <2>5. e # 0
    BY <2>3, <2>4, <1>1
  <2>6. e - 1 \in 0 .. n - 1 /\ ~ (e =< e - 1) /\ e \in 1 .. n - 1
    BY <2>3, <2>5, <1>1
  <2>7. Follows(t, own, pos, s, e)
    BY <2>6, <1>1
  <2>8. PICK o, i, node : o = s[e - 1] /\ i = pos[e] /\ node = View(t, o)
    OBVIOUS
  <2>9. IsInner(node) /\ i \in DOMAIN node.kids
        /\ \A x \in Keys : x \in own[s[e]] <=> x \in own[o] /\ ChildIndex(node, x) = i
    BY <2>7, <2>8 DEF Follows
  <2>10. /\ a \in own[o] /\ c \in own[o]
         /\ ChildIndex(node, a) = i /\ ChildIndex(node, c) = i
    BY <2>3, <2>9
  <2>11. k \in own[o]
    BY <2>2, <2>6, <2>8, <2>10, <1>3
  <2>12. PICK j : j = ChildIndex(node, k)
    OBVIOUS
  <2>13. i =< j /\ j =< i
    BY <2>9, <2>10, <2>12, <1>2, ChildIndexGrows
  <2>14. i \in Nat /\ j \in Nat
    <3>1. j \in DOMAIN node.kids
      BY <2>9, <2>12, <1>2, ChildIndexType
    <3>2. DOMAIN node.kids \subseteq Nat
      <4>1. PICK len \in Nat : len = Len(node.keys)
        BY <2>9, InnerParts
      <4>2. DOMAIN node.kids = 1 .. len + 1
        BY <4>1, <2>9, InnerParts
      <4>. QED
        BY <4>2
    <3>. QED
      BY <3>1, <3>2, <2>9
  <2>15. j = i
    BY <2>13, <2>14
  <2>. QED
    BY <2>3, <2>9, <2>11, <2>12, <2>15
<1>5. b \in 0 .. n - 1 \/ b = n
  BY <1>1
<1>6. n - 1 \in 0 .. n - 1
  BY <1>1
<1>. QED
  BY <1>1, <1>3, <1>4, <1>5, <1>6

\* Below the last children the keys after k belong where k does.
LEMMA PathLast ==
    ASSUME NEW t, NEW own, NEW pos, NEW s, NEW n, IsPath(t, own, pos, s, n),
           NEW k \in Keys, k \in own[s[n]], NEW b \in 0 .. n - 1,
           \A d \in b + 1 .. n - 1 : pos[d] = Len(View(t, s[d - 1]).kids),
           NEW x \in Keys, k =< x, x \in own[s[b]]
    PROVE  x \in own[s[n]]
<1>1. /\ n \in Nat /\ n > 0 /\ s[n] = s[n - 1]
      /\ \A d \in 1 .. n - 1 : Follows(t, own, pos, s, d)
  BY DEF IsPath
<1>2. k \in Nat /\ x \in Nat
  BY IndexAssumption
<1>3. PICK S : S = {d \in b .. n - 1 : x \notin own[s[d]]}
  OBVIOUS
<1>4. S = {}
  <2>. SUFFICES ASSUME S # {}
                PROVE  FALSE
    OBVIOUS
  <2>1. S \in SUBSET Nat
    BY <1>3
  <2>2. PICK e \in S : \A d \in S : e =< d
    BY <2>1, LeastNatural
  <2>3. e \in b .. n - 1 /\ x \notin own[s[e]]
    BY <2>2, <1>3
  <2>4. e # b
    BY <2>3
  <2>5. /\ e - 1 \in b .. n - 1 /\ ~ (e =< e - 1)
        /\ e \in 1 .. n - 1 /\ e \in b + 1 .. n - 1 /\ e \in 0 .. n
    BY <2>3, <2>4, <1>1
  <2>6. x \in own[s[e - 1]]
    BY <2>2, <2>5, <1>3
  <2>7. Follows(t, own, pos, s, e)
    BY <2>5, <1>1
  <2>8. PICK o, i, node : o = s[e - 1] /\ i = pos[e] /\ node = View(t, o)
    OBVIOUS
  <2>9. IsInner(node) /\ i = Len(node.kids)
        /\ \A y \in Keys : y \in own[s[e]] <=> y \in own[o] /\ ChildIndex(node, y) = i
    BY <2>5, <2>7, <2>8 DEF Follows
  <2>10. k \in own[s[e]]
    BY <2>5, PathOwns
  <2>11. ChildIndex(node, k) = i
    BY <2>9, <2>10
  <2>12. PICK j : j = ChildIndex(node, x)
    OBVIOUS
  <2>13. i =< j
    BY <2>9, <2>11, <2>12, <1>2, ChildIndexGrows
  <2>14. j \in DOMAIN node.kids
    BY <2>9, <2>12, <1>2, ChildIndexType
  <2>15. PICK len \in Nat : len = Len(node.keys)
    BY <2>9, InnerParts
  <2>16. i = len + 1 /\ DOMAIN node.kids = 1 .. len + 1
    BY <2>9, <2>15, InnerParts DEF IsInner
  <2>17. j = i
    BY <2>13, <2>14, <2>16
  <2>. QED
    BY <2>3, <2>6, <2>8, <2>9, <2>12, <2>17
<1>5. n - 1 \in b .. n - 1
  BY <1>1
<1>. QED
  BY <1>1, <1>3, <1>4, <1>5

------------------------------------------------------------------------------
(* Where operator++ leads.                                                 *)

\* The first steps of a position.
LEMMA HeadIs ==
    ASSUME NEW pos \in Seq(Nat), NEW m \in Nat, m =< Len(pos), NEW head, head = SubSeq(pos, 1, m)
    PROVE  /\ head \in Seq(Nat) /\ Len(head) = m
           /\ \A i \in 1 .. m : head[i] = pos[i]
<1>1. PICK n \in Nat : n = Len(pos)
  OBVIOUS
<1>2. \A i \in 1 .. m : pos[i] \in Nat
  <2>. TAKE i \in 1 .. m
  <2>1. i \in 1 .. n
    BY <1>1
  <2>. QED
    BY <2>1, <1>1
<1>3. /\ head \in Seq(Nat)
      /\ Len(head) = IF 1 <= m THEN m - 1 + 1 ELSE 0
      /\ \A i \in 1 .. m - 1 + 1 : head[i] = pos[1 + i - 1]
  BY <1>2, SubSeqProperties
<1>4. Len(head) = m
  BY <1>3
<1>5. \A i \in 1 .. m : head[i] = pos[i]
  <2>. TAKE i \in 1 .. m
  <2>1. i \in 1 .. m - 1 + 1 /\ 1 + i - 1 = i
    OBVIOUS
  <2>. QED
    BY <2>1, <1>3
<1>. QED
  BY <1>3, <1>4, <1>5

\* A position whose steps after the first m are others leads through the same
\* nodes up to there.
Branches(t, pos, m, i, q) ==
    /\ q \in Seq(Nat) /\ Len(q) > m /\ q[m + 1] = i
    /\ \A e \in 1 .. m : q[e] = pos[e]
    /\ SameSteps(t, pos, t, q, m)

BranchAt(pos, m, i) == SubSeq(pos, 1, m) \o <<i>>

Branching(t, pos, m, i, c) ==
    /\ Len(c) = m + 1 /\ Branches(t, pos, m, i, c)
    /\ \A r \in Seq(Nat) : Len(c \o r) = m + 1 + Len(r) /\ Branches(t, pos, m, i, c \o r)

\* A position that leaves a path at step m + 1 has its steps up to there.
LEMMA BranchIs ==
    ASSUME NEW t, NEW h, NEW own, IsTree(NodesOf(t), t.root, h, own), NEW pos \in Seq(Nat),
           NEW m \in Nat, m =< Len(pos), NEW i \in Nat, NEW c, c = BranchAt(pos, m, i)
    PROVE  Branching(t, pos, m, i, c)
<1>1. PICK head, one : head = SubSeq(pos, 1, m) /\ one = <<i>>
  OBVIOUS
<1>2. head \in Seq(Nat) /\ Len(head) = m /\ \A e \in 1 .. m : head[e] = pos[e]
  BY <1>1, HeadIs
<1>3. one \in Seq(Nat) /\ Len(one) = 1 /\ one[1] = i
  BY <1>1
<1>4. Joined(head, one, c)
  <2>1. c = head \o one
    BY <1>1 DEF BranchAt
  <2>. QED
    BY <2>1, <1>2, <1>3, JoinedIs
<1>5. c \in Seq(Nat) /\ Len(c) = m + 1 /\ \A e \in 1 .. m : c[e] = head[e]
  BY <1>2, <1>3, <1>4 DEF Joined
<1>6. c[m + 1] = i
  <2>1. 1 \in 1 .. 1
    OBVIOUS
  <2>. QED
    BY <2>1, <1>2, <1>3, <1>4 DEF Joined
<1>7. SameNodes(t, t)
  BY DEF SameNodes
<1>8. ASSUME NEW q \in Seq(Nat), Len(q) > m, q[m + 1] = i, \A e \in 1 .. m : q[e] = pos[e]
      PROVE  Branches(t, pos, m, i, q)
  <2>1. m =< Len(q)
    BY <1>8
  <2>2. Agree(pos, q, m)
    BY <2>1, <1>8 DEF Agree
  <2>3. SameSteps(t, pos, t, q, m)
    BY <2>2, <1>7, StepsAgree
  <2>. QED
    BY <2>3, <1>8 DEF Branches
<1>9. Branches(t, pos, m, i, c)
  <2>1. Len(c) > m /\ \A e \in 1 .. m : c[e] = pos[e]
    BY <1>2, <1>5
  <2>. QED
    BY <2>1, <1>5, <1>6, <1>8
<1>10. ASSUME NEW r \in Seq(Nat)
       PROVE  Len(c \o r) = m + 1 + Len(r) /\ Branches(t, pos, m, i, c \o r)
  <2>1. PICK q : q = c \o r
    OBVIOUS
  <2>2. PICK b \in Nat : b = Len(r)
    OBVIOUS
  <2>3. Joined(c, r, q)
    BY <2>1, <1>5, JoinedIs
  <2>4. q \in Seq(Nat) /\ Len(q) = m + 1 + b /\ \A e \in 1 .. m + 1 : q[e] = c[e]
    BY <2>2, <2>3, <1>5 DEF Joined
  <2>5. \A e \in 1 .. m : q[e] = pos[e]
    <3>. TAKE e \in 1 .. m
    <3>1. e \in 1 .. m + 1
      OBVIOUS
    <3>. QED
      BY <3>1, <2>4, <1>2, <1>5
  <2>6. Len(q) > m /\ m + 1 \in 1 .. m + 1
    BY <2>2, <2>4
  <2>7. q[m + 1] = i
    BY <2>4, <2>6, <1>6
  <2>8. Branches(t, pos, m, i, q)
    BY <2>4, <2>5, <2>6, <2>7, <1>8
  <2>. QED
    BY <2>1, <2>2, <2>4, <2>8
<1>. QED
  BY <1>5, <1>9, <1>10 DEF Branching

\* Positions go no further than to leaves.
StayInLeaves(t) ==
    \A pos \in Seq(Nat) : \A d \in Nat :
        d > 0 /\ d =< Len(pos) /\ View(t, Steps(t, pos)[d - 1]).leaf
            => Steps(t, pos)[d] = Steps(t, pos)[d - 1]

\* LeafStays, for all positions.
LEMMA LeavesEnd ==
    ASSUME NEW t, NEW h, NEW own, IsTree(NodesOf(t), t.root, h, own)
    PROVE  StayInLeaves(t)
<1>1. ASSUME NEW pos \in Seq(Nat), NEW d \in Nat, d > 0, d =< Len(pos),
             View(t, Steps(t, pos)[d - 1]).leaf
      PROVE  Steps(t, pos)[d] = Steps(t, pos)[d - 1]
  BY <1>1, LeafStays
<1>. QED
  BY <1>1 DEF StayInLeaves

\* Another entry of the same leaf.
Stays(t, pos, s, n, q) ==
    Path(t, q) /\ Len(q) = n /\ q[n] = pos[n] + 1 /\ Steps(t, q)[n] = s[n]

\* The next entry of a leaf is on a path, too.
LEMMA StayIs ==
    ASSUME NEW t, NEW h, NEW own, IsTree(NodesOf(t), t.root, h, own),
           NEW pos, NEW s, NEW n, IsPath(t, own, pos, s, n),
           NEW q, q = SubSeq(pos, 1, n - 1) \o <<pos[n] + 1>>
    PROVE  Stays(t, pos, s, n, q)
<1>1. /\ n = Len(pos) /\ n \in Nat /\ n > 0 /\ pos \in Seq(Nat) /\ s = Steps(t, pos)
      /\ s[n] = s[n - 1] /\ View(t, s[n]).leaf
      /\ \A d \in 1 .. n - 1 : Follows(t, own, pos, s, d)
  BY DEF IsPath
<1>2. PICK m \in Nat : m = n - 1
  <2>1. n \in Nat /\ n > 0
    BY <1>1
  <2>2. n - 1 \in Nat
    BY <2>1
  <2>. QED
    BY <2>2
<1>3. PICK i : i = pos[n] + 1
  OBVIOUS
<1>4. i \in Nat
  <2>1. n \in 1 .. n
    BY <1>1
  <2>2. pos[n] \in Nat
    BY <2>1, <1>1
  <2>. QED
    BY <2>2, <1>3
<1>5. m =< Len(pos) /\ m + 1 = n
  BY <1>1, <1>2
<1>6. q = SubSeq(pos, 1, m) \o <<i>>
  BY <1>2, <1>3
<1>7. Len(q) = m + 1 /\ Branches(t, pos, m, i, q)
  <2>1. pos \in Seq(Nat)
    BY <1>1
  <2>2. q = BranchAt(pos, m, i)
    BY <1>6 DEF BranchAt
  <2>3. Branching(t, pos, m, i, q)
    BY <2>1, <2>2, <1>4, <1>5, BranchIs
  <2>. QED
    BY <2>3 DEF Branching
<1>8. PICK r : r = Steps(t, q)
  OBVIOUS
<1>9. /\ \A e \in 0 .. m : r[e] = s[e]
      /\ \A e \in 1 .. m : q[e] = pos[e]
      /\ q \in Seq(Nat) /\ q[m + 1] = i
  BY <1>1, <1>7, <1>8 DEF Branches, SameSteps
<1>10. m \in 0 .. m
  OBVIOUS
<1>11. r[n - 1] = s[n] /\ View(t, r[n - 1]).leaf
  <2>1. r[m] = s[m]
    BY <1>9, <1>10
  <2>2. s[m] = s[n] /\ View(t, s[m]).leaf
    BY <1>1, <1>2
  <2>. QED
    BY <2>1, <2>2, <1>2
<1>12. n \in Nat /\ n > 0 /\ n =< Len(q) /\ q \in Seq(Nat)
  <2>1. n \in Nat /\ n > 0 /\ q \in Seq(Nat)
    BY <1>1, <1>9
  <2>2. Len(q) = n
    BY <1>5, <1>7
  <2>. QED
    BY <2>1, <2>2
<1>13. r[n] = r[n - 1]
  <2>1. View(t, r[n - 1]).leaf
    BY <1>11
  <2>2. StayInLeaves(t)
    BY LeavesEnd
  <2>3. n \in Nat /\ n > 0 /\ n =< Len(q) /\ q \in Seq(Nat)
    BY <1>12
  <2>. QED
    BY <2>1, <2>2, <2>3, <1>8 DEF StayInLeaves
<1>14. \A d \in 1 .. n - 1 : q[d] \in DOMAIN View(t, r[d - 1]).kids
  <2>. TAKE d \in 1 .. n - 1
  <2>1. d \in 1 .. m /\ d - 1 \in 0 .. m
    BY <1>2
  <2>2. pos[d] \in DOMAIN View(t, s[d - 1]).kids
    BY <1>1 DEF Follows
  <2>. QED
    BY <2>1, <2>2, <1>9
<1>15. Len(q) = n /\ q[n] = i
  BY <1>5, <1>7, <1>9
<1>16. Path(t, q)
  <2>1. IsPosition(q)
    BY <1>1, <1>12, <1>15 DEF IsPosition
  <2>. QED
    BY <2>1, <1>8, <1>11, <1>14, <1>15 DEF Path
<1>. QED
  BY <1>3, <1>8, <1>11, <1>13, <1>15, <1>16 DEF Stays

\* The first entry below another child of the node of step d.
Enters(t, own, kid, q) ==
    Path(t, q) /\ q[Len(q)] = 1 /\ Leftmost(t, own, kid, Steps(t, q)[Len(q)])

\* IndexInnerIterator::operator++ enters the next child that has a first entry.
LEMMA EnterIs ==
    ASSUME NEW t, NEW h, NEW own, IsTree(NodesOf(t), t.root, h, own),
           NEW pos, NEW s, NEW n, IsPath(t, own, pos, s, n), NEW d \in 1 .. n - 1,
           NEW j \in DOMAIN View(t, s[d - 1]).kids, NEW kid, kid = View(t, s[d - 1]).kids[j],
           NEW q, q = SubSeq(pos, 1, d - 1) \o <<j>> \o BeginOf(t, kid)
    PROVE  Enters(t, own, kid, q)
<1>1. /\ n = Len(pos) /\ n \in Nat /\ n > 0 /\ pos \in Seq(Nat) /\ s = Steps(t, pos)
      /\ \A e \in 1 .. n - 1 : Follows(t, own, pos, s, e)
  BY DEF IsPath
<1>2. PICK m \in Nat : m = d - 1
  BY <1>1
<1>3. m =< Len(pos) /\ m + 1 = d /\ d \in Nat /\ d > 0
  BY <1>1, <1>2
<1>4. PICK o : o = s[d - 1]
  OBVIOUS
<1>5. o \in DOMAIN t.disk
  BY <1>1, <1>4 DEF Follows
<1>6. j \in Nat
  BY <1>4, <1>5, KidPlaces, NodesAre
<1>7. PICK c, b : c = SubSeq(pos, 1, m) \o <<j>> /\ b = BeginOf(t, kid)
  OBVIOUS
<1>8. q = c \o b
  BY <1>2, <1>7
<1>9. kid \in DOMAIN t.disk
  <2>1. KidsOf(t, h, own, o)
    BY <1>5, KidIs
  <2>. QED
    BY <2>1, <1>4 DEF KidsOf
<1>10. b \in Seq(Nat) /\ Len(b) > 0
  BY <1>7, <1>9, BeginIs
<1>11. /\ Len(c) = m + 1 /\ Branches(t, pos, m, j, c)
       /\ \A r \in Seq(Nat) :
            Len(c \o r) = m + 1 + Len(r) /\ Branches(t, pos, m, j, c \o r)
  <2>1. pos \in Seq(Nat) /\ m =< Len(pos)
    BY <1>1, <1>3
  <2>2. c = BranchAt(pos, m, j)
    BY <1>7 DEF BranchAt
  <2>3. Branching(t, pos, m, j, c)
    BY <2>1, <2>2, <1>6, BranchIs
  <2>. QED
    BY <2>3 DEF Branching
<1>12. Branches(t, pos, m, j, q) /\ Len(q) = m + 1 + Len(b)
  BY <1>8, <1>10, <1>11
<1>13. PICK len \in Nat : len = Len(b)
  BY <1>10
<1>14. /\ q \in Seq(Nat) /\ q[d] = j /\ Len(q) = d + len
       /\ d =< Len(q) /\ Len(q) > d /\ Len(q) > 0
       /\ c \in Seq(Nat) /\ Len(c) = d
  <2>1. q \in Seq(Nat) /\ q[m + 1] = j
    BY <1>12 DEF Branches
  <2>2. c \in Seq(Nat)
    BY <1>11 DEF Branches
  <2>3. len > 0
    BY <1>10, <1>13
  <2>4. Len(q) = d + len
    BY <1>3, <1>12, <1>13
  <2>5. d + len >= d /\ d + len > d /\ d + len > 0
    BY <2>3, <1>3
  <2>. QED
    BY <2>1, <2>2, <2>4, <2>5, <1>3, <1>11
<1>15. PICK r : r = Steps(t, q)
  OBVIOUS
<1>16. (\A e \in 0 .. m : r[e] = s[e]) /\ (\A e \in 1 .. m : q[e] = pos[e])
  BY <1>1, <1>12, <1>15 DEF Branches, SameSteps
<1>17. r[d - 1] = o
  <2>1. d - 1 \in 0 .. m
    BY <1>2
  <2>. QED
    BY <2>1, <1>4, <1>16
<1>18. q[d] \in DOMAIN View(t, r[d - 1]).kids
  BY <1>4, <1>14, <1>17
<1>19. Follows(t, own, q, r, d)
  BY <1>3, <1>14, <1>15, <1>18, StepFollows
<1>20. r[d] = kid
  BY <1>4, <1>14, <1>17, <1>19 DEF Follows
<1>21. Steps(t, c \o b)[Len(c)] = kid
  BY <1>8, <1>14, <1>15, <1>20
<1>22. BeginLeads(t, own, kid)
  BY <1>9, BeginLeadsOn
<1>23. FirstLeaf(t, own, kid, q, d)
  BY <1>7, <1>8, <1>11, <1>14, <1>21, <1>22 DEF BeginLeads
<1>24. /\ \A e \in d + 1 .. Len(q) - 1 : q[e] \in DOMAIN View(t, r[e - 1]).kids
       /\ View(t, r[Len(q) - 1]).leaf /\ q[Len(q)] = 1
       /\ Leftmost(t, own, kid, r[Len(q)])
  BY <1>15, <1>23 DEF FirstLeaf
<1>25. \A e \in 1 .. Len(q) - 1 : q[e] \in DOMAIN View(t, r[e - 1]).kids
  <2>. TAKE e \in 1 .. Len(q) - 1
  <2>1. e \in 1 .. m \/ e = d \/ e \in d + 1 .. Len(q) - 1
    <3>1. PICK last \in Nat : last = Len(q)
      <4>1. d + len \in Nat
        BY <1>3
      <4>. QED
        BY <4>1, <1>14
    <3>2. e \in 1 .. last - 1
      BY <3>1
    <3>3. e \in 1 .. m \/ e = d \/ e \in d + 1 .. last - 1
      BY <3>2, <1>3
    <3>. QED
      BY <3>1, <3>3
  <2>2. CASE e \in 1 .. m
    <3>1. e - 1 \in 0 .. m /\ e \in 1 .. n - 1
      BY <2>2, <1>1, <1>2
    <3>2. pos[e] \in DOMAIN View(t, s[e - 1]).kids
      BY <3>1, <1>1 DEF Follows
    <3>. QED
      BY <2>2, <3>1, <3>2, <1>16
  <2>. QED
    BY <2>1, <2>2, <1>18, <1>24
<1>26. Path(t, q)
  <2>1. IsPosition(q)
    BY <1>14 DEF IsPosition
  <2>. QED
    BY <2>1, <1>15, <1>24, <1>25 DEF Path
<1>. QED
  BY <1>15, <1>24, <1>26 DEF Enters

\* operator++ stays in the leaf, comes to end(), or goes to the next child that
\* has something to visit, in the lowest node that has one.
LeafDone(t, pos, s, n) == <<pos[n] + 1>> = EndOf(t, s[n])
NoneAfter(t, pos, b, n) == \A d \in b + 1 .. n - 1 : LaterKids(t, pos, d) = {}
Turns(t, own, pos, s, d, q) ==
    \E j \in LaterKids(t, pos, d) :
        /\ \A i \in LaterKids(t, pos, d) : j =< i
        /\ j \in DOMAIN View(t, s[d - 1]).kids
        /\ Enters(t, own, View(t, s[d - 1]).kids[j], q)

Goes(t, own, pos, s, n, q) ==
    \/ ~ LeafDone(t, pos, s, n) /\ Stays(t, pos, s, n, q)
    \/ LeafDone(t, pos, s, n) /\ NoneAfter(t, pos, 0, n) /\ q = EndOf(t, t.root)
    \/ /\ LeafDone(t, pos, s, n)
       /\ \E d \in 1 .. n - 1 : NoneAfter(t, pos, d, n) /\ Turns(t, own, pos, s, d, q)

\* The cases of operator++: the same leaf, end(), or the first entry below a later child.
LEMMA NextGoes ==
    ASSUME NEW t, NEW h, NEW own, IsTree(NodesOf(t), t.root, h, own),
           NEW pos, NEW s, NEW n, IsPath(t, own, pos, s, n), NEW q, q = NextOf(t, pos)
    PROVE  Goes(t, own, pos, s, n, q)
<1>1. /\ n = Len(pos) /\ n \in Nat /\ n > 0 /\ pos \in Seq(Nat) /\ s = Steps(t, pos)
      /\ \A e \in 1 .. n - 1 : Follows(t, own, pos, s, e)
  BY DEF IsPath
<1>2. PICK inLeaf, levels : /\ inLeaf = <<pos[n] + 1>>
                            /\ levels = {d \in 1 .. n - 1 : LaterKids(t, pos, d) # {}}
  OBVIOUS
<1>3. PICK d : d = Max(levels)
  OBVIOUS
<1>4. PICK j : j = Min(LaterKids(t, pos, d))
  OBVIOUS
<1>5. PICK kid : kid = View(t, s[d - 1]).kids[j]
  OBVIOUS
<1>6. q = IF inLeaf # EndOf(t, s[n]) THEN SubSeq(pos, 1, n - 1) \o inLeaf
          ELSE IF levels = {} THEN EndOf(t, t.root)
          ELSE SubSeq(pos, 1, d - 1) \o <<j>> \o BeginOf(t, kid)
  BY <1>1, <1>2, <1>3, <1>4, <1>5 DEF NextOf
<1>7. LeafDone(t, pos, s, n) <=> inLeaf = EndOf(t, s[n])
  BY <1>2 DEF LeafDone
<1>8. CASE ~ LeafDone(t, pos, s, n)
  <2>1. q = SubSeq(pos, 1, n - 1) \o <<pos[n] + 1>>
    BY <1>2, <1>6, <1>7, <1>8
  <2>2. Stays(t, pos, s, n, q)
    BY <2>1, StayIs
  <2>. QED
    BY <2>2, <1>8 DEF Goes
<1>9. CASE LeafDone(t, pos, s, n) /\ levels = {}
  <2>1. q = EndOf(t, t.root)
    BY <1>6, <1>7, <1>9
  <2>2. NoneAfter(t, pos, 0, n)
    BY <1>2, <1>9 DEF NoneAfter
  <2>. QED
    BY <2>1, <2>2, <1>9 DEF Goes
<1>10. CASE LeafDone(t, pos, s, n) /\ levels # {}
  <2>1. levels \in SUBSET Nat /\ IsFiniteSet(levels)
    <3>1. IsFiniteSet(1 .. n - 1)
      BY <1>1, FS_Interval
    <3>2. levels \in SUBSET (1 .. n - 1)
      BY <1>2
    <3>3. 1 .. n - 1 \subseteq Nat
      BY <1>1
    <3>. QED
      BY <3>1, <3>2, <3>3, FS_Subset
  <2>2. d \in levels /\ \A e \in levels : e =< d
    BY <2>1, <1>3, <1>10, GreatestKey
  <2>3. d \in 1 .. n - 1 /\ LaterKids(t, pos, d) # {}
    BY <2>2, <1>2
  <2>4. NoneAfter(t, pos, d, n)
    <3>. SUFFICES ASSUME NEW e \in d + 1 .. n - 1
                  PROVE  LaterKids(t, pos, e) = {}
      BY DEF NoneAfter
    <3>1. e \in 1 .. n - 1 /\ ~ (e =< d)
      BY <2>3, <1>1
    <3>. QED
      BY <3>1, <2>2, <1>2
  <2>5. PICK o, later : o = s[d - 1] /\ later = LaterKids(t, pos, d)
    OBVIOUS
  <2>6. Follows(t, own, pos, s, d)
    BY <2>3, <1>1
  <2>7. o \in DOMAIN t.disk /\ pos[d] \in DOMAIN View(t, o).kids
    BY <2>5, <2>6 DEF Follows
  <2>8. PICK len \in Nat : len = Len(View(t, o).kids)
    BY <2>7, KidsAre, NodesAre
  <2>9. DOMAIN View(t, o).kids = 1 .. len
    BY <2>7, <2>8, KidsAre, NodesAre
  <2>10. PICK p \in Nat : p = pos[d]
    BY <2>7, <2>9
  <2>11. later \subseteq p + 1 .. len
    BY <2>5, <2>8, <2>10, <1>1 DEF LaterKids
  <2>12. later \in SUBSET Nat /\ later # {}
    BY <2>3, <2>5, <2>11
  <2>13. j \in later /\ \A i \in later : j =< i
    <3>1. \E x \in later : \A y \in later : x =< y
      BY <2>12, LeastNatural
    <3>2. j = CHOOSE x \in later : \A y \in later : x =< y
      BY <2>5, <1>4 DEF Min
    <3>. QED
      BY <3>1, <3>2
  <2>14. j \in DOMAIN View(t, o).kids
    <3>1. j \in p + 1 .. len
      BY <2>11, <2>13
    <3>2. j \in 1 .. len
      BY <3>1
    <3>. QED
      BY <3>2, <2>9
  <2>15. q = SubSeq(pos, 1, d - 1) \o <<j>> \o BeginOf(t, kid)
    BY <1>6, <1>7, <1>10
  <2>16. Enters(t, own, kid, q)
    BY <2>3, <2>5, <2>14, <2>15, <1>5, EnterIs
  <2>17. Turns(t, own, pos, s, d, q)
    BY <2>5, <2>13, <2>14, <2>16, <1>5 DEF Turns
  <2>. QED
    BY <2>3, <2>4, <2>17, <1>10 DEF Goes
<1>. QED
  BY <1>8, <1>9, <1>10

------------------------------------------------------------------------------
(* operator++ leads to the next key.                                       *)

NoEmptyLeaf(t) == \A o \in DOMAIN t.disk : View(t, o).leaf => LeafKeys(View(t, o)) # {}

\* Below each node there is something to visit.
LEMMA BeginNotEnd ==
    ASSUME NEW t, NEW h, NEW own, IsTree(NodesOf(t), t.root, h, own), NoEmptyLeaf(t),
           NEW o \in DOMAIN t.disk
    PROVE  BeginOf(t, o) # EndOf(t, o)
<1>1. PICK node : node = View(t, o)
  OBVIOUS
<1>2. CASE node.leaf
  <2>1. PICK S : S = LeafKeys(node)
    OBVIOUS
  <2>2. S # {} /\ IsFiniteSet(S)
    BY <2>1, <1>1, <1>2, LeafKeysAre DEF NoEmptyLeaf
  <2>3. PICK m \in Nat : m = Cardinality(S)
    BY <2>2, FS_CardinalityType
  <2>4. m # 0
    BY <2>2, <2>3, FS_EmptySet
  <2>5. EndOf(t, o) = <<m + 1>>
    BY <2>1, <2>3, <1>1, <1>2 DEF EndOf
  <2>6. BeginOf(t, o) = <<1>>
    BY <1>1, <1>2, BeginIs
  <2>7. m + 1 # 1
    BY <2>4
  <2>. QED
    BY <2>5, <2>6, <2>7
<1>3. CASE ~ node.leaf
  <2>1. PICK kid, rest, one, b : /\ kid = View(t, o).kids[1] /\ rest = BeginOf(t, kid)
                                 /\ one = <<1>> /\ b = BeginOf(t, o)
    OBVIOUS
  <2>2. BeginOf(t, o) = IF View(t, o).leaf THEN <<1>>
                        ELSE <<1>> \o BeginOf(t, View(t, o).kids[1])
    BY BeginIs
  <2>3. b = one \o rest
    BY <2>1, <2>2, <1>1, <1>3
  <2>4. kid \in DOMAIN t.disk
    <3>1. IsInner(View(t, o))
      BY <1>1, <1>3, NodesAre, NodeIs
    <3>2. PICK len \in Nat : len = Len(View(t, o).keys)
      BY <3>1, InnerParts
    <3>3. DOMAIN View(t, o).kids = 1 .. len + 1
      BY <3>1, <3>2, InnerParts
    <3>4. 1 \in DOMAIN View(t, o).kids
      BY <3>3
    <3>5. KidsOf(t, h, own, o)
      BY KidIs
    <3>. QED
      BY <3>4, <3>5, <2>1 DEF KidsOf
  <2>5. rest \in Seq(Nat) /\ Len(rest) > 0
    BY <2>1, <2>4, BeginIs
  <2>6. one \in Seq(Nat) /\ Len(one) = 1
    BY <2>1
  <2>7. Joined(one, rest, b)
    BY <2>3, <2>5, <2>6, JoinedIs
  <2>8. PICK len \in Nat : len = Len(rest)
    BY <2>5
  <2>9. Len(b) = 1 + len /\ len > 0
    BY <2>5, <2>6, <2>7, <2>8 DEF Joined
  <2>10. Len(b) # 1
    BY <2>9
  <2>11. EndOf(t, o) = <<Len(node.kids) + 1>>
    BY <1>1, <1>3 DEF EndOf
  <2>12. Len(EndOf(t, o)) = 1
    BY <2>11
  <2>. QED
    BY <2>1, <2>10, <2>12
<1>. QED
  BY <1>2, <1>3

\* So each later child is one to visit.
AllLater(t, pos, s, d) == LaterKids(t, pos, d) = pos[d] + 1 .. Len(View(t, s[d - 1]).kids)

\* Without empty leaves operator++ never skips a child.
LEMMA LaterAre ==
    ASSUME NEW t, NEW h, NEW own, IsTree(NodesOf(t), t.root, h, own), NoEmptyLeaf(t),
           NEW pos, NEW s, NEW n, IsPath(t, own, pos, s, n), NEW d \in 1 .. n - 1
    PROVE  AllLater(t, pos, s, d)
<1>1. s = Steps(t, pos) /\ Follows(t, own, pos, s, d)
  BY DEF IsPath
<1>2. PICK o, kids : o = s[d - 1] /\ kids = View(t, o).kids
  OBVIOUS
<1>3. o \in DOMAIN t.disk /\ pos[d] \in DOMAIN kids
  BY <1>1, <1>2 DEF Follows
<1>4. PICK len \in Nat : len = Len(kids)
  BY <1>2, <1>3, KidsAre, NodesAre
<1>5. DOMAIN kids = 1 .. len
  BY <1>2, <1>3, <1>4, KidsAre, NodesAre
<1>6. KidsOf(t, h, own, o)
  BY <1>3, KidIs
<1>7. \A j \in pos[d] + 1 .. len : BeginOf(t, kids[j]) # EndOf(t, kids[j])
  <2>. TAKE j \in pos[d] + 1 .. len
  <2>1. j \in DOMAIN kids
    BY <1>3, <1>5
  <2>2. kids[j] \in DOMAIN t.disk
    BY <2>1, <1>2, <1>6 DEF KidsOf
  <2>. QED
    BY <2>2, BeginNotEnd
<1>8. LaterKids(t, pos, d)
          = {j \in pos[d] + 1 .. Len(kids) : BeginOf(t, kids[j]) # EndOf(t, kids[j])}
  BY <1>1, <1>2 DEF LaterKids
<1>. QED
  BY <1>2, <1>4, <1>7, <1>8 DEF AllLater

\* A level without later children is at its last child.
AllLast(t, pos, s, b, n) == \A d \in b + 1 .. n - 1 : pos[d] = Len(View(t, s[d - 1]).kids)

\* So it goes up only from a last child.
LEMMA LastChildren ==
    ASSUME NEW t, NEW h, NEW own, IsTree(NodesOf(t), t.root, h, own), NoEmptyLeaf(t),
           NEW pos, NEW s, NEW n, IsPath(t, own, pos, s, n), NEW b \in Nat, NoneAfter(t, pos, b, n)
    PROVE  AllLast(t, pos, s, b, n)
<1>. SUFFICES ASSUME NEW d \in b + 1 .. n - 1
              PROVE  pos[d] = Len(View(t, s[d - 1]).kids)
  BY DEF AllLast
<1>1. n \in Nat
  BY DEF IsPath
<1>2. d \in 1 .. n - 1
  BY <1>1
<1>3. Follows(t, own, pos, s, d)
  BY <1>2 DEF IsPath
<1>4. PICK o, kids : o = s[d - 1] /\ kids = View(t, o).kids
  OBVIOUS
<1>5. o \in DOMAIN t.disk /\ pos[d] \in DOMAIN kids
  BY <1>3, <1>4 DEF Follows
<1>6. PICK len \in Nat : len = Len(kids)
  BY <1>4, <1>5, KidsAre, NodesAre
<1>7. DOMAIN kids = 1 .. len
  BY <1>4, <1>5, <1>6, KidsAre, NodesAre
<1>8. LaterKids(t, pos, d) = {}
  BY DEF NoneAfter
<1>9. LaterKids(t, pos, d) = pos[d] + 1 .. len
  <2>1. AllLater(t, pos, s, d)
    BY <1>2, LaterAre
  <2>. QED
    BY <2>1, <1>4, <1>6 DEF AllLater
<1>10. pos[d] \in 1 .. len /\ pos[d] + 1 .. len = {}
  BY <1>5, <1>7, <1>8, <1>9
<1>11. pos[d] = len
  <2>1. CASE pos[d] + 1 =< len
    <3>1. pos[d] + 1 \in pos[d] + 1 .. len
      BY <2>1, <1>10
    <3>. QED
      BY <3>1, <1>10
  <2>2. CASE ~ (pos[d] + 1 =< len)
    BY <2>2, <1>10
  <2>. QED
    BY <2>1, <2>2
<1>. QED
  BY <1>4, <1>6, <1>11

------------------------------------------------------------------------------

AllKeys(t) == KeysBelow(t, t.root)

\* A key of the tree is in the leaf it belongs to.
LEMMA KeyOwner ==
    ASSUME NEW t, NEW h, NEW own, IsTree(NodesOf(t), t.root, h, own), NEW k \in AllKeys(t)
    PROVE  k \in Keys /\ k \in Nat /\
           \A f \in DOMAIN t.disk : View(t, f).leaf /\ k \in own[f] => k \in LeafKeys(View(t, f))
<1>1. Below(Kids(t), t.root) = DOMAIN t.disk
  BY AllNodes
<1>2. PICK o \in DOMAIN t.disk : k \in LeafKeys(View(t, o))
  BY <1>1 DEF AllKeys, KeysBelow
<1>3. View(t, o).leaf
  BY <1>2, NodesAre, NodeIs
<1>4. k \in Keys /\ k \in Nat /\ k \in own[o]
  BY <1>2, <1>3, LeafKeysAre
<1>5. PICK N : N = NodesOf(t)
  OBVIOUS
<1>6. DOMAIN N = DOMAIN t.disk /\ \A x \in DOMAIN t.disk : N[x] = View(t, x)
  BY <1>5, NodesOfIs
<1>7. LeavesApart(N, own)
  BY <1>5 DEF IsTree
<1>8. \A f \in DOMAIN t.disk : View(t, f).leaf /\ k \in own[f] => f = o
  BY <1>3, <1>4, <1>6, <1>7 DEF LeavesApart
<1>. QED
  BY <1>2, <1>4, <1>8

\* The keys of a leaf are keys of the tree.
LEMMA LeafKeyIn ==
    ASSUME NEW t, NEW h, NEW own, IsTree(NodesOf(t), t.root, h, own), NEW f \in DOMAIN t.disk
    PROVE  LeafKeys(View(t, f)) \subseteq AllKeys(t)
BY AllNodes DEF AllKeys, KeysBelow

\* The key after k.
IsNextKey(t, k, next) ==
    next \in AllKeys(t) /\ next > k /\ \A x \in AllKeys(t) : x > k => next =< x

LaterKeys(t, k) == {x \in AllKeys(t) : x > k}

\* That is what VisitsInOrder calls the smallest of the later keys.
LEMMA NextKeyIs ==
    ASSUME NEW t, NEW h, NEW own, IsTree(NodesOf(t), t.root, h, own), NEW k \in Nat, NEW next,
           IsNextKey(t, k, next)
    PROVE  LaterKeys(t, k) # {} /\ Min(LaterKeys(t, k)) = next
<1>1. PICK S : S = LaterKeys(t, k)
  OBVIOUS
<1>2. \A x \in S : x \in Nat
  BY <1>1, KeyOwner DEF LaterKeys
<1>3. next \in S /\ \A x \in S : next =< x
  BY <1>1 DEF IsNextKey, LaterKeys
<1>4. PICK m : m = Min(S)
  OBVIOUS
<1>5. m = CHOOSE x \in S : \A y \in S : x =< y
  BY <1>4 DEF Min
<1>6. m \in S /\ \A x \in S : m =< x
  BY <1>3, <1>5
<1>7. m =< next /\ next =< m /\ m \in Nat /\ next \in Nat
  BY <1>2, <1>3, <1>6
<1>8. m = next
  BY <1>7
<1>. QED
  BY <1>1, <1>3, <1>4, <1>8

\* A path on the entry of k, in a tree without empty leaves.
OnEntry(t, own, pos, s, n, k) ==
    /\ IsPath(t, own, pos, s, n) /\ NoEmptyLeaf(t)
    /\ k \in LeafKeys(View(t, s[n])) /\ Rank(LeafKeys(View(t, s[n])), k) = pos[n]

\* A path that has a key is on its entry.
LEMMA OnEntryIs ==
    ASSUME NEW t, NEW h, NEW own, IsTree(NodesOf(t), t.root, h, own), NoEmptyLeaf(t), NEW pos,
           Path(t, pos), KeyAt(t, pos) # NoValue
    PROVE  OnEntry(t, own, pos, Steps(t, pos), Len(pos), KeyAt(t, pos))
<1>1. IsPath(t, own, pos, Steps(t, pos), Len(pos))
  BY PathIs
<1>2. OnKey(t, pos, KeyAt(t, pos))
  BY KeyAtHas
<1>. QED
  BY <1>1, <1>2 DEF OnEntry, OnKey

\* The leaf of the entry has the keys S.
EntryIn(t, own, s, n, k, r, S) ==
    /\ n \in Nat /\ n > 0 /\ s[n] \in DOMAIN t.disk /\ View(t, s[n]).leaf
    /\ S \in SUBSET Nat /\ IsFiniteSet(S) /\ k \in S
    /\ k \in Keys /\ k \in Nat /\ k \in own[s[n]] /\ Rank(S, k) = r
    /\ EndOf(t, s[n]) = <<Cardinality(S) + 1>> /\ Cardinality(S) \in Nat

\* What the leaf of an entry is.
LEMMA EntryLeaf ==
    ASSUME NEW t, NEW h, NEW own, IsTree(NodesOf(t), t.root, h, own), NEW pos, NEW s, NEW n, NEW k,
           OnEntry(t, own, pos, s, n, k), NEW S, S = LeafKeys(View(t, s[n]))
    PROVE  EntryIn(t, own, s, n, k, pos[n], S)
<1>1. /\ n \in Nat /\ n > 0 /\ s[n] = s[n - 1] /\ View(t, s[n]).leaf
      /\ \A d \in 0 .. n : s[d] \in DOMAIN t.disk
      /\ k \in S /\ Rank(S, k) = pos[n]
  BY DEF OnEntry, IsPath
<1>2. s[n] \in DOMAIN t.disk
  <2>1. n \in 0 .. n
    BY <1>1
  <2>. QED
    BY <2>1, <1>1
<1>3. S \in SUBSET Nat /\ IsFiniteSet(S) /\ S \subseteq Keys /\ S \subseteq own[s[n]]
  BY <1>1, <1>2, LeafKeysAre
<1>4. EndOf(t, s[n]) = <<Cardinality(S) + 1>>
  BY <1>1 DEF EndOf
<1>5. Cardinality(S) \in Nat
  BY <1>3, FS_CardinalityType
<1>. QED
  BY <1>1, <1>2, <1>3, <1>4, <1>5 DEF EntryIn

\* In the same leaf the next entry is that of the next key.
LEMMA StayVisits ==
    ASSUME NEW t, NEW h, NEW own, IsTree(NodesOf(t), t.root, h, own), NEW pos, NEW s, NEW n, NEW k,
           OnEntry(t, own, pos, s, n, k), NEW q, ~ LeafDone(t, pos, s, n), Stays(t, pos, s, n, q)
    PROVE  \E next : IsNextKey(t, k, next) /\ OnKey(t, q, next)
<1>1. PICK f, S : f = s[n] /\ S = LeafKeys(View(t, f))
  OBVIOUS
<1>2. /\ n \in Nat /\ n > 0 /\ f \in DOMAIN t.disk /\ View(t, f).leaf
      /\ S \in SUBSET Nat /\ IsFiniteSet(S) /\ k \in S
      /\ k \in Keys /\ k \in Nat /\ k \in own[f] /\ Rank(S, k) = pos[n]
      /\ EndOf(t, f) = <<Cardinality(S) + 1>> /\ Cardinality(S) \in Nat
  <2>1. S = LeafKeys(View(t, s[n]))
    BY <1>1
  <2>2. EntryIn(t, own, s, n, k, pos[n], S)
    BY <2>1, EntryLeaf
  <2>. QED
    BY <2>2, <1>1 DEF EntryIn
<1>3. Rank(S, k) # Cardinality(S)
  BY <1>1, <1>2 DEF LeafDone
<1>4. PICK next \in S : /\ next > k /\ Rank(S, next) = Rank(S, k) + 1
                        /\ \A y \in S : y > k => next =< y
  BY <1>2, <1>3, RankNext
<1>5. next \in AllKeys(t)
  BY <1>1, <1>2, <1>4, LeafKeyIn
<1>6. next \in Keys /\ next \in own[f] /\ next \in Nat
  BY <1>1, <1>2, <1>4, LeafKeysAre
<1>7. ASSUME NEW x \in AllKeys(t), x > k PROVE next =< x
  <2>1. x \in Keys /\ x \in Nat
    BY KeyOwner
  <2>2. CASE x =< next
    <3>1. IsPath(t, own, pos, s, n) /\ n \in 0 .. n /\ k =< x
      BY <1>2, <1>7, <2>1 DEF OnEntry
    <3>2. x \in own[f]
      BY <3>1, <2>1, <2>2, <1>1, <1>2, <1>6, PathConvex
    <3>3. x \in S
      BY <3>2, <1>1, <1>2, KeyOwner
    <3>. QED
      BY <3>3, <1>4, <1>7
  <2>3. CASE ~ (x =< next)
    BY <2>1, <2>3, <1>6
  <2>. QED
    BY <2>2, <2>3
<1>8. IsNextKey(t, k, next)
  BY <1>4, <1>5, <1>7 DEF IsNextKey
<1>9. OnKey(t, q, next)
  <2>1. Len(q) = n /\ q[n] = pos[n] + 1 /\ Steps(t, q)[n] = f
    BY <1>1 DEF Stays
  <2>2. Rank(S, next) = q[n]
    BY <2>1, <1>2, <1>4
  <2>. QED
    BY <2>1, <2>2, <1>1, <1>2, <1>4 DEF OnKey
<1>. QED
  BY <1>8, <1>9

\* At the end of a leaf the later keys that belong below the last children
\* passed are none.
LEMMA NoneLeft ==
    ASSUME NEW t, NEW h, NEW own, IsTree(NodesOf(t), t.root, h, own), NEW pos, NEW s, NEW n, NEW k,
           OnEntry(t, own, pos, s, n, k), LeafDone(t, pos, s, n),
           NEW b \in 0 .. n - 1, NoneAfter(t, pos, b, n), NEW x \in AllKeys(t), x > k
    PROVE  x \notin own[s[b]]
<1>1. PICK f, S : f = s[n] /\ S = LeafKeys(View(t, f))
  OBVIOUS
<1>2. /\ n \in Nat /\ n > 0 /\ f \in DOMAIN t.disk /\ View(t, f).leaf
      /\ S \in SUBSET Nat /\ IsFiniteSet(S) /\ k \in S
      /\ k \in Keys /\ k \in Nat /\ k \in own[f] /\ Rank(S, k) = pos[n]
      /\ EndOf(t, f) = <<Cardinality(S) + 1>> /\ Cardinality(S) \in Nat
  <2>1. S = LeafKeys(View(t, s[n]))
    BY <1>1
  <2>2. EntryIn(t, own, s, n, k, pos[n], S)
    BY <2>1, EntryLeaf
  <2>. QED
    BY <2>2, <1>1 DEF EntryIn
<1>. SUFFICES ASSUME x \in own[s[b]]
              PROVE  FALSE
  OBVIOUS
<1>3. x \in Keys /\ x \in Nat
  BY KeyOwner
<1>4. IsPath(t, own, pos, s, n) /\ NoEmptyLeaf(t)
  BY DEF OnEntry
<1>5. b \in Nat /\ \A d \in b + 1 .. n - 1 : pos[d] = Len(View(t, s[d - 1]).kids)
  <2>1. b \in Nat
    BY <1>2
  <2>. QED
    <3>1. AllLast(t, pos, s, b, n)
      BY <2>1, <1>4, LastChildren
    <3>. QED
      BY <2>1, <3>1 DEF AllLast
<1>6. k =< x
  BY <1>2, <1>3
<1>7. x \in own[f]
  BY <1>1, <1>2, <1>3, <1>4, <1>5, <1>6, PathLast
<1>8. x \in S
  BY <1>1, <1>2, <1>7, KeyOwner
<1>9. Rank(S, k) = Cardinality(S)
  <2>1. PICK c \in Nat, r \in Nat : c = Cardinality(S) /\ r = pos[n]
    BY <1>2, RankType
  <2>2. <<r + 1>> = <<c + 1>>
    BY <2>1, <1>1, <1>2 DEF LeafDone
  <2>3. r + 1 = c + 1
    BY <2>2
  <2>4. r = c
    BY <2>3
  <2>. QED
    BY <2>1, <2>4, <1>2
<1>10. x =< k
  BY <1>2, <1>8, <1>9, RankLast
<1>. QED
  BY <1>2, <1>3, <1>10

\* At end() no key is left.
LEMMA EndVisits ==
    ASSUME NEW t, NEW h, NEW own, IsTree(NodesOf(t), t.root, h, own), NEW pos, NEW s, NEW n, NEW k,
           OnEntry(t, own, pos, s, n, k), LeafDone(t, pos, s, n), NoneAfter(t, pos, 0, n)
    PROVE  LaterKeys(t, k) = {}
<1>1. n \in Nat /\ n > 0 /\ s[0] = t.root
  BY DEF OnEntry, IsPath
<1>2. 0 \in 0 .. n - 1
  BY <1>1
<1>3. own[t.root] = Keys
  BY DEF IsTree, Typed
<1>4. ASSUME NEW x \in AllKeys(t), x > k PROVE FALSE
  <2>1. x \notin own[s[0]]
    BY <1>2, <1>4, NoneLeft
  <2>2. x \in Keys
    BY KeyOwner
  <2>. QED
    BY <2>1, <2>2, <1>1, <1>3
<1>. QED
  BY <1>4 DEF LaterKeys

\* The first entry below the next child is that of the next key.
LEMMA TurnVisits ==
    ASSUME NEW t, NEW h, NEW own, IsTree(NodesOf(t), t.root, h, own), NEW pos, NEW s, NEW n, NEW k,
           OnEntry(t, own, pos, s, n, k), LeafDone(t, pos, s, n),
           NEW d \in 1 .. n - 1, NoneAfter(t, pos, d, n), NEW q, Turns(t, own, pos, s, d, q)
    PROVE  \E next : IsNextKey(t, k, next) /\ OnKey(t, q, next)
<1>1. /\ n \in Nat /\ n > 0 /\ k \in Keys /\ k \in Nat /\ k \in own[s[n]]
  <2>1. PICK S : S = LeafKeys(View(t, s[n]))
    OBVIOUS
  <2>2. EntryIn(t, own, s, n, k, pos[n], S)
    BY <2>1, EntryLeaf
  <2>. QED
    BY <2>2 DEF EntryIn
<1>2. IsPath(t, own, pos, s, n) /\ NoEmptyLeaf(t)
  BY DEF OnEntry
<1>3. PICK o, node, i : o = s[d - 1] /\ node = View(t, o) /\ i = pos[d]
  OBVIOUS
<1>4. /\ o \in DOMAIN t.disk /\ IsInner(node) /\ i \in DOMAIN node.kids /\ s[d] = node.kids[i]
      /\ \A x \in Keys : x \in own[s[d]] <=> x \in own[o] /\ ChildIndex(node, x) = i
  BY <1>2, <1>3 DEF IsPath, Follows
<1>5. PICK len \in Nat : len = Len(node.kids)
  BY <1>3, <1>4, KidsAre, NodesAre
<1>6. DOMAIN node.kids = 1 .. len
  BY <1>3, <1>4, <1>5, KidsAre, NodesAre
<1>7. LaterKids(t, pos, d) = i + 1 .. len
  <2>1. AllLater(t, pos, s, d)
    BY <1>2, LaterAre
  <2>. QED
    BY <2>1, <1>3, <1>5 DEF AllLater
<1>8. PICK j \in i + 1 .. len : /\ \A x \in i + 1 .. len : j =< x
                                /\ j \in DOMAIN node.kids /\ Enters(t, own, node.kids[j], q)
  BY <1>3, <1>7 DEF Turns
<1>9. i \in Nat /\ j = i + 1
  <2>1. i \in 1 .. len
    BY <1>4, <1>6
  <2>2. i + 1 \in i + 1 .. len
    BY <2>1, <1>8
  <2>3. j =< i + 1
    BY <2>2, <1>8
  <2>. QED
    BY <2>1, <2>3, <1>8
<1>10. PICK c, g, S : /\ c = node.kids[j] /\ g = Steps(t, q)[Len(q)]
                      /\ S = LeafKeys(View(t, g))
  OBVIOUS
<1>11. Path(t, q) /\ q[Len(q)] = 1 /\ Leftmost(t, own, c, g)
  BY <1>8, <1>10 DEF Enters
<1>12. g \in DOMAIN t.disk /\ View(t, g).leaf
       /\ \A y \in Keys : y \in own[g] =>
            y \in own[c] /\ \A x \in Keys : x \in own[c] /\ x =< y => x \in own[g]
  BY <1>11 DEF Leftmost
<1>13. S # {} /\ S \in SUBSET Nat /\ IsFiniteSet(S) /\ S \subseteq Keys /\ S \subseteq own[g]
  BY <1>2, <1>10, <1>12, LeafKeysAre DEF NoEmptyLeaf
<1>14. PICK next \in S : Rank(S, next) = 1 /\ \A x \in S : next =< x
  BY <1>13, RankFirst
<1>15. next \in Keys /\ next \in Nat /\ next \in own[g] /\ next \in own[c]
  BY <1>12, <1>13, <1>14
<1>16. \A x \in Keys : x \in own[c] <=> x \in own[o] /\ ChildIndex(node, x) = j
  <2>1. PICK N : N = NodesOf(t)
    OBVIOUS
  <2>2. DOMAIN N = DOMAIN t.disk /\ N[o] = node
    BY <2>1, <1>3, <1>4, NodesOfIs
  <2>3. IsLink(N, h, own, o, j, c)
    BY <2>1, <2>2, <1>4, <1>8, <1>10 DEF IsTree, LinksOk
  <2>. QED
    BY <2>2, <2>3 DEF IsLink
<1>17. next \in own[o] /\ ChildIndex(node, next) = j
  BY <1>15, <1>16
<1>18. k \in own[s[d]] /\ k \in own[o] /\ ChildIndex(node, k) = i
  <2>1. d \in 0 .. n
    BY <1>1
  <2>2. k \in own[s[d]]
    BY <2>1, <1>1, <1>2, PathOwns
  <2>. QED
    BY <2>2, <1>1, <1>4
<1>19. next > k
  <2>1. CASE next =< k
    <3>1. j =< i
      BY <2>1, <1>1, <1>4, <1>15, <1>17, <1>18, ChildIndexGrows
    <3>. QED
      BY <3>1, <1>9
  <2>. QED
    BY <2>1, <1>1, <1>15
<1>20. ASSUME NEW x \in AllKeys(t), x > k, ~ (next =< x) PROVE FALSE
  <2>1. x \in Keys /\ x \in Nat
    BY KeyOwner
  <2>2. k =< x /\ x =< next
    BY <2>1, <1>1, <1>15, <1>20
  <2>3. d - 1 \in 0 .. n
    BY <1>1
  <2>4. k \in own[s[d - 1]] /\ next \in own[s[d - 1]]
    BY <1>3, <1>17, <1>18
  <2>5. x \in own[s[d - 1]]
    BY <2>1, <2>2, <2>3, <2>4, <1>1, <1>2, <1>15, PathConvex
  <2>6. PICK y : y = ChildIndex(node, x)
    OBVIOUS
  <2>7. i =< y
    BY <2>1, <2>2, <2>6, <1>1, <1>4, <1>18, ChildIndexGrows
  <2>8. y =< j
    BY <2>1, <2>2, <2>6, <1>15, <1>4, <1>17, ChildIndexGrows
  <2>9. y \in Nat
    <3>1. y \in DOMAIN node.kids
      BY <2>1, <2>6, <1>4, ChildIndexType
    <3>. QED
      BY <3>1, <1>6
  <2>10. y = i \/ y = j
    BY <2>7, <2>8, <2>9, <1>9
  <2>11. CASE y = i
    <3>1. x \in own[s[d]]
      BY <2>1, <2>5, <2>6, <2>11, <1>3, <1>4
    <3>2. d \in 0 .. n - 1
      BY <1>1
    <3>3. x \notin own[s[d]]
      BY <3>2, <1>20, NoneLeft
    <3>. QED
      BY <3>1, <3>3
  <2>12. CASE y = j
    <3>1. x \in own[c]
      BY <2>1, <2>5, <2>6, <2>12, <1>3, <1>16
    <3>2. x \in own[g]
      BY <3>1, <2>1, <2>2, <1>12, <1>15
    <3>3. x \in S
      BY <3>2, <1>10, <1>12, KeyOwner
    <3>. QED
      BY <3>3, <1>14, <1>20
  <2>. QED
    BY <2>10, <2>11, <2>12
<1>21. next \in AllKeys(t)
  BY <1>10, <1>12, <1>14, LeafKeyIn
<1>22. IsNextKey(t, k, next)
  BY <1>19, <1>20, <1>21 DEF IsNextKey
<1>23. OnKey(t, q, next)
  BY <1>10, <1>11, <1>12, <1>14 DEF OnKey
<1>. QED
  BY <1>22, <1>23

------------------------------------------------------------------------------
(* An iterator on an entry has a path, and visits the keys in order.       *)

\* At end() there is no key.
LEMMA EndHasNoKey ==
    ASSUME NEW t, NEW h, NEW own, IsTree(NodesOf(t), t.root, h, own)
    PROVE  KeyAt(t, EndOf(t, t.root)) = NoValue
<1>1. PICK o, node, q, r : /\ o = t.root /\ node = View(t, o)
                           /\ q = EndOf(t, o) /\ r = Steps(t, q)
  OBVIOUS
<1>2. o \in DOMAIN t.disk /\ IsNode(node)
  BY <1>1, NodesAre
<1>. SUFFICES ASSUME KeyAt(t, q) # NoValue
              PROVE  FALSE
  BY <1>1
<1>3. OnKey(t, q, KeyAt(t, q))
  BY KeyAtHas
<1>4. IsPosition(q)
  BY <1>1, <1>2, EndIs
<1>5. CASE node.leaf
  <2>1. PICK S : S = LeafKeys(node)
    OBVIOUS
  <2>2. S \in SUBSET Nat /\ IsFiniteSet(S)
    BY <2>1, <1>1, <1>2, <1>5, LeafKeysAre
  <2>3. PICK m \in Nat : m = Cardinality(S)
    BY <2>2, FS_CardinalityType
  <2>4. q = <<m + 1>>
    BY <2>1, <2>3, <1>1, <1>5 DEF EndOf
  <2>5. Len(q) = 1 /\ q[1] = m + 1
    BY <2>4
  <2>6. r[1] = o
    <3>1. q \in Seq(Nat)
      BY <1>4 DEF IsPosition
    <3>2. r[0] = o
      BY <3>1, <1>1, StepsIs DEF StepsAre
    <3>3. PICK d \in Nat : d = 1
      OBVIOUS
    <3>4. d > 0 /\ d =< Len(q) /\ d - 1 = 0
      BY <3>3, <2>5
    <3>5. View(t, r[d - 1]).leaf
      BY <3>2, <3>4, <1>1, <1>5
    <3>6. r = Steps(t, q)
      BY <1>1
    <3>7. r[d] = r[d - 1] /\ r[d] \in DOMAIN t.disk
      BY <3>1, <3>4, <3>5, <3>6, LeafStays
    <3>. QED
      BY <3>2, <3>3, <3>4, <3>7
  <2>7. PICK k : k = KeyAt(t, q)
    OBVIOUS
  <2>8. k \in S /\ Rank(S, k) = m + 1
    BY <2>1, <2>5, <2>6, <2>7, <1>1, <1>3 DEF OnKey
  <2>9. Rank(S, k) =< m
    BY <2>2, <2>3, <2>8, RankType
  <2>. QED
    BY <2>8, <2>9
<1>6. CASE ~ node.leaf
  <2>1. PICK len \in Nat : len = Len(node.kids)
    BY <1>2, KidsAre
  <2>2. DOMAIN node.kids = 1 .. len
    BY <2>1, <1>2, KidsAre
  <2>3. q = <<len + 1>>
    BY <2>1, <1>1, <1>6 DEF EndOf
  <2>4. Len(q) = 1 /\ q[1] = len + 1 /\ q[1] \notin DOMAIN node.kids
    BY <2>2, <2>3
  <2>5. r[1] = o
    <3>1. \A d \in 0 .. 1 : r[d] = StepOf(t, q, r, d)
      <4>1. PICK one \in Nat : one = Len(q) /\ one = 1
        BY <2>4
      <4>2. \A d \in 0 .. one : Steps(t, q)[d] = StepOf(t, q, Steps(t, q), d)
        BY <4>1, StepsExist
      <4>. QED
        BY <4>1, <4>2, <1>1
    <3>2. r[0] = o
      BY <3>1, <1>1 DEF StepOf
    <3>3. r[1] = StepOf(t, q, r, 1)
      BY <3>1
    <3>4. View(t, r[1 - 1]) = node
      BY <3>2, <1>1
    <3>. QED
      BY <3>2, <3>3, <3>4, <2>4 DEF StepOf
  <2>. QED
    BY <2>4, <2>5, <1>1, <1>3, <1>6 DEF OnKey
<1>. QED
  BY <1>5, <1>6

\* begin() has a path.
LEMMA BeginPath ==
    ASSUME NEW t, NEW h, NEW own, IsTree(NodesOf(t), t.root, h, own)
    PROVE  Path(t, BeginOf(t, t.root))
<1>1. PICK o, b, c : o = t.root /\ b = BeginOf(t, o) /\ c = <<>>
  OBVIOUS
<1>2. o \in DOMAIN t.disk
  BY <1>1, NodesAre
<1>3. b \in Seq(Nat) /\ Len(b) > 0
  BY <1>1, <1>2, BeginIs
<1>4. c \in Seq(Nat) /\ Len(c) = 0
  BY <1>1
<1>5. c \o b = b
  BY <1>1, <1>3, ConcatEmptySeq
<1>6. Steps(t, b)[0] = o
  BY <1>1, <1>3, StepsIs DEF StepsAre
<1>7. BeginLeads(t, own, o)
  BY <1>2, BeginLeadsOn
<1>8. Steps(t, c \o BeginOf(t, o))[Len(c)] = o
  BY <1>1, <1>4, <1>5, <1>6
<1>9. FirstLeaf(t, own, o, c \o BeginOf(t, o), Len(c))
  BY <1>4, <1>7, <1>8 DEF BeginLeads
<1>10. FirstLeaf(t, own, o, b, 0)
  BY <1>1, <1>4, <1>5, <1>9
<1>11. IsPosition(b)
  BY <1>3 DEF IsPosition
<1>. QED
  BY <1>1, <1>10, <1>11 DEF FirstLeaf, Path

\* A position on an entry has a path.
Standing(t, pos) == KeyAt(t, pos) # NoValue => Path(t, pos)

\* operator++ leads from a path to a path, or to end().
LEMMA NextStands ==
    ASSUME NEW t, NEW h, NEW own, IsTree(NodesOf(t), t.root, h, own), NEW pos, Path(t, pos)
    PROVE  Standing(t, NextOf(t, pos))
<1>1. PICK s, n, q : s = Steps(t, pos) /\ n = Len(pos) /\ q = NextOf(t, pos)
  OBVIOUS
<1>2. IsPath(t, own, pos, s, n)
  BY <1>1, PathIs
<1>3. Goes(t, own, pos, s, n, q)
  BY <1>1, <1>2, NextGoes
<1>4. CASE Stays(t, pos, s, n, q)
  BY <1>1, <1>4 DEF Stays, Standing
<1>5. CASE q = EndOf(t, t.root)
  BY <1>1, <1>5, EndHasNoKey DEF Standing
<1>6. ASSUME NEW d, Turns(t, own, pos, s, d, q) PROVE Standing(t, q)
  BY <1>6 DEF Turns, Enters, Standing
<1>. QED
  BY <1>1, <1>3, <1>4, <1>5, <1>6 DEF Goes

\* The next key, or end() if there is none.
Visits(t, k, q) ==
    IF LaterKeys(t, k) = {} THEN q = EndOf(t, t.root) ELSE KeyAt(t, q) = Min(LaterKeys(t, k))

\* operator++ leads to the next key, or to end() after the last.
LEMMA NextVisits ==
    ASSUME NEW t, NEW h, NEW own, IsTree(NodesOf(t), t.root, h, own), NoEmptyLeaf(t), NEW pos,
           Path(t, pos), KeyAt(t, pos) # NoValue
    PROVE  Visits(t, KeyAt(t, pos), NextOf(t, pos))
<1>1. PICK s, n, q, k : /\ s = Steps(t, pos) /\ n = Len(pos)
                        /\ q = NextOf(t, pos) /\ k = KeyAt(t, pos)
  OBVIOUS
<1>2. OnEntry(t, own, pos, s, n, k)
  BY <1>1, OnEntryIs
<1>3. IsPath(t, own, pos, s, n)
  BY <1>2 DEF OnEntry
<1>4. Goes(t, own, pos, s, n, q)
  BY <1>1, <1>3, NextGoes
<1>5. IsPosition(q)
  BY <1>1, NextIs DEF Path
<1>6. k \in Nat
  <2>1. PICK S : S = LeafKeys(View(t, s[n]))
    OBVIOUS
  <2>2. EntryIn(t, own, s, n, k, pos[n], S)
    BY <2>1, <1>2, EntryLeaf
  <2>. QED
    BY <2>2 DEF EntryIn
<1>7. ASSUME NEW next, IsNextKey(t, k, next), OnKey(t, q, next) PROVE Visits(t, k, q)
  <2>1. KeyAt(t, q) = next
    BY <1>5, <1>7, KeyAtIs
  <2>2. LaterKeys(t, k) # {} /\ Min(LaterKeys(t, k)) = next
    BY <1>6, <1>7, NextKeyIs
  <2>. QED
    BY <2>1, <2>2 DEF Visits
<1>8. CASE ~ LeafDone(t, pos, s, n) /\ Stays(t, pos, s, n, q)
  <2>1. \E next : IsNextKey(t, k, next) /\ OnKey(t, q, next)
    BY <1>2, <1>8, StayVisits
  <2>. QED
    BY <2>1, <1>1, <1>7
<1>9. CASE LeafDone(t, pos, s, n) /\ NoneAfter(t, pos, 0, n) /\ q = EndOf(t, t.root)
  <2>1. LaterKeys(t, k) = {}
    BY <1>2, <1>9, EndVisits
  <2>. QED
    BY <2>1, <1>1, <1>9 DEF Visits
<1>10. ASSUME LeafDone(t, pos, s, n), NEW d \in 1 .. n - 1, NoneAfter(t, pos, d, n),
              Turns(t, own, pos, s, d, q)
       PROVE  Visits(t, k, q)
  <2>1. \E next : IsNextKey(t, k, next) /\ OnKey(t, q, next)
    BY <1>2, <1>10, TurnVisits
  <2>. QED
    BY <2>1, <1>7
<1>. QED
  BY <1>1, <1>4, <1>8, <1>9, <1>10 DEF Goes

------------------------------------------------------------------------------
(* The cache does not matter to positions.                                 *)

SameWay(t, u, pos) ==
    /\ Steps(u, pos)[Len(pos)] = Steps(t, pos)[Len(pos)]
    /\ \A d \in 0 .. Len(pos) :
        Steps(u, pos)[d] = Steps(t, pos)[d] /\ View(u, Steps(u, pos)[d]) = View(t, Steps(t, pos)[d])

\* A position passes the same nodes, whichever of them are cached.
LEMMA SameWayIs ==
    ASSUME NEW t, NEW h, NEW own, IsTree(NodesOf(t), t.root, h, own), NEW u, SameNodes(t, u),
           NEW pos, IsPosition(pos)
    PROVE  SameWay(t, u, pos)
<1>1. PICK n \in Nat : n = Len(pos)
  BY DEF IsPosition
<1>2. pos \in Seq(Nat)
  BY DEF IsPosition
<1>3. n =< n /\ n \in 0 .. n
  OBVIOUS
<1>4. Agree(pos, pos, n)
  BY <1>1, <1>2, <1>3 DEF Agree
<1>5. SameSteps(t, pos, u, pos, n)
  BY <1>4, StepsAgree
<1>6. PICK s, r : s = Steps(t, pos) /\ r = Steps(u, pos)
  OBVIOUS
<1>7. \A d \in 0 .. n : r[d] = s[d]
  BY <1>5, <1>6 DEF SameSteps
<1>8. \A d \in 0 .. n : s[d] \in DOMAIN t.disk
  BY <1>1, <1>2, <1>6, StepsIs DEF StepsAre
<1>9. \A o \in DOMAIN t.disk : View(u, o) = View(t, o)
  BY SameViews
<1>10. \A d \in 0 .. n : r[d] = s[d] /\ View(u, r[d]) = View(t, s[d])
  BY <1>7, <1>8, <1>9
<1>. QED
  BY <1>1, <1>3, <1>6, <1>10 DEF SameWay

\* It is on the same key.
LEMMA SameKey ==
    ASSUME NEW t, NEW h, NEW own, IsTree(NodesOf(t), t.root, h, own), NEW u, SameNodes(t, u),
           NEW pos, IsPosition(pos)
    PROVE  KeyAt(u, pos) = KeyAt(t, pos)
<1>1. SameWay(t, u, pos)
  BY SameWayIs
<1>2. PICK n \in Nat : n = Len(pos)
  BY DEF IsPosition
<1>3. n \in 0 .. n
  OBVIOUS
<1>4. View(u, Steps(u, pos)[Len(pos)]) = View(t, Steps(t, pos)[Len(pos)])
  BY <1>1, <1>2, <1>3 DEF SameWay
<1>. QED
  BY <1>4 DEF KeyAt

\* A path stays a path.
LEMMA SamePath ==
    ASSUME NEW t, NEW h, NEW own, IsTree(NodesOf(t), t.root, h, own), NEW u, SameNodes(t, u),
           NEW pos, Path(t, pos)
    PROVE  Path(u, pos)
<1>1. IsPosition(pos)
  BY DEF Path
<1>2. SameWay(t, u, pos)
  BY <1>1, SameWayIs
<1>3. PICK n \in Nat : n = Len(pos) /\ n > 0
  BY <1>1 DEF IsPosition
<1>4. PICK s, r : s = Steps(t, pos) /\ r = Steps(u, pos)
  OBVIOUS
<1>5. \A d \in 0 .. n : View(u, r[d]) = View(t, s[d])
  BY <1>2, <1>3, <1>4 DEF SameWay
<1>6. \A d \in 1 .. n - 1 : pos[d] \in DOMAIN View(u, r[d - 1]).kids
  <2>. TAKE d \in 1 .. n - 1
  <2>1. d - 1 \in 0 .. n
    BY <1>3
  <2>2. pos[d] \in DOMAIN View(t, s[d - 1]).kids
    BY <1>3, <1>4 DEF Path
  <2>. QED
    BY <2>1, <2>2, <1>5
<1>7. View(u, r[n - 1]).leaf
  <2>1. n - 1 \in 0 .. n
    BY <1>3
  <2>2. View(t, s[n - 1]).leaf
    BY <1>3, <1>4 DEF Path
  <2>. QED
    BY <2>1, <2>2, <1>5
<1>. QED
  BY <1>1, <1>3, <1>4, <1>6, <1>7 DEF Path

\* end() stays the same.
LEMMA SameEnd ==
    ASSUME NEW t, NEW h, NEW own, IsTree(NodesOf(t), t.root, h, own), NEW u, SameNodes(t, u)
    PROVE  EndOf(u, u.root) = EndOf(t, t.root)
<1>1. u.root = t.root /\ t.root \in DOMAIN t.disk
  BY SameViews, NodesAre
<1>2. View(u, u.root) = View(t, t.root)
  BY <1>1, SameViews
<1>. QED
  BY <1>2 DEF EndOf

\* An iterator keeps its entry when nodes enter or leave the cache.
LEMMA SameStanding ==
    ASSUME NEW t, NEW h, NEW own, IsTree(NodesOf(t), t.root, h, own), NEW u, SameNodes(t, u),
           NEW pos, IsPosition(pos), Standing(t, pos)
    PROVE  Standing(u, pos)
<1>1. KeyAt(u, pos) = KeyAt(t, pos)
  BY SameKey
<1>. QED
  BY <1>1, SamePath DEF Standing

------------------------------------------------------------------------------

\* An iterator on an entry has a path.
PathInv == iter.open => Standing(tree, iter.pos)

\* A step that leaves the iterator and the nodes alone keeps it.
LEMMA KeptPath ==
    ASSUME IInv, PathInv, Kept, iter' = iter
    PROVE  PathInv'
<1>. SUFFICES ASSUME iter'.open
              PROVE  Standing(tree', iter'.pos)
  BY DEF PathInv
<1>1. PICK h, own : IsTree(NodesOf(tree), tree.root, h, own)
  BY DEF IInv, TreeOk, Grounded
<1>2. IsPosition(iter.pos) /\ Standing(tree, iter.pos)
  BY DEF IInv, PathInv
<1>3. SameNodes(tree, tree')
  BY DEF Kept, Untouched
<1>4. Standing(tree', iter.pos)
  BY <1>1, <1>2, <1>3, SameStanding
<1>. QED
  BY <1>4

\* begin() stands on an entry with a path.
LEMMA BeginOnPath ==
    ASSUME IInv, Begin
    PROVE  PathInv'
<1>1. PICK h, own : IsTree(NodesOf(tree), tree.root, h, own)
  BY DEF IInv, TreeOk, Grounded
<1>2. PICK pos : pos = BeginOf(tree, tree.root)
  OBVIOUS
<1>3. iter' = [open |-> TRUE, pos |-> pos]
  BY <1>2 DEF Begin
<1>4. SameNodes(tree, tree')
  BY BeginStepKeeps DEF Kept, Untouched
<1>5. Path(tree, pos)
  BY <1>1, <1>2, BeginPath
<1>6. Path(tree', pos)
  BY <1>1, <1>4, <1>5, SamePath
<1>. QED
  BY <1>3, <1>6 DEF PathInv, Standing

\* ++ leads from a path to a path.
LEMMA AdvanceOnPath ==
    ASSUME IInv, PathInv, Advance
    PROVE  PathInv'
<1>1. PICK h, own : IsTree(NodesOf(tree), tree.root, h, own)
  BY DEF IInv, TreeOk, Grounded
<1>2. PICK old, pos : old = iter.pos /\ pos = NextOf(tree, old)
  OBVIOUS
<1>3. Path(tree, old)
  BY <1>2 DEF PathInv, Standing, Advance
<1>4. iter'.pos = pos
  BY <1>2 DEF Advance, IInv
<1>5. SameNodes(tree, tree')
  BY AdvanceStep DEF Kept, Untouched
<1>6. Standing(tree, pos)
  BY <1>1, <1>2, <1>3, NextStands
<1>7. IsPosition(pos)
  BY <1>1, <1>2, <1>3, NextIs DEF Path
<1>8. Standing(tree', pos)
  BY <1>1, <1>5, <1>6, <1>7, SameStanding
<1>. QED
  BY <1>4, <1>8 DEF PathInv

\* Initially there is no iterator.
LEMMA PathInit == Init => PathInv
BY DEF Init, NoIterator, PathInv

\* Every step keeps the path.
LEMMA PathStep == IInv /\ PathInv /\ [Next]_vars => PathInv'
<1>. SUFFICES ASSUME IInv, PathInv, [Next]_vars
              PROVE  PathInv'
  OBVIOUS
<1>1. ASSUME NEW k \in Keys, Get(k) PROVE PathInv'
  <2>1. Kept /\ iter' = iter
    BY <1>1, GetStep DEF Get
  <2>. QED
    BY <2>1, KeptPath
<1>2. ASSUME NEW k \in Keys, RemoveKey(k) PROVE PathInv'
  BY <1>2 DEF RemoveKey, PathInv
<1>3. ASSUME NEW k \in Keys, NEW v \in ValuesOf[k], AddOrUpdate(k, v) PROVE PathInv'
  BY <1>3 DEF AddOrUpdate, PathInv
<1>4. CASE Write
  <2>1. Kept /\ iter' = iter
    BY <1>4, WriteStep DEF Write
  <2>. QED
    BY <2>1, KeptPath
<1>5. CASE Reopen
  BY <1>5 DEF Reopen, PathInv
<1>6. CASE Begin
  BY <1>6, BeginOnPath
<1>7. CASE Advance
  BY <1>7, AdvanceOnPath
<1>8. CASE Close
  BY <1>8 DEF Close, NoIterator, PathInv
<1>9. CASE UNCHANGED vars
  <2>1. Kept /\ iter' = iter
    BY <1>9, StutterStep DEF vars
  <2>. QED
    BY <2>1, KeptPath
<1>. QED
  BY <1>1, <1>2, <1>3, <1>4, <1>5, <1>6, <1>7, <1>8, <1>9 DEF Next

\* A step of ++, when no leaf is empty, is to the next key or to end().
VisitsNext ==
    LET later == {k \in KeysBelow(tree, tree.root) : k > CurrentKey}
    IN  (Advance /\ ~ HasEmptyLeaf) => IF later = {} THEN AtEnd' ELSE CurrentKey' = Min(later)

\* The step Advance visits the next key.
LEMMA VisitStep ==
    ASSUME IInv, PathInv, Advance, ~ HasEmptyLeaf
    PROVE  IF LaterKeys(tree, CurrentKey) = {} THEN AtEnd'
           ELSE CurrentKey' = Min(LaterKeys(tree, CurrentKey))
<1>1. PICK h, own : IsTree(NodesOf(tree), tree.root, h, own)
  BY DEF IInv, TreeOk, Grounded
<1>2. PICK old, pos : old = iter.pos /\ pos = NextOf(tree, old)
  OBVIOUS
<1>3. KeyAt(tree, old) # NoValue /\ Path(tree, old)
  BY <1>2 DEF PathInv, Standing, Advance
<1>4. iter'.pos = pos
  BY <1>2 DEF Advance, IInv
<1>5. SameNodes(tree, tree')
  BY AdvanceStep DEF Kept, Untouched
<1>6. NoEmptyLeaf(tree)
  BY <1>1, AllNodes DEF NoEmptyLeaf, HasEmptyLeaf, Nodes
<1>7. Visits(tree, KeyAt(tree, old), pos)
  BY <1>1, <1>2, <1>3, <1>6, NextVisits
<1>8. IsPosition(pos)
  BY <1>1, <1>2, <1>3, NextIs DEF Path
<1>9. KeyAt(tree', pos) = KeyAt(tree, pos)
  BY <1>1, <1>5, <1>8, SameKey
<1>10. EndOf(tree', tree'.root) = EndOf(tree, tree.root)
  BY <1>1, <1>5, SameEnd
<1>11. CurrentKey = KeyAt(tree, old)
  BY <1>2 DEF CurrentKey
<1>12. CurrentKey' = KeyAt(tree, pos)
  BY <1>4, <1>9 DEF CurrentKey
<1>13. AtEnd' <=> pos = EndOf(tree, tree.root)
  BY <1>4, <1>10 DEF AtEnd
<1>. QED
  BY <1>7, <1>11, <1>12, <1>13 DEF Visits

\* Iterating visits the keys in order and misses none, also when the cache is
\* cleared under the iterator, as long as no leaf has been emptied.
THEOREM VisitsAllInOrder == Spec => VisitsInOrder
<1>1. IInv /\ PathInv /\ [Next]_vars => [VisitsNext]_vars
  BY VisitStep DEF VisitsNext, LaterKeys, AllKeys
<1>2. [][VisitsNext]_vars => VisitsInOrder
  BY PTL DEF VisitsNext, VisitsInOrder
<1>. QED
  BY <1>1, <1>2, InductiveInvariant, PathInit, PathStep, PTL DEF Spec
==============================================================================
