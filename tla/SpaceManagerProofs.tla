------------------------- MODULE SpaceManagerProofs --------------------------
(***************************************************************************)
(* Proofs about SpaceManager, for every header length, node size, leaf     *)
(* capacity, set of lengths and bound.  The heart is one fact about sets   *)
(* of blocks: the blocks tile the file, and allocation only appends a tile *)
(* or cuts one in two, while releasing moves a tile from one owner to      *)
(* another.                                                                *)
(***************************************************************************)
EXTENDS SpaceManager, FiniteSetTheorems, TLAPS

\* The blocks of S lie in lo .. hi-1, do not overlap and leave no gap.
Tiled(S, lo, hi) ==
    /\ S \subseteq Block
    /\ \A b \in S : lo <= b.off /\ b.off + b.len <= hi
    /\ \A b, c \in S : b # c => Disjoint(b, c)
    /\ \A i \in lo .. hi - 1 : \E b \in S : b.off <= i /\ i < b.off + b.len

------------------------------------------------------------------------------
(* Sets of blocks. *)

\* A block has its place and its length.
LEMMA BlockAtType ==
    ASSUME NEW o \in Nat, NEW l \in Nat \ {0}
    PROVE  /\ BlockAt(o, l) \in Block
           /\ BlockAt(o, l).off = o
           /\ BlockAt(o, l).len = l
BY DEF BlockAt, Block

\* No blocks fill no space.
LEMMA TiledEmpty ==
    ASSUME NEW lo \in Nat
    PROVE  Tiled({}, lo, lo)
BY DEF Tiled

\* Appending a block at the end of a tiled file.
LEMMA TiledAppend ==
    ASSUME NEW S, NEW lo \in Nat, NEW hi \in Nat, lo <= hi, Tiled(S, lo, hi),
           NEW n \in Nat \ {0}
    PROVE  /\ BlockAt(hi, n) \notin S
           /\ Tiled(S \cup {BlockAt(hi, n)}, lo, hi + n)
<1> DEFINE e == BlockAt(hi, n)
           T == S \cup {e}
<1>1. e \in Block /\ e.off = hi /\ e.len = n
  BY BlockAtType
<1>2. e \notin S
  BY <1>1 DEF Tiled, Block
<1>3. T \subseteq Block
  BY <1>1 DEF Tiled
<1>4. \A b \in T : lo <= b.off /\ b.off + b.len <= hi + n
  BY <1>1 DEF Tiled, Block
<1>5. ASSUME NEW b \in T, NEW c \in T, b # c
      PROVE  Disjoint(b, c)
  BY <1>1, <1>5 DEF Tiled, Block, Disjoint
<1>6. ASSUME NEW i \in lo .. (hi + n) - 1
      PROVE  \E b \in T : b.off <= i /\ i < b.off + b.len
  <2>1. CASE i < hi
    BY <2>1, <1>6 DEF Tiled
  <2>2. CASE i >= hi
    BY <2>2, <1>1, <1>6
  <2>. QED
    BY <2>1, <2>2, <1>6
<1>. HIDE DEF e
<1>7. QED
  BY <1>2, <1>3, <1>4, <1>5, <1>6 DEF Tiled, e

\* Cutting a block of a tiled file in two.
LEMMA TiledCut ==
    ASSUME NEW S, NEW lo \in Nat, NEW hi \in Nat, Tiled(S, lo, hi),
           NEW b \in S, NEW n \in Nat \ {0}, n < b.len
    PROVE  /\ BlockAt(b.off, n) \notin S
           /\ BlockAt(b.off + n, b.len - n) \notin S
           /\ BlockAt(b.off, n) # BlockAt(b.off + n, b.len - n)
           /\ Tiled((S \ {b}) \cup {BlockAt(b.off, n), BlockAt(b.off + n, b.len - n)}, lo, hi)
<1> DEFINE f == BlockAt(b.off, n)
           g == BlockAt(b.off + n, b.len - n)
           T == (S \ {b}) \cup {f, g}
<1>0. b \in Block /\ b.off \in Nat /\ b.len \in Nat \ {0}
  BY DEF Tiled, Block
<1>1. /\ f \in Block /\ f.off = b.off /\ f.len = n
      /\ g \in Block /\ g.off = b.off + n /\ g.len = b.len - n
  <2>1. b.off + n \in Nat /\ b.len - n \in Nat \ {0}
    BY <1>0
  <2>. QED
    BY <1>0, <2>1, BlockAtType
<1>2. \A c \in S : c.off \in Nat /\ c.len \in Nat \ {0}
  BY DEF Tiled, Block
<1>3. f \notin S /\ g \notin S /\ f # g
  <2>1. f # b /\ g # b /\ f # g
    BY <1>0, <1>1
  <2>2. ~ Disjoint(f, b) /\ ~ Disjoint(g, b)
    BY <1>0, <1>1 DEF Disjoint
  <2>. QED
    BY <2>1, <2>2 DEF Tiled
<1>4. T \subseteq Block
  BY <1>1 DEF Tiled
<1>5. \A c \in T : lo <= c.off /\ c.off + c.len <= hi
  <2>1. lo <= b.off /\ b.off + b.len <= hi
    BY DEF Tiled
  <2>2. /\ lo <= f.off /\ f.off + f.len <= hi
        /\ lo <= g.off /\ g.off + g.len <= hi
    BY <1>0, <1>1, <2>1
  <2>. QED
    BY <2>2 DEF Tiled
<1>6. ASSUME NEW c \in T, NEW d \in T, c # d
      PROVE  Disjoint(c, d)
  <2>1. ASSUME NEW x \in S \ {b}
        PROVE  Disjoint(x, f) /\ Disjoint(f, x) /\ Disjoint(x, g) /\ Disjoint(g, x)
    <3>1. Disjoint(x, b)
      BY <2>1 DEF Tiled
    <3>. QED
      BY <3>1, <1>0, <1>1, <1>2 DEF Disjoint
  <2>2. Disjoint(f, g) /\ Disjoint(g, f)
    BY <1>0, <1>1 DEF Disjoint
  <2>3. \A x, y \in S : x # y => Disjoint(x, y)
    BY DEF Tiled
  <2>. QED
    BY <1>6, <2>1, <2>2, <2>3
<1>7. ASSUME NEW i \in lo .. hi - 1
      PROVE  \E c \in T : c.off <= i /\ i < c.off + c.len
  <2>1. PICK c \in S : c.off <= i /\ i < c.off + c.len
    BY DEF Tiled
  <2>2. CASE c # b
    BY <2>1, <2>2
  <2>3. CASE c = b /\ i < b.off + n
    BY <2>1, <2>3, <1>0, <1>1
  <2>4. CASE c = b /\ i >= b.off + n
    BY <2>1, <2>4, <1>0, <1>1
  <2>. QED
    BY <2>2, <2>3, <2>4, <1>0
<1>. HIDE DEF f, g
<1>8. Tiled(T, lo, hi)
  BY <1>4, <1>5, <1>6, <1>7 DEF Tiled
<1>. QED
  BY <1>3, <1>8 DEF f, g, T

------------------------------------------------------------------------------
(* Adding an entry to the free space index and removing one. *)

\* An entry that is added is a free block in both views, and the only new one.
LEMMA ListedInsert ==
    ASSUME NEW D, NEW index \in [D -> Nat \ {0}], NEW o, o \notin D, NEW l
    PROVE  /\ Listed(Insert(index, o, l)) = Listed(index) \cup {BlockAt(o, l)}
           /\ ByLength(Insert(index, o, l)) = ByLength(index) \cup {<<l, o>>}
<1> DEFINE new == Insert(index, o, l)
<1>1. /\ DOMAIN index = D
      /\ DOMAIN new = D \cup {o}
      /\ new[o] = l
      /\ \A x \in D : new[x] = index[x]
  BY DEF Insert
<1>. HIDE DEF new
<1>2. Listed(new) = Listed(index) \cup {BlockAt(o, l)}
  BY <1>1 DEF Listed
<1>3. ByLength(new) = ByLength(index) \cup {<<l, o>>}
  BY <1>1 DEF ByLength
<1>. QED
  BY <1>2, <1>3 DEF new

\* An entry that is removed is gone from both views, and no other is.
LEMMA ListedErase ==
    ASSUME NEW D, NEW index \in [D -> Nat \ {0}], NEW o \in D
    PROVE  /\ Listed(Erase(index, o)) = Listed(index) \ {BlockAt(o, index[o])}
           /\ ByLength(Erase(index, o)) = ByLength(index) \ {<<index[o], o>>}
<1> DEFINE new == Erase(index, o)
<1>1. /\ DOMAIN index = D
      /\ DOMAIN new = D \ {o}
      /\ \A x \in D \ {o} : new[x] = index[x]
  BY DEF Erase, Restrict
<1>. HIDE DEF new
<1>2. \A x, y \in D : x # y => BlockAt(x, index[x]) # BlockAt(y, index[y])
  BY DEF BlockAt
<1>3. Listed(new) = Listed(index) \ {BlockAt(o, index[o])}
  BY <1>1, <1>2 DEF Listed
<1>4. \A x, y \in D : x # y => <<index[x], x>> # <<index[y], y>>
  OBVIOUS
<1>5. ByLength(new) = ByLength(index) \ {<<index[o], o>>}
  BY <1>1, <1>4 DEF ByLength
<1>. QED
  BY <1>3, <1>5 DEF new

\* An index with one entry more is an index, as a function.
LEMMA InsertType ==
    ASSUME NEW D \in SUBSET Nat, IsFiniteSet(D), NEW index \in [D -> Nat \ {0}],
           NEW o \in Nat, NEW l \in Nat \ {0}
    PROVE  /\ Insert(index, o, l) \in [D \cup {o} -> Nat \ {0}]
           /\ D \cup {o} \in SUBSET Nat
           /\ IsFiniteSet(D \cup {o})
BY FS_AddElement DEF Insert

\* An index with one entry less is an index, as a function.
LEMMA EraseType ==
    ASSUME NEW D \in SUBSET Nat, IsFiniteSet(D), NEW index \in [D -> Nat \ {0}],
           NEW o
    PROVE  /\ Erase(index, o) \in [D \ {o} -> Nat \ {0}]
           /\ D \ {o} \in SUBSET Nat
           /\ IsFiniteSet(D \ {o})
BY FS_RemoveElement DEF Erase, Restrict

\* The free space index stays one when an entry is added.
LEMMA IsIndexInsert ==
    ASSUME NEW index, IsIndex(index), NEW o \in Nat, NEW l \in Nat \ {0}
    PROVE  IsIndex(Insert(index, o, l))
<1>1. Insert(index, o, l) \in [DOMAIN index \cup {o} -> Nat \ {0}]
      /\ DOMAIN index \cup {o} \in SUBSET Nat
      /\ IsFiniteSet(DOMAIN index \cup {o})
  BY InsertType DEF IsIndex
<1>2. DOMAIN Insert(index, o, l) = DOMAIN index \cup {o}
  BY DEF Insert
<1>. QED
  BY <1>1, <1>2 DEF IsIndex

\* The free space index stays one when an entry is removed.
LEMMA IsIndexErase ==
    ASSUME NEW index, IsIndex(index), NEW o
    PROVE  IsIndex(Erase(index, o))
<1>1. Erase(index, o) \in [DOMAIN index \ {o} -> Nat \ {0}]
      /\ DOMAIN index \ {o} \in SUBSET Nat
      /\ IsFiniteSet(DOMAIN index \ {o})
  BY EraseType DEF IsIndex
<1>2. DOMAIN Erase(index, o) = DOMAIN index \ {o}
  BY DEF Erase, Restrict
<1>. QED
  BY <1>1, <1>2 DEF IsIndex

\* An index without entries lists no blocks.
LEMMA NoEntriesFacts ==
    /\ IsIndex(NoEntries)
    /\ Listed(NoEntries) = {}
    /\ ByLength(NoEntries) = {}
BY FS_EmptySet DEF IsIndex, NoEntries, Listed, ByLength

------------------------------------------------------------------------------
(* The invariant seen as a tiling. *)

Geometry ==
    /\ fileEnd \in Nat
    /\ HeaderLength <= fileEnd
    /\ Tiled(Blocks, HeaderLength, fileEnd)
    /\ live \cap FreeBlocks = {}
    /\ (live \cup FreeBlocks) \cap RootBlocks = {}

Bookkeeping == TypeOK /\ ViewsAgree /\ SavedOnComplete

TilingInv == Bookkeeping /\ Geometry

\* Everything in the file is a block.
LEMMA BlocksType ==
    ASSUME TypeOK
    PROVE  Blocks \subseteq Block
<1>1. FreeBlocks \subseteq Block
  BY BlockAtType DEF TypeOK, IsIndex, FreeBlocks, Listed
<1>2. RootBlocks \subseteq Block
  BY BlockAtType, SpaceAssumption DEF TypeOK, RootBlocks
<1>. QED
  BY <1>1, <1>2 DEF TypeOK, Blocks

\* The tiling says the same as the invariant.
LEMMA TilingInvIsIInv == TilingInv <=> IInv
<1>1. TilingInv => IInv
  BY DEF TilingInv, Bookkeeping, Geometry, Tiled, IInv, BlocksDisjoint, NoByteLost
<1>2. IInv => TilingInv
  BY BlocksType, SpaceAssumption
     DEF TilingInv, Bookkeeping, Geometry, Tiled, IInv, BlocksDisjoint, NoByteLost, TypeOK
<1>. QED
  BY <1>1, <1>2

\* The free blocks are blocks, and each comes from its entry.
LEMMA FreeBlocksFacts ==
    ASSUME IsIndex(spaceIndex)
    PROVE  /\ FreeBlocks \subseteq Block
           /\ \A o \in DOMAIN spaceIndex :
                 /\ o \in Nat
                 /\ spaceIndex[o] \in Nat \ {0}
                 /\ BlockAt(o, spaceIndex[o]) \in FreeBlocks
                 /\ BlockAt(o, spaceIndex[o]).off = o
                 /\ BlockAt(o, spaceIndex[o]).len = spaceIndex[o]
BY BlockAtType DEF IsIndex, FreeBlocks, Listed

\* A block in use never starts where a free block starts.
LEMMA LiveNotListed ==
    ASSUME TilingInv, NEW b \in live
    PROVE  b.off \notin DOMAIN spaceIndex
<1> SUFFICES ASSUME b.off \in DOMAIN spaceIndex
             PROVE  FALSE
  OBVIOUS
<1> DEFINE f == BlockAt(b.off, spaceIndex[b.off])
<1>1. f \in FreeBlocks /\ f.off = b.off /\ f.len \in Nat \ {0}
  BY FreeBlocksFacts DEF TilingInv, Bookkeeping, TypeOK
<1>2. f # b
  BY <1>1 DEF TilingInv, Geometry
<1>3. Disjoint(f, b)
  BY <1>1, <1>2 DEF TilingInv, Geometry, Tiled, Blocks
<1>4. b.off \in Nat /\ b.len \in Nat \ {0}
  BY DEF TilingInv, Bookkeeping, TypeOK, Block
<1>. HIDE DEF f
<1>. QED
  BY <1>1, <1>3, <1>4 DEF Disjoint

\* A new file is tiled: it has no blocks.
LEMMA InitTiling == Init => TilingInv
<1> SUFFICES ASSUME Init PROVE TilingInv
  OBVIOUS
<1>1. HeaderLength \in Nat
  BY SpaceAssumption
<1>2. Blocks = {} /\ FreeBlocks = {} /\ RootBlocks = {}
  BY NoEntriesFacts DEF Init, Blocks, FreeBlocks, RootBlocks
<1>3. Geometry
  BY <1>1, <1>2, TiledEmpty DEF Geometry, Init
<1>4. TypeOK
  <2>1. fileEnd \in Nat /\ fileEnd >= HeaderLength /\ spaceRoot \in Nat
    BY <1>1 DEF Init
  <2>2. IsIndex(spaceIndex) /\ IsIndex(savedIndex)
    BY NoEntriesFacts DEF Init
  <2>3. modified \in BOOLEAN
    BY DEF Init
  <2>4. /\ session \in {"open", "completed", "dead"}
        /\ spaceByLength \subseteq (Nat \ {0}) \X Nat
        /\ live \subseteq Block
    BY DEF Init
  <2>. QED
    BY <2>1, <2>2, <2>3, <2>4 DEF TypeOK
<1>5. ViewsAgree /\ SavedOnComplete
  BY NoEntriesFacts DEF Init, ViewsAgree, SavedOnComplete, Loaded
<1>. QED
  BY <1>3, <1>4, <1>5 DEF TilingInv, Bookkeeping

\* GetSpace that takes new space at the end keeps the file tiled.
LEMMA AppendTiling ==
    ASSUME TilingInv, NEW n \in Lengths, AllocateAtEnd(n)
    PROVE  TilingInv'
<1> DEFINE e == BlockAt(fileEnd, n)
<1>1. n \in Nat \ {0} /\ HeaderLength \in Nat
  BY SpaceAssumption
<1>2. e \in Block
  BY <1>1, BlockAtType DEF TilingInv, Geometry
<1>3. Bookkeeping'
  BY <1>1, <1>2
     DEF TilingInv, Bookkeeping, AllocateAtEnd, TypeOK, ViewsAgree, SavedOnComplete, Loaded
<1>4. e \notin Blocks /\ Tiled(Blocks \cup {e}, HeaderLength, fileEnd + n)
  BY <1>1, TiledAppend DEF TilingInv, Geometry
<1>5. FreeBlocks' = FreeBlocks /\ RootBlocks' = RootBlocks /\ live' = live \cup {e}
  BY DEF AllocateAtEnd, FreeBlocks, RootBlocks
<1>6. Blocks' = Blocks \cup {e}
  BY <1>5 DEF Blocks
<1>7. fileEnd' = fileEnd + n /\ fileEnd' \in Nat /\ HeaderLength <= fileEnd'
  BY <1>1 DEF AllocateAtEnd, TilingInv, Geometry
<1>. HIDE DEF e
<1>8. Geometry'
  BY <1>4, <1>5, <1>6, <1>7 DEF TilingInv, Geometry, Blocks
<1>. QED
  BY <1>3, <1>8 DEF TilingInv

\* GetSpace that takes a free block, and lists what is left of it, keeps the file
\* tiled.
LEMMA ReuseTiling ==
    ASSUME TilingInv, NEW n \in Lengths, NEW p \in spaceByLength, AllocateReused(n, p)
    PROVE  TilingInv'
<1> DEFINE o    == p[2]
           len  == p[1]
           rest == len - n
           left == Erase(spaceIndex, o)
           f    == BlockAt(o, len)
           e    == BlockAt(o, n)
           r    == BlockAt(o + n, rest)
<1>1. n \in Nat \ {0} /\ HeaderLength \in Nat
  BY SpaceAssumption
<1>2. /\ o \in DOMAIN spaceIndex /\ len = spaceIndex[o] /\ p = <<len, o>>
      /\ o \in Nat /\ len \in Nat \ {0} /\ n <= len
  BY <1>1 DEF TilingInv, Bookkeeping, ViewsAgree, ByLength, TypeOK, IsIndex,
              AllocateReused, IsBestFit
<1>3. IsIndex(spaceIndex) /\ IsIndex(left)
  BY IsIndexErase DEF TilingInv, Bookkeeping, TypeOK
<1>4. /\ Listed(left) = FreeBlocks \ {f}
      /\ ByLength(left) = ByLength(spaceIndex) \ {p}
  BY <1>2, <1>3, ListedErase DEF IsIndex, FreeBlocks
<1>5. /\ f \in FreeBlocks /\ f \in Blocks /\ f \notin live /\ f \notin RootBlocks
      /\ f.off = o /\ f.len = len
      /\ e \in Block /\ e.off = o /\ e.len = n
  BY <1>1, <1>2, <1>3, FreeBlocksFacts, BlockAtType DEF TilingInv, Geometry, Blocks
<1>6. /\ spaceIndex' = IF rest = 0 THEN left ELSE Insert(left, o + n, rest)
      /\ spaceByLength' = (spaceByLength \ {p})
                             \cup (IF rest = 0 THEN {} ELSE {<<rest, o + n>>})
      /\ modified' = TRUE
      /\ live' = live \cup {e}
      /\ fileEnd' = fileEnd /\ spaceRoot' = spaceRoot
      /\ savedIndex' = savedIndex /\ session' = session /\ session = "open"
  BY DEF AllocateReused
<1>7. spaceRoot # 0
  BY <1>2, NoEntriesFacts DEF TilingInv, Bookkeeping, SavedOnComplete, Loaded, NoEntries
<1>8. RootBlocks' = RootBlocks
  BY <1>6 DEF RootBlocks
<1>. HIDE DEF o, len, left, f, e, r
<1>9. CASE rest = 0
  <2>1. e = f
    BY <1>1, <1>2, <1>9 DEF e, f, BlockAt
  <2>2. FreeBlocks' = FreeBlocks \ {e}
    BY <1>4, <1>6, <1>9, <2>1 DEF FreeBlocks
  <2>3. Blocks' = Blocks
    BY <1>5, <1>6, <1>8, <2>1, <2>2 DEF Blocks
  <2>4. Geometry'
    BY <1>5, <1>6, <1>8, <2>1, <2>2, <2>3 DEF TilingInv, Geometry
  <2>5. Bookkeeping'
    BY <1>3, <1>4, <1>5, <1>6, <1>7, <1>9
       DEF TilingInv, Bookkeeping, TypeOK, ViewsAgree, SavedOnComplete, Loaded
  <2>. QED
    BY <2>4, <2>5 DEF TilingInv
<1>10. CASE rest # 0
  <2>1. rest \in Nat \ {0} /\ n < len /\ o + n \in Nat
    BY <1>1, <1>2, <1>10
  <2>2. r \in Block /\ r.off = o + n /\ r.len = rest
    BY <2>1, BlockAtType DEF r
  <2>3. /\ e \notin Blocks /\ r \notin Blocks /\ e # r
        /\ Tiled((Blocks \ {f}) \cup {e, r}, HeaderLength, fileEnd)
    BY <1>1, <1>5, <2>1, TiledCut DEF TilingInv, Geometry, e, r
  <2>4. o + n \notin DOMAIN left
    <3>1. ASSUME o + n \in DOMAIN left
          PROVE  FALSE
      <4> DEFINE x == BlockAt(o + n, left[o + n])
      <4>1. x \in Listed(left) /\ x.off = o + n /\ x.len \in Nat \ {0}
        BY <1>3, <2>1, <3>1, BlockAtType DEF Listed, IsIndex
      <4>. HIDE DEF x
      <4>2. x \in Blocks /\ x # f
        BY <1>4, <4>1 DEF Blocks
      <4>3. Disjoint(x, f)
        BY <1>5, <4>2 DEF TilingInv, Geometry, Tiled
      <4>. QED
        BY <1>1, <1>2, <1>5, <2>1, <4>1, <4>3 DEF Disjoint
    <3>. QED
      BY <3>1
  <2>5. /\ FreeBlocks' = (FreeBlocks \ {f}) \cup {r}
        /\ ByLength(spaceIndex') = (ByLength(spaceIndex) \ {p}) \cup {<<rest, o + n>>}
    BY <1>3, <1>4, <1>6, <1>10, <2>4, ListedInsert DEF FreeBlocks, IsIndex, r
  <2>6. Blocks' = (Blocks \ {f}) \cup {e, r}
    BY <1>5, <1>6, <1>8, <2>5 DEF Blocks
  <2>7. Geometry'
    <3>1. live' \cap FreeBlocks' = {}
      BY <1>6, <2>3, <2>5 DEF TilingInv, Geometry, Blocks
    <3>2. (live' \cup FreeBlocks') \cap RootBlocks' = {}
      BY <1>6, <1>8, <2>3, <2>5 DEF TilingInv, Geometry, Blocks
    <3>3. Tiled(Blocks', HeaderLength, fileEnd')
      BY <1>6, <2>3, <2>6
    <3>. QED
      BY <1>6, <3>1, <3>2, <3>3 DEF TilingInv, Geometry
  <2>8. IsIndex(spaceIndex')
    BY <1>3, <1>6, <1>10, <2>1, IsIndexInsert
  <2>9. Bookkeeping'
    BY <1>2, <1>5, <1>6, <1>7, <1>10, <2>1, <2>5, <2>8
       DEF TilingInv, Bookkeeping, TypeOK, ViewsAgree, SavedOnComplete, Loaded
  <2>. QED
    BY <2>7, <2>9 DEF TilingInv
<1>. QED
  BY <1>9, <1>10

\* Delete while the root is unsaved: the block changes owner and the file
\* grows by the root node.
LEMMA ReleaseFirstTiling ==
    ASSUME TilingInv, NEW b \in live, ReleaseFirst(b)
    PROVE  TilingInv'
<1> DEFINE index == Insert(spaceIndex, b.off, b.len)
           e     == BlockAt(fileEnd, NodeSize)
<1>1. /\ NodeSize \in Nat \ {0} /\ HeaderLength \in Nat /\ HeaderLength # 0
      /\ fileEnd \in Nat /\ HeaderLength <= fileEnd
  BY SpaceAssumption DEF TilingInv, Geometry
<1>2. /\ b \in Block /\ b.off \in Nat /\ b.len \in Nat \ {0}
      /\ b = BlockAt(b.off, b.len)
  BY DEF TilingInv, Bookkeeping, TypeOK, Block, BlockAt
<1>3. b.off \notin DOMAIN spaceIndex
  BY LiveNotListed
<1>4. IsIndex(spaceIndex) /\ IsIndex(index)
  BY <1>2, IsIndexInsert DEF TilingInv, Bookkeeping, TypeOK
<1>5. /\ Listed(index) = FreeBlocks \cup {b}
      /\ ByLength(index) = ByLength(spaceIndex) \cup {<<b.len, b.off>>}
  BY <1>2, <1>3, <1>4, ListedInsert DEF IsIndex, FreeBlocks
<1>6. /\ spaceRoot = 0
      /\ spaceIndex' = index /\ savedIndex' = index
      /\ spaceRoot' = fileEnd /\ fileEnd' = fileEnd + NodeSize
      /\ modified' = FALSE /\ session' = session
      /\ spaceByLength' = spaceByLength \cup {<<b.len, b.off>>}
      /\ live' = live \ {b}
  BY DEF ReleaseFirst
<1>. HIDE DEF index
<1>7. e \notin Blocks /\ Tiled(Blocks \cup {e}, HeaderLength, fileEnd + NodeSize)
  BY <1>1, TiledAppend DEF TilingInv, Geometry
<1>8. RootBlocks = {} /\ RootBlocks' = {e} /\ FreeBlocks' = FreeBlocks \cup {b}
  BY <1>1, <1>5, <1>6 DEF RootBlocks, FreeBlocks
<1>. HIDE DEF e
<1>9. Blocks' = Blocks \cup {e}
  BY <1>6, <1>8 DEF Blocks
<1>10. Geometry'
  <2>1. live' \cap FreeBlocks' = {}
    BY <1>6, <1>8 DEF TilingInv, Geometry
  <2>2. (live' \cup FreeBlocks') \cap RootBlocks' = {}
    BY <1>6, <1>7, <1>8 DEF Blocks
  <2>3. fileEnd' \in Nat /\ HeaderLength <= fileEnd'
    BY <1>1, <1>6
  <2>. QED
    BY <1>6, <1>7, <1>9, <2>1, <2>2, <2>3 DEF Geometry
<1>11. TypeOK'
  <2>1. fileEnd' \in Nat /\ fileEnd' >= HeaderLength /\ spaceRoot' \in Nat
    BY <1>1, <1>6
  <2>2. modified' \in BOOLEAN
    BY <1>6
  <2>3. /\ session' \in {"open", "completed", "dead"}
        /\ spaceByLength' \subseteq (Nat \ {0}) \X Nat
        /\ live' \subseteq Block
    BY <1>2, <1>6 DEF TilingInv, Bookkeeping, TypeOK
  <2>. QED
    BY <1>4, <1>6, <2>1, <2>2, <2>3 DEF TypeOK
<1>12. ViewsAgree' /\ SavedOnComplete'
  BY <1>1, <1>5, <1>6 DEF TilingInv, Bookkeeping, ViewsAgree, SavedOnComplete, Loaded
<1>. QED
  BY <1>10, <1>11, <1>12 DEF TilingInv, Bookkeeping

\* Delete that adds its block to the index keeps the file tiled.
LEMMA ReleaseLaterTiling ==
    ASSUME TilingInv, NEW b \in live, ReleaseLater(b)
    PROVE  TilingInv'
<1> DEFINE index == Insert(spaceIndex, b.off, b.len)
<1>1. /\ b \in Block /\ b.off \in Nat /\ b.len \in Nat \ {0}
      /\ b = BlockAt(b.off, b.len)
  BY DEF TilingInv, Bookkeeping, TypeOK, Block, BlockAt
<1>2. b.off \notin DOMAIN spaceIndex
  BY LiveNotListed
<1>3. IsIndex(spaceIndex) /\ IsIndex(index)
  BY <1>1, IsIndexInsert DEF TilingInv, Bookkeeping, TypeOK
<1>4. /\ Listed(index) = FreeBlocks \cup {b}
      /\ ByLength(index) = ByLength(spaceIndex) \cup {<<b.len, b.off>>}
  BY <1>1, <1>2, <1>3, ListedInsert DEF IsIndex, FreeBlocks
<1>5. /\ session = "open" /\ spaceRoot # 0
      /\ spaceIndex' = index /\ savedIndex' = savedIndex
      /\ spaceRoot' = spaceRoot /\ fileEnd' = fileEnd
      /\ modified' = TRUE /\ session' = session
      /\ spaceByLength' = spaceByLength \cup {<<b.len, b.off>>}
      /\ live' = live \ {b}
  BY DEF ReleaseLater
<1>. HIDE DEF index
<1>6. RootBlocks' = RootBlocks /\ FreeBlocks' = FreeBlocks \cup {b}
  BY <1>4, <1>5 DEF RootBlocks, FreeBlocks
<1>7. Blocks' = Blocks
  BY <1>5, <1>6 DEF Blocks
<1>8. Geometry'
  <2>1. live' \cap FreeBlocks' = {}
    BY <1>5, <1>6 DEF TilingInv, Geometry
  <2>2. (live' \cup FreeBlocks') \cap RootBlocks' = {}
    BY <1>5, <1>6 DEF TilingInv, Geometry
  <2>. QED
    BY <1>5, <1>7, <2>1, <2>2 DEF TilingInv, Geometry
<1>9. TypeOK'
  BY <1>1, <1>3, <1>5 DEF TilingInv, Bookkeeping, TypeOK
<1>10. ViewsAgree' /\ SavedOnComplete'
  BY <1>4, <1>5 DEF TilingInv, Bookkeeping, ViewsAgree, SavedOnComplete, Loaded
<1>. QED
  BY <1>8, <1>9, <1>10 DEF TilingInv, Bookkeeping

\* Steps that touch no block.
LEMMA SameBlocksTiling ==
    ASSUME TilingInv,
           fileEnd' = fileEnd, spaceRoot' = spaceRoot, spaceIndex' = spaceIndex,
           live' = live, Bookkeeping'
    PROVE  TilingInv'
BY DEF TilingInv, Geometry, Blocks, FreeBlocks, RootBlocks, Listed

\* Opening the file again changes no block.
LEMMA OpenTiling ==
    ASSUME TilingInv, Open
    PROVE  TilingInv'
<1>1. spaceIndex' = Loaded /\ spaceIndex = Loaded /\ Loaded' = Loaded
  BY DEF TilingInv, Bookkeeping, SavedOnComplete, Open, Loaded
<1>2. Bookkeeping'
  BY <1>1 DEF TilingInv, Bookkeeping, TypeOK, ViewsAgree, SavedOnComplete, Open
<1>. QED
  BY <1>1, <1>2, SameBlocksTiling DEF Open

\* Every step keeps the file tiled.
LEMMA NextTiling == TilingInv /\ [Next]_spaceVars => TilingInv'
<1> SUFFICES ASSUME TilingInv, [Next]_spaceVars
             PROVE  TilingInv'
  OBVIOUS
<1>1. ASSUME NEW n \in Lengths, Allocate(n)
      PROVE  TilingInv'
  BY <1>1, AppendTiling, ReuseTiling DEF Allocate
<1>2. ASSUME NEW b \in live, ReleaseOverflow(b)
      PROVE  TilingInv'
  <2>1. Bookkeeping'
    BY <1>2 DEF ReleaseOverflow, TilingInv, Bookkeeping, TypeOK, ViewsAgree,
                SavedOnComplete, Loaded
  <2>. QED
    BY <1>2, <2>1, SameBlocksTiling DEF ReleaseOverflow
<1>3. ASSUME NEW b \in live, Release(b)
      PROVE  TilingInv'
  BY <1>2, <1>3, ReleaseFirstTiling, ReleaseLaterTiling DEF Release
<1>4. CASE Complete
  <2>1. Bookkeeping'
    BY <1>4 DEF Complete, TilingInv, Bookkeeping, TypeOK, ViewsAgree,
                SavedOnComplete, Loaded
  <2>. QED
    BY <1>4, <2>1, SameBlocksTiling DEF Complete
<1>5. CASE Open
  BY <1>5, OpenTiling
<1>6. CASE UNCHANGED spaceVars
  <2>1. Bookkeeping'
    BY <1>6 DEF spaceVars, TilingInv, Bookkeeping, TypeOK, ViewsAgree,
                SavedOnComplete, Loaded
  <2>. QED
    BY <1>6, <2>1, SameBlocksTiling DEF spaceVars
<1>. QED
  BY <1>1, <1>3, <1>4, <1>5, <1>6 DEF Next

------------------------------------------------------------------------------
(* The results. *)

\* IInv is inductive and holds in every reachable state.
THEOREM Invariance == Spec => []IInv
<1>1. Init => TilingInv
  BY InitTiling
<1>2. TilingInv /\ [Next]_spaceVars => TilingInv'
  BY NextTiling
<1>3. TilingInv => IInv
  BY TilingInvIsIInv
<1>. QED
  BY <1>1, <1>2, <1>3, PTL DEF Spec

\* Every variable keeps its type.
THEOREM TypeCorrect == Spec => []TypeOK
<1>1. IInv => TypeOK
  BY DEF IInv
<1>. QED
  BY <1>1, Invariance, PTL

\* Every byte of the file has one owner: none ever has two, and none is lost.
THEOREM OneOwner == Spec => []EachByteOwnedOnce
<1>1. IInv => EachByteOwnedOnce
  BY DEF IInv, EachByteOwnedOnce
<1>. QED
  BY <1>1, Invariance, PTL

\* The inverted view never drifts from the index.
THEOREM ViewsStayEqual == Spec => []ViewsAgree
<1>1. IInv => ViewsAgree
  BY DEF IInv
<1>. QED
  BY <1>1, Invariance, PTL

\* A completed session has saved the index it had in memory.
THEOREM CompleteSaves == Spec => []SavedOnComplete
<1>1. IInv => SavedOnComplete
  BY DEF IInv
<1>. QED
  BY <1>1, Invariance, PTL

------------------------------------------------------------------------------
(* SpaceManager keeps the promise of FreeSpace. *)

\* A block cut from a free block, or appended, is disjoint from all that is
\* in use and from the node of the index.
LEMMA AllocateIsFresh ==
    ASSUME TilingInv, NEW n \in Lengths, Allocate(n)
    PROVE  /\ \E e \in Block :
                /\ e.len = n /\ HeaderLength <= e.off /\ e.off + e.len <= fileEnd'
                /\ e \notin live /\ live' = live \cup {e}
                /\ \A c \in live \cup RootBlocks : Disjoint(e, c)
           /\ fileEnd' \in Nat /\ fileEnd <= fileEnd'
           /\ session = "open" /\ session' = "open" /\ spaceRoot' = spaceRoot
<1>1. CASE AllocateAtEnd(n)
  <2> DEFINE e == BlockAt(fileEnd, n)
  <2>1. n \in Nat \ {0} /\ HeaderLength \in Nat /\ fileEnd \in Nat /\ HeaderLength <= fileEnd
    BY SpaceAssumption DEF TilingInv, Geometry
  <2>2. e \in Block /\ e.off = fileEnd /\ e.len = n
    BY <2>1, BlockAtType
  <2>3. \A c \in live \cup RootBlocks : c \in Block /\ c.off + c.len <= fileEnd
    BY DEF TilingInv, Geometry, Tiled, Blocks
  <2>4. /\ live' = live \cup {e} /\ fileEnd' = fileEnd + n
        /\ session = "open" /\ session' = "open" /\ spaceRoot' = spaceRoot
    BY <1>1 DEF AllocateAtEnd
  <2>. HIDE DEF e
  <2>5. e \notin live /\ \A c \in live \cup RootBlocks : Disjoint(e, c)
    BY <2>1, <2>2, <2>3 DEF Disjoint, Block
  <2>. QED
    BY <2>1, <2>2, <2>4, <2>5
<1>2. ASSUME NEW p \in spaceByLength, AllocateReused(n, p)
      PROVE  /\ \E e \in Block :
                  /\ e.len = n /\ HeaderLength <= e.off /\ e.off + e.len <= fileEnd'
                  /\ e \notin live /\ live' = live \cup {e}
                  /\ \A c \in live \cup RootBlocks : Disjoint(e, c)
             /\ fileEnd' \in Nat /\ fileEnd <= fileEnd'
             /\ session = "open" /\ session' = "open" /\ spaceRoot' = spaceRoot
  <2> DEFINE e == BlockAt(p[2], n)
             f == BlockAt(p[2], p[1])
  <2>1. n \in Nat \ {0} /\ HeaderLength \in Nat /\ fileEnd \in Nat
    BY SpaceAssumption DEF TilingInv, Geometry
  <2>2. /\ p[2] \in DOMAIN spaceIndex /\ p[1] = spaceIndex[p[2]]
        /\ p[2] \in Nat /\ p[1] \in Nat \ {0} /\ n <= p[1]
    BY <1>2, <2>1 DEF TilingInv, Bookkeeping, ViewsAgree, ByLength, TypeOK, IsIndex,
                AllocateReused, IsBestFit
  <2>3. f \in FreeBlocks /\ f.off = p[2] /\ f.len = p[1]
    BY <2>2, FreeBlocksFacts DEF TilingInv, Bookkeeping, TypeOK
  <2>4. e \in Block /\ e.off = p[2] /\ e.len = n
    BY <2>1, <2>2, BlockAtType
  <2>5. /\ live' = live \cup {e} /\ fileEnd' = fileEnd
        /\ session = "open" /\ session' = "open" /\ spaceRoot' = spaceRoot
    BY <1>2 DEF AllocateReused
  <2>. HIDE DEF e, f
  <2>6. /\ HeaderLength <= f.off /\ f.off + f.len <= fileEnd
        /\ \A c \in live \cup RootBlocks : c \in Block /\ Disjoint(f, c)
    BY <2>1, <2>2, <2>3 DEF TilingInv, Geometry, Tiled, Blocks
  <2>7. e \notin live /\ \A c \in live \cup RootBlocks : Disjoint(e, c)
    BY <2>1, <2>2, <2>3, <2>4, <2>6 DEF Disjoint, Block
  <2>. QED
    BY <2>1, <2>2, <2>3, <2>4, <2>5, <2>6, <2>7
<1>. QED
  BY <1>1, <1>2 DEF Allocate

\* Every step of the clients gets a fresh block or gives one back.
LEMMA StepKeepsPromise ==
    ASSUME TilingInv, [Next]_spaceVars
    PROVE  [Promise!Next]_live
<1>1. ASSUME NEW n \in Lengths, Allocate(n)
      PROVE  Promise!Next
  <2>1. PICK e \in Block : /\ e.off >= HeaderLength /\ e \notin live
                           /\ live' = live \cup {e}
                           /\ \A c \in live : Disjoint(e, c)
    <3>1. HeaderLength \in Nat
      BY SpaceAssumption
    <3>. QED
      BY <1>1, <3>1, AllocateIsFresh DEF Block
  <2>2. e \in live' \ live
    BY <2>1
  <2>3. Promise!Acquire(e)
    BY <2>1 DEF Promise!Acquire, Promise!Block, Block, Promise!Disjoint, Disjoint
  <2>. QED
    BY <2>2, <2>3 DEF Promise!Next
<1>2. ASSUME NEW b \in live, live' = live \ {b}
      PROVE  Promise!Next
  <2>1. b \in live \ live' /\ Promise!GiveBack(b)
    BY <1>2 DEF Promise!GiveBack
  <2>. QED
    BY <2>1 DEF Promise!Next
<1>3. ASSUME NEW b \in live, Release(b)
      PROVE  [Promise!Next]_live
  BY <1>2, <1>3 DEF Release, ReleaseFirst, ReleaseLater, ReleaseOverflow
<1>4. CASE Complete \/ Open \/ UNCHANGED spaceVars
  BY <1>4 DEF Complete, Open, spaceVars
<1>. QED
  BY <1>1, <1>3, <1>4 DEF Next

\* Whatever the clients ask for, a block they are given is theirs alone.
THEOREM KeepsPromise == Spec => ImplementsFreeSpace
<1>1. Init => Promise!Init
  BY DEF Init, Promise!Init
<1>2. IInv /\ [Next]_spaceVars => [Promise!Next]_live
  BY StepKeepsPromise, TilingInvIsIInv
<1>. QED
  BY <1>1, <1>2, Invariance, PTL DEF Spec, ImplementsFreeSpace, Promise!Spec
==============================================================================
