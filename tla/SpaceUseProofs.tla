--------------------------- MODULE SpaceUseProofs ----------------------------
(***************************************************************************)
(* Proofs about what is below and above the allocator's calls, on top of   *)
(* SpaceManagerProofs.                                                     *)
(*                                                                         *)
(* SpaceManagerCalls, for every header length, node size, leaf capacity,   *)
(* set of lengths and depth of the stack: the calls, taken apart where     *)
(* allocator and index call each other, do what SpaceManager says, and     *)
(* whatever a nested call may find free is free.                           *)
(*                                                                         *)
(* DumpStore, for every set of objects and contents: every step of the     *)
(* store is a step of its allocator, so that what is proved of             *)
(* SpaceManager holds in it.  On top of that, each object in the index has *)
(* one whole body, in a block that is in use; bodies never overlap; and a  *)
(* loaded object still describes that body.  From this it follows that the *)
(* store is ObjectStore to its readers.                                    *)
(***************************************************************************)
EXTENDS SpaceManagerCalls, DumpStore, SpaceManagerProofs, SequenceTheorems

(***************************************************************************)
(* The calls.                                                              *)
(***************************************************************************)

\* What SpaceManagerProofs proves, of the state between client calls.
Was == INSTANCE SpaceManagerProofs WITH
    fileEnd <- stable.fileEnd, spaceRoot <- stable.spaceRoot,
    spaceIndex <- stable.spaceIndex, spaceByLength <- stable.spaceByLength,
    modified <- stable.modified, savedIndex <- stable.savedIndex,
    session <- stable.session, live <- stable.live

------------------------------------------------------------------------------
(* The invariant: for each point that a call can have reached, what of the *)
(* state before the call it has changed.                                   *)

GetAt(n, o, point) == [call |-> "GetSpace", off |-> o, len |-> n, at |-> point]
DeleteAt(o, l, point) == [call |-> "Delete", off |-> o, len |-> l, at |-> point]

FileAsBefore ==
    fileEnd = stable.fileEnd /\ spaceRoot = stable.spaceRoot /\ savedIndex = stable.savedIndex
ViewsAsBefore ==
    /\ spaceIndex = stable.spaceIndex /\ spaceByLength = stable.spaceByLength
    /\ modified = stable.modified

\* Nothing is called.
Waiting == stack = <<>> /\ stable = Snapshot

\* The stack has overflowed.
Died ==
    /\ stack = <<>> /\ session = "dead" /\ stable.session = "dead"
    /\ spaceRoot = stable.spaceRoot /\ spaceByLength = stable.spaceByLength
    /\ live \subseteq stable.live

\* GetSpace has begun, and has found the end of the file.
Asked(n) ==
    /\ stack = <<GetAt(n, 0, "start")>>
    /\ FileAsBefore /\ ViewsAsBefore

TakesEnd(n) ==
    /\ stack = <<GetAt(n, stable.fileEnd, "found")>>
    /\ \A q \in stable.spaceByLength : q[1] < n
    /\ stable.fileEnd + n <= MaxFileEnd /\ fileEnd = stable.fileEnd + n
    /\ spaceRoot = stable.spaceRoot /\ savedIndex = stable.savedIndex
    /\ ViewsAsBefore

\* GetSpace has found the free block p; what remains of it is added to the
\* index, then to the inverted view.
Remains(n, p) == p[1] - n
Left(p) == Erase(stable.spaceIndex, p[2])
IndexAfter(n, p) ==
    IF Remains(n, p) = 0 THEN Left(p) ELSE Insert(Left(p), p[2] + n, Remains(n, p))

Cuts(n, p) ==
    /\ Was!IsBestFit(p, n)
    /\ FileAsBefore /\ modified = TRUE
    /\ \/ /\ Remains(n, p) # 0
          /\ stack = <<DeleteAt(p[2] + n, Remains(n, p), "start"), GetAt(n, p[2], "found")>>
          /\ spaceIndex = Left(p)
          /\ spaceByLength = stable.spaceByLength \ {p}
       \/ /\ Remains(n, p) # 0
          /\ stack = <<DeleteAt(p[2] + n, Remains(n, p), "added"), GetAt(n, p[2], "found")>>
          /\ spaceIndex = IndexAfter(n, p)
          /\ spaceByLength = stable.spaceByLength \ {p}
       \/ /\ stack = <<GetAt(n, p[2], "found")>>
          /\ spaceIndex = IndexAfter(n, p)
          /\ spaceByLength = (stable.spaceByLength \ {p})
                \cup (IF Remains(n, p) = 0 THEN {} ELSE {<<Remains(n, p), p[2] + n>>})

\* Delete has begun, has added the block to the index, has called GetSpace
\* for the root, which has found the end of the file, and has written the root.
With(b) == Insert(stable.spaceIndex, b.off, b.len)

Called(b) ==
    /\ stack = <<DeleteAt(b.off, b.len, "start")>>
    /\ FileAsBefore /\ ViewsAsBefore

Adds(b) ==
    /\ spaceIndex = With(b)
    /\ spaceByLength = stable.spaceByLength
    /\ \/ /\ stack = <<DeleteAt(b.off, b.len, "added")>>
          /\ FileAsBefore /\ modified = TRUE
       \/ /\ stack = <<GetAt(NodeSize, 0, "start"), DeleteAt(b.off, b.len, "saving")>>
          /\ FileAsBefore /\ modified = TRUE
          /\ ~ Oversized(With(b)) /\ stable.spaceRoot = 0
       \/ /\ stack = <<GetAt(NodeSize, stable.fileEnd, "found"),
                       DeleteAt(b.off, b.len, "saving")>>
          /\ stable.fileEnd + NodeSize <= MaxFileEnd /\ fileEnd = stable.fileEnd + NodeSize
          /\ spaceRoot = 0 /\ savedIndex = stable.savedIndex /\ modified = TRUE
          /\ ~ Oversized(With(b)) /\ stable.spaceRoot = 0
       \/ /\ stack = <<DeleteAt(b.off, b.len, "saved")>>
          /\ stable.fileEnd + NodeSize <= MaxFileEnd /\ fileEnd = stable.fileEnd + NodeSize
          /\ spaceRoot = stable.fileEnd /\ savedIndex = With(b) /\ modified = FALSE
          /\ ~ Oversized(With(b)) /\ stable.spaceRoot = 0

\* AfterAdd gives the root back, again and again.
Frame == [call : {"GetSpace", "Delete"}, off : Nat, len : Nat,
          at : {"start", "found", "added", "saving", "saved", "splitting"}]

Overflows(b) ==
    /\ stack \in Seq(Frame) /\ Len(stack) > 1
    /\ Head(stack).at \in {"start", "added"}
    /\ \A i \in DOMAIN stack :
        /\ stack[i].call = "Delete"
        /\ BlockAt(stack[i].off, stack[i].len) \in {b} \cup RootBlocks
    /\ FileAsBefore /\ stable.spaceRoot # 0
    /\ spaceByLength = stable.spaceByLength
    /\ Oversized(With(b))
    /\ IsFiniteSet(DOMAIN spaceIndex) /\ Oversized(spaceIndex)

InGetSpace ==
    /\ live = stable.live
    /\ \E n \in Lengths :
        Asked(n) \/ TakesEnd(n) \/ \E p \in stable.spaceByLength : Cuts(n, p)

InDelete ==
    \E b \in stable.live : live = stable.live \ {b} /\ (Called(b) \/ Adds(b) \/ Overflows(b))

IsSnapshot ==
    stable = [fileEnd |-> stable.fileEnd, spaceRoot |-> stable.spaceRoot,
              spaceIndex |-> stable.spaceIndex, spaceByLength |-> stable.spaceByLength,
              modified |-> stable.modified, savedIndex |-> stable.savedIndex,
              session |-> stable.session, live |-> stable.live]

StableInv == Was!TilingInv /\ IsSnapshot /\ ~ Oversized(stable.spaceIndex)

CallsInv ==
    /\ StableInv
    /\ \/ Waiting
       \/ Died
       \/ session = "open" /\ stable.session = "open" /\ (InGetSpace \/ InDelete)

------------------------------------------------------------------------------
(* The stack, and the state between client calls. *)

\* Stacks of one and two frames.
LEMMA Stacks ==
    ASSUME NEW a, NEW b
    PROVE  /\ Head(<<a>>) = a /\ Tail(<<a>>) = <<>> /\ <<a>> # <<>>
           /\ Head(<<a, b>>) = a /\ Tail(<<a, b>>) = <<b>> /\ <<a, b>> # <<>>
           /\ <<a, b>>[2] = b /\ Tail(Tail(<<a, b>>)) = <<>>
           /\ <<a>> \o <<>> = <<a>> /\ <<a, b>> \o <<>> = <<a, b>>
           /\ <<a>> \o <<b>> = <<a, b>>
<1>1. /\ Head(<<a>>) = a /\ Head(<<a, b>>) = a
      /\ <<a>> # <<>> /\ <<a, b>> # <<>> /\ <<a, b>>[2] = b
  OBVIOUS
<1>2. Tail(<<a>>) = <<>>
  OBVIOUS
<1>3. Tail(<<a, b>>) = <<b>>
  OBVIOUS
<1>4. Tail(<<b>>) = <<>>
  OBVIOUS
<1>5. <<a>> \o <<>> = <<a>>
  OBVIOUS
<1>6. <<a, b>> \o <<>> = <<a, b>>
  OBVIOUS
<1>7. <<a>> \o <<b>> = <<a, b>>
  <2>1. /\ <<a>> \in Seq({a, b}) /\ <<b>> \in Seq({a, b}) /\ <<a, b>> \in Seq({a, b})
        /\ Len(<<a>>) = 1 /\ Len(<<b>>) = 1 /\ Len(<<a, b>>) = 2
        /\ <<a, b>>[1] = a /\ <<a, b>>[2] = b /\ <<a>>[1] = a /\ <<b>>[1] = b
    OBVIOUS
  <2>2. PICK s : s = <<a>> \o <<b>>
    OBVIOUS
  <2>3. s \in Seq({a, b}) /\ Len(s) = 2 /\ s[1] = a /\ s[2] = b
    BY <2>1, <2>2, ConcatProperties
  <2>4. PICK t : t = <<a, b>>
    OBVIOUS
  <2>5. t \in Seq({a, b}) /\ Len(t) = 2 /\ t[1] = a /\ t[2] = b
    BY <2>1, <2>4
  <2>6. s = t
    <3>1. \A i \in 1 .. Len(s) : s[i] = t[i]
      BY <2>3, <2>5
    <3>. QED
      BY <2>3, <2>5, <3>1, SeqEqual
  <2>. QED
    BY <2>2, <2>4, <2>6
<1>. QED
  BY <1>1, <1>2, <1>3, <1>4, <1>5, <1>6, <1>7

\* Where a frame stands, and how it goes on.
LEMMA Frames ==
    ASSUME NEW o, NEW l, NEW point, NEW later
    PROVE  /\ GetAt(l, o, point).call = "GetSpace" /\ DeleteAt(o, l, point).call = "Delete"
           /\ GetAt(l, o, point).at = point /\ DeleteAt(o, l, point).at = point
           /\ GetAt(l, o, point).off = o /\ DeleteAt(o, l, point).off = o
           /\ GetAt(l, o, point).len = l /\ DeleteAt(o, l, point).len = l
           /\ [GetAt(l, o, point) EXCEPT !.at = later] = GetAt(l, o, later)
           /\ [DeleteAt(o, l, point) EXCEPT !.at = later] = DeleteAt(o, l, later)
           /\ GetFrame(l) = GetAt(l, 0, "start") /\ FoundFrame(l, o) = GetAt(l, o, "found")
           /\ DeleteFrame(o, l) = DeleteAt(o, l, "start")
<1>1. /\ GetAt(l, o, point).call = "GetSpace" /\ DeleteAt(o, l, point).call = "Delete"
      /\ GetAt(l, o, point).at = point /\ DeleteAt(o, l, point).at = point
      /\ GetAt(l, o, point).off = o /\ DeleteAt(o, l, point).off = o
      /\ GetAt(l, o, point).len = l /\ DeleteAt(o, l, point).len = l
  BY DEF GetAt, DeleteAt
<1>2. /\ [GetAt(l, o, point) EXCEPT !.at = later] = GetAt(l, o, later)
      /\ [DeleteAt(o, l, point) EXCEPT !.at = later] = DeleteAt(o, l, later)
  BY DEF GetAt, DeleteAt
<1>3. /\ GetFrame(l) = GetAt(l, 0, "start") /\ FoundFrame(l, o) = GetAt(l, o, "found")
      /\ DeleteFrame(o, l) = DeleteAt(o, l, "start")
  BY DEF GetAt, DeleteAt, GetFrame, FoundFrame, DeleteFrame
<1>. QED
  BY <1>1, <1>2, <1>3

\* What is known of the state between client calls.
WasRoot == IF stable.spaceRoot = 0 THEN {} ELSE {BlockAt(stable.spaceRoot, NodeSize)}
WasBlocks == stable.live \cup Listed(stable.spaceIndex) \cup WasRoot

\* What SpaceManagerProofs says of the state between client calls.
LEMMA WasFacts ==
    ASSUME StableInv
    PROVE  /\ stable.fileEnd \in Nat /\ HeaderLength <= stable.fileEnd
           /\ stable.spaceRoot \in Nat
           /\ IsIndex(stable.spaceIndex) /\ IsIndex(stable.savedIndex)
           /\ stable.spaceByLength = ByLength(stable.spaceIndex)
           /\ stable.spaceRoot = 0 => stable.spaceIndex = NoEntries
           /\ WasBlocks \subseteq Block
           /\ \A b \in WasBlocks : b.off + b.len <= stable.fileEnd
           /\ \A b, c \in WasBlocks : b # c => Disjoint(b, c)
           /\ stable.live \cap Listed(stable.spaceIndex) = {}
           /\ (stable.live \cup Listed(stable.spaceIndex)) \cap WasRoot = {}
<1>1. Was!TypeOK /\ Was!ViewsAgree /\ Was!SavedOnComplete /\ Was!Geometry
  BY DEF StableInv, Was!TilingInv, Was!Bookkeeping
<1>2. /\ stable.fileEnd \in Nat /\ HeaderLength <= stable.fileEnd
      /\ stable.spaceRoot \in Nat
  BY <1>1 DEF Was!TypeOK, Was!Geometry
<1>3. IsIndex(stable.spaceIndex) /\ IsIndex(stable.savedIndex)
  BY <1>1 DEF Was!TypeOK, Was!IsIndex, IsIndex, Was!IsFiniteSet, IsFiniteSet
<1>4. stable.spaceByLength = ByLength(stable.spaceIndex)
  BY <1>1 DEF Was!ViewsAgree, Was!ByLength, ByLength
<1>5. stable.spaceRoot = 0 => stable.spaceIndex = NoEntries
  BY <1>1 DEF Was!SavedOnComplete, Was!Loaded, Was!NoEntries, NoEntries
<1>6. Was!FreeBlocks = Listed(stable.spaceIndex) /\ Was!RootBlocks = WasRoot
  BY DEF Was!FreeBlocks, Was!Listed, Listed, Was!BlockAt, BlockAt, Was!RootBlocks, WasRoot
<1>7. Was!Blocks = WasBlocks
  BY <1>6 DEF Was!Blocks, WasBlocks
<1>8. /\ WasBlocks \subseteq Block
      /\ \A b \in WasBlocks : b.off + b.len <= stable.fileEnd
      /\ \A b, c \in WasBlocks : b # c => Disjoint(b, c)
  BY <1>1, <1>7 DEF Was!Geometry, Was!Tiled, Was!Block, Block, Was!Disjoint, Disjoint
<1>9. /\ stable.live \cap Listed(stable.spaceIndex) = {}
      /\ (stable.live \cup Listed(stable.spaceIndex)) \cap WasRoot = {}
  BY <1>1, <1>6 DEF Was!Geometry
<1>. QED
  BY <1>2, <1>3, <1>4, <1>5, <1>8, <1>9

\* A step of SpaceManager keeps what is known.
LEMMA WasStep ==
    ASSUME StableInv, [Was!Next]_(Was!spaceVars)
    PROVE  Was!TilingInv'
BY Was!NextTiling, SpaceAssumption DEF StableInv

\* An entry more or less.
LEMMA EntryMore ==
    ASSUME NEW entries, IsFiniteSet(DOMAIN entries), NEW o, NEW l
    PROVE  /\ IsFiniteSet(DOMAIN Insert(entries, o, l))
           /\ Oversized(entries) => Oversized(Insert(entries, o, l))
<1>1. DOMAIN Insert(entries, o, l) = DOMAIN entries \cup {o}
  BY DEF Insert
<1>2. PICK D : D = DOMAIN entries
  OBVIOUS
<1>3. IsFiniteSet(D) /\ IsFiniteSet(D \cup {o})
      /\ Cardinality(D \cup {o}) = IF o \in D THEN Cardinality(D) ELSE Cardinality(D) + 1
  BY <1>2, FS_AddElement
<1>4. Cardinality(D) \in Nat
  BY <1>3, FS_CardinalityType
<1>. QED
  BY <1>1, <1>2, <1>3, <1>4, SpaceAssumption DEF Oversized

\* Cutting a block leaves no more entries than there were.
LEMMA EntryReplaced ==
    ASSUME NEW entries, IsFiniteSet(DOMAIN entries), NEW o \in DOMAIN entries, NEW p, NEW l,
           ~ Oversized(entries)
    PROVE  ~ Oversized(Erase(entries, o)) /\ ~ Oversized(Insert(Erase(entries, o), p, l))
<1>1. DOMAIN Erase(entries, o) = DOMAIN entries \ {o}
  BY DEF Erase, Restrict
<1>2. DOMAIN Insert(Erase(entries, o), p, l) = (DOMAIN entries \ {o}) \cup {p}
  BY <1>1 DEF Insert
<1>3. /\ IsFiniteSet(DOMAIN entries \ {o})
      /\ Cardinality(DOMAIN entries) \in Nat
      /\ Cardinality(DOMAIN entries \ {o}) = Cardinality(DOMAIN entries) - 1
  BY FS_RemoveElement, FS_CardinalityType
<1>4. PICK D : D = DOMAIN entries \ {o}
  OBVIOUS
<1>5. IsFiniteSet(D) /\ Cardinality(D) \in Nat
      /\ Cardinality(D \cup {p}) = IF p \in D THEN Cardinality(D) ELSE Cardinality(D) + 1
  BY <1>3, <1>4, FS_AddElement, FS_CardinalityType
<1>. QED
  BY <1>1, <1>2, <1>3, <1>4, <1>5, SpaceAssumption DEF Oversized

\* The free block that GetSpace takes.
LEMMA FoundFacts ==
    ASSUME StableInv, NEW n \in Lengths, NEW p \in stable.spaceByLength, p[1] >= n
    PROVE  /\ p[2] \in DOMAIN stable.spaceIndex /\ p[2] \in Nat
           /\ p[1] = stable.spaceIndex[p[2]] /\ p[1] \in Nat \ {0} /\ n \in Nat \ {0}
           /\ BlockAt(p[2], p[1]) \in Listed(stable.spaceIndex)
           /\ ~ Oversized(IndexAfter(n, p)) /\ ~ Oversized(Left(p))
           /\ stable.spaceRoot # 0
<1>1. /\ IsIndex(stable.spaceIndex) /\ stable.spaceByLength = ByLength(stable.spaceIndex)
      /\ stable.spaceRoot = 0 => stable.spaceIndex = NoEntries
  BY WasFacts
<1>2. PICK o \in DOMAIN stable.spaceIndex : p = <<stable.spaceIndex[o], o>>
  BY <1>1 DEF ByLength
<1>3. o \in Nat /\ stable.spaceIndex[o] \in Nat \ {0} /\ n \in Nat \ {0}
  BY <1>1, SpaceAssumption DEF IsIndex
<1>4. ~ Oversized(IndexAfter(n, p)) /\ ~ Oversized(Left(p))
  BY <1>1, <1>2, EntryReplaced DEF StableInv, IndexAfter, Left, IsIndex
<1>5. stable.spaceRoot # 0
  BY <1>1, <1>2 DEF NoEntries
<1>. QED
  BY <1>2, <1>3, <1>4, <1>5 DEF Listed

------------------------------------------------------------------------------
(* The steps, from each point of a call. *)

\* A call has returned to its client: the state it leaves is a step of
\* SpaceManager from the one it began with.
Returned == Waiting' /\ IsSnapshot' /\ Was!Next /\ ~ Oversized(stable'.spaceIndex)

\* What a client sees when its call returns.
LEMMA ClientSees ==
    ASSUME stack' = <<>>, Settle
    PROVE  /\ Waiting' /\ IsSnapshot'
           /\ stable'.fileEnd = fileEnd' /\ stable'.spaceRoot = spaceRoot'
           /\ stable'.spaceIndex = spaceIndex' /\ stable'.spaceByLength = spaceByLength'
           /\ stable'.modified = modified' /\ stable'.savedIndex = savedIndex'
           /\ stable'.session = session' /\ stable'.live = live'
BY DEF Settle, Snapshot, Waiting, IsSnapshot

\* Inside a call the client sees nothing.
LEMMA NothingSeen ==
    ASSUME stack' # <<>>, Settle
    PROVE  stable' = stable
BY DEF Settle

\* With a call in progress only the program's own steps are possible.
LEMMA InsideOnly ==
    ASSUME stack # <<>>, CallsNext
    PROVE  Inside
BY DEF CallsNext, CallGetSpace, CallDelete, SessionStep

\* GetSpace finds a free block, or goes to the end of the file.
LEMMA FromAsked ==
    ASSUME StableInv, NEW n \in Lengths, Asked(n), live = stable.live, Inside
    PROVE  /\ stable' = stable /\ session' = session /\ live' = live
           /\ TakesEnd(n)' \/ \E p \in stable.spaceByLength : Cuts(n, p)'
<1>1. /\ Head(stack) = GetAt(n, 0, "start") /\ Tail(stack) = <<>> /\ stack # <<>>
      /\ Head(stack).call = "GetSpace" /\ Head(stack).at = "start" /\ Head(stack).len = n
  BY Stacks, Frames DEF Asked
<1>2. GetSpaceAtEnd \/ \E p \in spaceByLength : GetSpaceFound(p)
  BY <1>1 DEF Inside, InCall, GetSpaceReturn, DeleteAdd, AfterAddOversized, AfterAddSaveRoot,
              DeleteInsert
<1>3. CASE GetSpaceAtEnd
  <2>1. /\ stack' = <<FoundFrame(n, fileEnd)>> \o <<>>
        /\ \A q \in spaceByLength : q[1] < n
        /\ fileEnd + n <= MaxFileEnd /\ fileEnd' = fileEnd + n
        /\ UNCHANGED <<spaceRoot, spaceIndex, spaceByLength, modified, savedIndex,
                       session, live, stable>>
    BY <1>1, <1>3 DEF GetSpaceAtEnd
  <2>2. stack' = <<GetAt(n, fileEnd, "found")>>
    BY <2>1, Stacks, Frames
  <2>3. TakesEnd(n)'
    BY <2>1, <2>2 DEF TakesEnd, Asked, FileAsBefore, ViewsAsBefore
  <2>. QED
    BY <2>1, <2>3
<1>4. ASSUME NEW p \in spaceByLength, GetSpaceFound(p)
      PROVE  stable' = stable /\ session' = session /\ live' = live /\ Cuts(n, p)'
  <2>1. /\ IsBestFit(p, n) /\ n \in Nat
        /\ spaceByLength' = spaceByLength \ {p}
        /\ spaceIndex' = Erase(spaceIndex, p[2])
        /\ modified' = TRUE
        /\ stack' = (IF p[1] = n THEN <<FoundFrame(n, p[2])>>
                     ELSE <<DeleteFrame(p[2] + n, p[1] - n), FoundFrame(n, p[2])>>) \o <<>>
        /\ UNCHANGED <<fileEnd, spaceRoot, savedIndex, session, live, stable>>
    BY <1>1, <1>4, SpaceAssumption DEF GetSpaceFound
  <2>2. p \in stable.spaceByLength /\ p[1] >= n /\ Was!IsBestFit(p, n)
    BY <2>1 DEF IsBestFit, Was!IsBestFit, Asked, ViewsAsBefore
  <2>3. p[1] \in Nat /\ (p[1] = n <=> Remains(n, p) = 0)
    BY <2>1, <2>2, FoundFacts DEF Remains
  <2>4. /\ Was!IsBestFit(p, n)' /\ FileAsBefore' /\ modified'
        /\ spaceIndex' = Left(p) /\ Left(p)' = Left(p) /\ IndexAfter(n, p)' = IndexAfter(n, p)
    BY <2>1, <2>2 DEF Asked, FileAsBefore, ViewsAsBefore, Left, IndexAfter, Was!IsBestFit
  <2>5. CASE p[1] = n
    <3>1. stack' = <<GetAt(n, p[2], "found")>>
      BY <2>1, <2>5, Stacks, Frames
    <3>2. spaceIndex' = IndexAfter(n, p) /\ Remains(n, p) = 0
      BY <2>3, <2>4, <2>5 DEF IndexAfter
    <3>3. spaceByLength' = stable.spaceByLength \ {p}
      BY <2>1 DEF Asked, ViewsAsBefore
    <3>. QED
      BY <2>1, <2>4, <3>1, <3>2, <3>3 DEF Cuts
  <2>6. CASE p[1] # n
    <3>1. stack' = <<DeleteAt(p[2] + n, p[1] - n, "start"), GetAt(n, p[2], "found")>>
      <4>1. /\ DeleteFrame(p[2] + n, p[1] - n) = DeleteAt(p[2] + n, p[1] - n, "start")
            /\ FoundFrame(n, p[2]) = GetAt(n, p[2], "found")
        BY DEF DeleteFrame, DeleteAt, FoundFrame, GetAt
      <4>. QED
        BY <2>1, <2>6, <4>1, Stacks
    <3>2. spaceByLength' = stable.spaceByLength \ {p}
      BY <2>1 DEF Asked, ViewsAsBefore
    <3>. QED
      BY <2>1, <2>3, <2>4, <2>6, <3>1, <3>2 DEF Cuts, Remains
  <2>. QED
    BY <2>5, <2>6
<1>5. spaceByLength = stable.spaceByLength
  BY DEF Asked, ViewsAsBefore
<1>. QED
  BY <1>2, <1>3, <1>4, <1>5

\* GetSpace returns a block at the end of the file: SpaceManager!AllocateAtEnd.
LEMMA FromTakesEnd ==
    ASSUME StableInv, NEW n \in Lengths, TakesEnd(n), live = stable.live,
           session = "open", stable.session = "open", Inside
    PROVE  Returned
<1>1. /\ Head(stack) = GetAt(n, stable.fileEnd, "found") /\ Tail(stack) = <<>> /\ stack # <<>>
      /\ Head(stack).call = "GetSpace" /\ Head(stack).at = "found" /\ Head(stack).len = n
      /\ Head(stack).off = stable.fileEnd
  BY Stacks, Frames DEF TakesEnd
<1>2. GetSpaceReturn
  BY <1>1 DEF Inside, InCall, GetSpaceFound, GetSpaceAtEnd, DeleteAdd, AfterAddOversized,
              AfterAddSaveRoot, DeleteInsert
<1>3. /\ stack' = <<>> /\ live' = live \cup {BlockAt(stable.fileEnd, n)}
      /\ UNCHANGED <<spaceRoot, savedIndex, modified, fileEnd, spaceIndex, spaceByLength, session>>
      /\ Settle
  BY <1>1, <1>2 DEF GetSpaceReturn, Return
<1>4. Was!AllocateAtEnd(n)
  BY <1>3, ClientSees DEF TakesEnd, ViewsAsBefore, Was!AllocateAtEnd, Was!BlockAt, BlockAt
<1>5. Was!Next
  BY <1>4 DEF Was!Next, Was!Allocate
<1>6. stable'.spaceIndex = stable.spaceIndex
  BY <1>3, ClientSees DEF TakesEnd, ViewsAsBefore
<1>. QED
  BY <1>3, <1>5, <1>6, ClientSees DEF Returned, StableInv

\* While what remains of a block is added, nothing stands in the way: the root
\* is saved and the index has room for the entry.
LEMMA FromCuts ==
    ASSUME StableInv, NEW n \in Lengths, NEW p \in stable.spaceByLength, Cuts(n, p),
           live = stable.live, session = "open", stable.session = "open", Inside
    PROVE  \/ stable' = stable /\ session' = session /\ live' = live /\ Cuts(n, p)'
           \/ Returned
<1>1. /\ p[1] >= n /\ spaceRoot = stable.spaceRoot /\ fileEnd = stable.fileEnd
      /\ savedIndex = stable.savedIndex /\ modified = TRUE /\ Was!IsBestFit(p, n)
  BY DEF Cuts, FileAsBefore, Was!IsBestFit
<1>2. /\ spaceRoot # 0 /\ ~ Oversized(IndexAfter(n, p)) /\ ~ Oversized(Left(p))
      /\ p[1] \in Nat \ {0} /\ p[2] \in Nat /\ n \in Nat \ {0}
  BY <1>1, FoundFacts
<1> DEFINE rest == Remains(n, p)
           o == p[2] + n
           top == GetAt(n, p[2], "found")
<1>3. /\ Left(p)' = Left(p) \/ stable' # stable
      /\ IndexAfter(n, p)' = IndexAfter(n, p) \/ stable' # stable
      /\ Was!IsBestFit(p, n)' \/ stable' # stable
  BY <1>1 DEF Left, IndexAfter, Was!IsBestFit
<1>. HIDE DEF rest, o, top
<1>4. CASE /\ rest # 0
           /\ stack = <<DeleteAt(o, rest, "start"), top>>
           /\ spaceIndex = Left(p)
           /\ spaceByLength = stable.spaceByLength \ {p}
  <2>0. Head(stack) = DeleteAt(o, rest, "start") /\ Tail(stack) = <<top>> /\ stack # <<>>
    BY <1>4, Stacks
  <2>1. /\ Tail(stack) = <<top>> /\ stack # <<>>
        /\ Head(stack).call = "Delete" /\ Head(stack).at = "start"
        /\ Head(stack).off = o /\ Head(stack).len = rest
        /\ [Head(stack) EXCEPT !.at = "added"] = DeleteAt(o, rest, "added")
    BY <2>0 DEF DeleteAt
  <2>2. DeleteAdd
    BY <2>1 DEF Inside, InCall, GetSpaceFound, GetSpaceAtEnd, GetSpaceReturn, AfterAddOversized,
                AfterAddSaveRoot, DeleteInsert
  <2>3. /\ spaceIndex' = Insert(Left(p), o, rest) /\ modified' = TRUE
        /\ stack' = <<DeleteAt(o, rest, "added")>> \o <<top>>
        /\ UNCHANGED <<fileEnd, spaceRoot, spaceByLength, savedIndex, session, live, stable>>
    BY <1>4, <2>1, <2>2 DEF DeleteAdd, Continue
  <2>4. stack' = <<DeleteAt(o, rest, "added"), top>>
    BY <2>3, Stacks
  <2>5. spaceIndex' = IndexAfter(n, p)
    BY <1>4, <2>3 DEF IndexAfter, o, rest
  <2>6. Cuts(n, p)'
    BY <1>1, <1>3, <1>4, <2>3, <2>4, <2>5 DEF Cuts, FileAsBefore, o, rest, top
  <2>. QED
    BY <2>3, <2>6
<1>5. CASE /\ rest # 0
           /\ stack = <<DeleteAt(o, rest, "added"), top>>
           /\ spaceIndex = IndexAfter(n, p)
           /\ spaceByLength = stable.spaceByLength \ {p}
  <2>0. /\ Head(stack) = DeleteAt(o, rest, "added") /\ Tail(stack) = <<top>> /\ stack # <<>>
        /\ <<top>> # <<>>
    BY <1>5, Stacks
  <2>1. /\ Tail(stack) = <<top>> /\ stack # <<>> /\ <<top>> # <<>>
        /\ Head(stack).call = "Delete" /\ Head(stack).at = "added"
        /\ Head(stack).off = o /\ Head(stack).len = rest
    BY <2>0 DEF DeleteAt
  <2>2. DeleteInsert
    BY <1>2, <1>5, <2>1 DEF Inside, InCall, GetSpaceFound, GetSpaceAtEnd, GetSpaceReturn,
                DeleteAdd, AfterAddOversized, AfterAddSaveRoot
  <2>3. /\ spaceByLength' = spaceByLength \cup {<<rest, o>>} /\ stack' = <<top>>
        /\ UNCHANGED <<fileEnd, spaceRoot, spaceIndex, modified, savedIndex, session, live>>
        /\ stable' = stable
    BY <2>1, <2>2, NothingSeen DEF DeleteInsert, Return
  <2>4. Cuts(n, p)'
    BY <1>1, <1>3, <1>5, <2>3 DEF Cuts, FileAsBefore, o, rest, top
  <2>. QED
    BY <2>3, <2>4
<1>6. CASE /\ stack = <<top>>
           /\ spaceIndex = IndexAfter(n, p)
           /\ spaceByLength = (stable.spaceByLength \ {p})
                \cup (IF rest = 0 THEN {} ELSE {<<rest, o>>})
  <2>1. /\ Head(stack) = top /\ Tail(stack) = <<>> /\ stack # <<>>
        /\ Head(stack).call = "GetSpace" /\ Head(stack).at = "found" /\ Head(stack).len = n
        /\ Head(stack).off = p[2]
    BY <1>6, Stacks, Frames DEF top
  <2>2. GetSpaceReturn
    BY <2>1 DEF Inside, InCall, GetSpaceFound, GetSpaceAtEnd, DeleteAdd, AfterAddOversized,
                AfterAddSaveRoot, DeleteInsert
  <2>3. /\ stack' = <<>> /\ live' = live \cup {BlockAt(p[2], n)}
        /\ UNCHANGED <<spaceRoot, savedIndex, modified, fileEnd, spaceIndex, spaceByLength,
                       session>>
        /\ Settle
    BY <2>1, <2>2 DEF GetSpaceReturn, Return
  <2>4. Was!AllocateReused(n, p)
    <3>1. /\ stable'.spaceIndex = IF rest = 0 THEN Left(p) ELSE Insert(Left(p), o, rest)
          /\ stable'.spaceByLength = (stable.spaceByLength \ {p})
                                       \cup (IF rest = 0 THEN {} ELSE {<<rest, o>>})
      BY <1>6, <2>3, ClientSees DEF IndexAfter, o, rest
    <3>2. /\ stable'.modified = TRUE
          /\ stable'.live = stable.live \cup {BlockAt(p[2], n)}
          /\ stable'.fileEnd = stable.fileEnd /\ stable'.spaceRoot = stable.spaceRoot
          /\ stable'.savedIndex = stable.savedIndex /\ stable'.session = stable.session
      BY <1>1, <2>3, ClientSees
    <3>3. /\ Was!Erase(stable.spaceIndex, p[2]) = Left(p)
          /\ Was!Insert(Left(p), o, rest) = Insert(Left(p), o, rest)
          /\ Was!BlockAt(p[2], n) = BlockAt(p[2], n)
      BY DEF Left, Erase, Was!Erase, Restrict, Was!Restrict, Insert, Was!Insert, BlockAt,
             Was!BlockAt
    <3>. QED
      BY <1>1, <3>1, <3>2, <3>3 DEF Was!AllocateReused, o, rest, Remains
  <2>5. Was!Next
    BY <2>4 DEF Was!Next, Was!Allocate
  <2>6. ~ Oversized(stable'.spaceIndex)
    BY <1>2, <1>6, <2>3, ClientSees
  <2>. QED
    BY <2>3, <2>5, <2>6, ClientSees DEF Returned
<1>. QED
  BY <1>4, <1>5, <1>6 DEF Cuts, o, rest, top

\* Delete adds its block to the index.
LEMMA FromCalled ==
    ASSUME StableInv, NEW b \in stable.live, Called(b), live = stable.live \ {b}, Inside
    PROVE  stable' = stable /\ session' = session /\ live' = live /\ Adds(b)'
<1>0. Head(stack) = DeleteAt(b.off, b.len, "start") /\ Tail(stack) = <<>> /\ stack # <<>>
  BY Stacks DEF Called
<1>1. /\ Tail(stack) = <<>> /\ stack # <<>>
      /\ Head(stack).call = "Delete" /\ Head(stack).at = "start"
      /\ Head(stack).off = b.off /\ Head(stack).len = b.len
      /\ [Head(stack) EXCEPT !.at = "added"] = DeleteAt(b.off, b.len, "added")
  BY <1>0 DEF DeleteAt
<1>2. DeleteAdd
  BY <1>1 DEF Inside, InCall, GetSpaceFound, GetSpaceAtEnd, GetSpaceReturn, AfterAddOversized,
              AfterAddSaveRoot, DeleteInsert
<1>3. /\ spaceIndex' = Insert(spaceIndex, b.off, b.len) /\ modified' = TRUE
      /\ stack' = <<DeleteAt(b.off, b.len, "added")>> \o <<>>
      /\ UNCHANGED <<fileEnd, spaceRoot, spaceByLength, savedIndex, session, live, stable>>
  BY <1>1, <1>2 DEF DeleteAdd, Continue
<1>4. stack' = <<DeleteAt(b.off, b.len, "added")>>
  BY <1>3, Stacks
<1>. QED
  BY <1>3, <1>4 DEF Called, Adds, FileAsBefore, ViewsAsBefore, With

\* The block is in the index.  It goes on by way of the root, if there is none,
\* to the inverted view; or, if the root is full, into the cycle.
LEMMA FromAdds ==
    ASSUME StableInv, NEW b \in stable.live, Adds(b), live = stable.live \ {b},
           session = "open", stable.session = "open", Inside
    PROVE  \/ stable' = stable /\ session' = session /\ live' = live /\ (Adds(b)' \/ Overflows(b)')
           \/ Returned
<1>1. /\ b \in Block /\ b.off \in Nat /\ b.len \in Nat \ {0} /\ b = BlockAt(b.off, b.len)
      /\ NodeSize \in Nat \ {0} /\ stable.fileEnd \in Nat /\ stable.spaceRoot \in Nat
      /\ HeaderLength \in Nat \ {0} /\ HeaderLength <= stable.fileEnd
  BY WasFacts, SpaceAssumption DEF WasBlocks, Block, BlockAt
<1>2. /\ IsFiniteSet(DOMAIN With(b)) /\ IsFiniteSet(DOMAIN stable.spaceIndex)
      /\ stable.spaceRoot = 0 => stable.spaceIndex = NoEntries
  BY WasFacts, EntryMore DEF With, IsIndex
<1>3. spaceIndex = With(b) /\ spaceByLength = stable.spaceByLength
  BY DEF Adds
<1>4. With(b)' = With(b) \/ stable' # stable
  BY DEF With
<1>5. CASE /\ stack = <<DeleteAt(b.off, b.len, "added")>>
           /\ FileAsBefore /\ modified = TRUE
  <2>0. Head(stack) = DeleteAt(b.off, b.len, "added") /\ Tail(stack) = <<>> /\ stack # <<>>
        /\ Len(stack) = 1
    BY <1>5, Stacks
  <2>1. /\ Tail(stack) = <<>> /\ stack # <<>> /\ Len(stack) = 1
        /\ Head(stack).call = "Delete" /\ Head(stack).at = "added"
        /\ Head(stack).off = b.off /\ Head(stack).len = b.len
        /\ [Head(stack) EXCEPT !.at = "saving"] = DeleteAt(b.off, b.len, "saving")
        /\ [Head(stack) EXCEPT !.at = "splitting"] = DeleteAt(b.off, b.len, "splitting")
    BY <2>0 DEF DeleteAt
  <2>2. AfterAddOversized \/ AfterAddSaveRoot \/ DeleteInsert
    BY <2>1 DEF Inside, InCall, GetSpaceFound, GetSpaceAtEnd, GetSpaceReturn, DeleteAdd
  <2>3. CASE AfterAddOversized
    <3>1. Oversized(With(b)) /\ Len(stack) < StackLimit
      BY <1>3, <2>1, <2>3, StackAssumption DEF AfterAddOversized
    <3>2. spaceRoot # 0
      <4>1. SUFFICES ASSUME stable.spaceRoot = 0 PROVE FALSE
        BY <1>5 DEF FileAsBefore
      <4>2. DOMAIN With(b) = {b.off}
        BY <1>2, <4>1 DEF With, Insert, NoEntries
      <4>3. Cardinality(DOMAIN With(b)) = 1
        BY <4>2, FS_Singleton
      <4>. QED
        BY <3>1, <4>3, SpaceAssumption DEF Oversized
    <3>3. /\ stack' =
                <<DeleteFrame(spaceRoot, NodeSize), DeleteAt(b.off, b.len, "splitting")>> \o <<>>
          /\ UNCHANGED <<session, stable, fileEnd, spaceRoot, spaceIndex, spaceByLength, modified,
                         savedIndex, live>>
      BY <2>1, <2>3, <3>1 DEF AfterAddOversized, Call
    <3>4. stack' = <<DeleteAt(spaceRoot, NodeSize, "start"), DeleteAt(b.off, b.len, "splitting")>>
      <4>1. DeleteFrame(spaceRoot, NodeSize) = DeleteAt(spaceRoot, NodeSize, "start")
        BY DEF DeleteFrame, DeleteAt
      <4>. QED
        BY <3>3, <4>1, Stacks
    <3>5. PICK x, y : /\ x = DeleteAt(spaceRoot, NodeSize, "start")
                      /\ y = DeleteAt(b.off, b.len, "splitting")
      OBVIOUS
    <3>6. /\ x \in Frame /\ y \in Frame /\ x.call = "Delete" /\ y.call = "Delete"
          /\ x.off = spaceRoot /\ x.len = NodeSize /\ x.at = "start"
          /\ y.off = b.off /\ y.len = b.len
      BY <1>1, <1>5, <3>5 DEF DeleteAt, Frame, FileAsBefore
    <3>7. /\ stack' \in Seq(Frame) /\ Len(stack') = 2 /\ stack'[1] = x /\ stack'[2] = y
          /\ DOMAIN stack' = {1, 2} /\ Head(stack') = x
      BY <3>4, <3>5, <3>6
    <3>8. BlockAt(x.off, x.len) \in RootBlocks' /\ BlockAt(y.off, y.len) = b
      BY <1>1, <3>2, <3>3, <3>6 DEF RootBlocks
    <3>9. Overflows(b)'
      BY <1>2, <1>3, <1>4, <1>5, <3>1, <3>2, <3>3, <3>6, <3>7, <3>8 DEF Overflows, FileAsBefore
    <3>. QED
      BY <3>3, <3>9
  <2>4. CASE AfterAddSaveRoot
    <3>1. /\ stack' = <<GetFrame(NodeSize), DeleteAt(b.off, b.len, "saving")>> \o <<>>
          /\ ~ Oversized(spaceIndex) /\ spaceRoot = 0
          /\ UNCHANGED <<spaceVars, stable>>
      BY <2>1, <2>4 DEF AfterAddSaveRoot, Call
    <3>2. stack' = <<GetAt(NodeSize, 0, "start"), DeleteAt(b.off, b.len, "saving")>>
      <4>1. GetFrame(NodeSize) = GetAt(NodeSize, 0, "start")
        BY DEF GetFrame, GetAt
      <4>. QED
        BY <3>1, <4>1, Stacks
    <3>3. Adds(b)'
      BY <1>3, <1>4, <1>5, <3>1, <3>2 DEF Adds, FileAsBefore, spaceVars
    <3>. QED
      BY <3>1, <3>3 DEF spaceVars
  <2>5. CASE DeleteInsert
    <3>1. /\ stack' = <<>> /\ ~ Oversized(With(b)) /\ spaceRoot # 0
          /\ spaceByLength' = spaceByLength \cup {<<b.len, b.off>>}
          /\ UNCHANGED <<fileEnd, spaceRoot, spaceIndex, modified, savedIndex, session, live>>
          /\ Settle
      BY <1>3, <2>1, <2>5 DEF DeleteInsert, Return, InCall
    <3>2. Was!ReleaseLater(b)
      <4>1. /\ stable'.spaceIndex = With(b) /\ stable'.modified = TRUE
            /\ stable'.spaceByLength = stable.spaceByLength \cup {<<b.len, b.off>>}
            /\ stable'.live = stable.live \ {b}
            /\ stable'.fileEnd = stable.fileEnd /\ stable'.spaceRoot = stable.spaceRoot
            /\ stable'.savedIndex = stable.savedIndex /\ stable'.session = stable.session
            /\ stable.spaceRoot # 0
        BY <1>3, <1>5, <3>1, ClientSees DEF FileAsBefore
      <4>2. Was!Insert(stable.spaceIndex, b.off, b.len) = With(b) /\ ~ Was!Oversized(With(b))
        BY <3>1 DEF With, Insert, Was!Insert, Oversized, Was!Oversized, Cardinality, Was!Cardinality
      <4>. QED
        BY <4>1, <4>2 DEF Was!ReleaseLater
    <3>3. Was!Next
      BY <3>2 DEF Was!Next, Was!Release
    <3>. QED
      BY <1>3, <3>1, <3>3, ClientSees DEF Returned
  <2>. QED
    BY <2>2, <2>3, <2>4, <2>5
<1>6. CASE /\ stack = <<GetAt(NodeSize, 0, "start"), DeleteAt(b.off, b.len, "saving")>>
           /\ FileAsBefore /\ modified = TRUE
           /\ ~ Oversized(With(b)) /\ stable.spaceRoot = 0
  <2>0. Head(stack) = GetAt(NodeSize, 0, "start") /\ stack # <<>>
        /\ Tail(stack) = <<DeleteAt(b.off, b.len, "saving")>>
    BY <1>6, Stacks
  <2>1. /\ Head(stack).call = "GetSpace" /\ Head(stack).at = "start" /\ Head(stack).len = NodeSize
    BY <2>0 DEF GetAt
  <2>2. spaceByLength = {}
    BY <1>2, <1>3, <1>6, WasFacts, NoEntriesFacts
  <2>3. GetSpaceAtEnd
    BY <2>0, <2>1, <2>2 DEF Inside, InCall, GetSpaceFound, GetSpaceReturn, DeleteAdd,
       AfterAddOversized, AfterAddSaveRoot, DeleteInsert
  <2>4. /\ stack' = <<FoundFrame(NodeSize, fileEnd)>> \o <<DeleteAt(b.off, b.len, "saving")>>
        /\ fileEnd + NodeSize <= MaxFileEnd /\ fileEnd' = fileEnd + NodeSize
        /\ UNCHANGED <<spaceRoot, spaceIndex, spaceByLength, modified, savedIndex,
                       session, live, stable>>
    BY <2>0, <2>1, <2>3 DEF GetSpaceAtEnd
  <2>5. stack' = <<GetAt(NodeSize, fileEnd, "found"), DeleteAt(b.off, b.len, "saving")>>
    <3>1. FoundFrame(NodeSize, fileEnd) = GetAt(NodeSize, fileEnd, "found")
      BY DEF FoundFrame, GetAt
    <3>. QED
      BY <2>4, <3>1, Stacks
  <2>6. Adds(b)'
    BY <1>3, <1>4, <1>6, <2>4, <2>5 DEF Adds, FileAsBefore
  <2>. QED
    BY <2>4, <2>6
<1>7. CASE /\ stack = <<GetAt(NodeSize, stable.fileEnd, "found"),
                        DeleteAt(b.off, b.len, "saving")>>
           /\ stable.fileEnd + NodeSize <= MaxFileEnd /\ fileEnd = stable.fileEnd + NodeSize
           /\ spaceRoot = 0 /\ savedIndex = stable.savedIndex /\ modified = TRUE
           /\ ~ Oversized(With(b)) /\ stable.spaceRoot = 0
  <2>0. /\ Head(stack) = GetAt(NodeSize, stable.fileEnd, "found") /\ stack # <<>>
        /\ Tail(stack) = <<DeleteAt(b.off, b.len, "saving")>> /\ Tail(Tail(stack)) = <<>>
        /\ stack[2] = DeleteAt(b.off, b.len, "saving")
        /\ Tail(stack) # <<>>
    BY <1>7, Stacks
  <2>1. /\ Head(stack).call = "GetSpace" /\ Head(stack).at = "found"
        /\ Head(stack).off = stable.fileEnd
        /\ [stack[2] EXCEPT !.at = "saved"] = DeleteAt(b.off, b.len, "saved")
    BY <2>0 DEF GetAt, DeleteAt
  <2>2. GetSpaceReturn
    BY <2>0, <2>1 DEF Inside, InCall, GetSpaceFound, GetSpaceAtEnd, DeleteAdd,
       AfterAddOversized, AfterAddSaveRoot, DeleteInsert
  <2>3. /\ stack' = <<DeleteAt(b.off, b.len, "saved")>> \o <<>>
        /\ spaceRoot' = stable.fileEnd /\ savedIndex' = spaceIndex /\ modified' = FALSE
        /\ UNCHANGED <<live, fileEnd, spaceIndex, spaceByLength, session>>
        /\ Settle
    BY <2>0, <2>1, <2>2 DEF GetSpaceReturn
  <2>4. stack' = <<DeleteAt(b.off, b.len, "saved")>> /\ stack' # <<>>
    BY <2>3, Stacks
  <2>5. stable' = stable
    BY <2>3, <2>4, NothingSeen
  <2>6. Adds(b)'
    BY <1>3, <1>4, <1>7, <2>3, <2>4, <2>5 DEF Adds
  <2>. QED
    BY <2>3, <2>5, <2>6
<1>8. CASE /\ stack = <<DeleteAt(b.off, b.len, "saved")>>
           /\ stable.fileEnd + NodeSize <= MaxFileEnd /\ fileEnd = stable.fileEnd + NodeSize
           /\ spaceRoot = stable.fileEnd /\ savedIndex = With(b) /\ modified = FALSE
           /\ ~ Oversized(With(b)) /\ stable.spaceRoot = 0
  <2>0. Head(stack) = DeleteAt(b.off, b.len, "saved") /\ Tail(stack) = <<>> /\ stack # <<>>
    BY <1>8, Stacks
  <2>1. /\ Head(stack).call = "Delete" /\ Head(stack).at = "saved"
        /\ Head(stack).off = b.off /\ Head(stack).len = b.len
    BY <2>0 DEF DeleteAt
  <2>2. DeleteInsert
    BY <2>0, <2>1 DEF Inside, InCall, GetSpaceFound, GetSpaceAtEnd, GetSpaceReturn, DeleteAdd,
       AfterAddOversized, AfterAddSaveRoot
  <2>3. /\ stack' = <<>>
        /\ spaceByLength' = spaceByLength \cup {<<b.len, b.off>>}
        /\ UNCHANGED <<fileEnd, spaceRoot, spaceIndex, modified, savedIndex, session, live>>
        /\ Settle
    BY <2>0, <2>1, <2>2 DEF DeleteInsert, Return
  <2>4. Was!ReleaseFirst(b)
    <3>1. /\ stable'.spaceIndex = With(b) /\ stable'.modified = FALSE
          /\ stable'.spaceByLength = stable.spaceByLength \cup {<<b.len, b.off>>}
          /\ stable'.live = stable.live \ {b}
          /\ stable'.fileEnd = stable.fileEnd + NodeSize /\ stable'.spaceRoot = stable.fileEnd
          /\ stable'.savedIndex = With(b) /\ stable'.session = stable.session
      BY <1>3, <1>8, <2>3, ClientSees
    <3>2. Was!Insert(stable.spaceIndex, b.off, b.len) = With(b) /\ ~ Was!Oversized(With(b))
      BY <1>8 DEF With, Insert, Was!Insert, Oversized, Was!Oversized, Cardinality, Was!Cardinality
    <3>3. stable.spaceByLength = {}
      BY <1>2, <1>8, WasFacts, NoEntriesFacts
    <3>. QED
      BY <1>8, <3>1, <3>2, <3>3 DEF Was!ReleaseFirst
  <2>5. Was!Next
    BY <2>4 DEF Was!Next, Was!Release
  <2>. QED
    BY <1>3, <1>8, <2>3, <2>5, ClientSees DEF Returned
<1>. QED
  BY <1>5, <1>6, <1>7, <1>8 DEF Adds

\* A stack on which the innermost call gets another call, or another point.
LEMMA StackGrows ==
    ASSUME NEW s \in Seq(Frame), s # <<>>, NEW a \in Frame, NEW x \in Frame
    PROVE  /\ <<a>> \o Tail(s) \in Seq(Frame) /\ Len(<<a>> \o Tail(s)) = Len(s)
           /\ (<<a>> \o Tail(s))[1] = a
           /\ \A i \in 2 .. Len(s) : (<<a>> \o Tail(s))[i] = s[i]
           /\ <<a, x>> \o Tail(s) \in Seq(Frame) /\ Len(<<a, x>> \o Tail(s)) = Len(s) + 1
           /\ (<<a, x>> \o Tail(s))[1] = a /\ (<<a, x>> \o Tail(s))[2] = x
           /\ \A i \in 3 .. Len(s) + 1 : (<<a, x>> \o Tail(s))[i] = s[i - 1]
<1>1. PICK t : t = Tail(s)
  OBVIOUS
<1>2. /\ t \in Seq(Frame) /\ Len(t) = Len(s) - 1 /\ Len(s) \in Nat \ {0}
      /\ \A i \in 1 .. Len(t) : t[i] = s[i + 1]
  BY <1>1, HeadTailProperties
<1>3. PICK u, v : u = <<a>> /\ v = <<a, x>>
  OBVIOUS
<1>4. /\ u \in Seq(Frame) /\ Len(u) = 1 /\ u[1] = a
      /\ v \in Seq(Frame) /\ Len(v) = 2 /\ v[1] = a /\ v[2] = x
  BY <1>3
<1>5. /\ u \o t \in Seq(Frame) /\ Len(u \o t) = Len(s) /\ (u \o t)[1] = a
      /\ \A i \in 2 .. Len(s) : (u \o t)[i] = t[i - 1]
  <2>1. /\ u \o t \in Seq(Frame) /\ Len(u \o t) = Len(u) + Len(t)
        /\ \A i \in 1 .. Len(u) + Len(t) :
              (u \o t)[i] = IF i <= Len(u) THEN u[i] ELSE t[i - Len(u)]
    BY <1>2, <1>4, ConcatProperties
  <2>. QED
    BY <1>2, <1>4, <2>1
<1>6. /\ v \o t \in Seq(Frame) /\ Len(v \o t) = Len(s) + 1
      /\ (v \o t)[1] = a /\ (v \o t)[2] = x
      /\ \A i \in 3 .. Len(s) + 1 : (v \o t)[i] = t[i - 2]
  <2>1. /\ v \o t \in Seq(Frame) /\ Len(v \o t) = Len(v) + Len(t)
        /\ \A i \in 1 .. Len(v) + Len(t) :
              (v \o t)[i] = IF i <= Len(v) THEN v[i] ELSE t[i - Len(v)]
    BY <1>2, <1>4, ConcatProperties
  <2>. QED
    BY <1>2, <1>4, <2>1
<1>7. \A i \in 2 .. Len(s) : i - 1 \in 1 .. Len(t) /\ t[i - 1] = s[i]
  BY <1>2
<1>8. \A i \in 3 .. Len(s) + 1 : i - 2 \in 1 .. Len(t) /\ t[i - 2] = s[i - 1]
  BY <1>2
<1>. QED
  BY <1>1, <1>3, <1>5, <1>6, <1>7, <1>8

\* The cycle goes on until the stack is full.
LEMMA FromOverflows ==
    ASSUME StableInv, NEW b \in stable.live, Overflows(b), live = stable.live \ {b},
           session = "open", stable.session = "open", Inside
    PROVE  \/ stable' = stable /\ session' = session /\ live' = live /\ Overflows(b)'
           \/ Died' /\ IsSnapshot' /\ stable'.spaceIndex = stable.spaceIndex /\ Was!Next
<1>1. /\ stack \in Seq(Frame) /\ Len(stack) > 1 /\ Len(stack) \in Nat /\ stack # <<>>
      /\ Head(stack) = stack[1] /\ DOMAIN stack = 1 .. Len(stack)
  BY DEF Overflows
<1>2. /\ Head(stack).call = "Delete" /\ Head(stack).at \in {"start", "added"}
      /\ Head(stack) \in Frame
      /\ BlockAt(Head(stack).off, Head(stack).len) \in {b} \cup RootBlocks
  BY <1>1 DEF Overflows
<1>3. PICK h : h = Head(stack)
  OBVIOUS
<1>4. h \in Frame /\ h.call = "Delete" /\ BlockAt(h.off, h.len) \in {b} \cup RootBlocks
  BY <1>2, <1>3
<1>5. PICK added, splitting :
        added = [h EXCEPT !.at = "added"] /\ splitting = [h EXCEPT !.at = "splitting"]
  OBVIOUS
<1>6. /\ added \in Frame /\ added.call = "Delete" /\ added.at = "added"
      /\ added.off = h.off /\ added.len = h.len
      /\ splitting \in Frame /\ splitting.call = "Delete"
      /\ splitting.off = h.off /\ splitting.len = h.len
  BY <1>4, <1>5 DEF Frame
<1>7. DeleteAdd \/ AfterAddOversized
  BY <1>2 DEF Overflows, Inside, InCall, GetSpaceFound, GetSpaceAtEnd, GetSpaceReturn,
              AfterAddSaveRoot, DeleteInsert
<1>8. With(b)' = With(b) \/ stable' # stable
  BY DEF With
<1>9. CASE DeleteAdd
  <2>1. /\ spaceIndex' = Insert(spaceIndex, h.off, h.len)
        /\ stack' = <<added>> \o Tail(stack)
        /\ UNCHANGED <<fileEnd, spaceRoot, spaceByLength, savedIndex, session, live, stable>>
    BY <1>3, <1>5, <1>9 DEF DeleteAdd, Continue
  <2>2. /\ stack' \in Seq(Frame) /\ Len(stack') = Len(stack) /\ stack'[1] = added
        /\ \A i \in 2 .. Len(stack) : stack'[i] = stack[i]
    BY <1>1, <1>6, <2>1, StackGrows
  <2>3. DOMAIN stack' = 1 .. Len(stack) /\ Head(stack') = added
    BY <1>1, <2>2
  <2>4. \A i \in DOMAIN stack' :
            /\ stack'[i].call = "Delete"
            /\ BlockAt(stack'[i].off, stack'[i].len) \in {b} \cup RootBlocks
    BY <1>1, <1>4, <1>6, <2>2, <2>3 DEF Overflows
  <2>5. IsFiniteSet(DOMAIN spaceIndex') /\ Oversized(spaceIndex')
    BY <2>1, EntryMore DEF Overflows
  <2>6. RootBlocks' = RootBlocks
    BY <2>1 DEF RootBlocks
  <2>7. Overflows(b)'
    BY <1>1, <1>6, <1>8, <2>1, <2>2, <2>3, <2>4, <2>5, <2>6 DEF Overflows, FileAsBefore
  <2>. QED
    BY <2>1, <2>7
<1>10. CASE AfterAddOversized /\ Len(stack) < StackLimit
  <2>1. PICK f : f = DeleteFrame(spaceRoot, NodeSize)
    OBVIOUS
  <2>2. /\ stack' = <<f, splitting>> \o Tail(stack)
        /\ UNCHANGED <<fileEnd, spaceRoot, spaceIndex, spaceByLength, modified, savedIndex,
                       session, live, stable>>
    BY <1>3, <1>5, <1>10, <2>1 DEF AfterAddOversized, Call
  <2>3. /\ spaceRoot \in Nat /\ spaceRoot # 0 /\ NodeSize \in Nat
    BY WasFacts, SpaceAssumption DEF Overflows, FileAsBefore
  <2>4. /\ f \in Frame /\ f.call = "Delete" /\ f.at = "start"
        /\ f.off = spaceRoot /\ f.len = NodeSize
    BY <2>1, <2>3 DEF DeleteFrame, Frame
  <2>5. BlockAt(f.off, f.len) \in RootBlocks
    BY <2>3, <2>4 DEF RootBlocks
  <2>6. /\ stack' \in Seq(Frame) /\ Len(stack') = Len(stack) + 1
        /\ stack'[1] = f /\ stack'[2] = splitting
        /\ \A i \in 3 .. Len(stack) + 1 : stack'[i] = stack[i - 1]
    BY <1>1, <1>6, <2>2, <2>4, StackGrows
  <2>7. DOMAIN stack' = 1 .. Len(stack) + 1 /\ Head(stack') = f /\ Len(stack') > 1
    BY <1>1, <2>6
  <2>8. \A i \in DOMAIN stack' :
            /\ stack'[i].call = "Delete"
            /\ BlockAt(stack'[i].off, stack'[i].len) \in {b} \cup RootBlocks
    <3>1. \A i \in 3 .. Len(stack) + 1 :
            /\ stack'[i].call = "Delete"
            /\ BlockAt(stack'[i].off, stack'[i].len) \in {b} \cup RootBlocks
      BY <1>1, <2>6 DEF Overflows
    <3>2. \A i \in DOMAIN stack' : i = 1 \/ i = 2 \/ i \in 3 .. Len(stack) + 1
      BY <1>1, <2>7
    <3>. QED
      BY <1>4, <1>6, <2>4, <2>5, <2>6, <3>1, <3>2
  <2>9. RootBlocks' = RootBlocks
    BY <2>2 DEF RootBlocks
  <2>10. Overflows(b)'
    BY <1>8, <2>2, <2>4, <2>6, <2>7, <2>8, <2>9 DEF Overflows, FileAsBefore
  <2>. QED
    BY <2>2, <2>10
<1>11. CASE AfterAddOversized /\ ~ (Len(stack) < StackLimit)
  <2>1. /\ stack' = <<>> /\ session' = "dead" /\ stable' = [stable EXCEPT !.session = "dead"]
        /\ UNCHANGED <<fileEnd, spaceRoot, spaceIndex, spaceByLength, modified, savedIndex, live>>
    BY <1>11 DEF AfterAddOversized
  <2>2. /\ IsSnapshot' /\ stable'.session = "dead"
        /\ stable'.fileEnd = stable.fileEnd /\ stable'.spaceRoot = stable.spaceRoot
        /\ stable'.spaceIndex = stable.spaceIndex
        /\ stable'.spaceByLength = stable.spaceByLength
        /\ stable'.modified = stable.modified /\ stable'.savedIndex = stable.savedIndex
        /\ stable'.live = stable.live
    <3>1. PICK e, i, k, l, m, n, o :
            stable = [fileEnd |-> e, spaceRoot |-> i, spaceIndex |-> k, spaceByLength |-> l,
                      modified |-> m, savedIndex |-> n, session |-> "open", live |-> o]
      BY DEF StableInv, IsSnapshot
    <3>2. stable' = [fileEnd |-> e, spaceRoot |-> i, spaceIndex |-> k, spaceByLength |-> l,
                     modified |-> m, savedIndex |-> n, session |-> "dead", live |-> o]
      BY <2>1, <3>1
    <3>. QED
      BY <3>1, <3>2 DEF IsSnapshot
  <2>3. Was!ReleaseOverflow(b)
    <3>1. Was!Oversized(Was!Insert(stable.spaceIndex, b.off, b.len))
      BY DEF Overflows, With, Insert, Was!Insert, Oversized, Was!Oversized, Cardinality,
             Was!Cardinality
    <3>. QED
      BY <2>2, <3>1 DEF Was!ReleaseOverflow
  <2>4. Was!Next
    BY <2>3 DEF Was!Next, Was!Release
  <2>5. Died'
    BY <2>1, <2>2 DEF Died, Overflows, FileAsBefore
  <2>. QED
    BY <2>2, <2>4, <2>5
<1>. QED
  BY <1>7, <1>9, <1>10, <1>11

\* Between calls a client calls, or the session ends, or the next one begins.
LEMMA FromWaiting ==
    ASSUME StableInv, Waiting, CallsNext
    PROVE  \/ stable' = stable /\ session' = "open" /\ session = "open" /\ (InGetSpace \/ InDelete)'
           \/ Returned
<1>1. /\ stack = <<>> /\ stable = Snapshot
      /\ stable.fileEnd = fileEnd /\ stable.spaceRoot = spaceRoot
      /\ stable.spaceIndex = spaceIndex /\ stable.spaceByLength = spaceByLength
      /\ stable.modified = modified /\ stable.savedIndex = savedIndex
      /\ stable.session = session /\ stable.live = live
  BY DEF Waiting, Snapshot
<1>2. \/ \E n \in Lengths : CallGetSpace(n)
      \/ \E b \in live : CallDelete(b)
      \/ SessionStep
  BY <1>1 DEF CallsNext, Inside, InCall, GetSpaceFound, GetSpaceAtEnd, GetSpaceReturn, DeleteAdd,
              AfterAddOversized, AfterAddSaveRoot, DeleteInsert
<1>3. ASSUME NEW n \in Lengths, CallGetSpace(n)
      PROVE  stable' = stable /\ session' = "open" /\ session = "open" /\ InGetSpace'
  <2>1. stack' = <<GetAt(n, 0, "start")>> /\ session = "open" /\ UNCHANGED <<spaceVars, stable>>
    BY <1>3 DEF CallGetSpace, GetFrame, GetAt
  <2>2. Asked(n)' /\ live' = stable'.live
    BY <1>1, <2>1 DEF Asked, FileAsBefore, ViewsAsBefore, spaceVars
  <2>. QED
    BY <2>1, <2>2 DEF InGetSpace, spaceVars
<1>4. ASSUME NEW b \in live, CallDelete(b)
      PROVE  stable' = stable /\ session' = "open" /\ session = "open" /\ InDelete'
  <2>1. /\ stack' = <<DeleteAt(b.off, b.len, "start")>> /\ session = "open" /\ live' = live \ {b}
        /\ UNCHANGED <<fileEnd, spaceRoot, spaceIndex, spaceByLength, modified, savedIndex,
                       session, stable>>
    BY <1>4 DEF CallDelete, DeleteFrame, DeleteAt
  <2>2. Called(b)' /\ b \in stable'.live /\ live' = stable'.live \ {b}
    BY <1>1, <2>1 DEF Called, FileAsBefore, ViewsAsBefore
  <2>. QED
    BY <2>1, <2>2 DEF InDelete
<1>5. ASSUME SessionStep
      PROVE  Returned
  <2>1. stack' = <<>> /\ Settle /\ (Complete \/ Open)
    BY <1>1, <1>5 DEF SessionStep
  <2>2. CASE Complete
    <3>1. Was!Complete
      BY <1>1, <2>1, <2>2, ClientSees DEF Complete, Was!Complete
    <3>2. stable'.spaceIndex = stable.spaceIndex
      BY <1>1, <2>1, <2>2, ClientSees DEF Complete
    <3>. QED
      BY <2>1, <3>1, <3>2, ClientSees DEF Returned, Was!Next, StableInv
  <2>3. CASE Open
    <3>1. Was!Open
      BY <1>1, <2>1, <2>3, ClientSees
         DEF Open, Was!Open, Loaded, Was!Loaded, NoEntries, Was!NoEntries, ByLength, Was!ByLength
    <3>2. stable'.spaceIndex = stable.spaceIndex
      <4>1. Was!SavedOnComplete
        BY DEF StableInv, Was!TilingInv, Was!Bookkeeping
      <4>2. Was!Loaded = stable.spaceIndex
        BY <3>1, <4>1 DEF Was!SavedOnComplete, Was!Open
      <4>. QED
        BY <3>1, <4>2 DEF Was!Open
    <3>. QED
      BY <2>1, <3>1, <3>2, ClientSees DEF Returned, Was!Next, StableInv
  <2>. QED
    BY <2>1, <2>2, <2>3
<1>. QED
  BY <1>2, <1>3, <1>4, <1>5

\* A program that has died does nothing.
LEMMA FromDied ==
    ASSUME Died
    PROVE  ~ CallsNext
BY DEF Died, CallsNext, CallGetSpace, CallDelete, SessionStep, Complete, Open,
       Inside, InCall, GetSpaceFound, GetSpaceAtEnd, GetSpaceReturn, DeleteAdd,
       AfterAddOversized, AfterAddSaveRoot, DeleteInsert

\* Every step keeps the invariant, and is a step of SpaceManager or none.
LEMMA StepOfCalls ==
    ASSUME CallsInv, [CallsNext]_callVars
    PROVE  CallsInv' /\ [Was!Next]_(Was!spaceVars)
<1>1. ASSUME stable' = stable
      PROVE  StableInv' /\ [Was!Next]_(Was!spaceVars)
  <2>1. [Was!Next]_(Was!spaceVars)
    BY <1>1 DEF Was!spaceVars
  <2>2. Was!TilingInv'
    BY <2>1, WasStep DEF CallsInv
  <2>. QED
    BY <1>1, <2>1, <2>2 DEF CallsInv, StableInv, IsSnapshot
<1>2. ASSUME Was!Next, IsSnapshot', ~ Oversized(stable'.spaceIndex)
      PROVE  StableInv' /\ [Was!Next]_(Was!spaceVars)
  <2>1. Was!TilingInv'
    BY <1>2, WasStep DEF CallsInv
  <2>. QED
    BY <1>2, <2>1 DEF StableInv
<1>3. ASSUME Returned
      PROVE  CallsInv' /\ [Was!Next]_(Was!spaceVars)
  BY <1>2, <1>3 DEF Returned, CallsInv
<1>4. ASSUME UNCHANGED callVars
      PROVE  CallsInv' /\ [Was!Next]_(Was!spaceVars)
  <2>1. /\ stable' = stable /\ stack' = stack
        /\ UNCHANGED <<fileEnd, spaceRoot, spaceIndex, spaceByLength, modified, savedIndex,
                       session, live>>
    BY <1>4 DEF callVars, spaceVars
  <2>2. (Waiting => Waiting') /\ (Died => Died')
    BY <2>1 DEF Waiting, Snapshot, Died
  <2>3. /\ FileAsBefore' = FileAsBefore /\ ViewsAsBefore' = ViewsAsBefore
        /\ RootBlocks' = RootBlocks
    BY <2>1 DEF FileAsBefore, ViewsAsBefore, RootBlocks
  <2>4. ASSUME InGetSpace
        PROVE  InGetSpace'
    <3>1. PICK n \in Lengths :
            Asked(n) \/ TakesEnd(n) \/ \E p \in stable.spaceByLength : Cuts(n, p)
      BY <2>4 DEF InGetSpace
    <3>2. Asked(n) => Asked(n)'
      BY <2>1, <2>3 DEF Asked
    <3>3. TakesEnd(n) => TakesEnd(n)'
      BY <2>1, <2>3 DEF TakesEnd
    <3>4. ASSUME NEW p \in stable.spaceByLength, Cuts(n, p)
          PROVE  Cuts(n, p)'
      <4>1. /\ Left(p)' = Left(p) /\ IndexAfter(n, p)' = IndexAfter(n, p)
            /\ Was!IsBestFit(p, n)'
        BY <2>1, <3>4 DEF Left, IndexAfter, Was!IsBestFit, Cuts
      <4>. QED
        BY <2>1, <2>3, <3>4, <4>1 DEF Cuts
    <3>. QED
      BY <2>1, <2>4, <3>1, <3>2, <3>3, <3>4 DEF InGetSpace
  <2>5. ASSUME InDelete
        PROVE  InDelete'
    <3>1. PICK b \in stable.live :
            live = stable.live \ {b} /\ (Called(b) \/ Adds(b) \/ Overflows(b))
      BY <2>5 DEF InDelete
    <3>2. With(b)' = With(b)
      BY <2>1 DEF With
    <3>3. Called(b) => Called(b)'
      BY <2>1, <2>3 DEF Called
    <3>4. Adds(b) => Adds(b)'
      BY <2>1, <2>3, <3>2 DEF Adds
    <3>5. Overflows(b) => Overflows(b)'
      BY <2>1, <2>3, <3>2 DEF Overflows
    <3>. QED
      BY <2>1, <3>1, <3>3, <3>4, <3>5 DEF InDelete
  <2>. QED
    BY <1>1, <2>1, <2>2, <2>4, <2>5 DEF CallsInv
<1>5. CASE CallsNext /\ Waiting
  <2>1. CASE stable' = stable /\ session' = "open" /\ session = "open" /\ (InGetSpace \/ InDelete)'
    <3>1. stable'.session = "open"
      BY <1>5, <2>1 DEF Waiting, Snapshot
    <3>. QED
      BY <1>1, <2>1, <3>1 DEF CallsInv
  <2>. QED
    BY <1>3, <1>5, <2>1, FromWaiting DEF CallsInv
<1>6. CASE CallsNext /\ Died
  BY <1>6, FromDied
<1>7. CASE CallsNext /\ session = "open" /\ stable.session = "open" /\ InGetSpace
  <2>1. PICK n \in Lengths :
          Asked(n) \/ TakesEnd(n) \/ \E p \in stable.spaceByLength : Cuts(n, p)
    BY <1>7 DEF InGetSpace
  <2>2. Inside
    <3>1. stack # <<>>
      BY <2>1, Stacks DEF Asked, TakesEnd, Cuts
    <3>. QED
      BY <1>7, <3>1, InsideOnly
  <2>3. live = stable.live /\ StableInv
    BY <1>7 DEF InGetSpace, CallsInv
  <2>4. \/ Returned
        \/ /\ stable' = stable /\ session' = session /\ live' = live
           /\ TakesEnd(n)' \/ \E p \in stable.spaceByLength : Cuts(n, p)'
    BY <1>7, <2>1, <2>2, <2>3, FromAsked, FromTakesEnd, FromCuts
  <2>5. ASSUME stable' = stable, session' = session, live' = live,
               TakesEnd(n)' \/ \E p \in stable.spaceByLength : Cuts(n, p)'
        PROVE  CallsInv' /\ [Was!Next]_(Was!spaceVars)
    <3>1. InGetSpace'
      BY <2>3, <2>5 DEF InGetSpace
    <3>. QED
      BY <1>1, <1>7, <2>5, <3>1 DEF CallsInv
  <2>. QED
    BY <1>3, <2>4, <2>5
<1>8. CASE CallsNext /\ session = "open" /\ stable.session = "open" /\ InDelete
  <2>1. PICK b \in stable.live :
          live = stable.live \ {b} /\ (Called(b) \/ Adds(b) \/ Overflows(b))
    BY <1>8 DEF InDelete
  <2>2. Inside
    <3>1. stack # <<>>
      BY <2>1, Stacks DEF Called, Adds, Overflows
    <3>. QED
      BY <1>8, <3>1, InsideOnly
  <2>3. StableInv
    BY DEF CallsInv
  <2>4. \/ Returned
        \/ Died' /\ IsSnapshot' /\ stable'.spaceIndex = stable.spaceIndex /\ Was!Next
        \/ stable' = stable /\ session' = session /\ live' = live /\ (Adds(b)' \/ Overflows(b)')
    BY <1>8, <2>1, <2>2, <2>3, FromCalled, FromAdds, FromOverflows
  <2>5. ASSUME stable' = stable, session' = session, live' = live, Adds(b)' \/ Overflows(b)'
        PROVE  CallsInv' /\ [Was!Next]_(Was!spaceVars)
    <3>1. InDelete'
      BY <2>1, <2>5 DEF InDelete
    <3>. QED
      BY <1>1, <1>8, <2>5, <3>1 DEF CallsInv
  <2>6. ASSUME Died', IsSnapshot', stable'.spaceIndex = stable.spaceIndex, Was!Next
        PROVE  CallsInv' /\ [Was!Next]_(Was!spaceVars)
    BY <1>2, <2>3, <2>6 DEF CallsInv, StableInv
  <2>. QED
    BY <1>3, <2>4, <2>5, <2>6
<1>. QED
  BY <1>4, <1>5, <1>6, <1>7, <1>8 DEF CallsInv

\* Before the first call nothing is called.
LEMMA CallsInitially ==
    ASSUME CallsInit
    PROVE  CallsInv /\ Was!Init
<1>1. /\ Init /\ stack = <<>> /\ stable = Snapshot
      /\ stable.fileEnd = fileEnd /\ stable.spaceRoot = spaceRoot
      /\ stable.spaceIndex = spaceIndex /\ stable.spaceByLength = spaceByLength
      /\ stable.modified = modified /\ stable.savedIndex = savedIndex
      /\ stable.session = session /\ stable.live = live
  BY DEF CallsInit, Snapshot
<1>2. Was!Init
  BY <1>1 DEF Init, Was!Init, NoEntries, Was!NoEntries
<1>3. Was!TilingInv
  BY <1>2, Was!InitTiling, SpaceAssumption DEF Was!InitTiling
<1>4. ~ Oversized(stable.spaceIndex)
  <2>1. DOMAIN NoEntries = {}
    BY DEF NoEntries
  <2>. QED
    BY <1>1, <2>1, FS_EmptySet, SpaceAssumption DEF Init, Oversized
<1>. QED
  BY <1>1, <1>2, <1>3, <1>4 DEF CallsInv, StableInv, IsSnapshot, Snapshot, Waiting

------------------------------------------------------------------------------
(* What a search may find. *)

\* A block that was free before the call.
LEMMA WasFree ==
    ASSUME StableInv, NEW q \in stable.spaceByLength
    PROVE  /\ q[1] \in Nat \ {0} /\ q[2] \in Nat
           /\ q[2] + q[1] <= stable.fileEnd
           /\ \A c \in stable.live \cup WasRoot : c \in Block /\ Disjoint(BlockAt(q[2], q[1]), c)
           /\ \A l \in Nat : Disjoint(BlockAt(q[2], q[1]), BlockAt(stable.fileEnd, l))
           /\ \A p \in stable.spaceByLength : p # q =>
                /\ p[1] \in Nat \ {0} /\ p[2] \in Nat
                /\ Disjoint(BlockAt(q[2], q[1]), BlockAt(p[2], p[1]))
<1>1. ASSUME NEW p \in stable.spaceByLength
      PROVE  /\ p[1] \in Nat \ {0} /\ p[2] \in Nat /\ p = <<p[1], p[2]>>
             /\ BlockAt(p[2], p[1]) \in Listed(stable.spaceIndex)
  <2>1. PICK o \in DOMAIN stable.spaceIndex : p = <<stable.spaceIndex[o], o>>
    BY WasFacts DEF ByLength
  <2>2. o \in Nat /\ stable.spaceIndex[o] \in Nat \ {0}
    BY WasFacts DEF IsIndex
  <2>. QED
    BY <2>1, <2>2 DEF Listed
<1>2. PICK f : f = BlockAt(q[2], q[1])
  OBVIOUS
<1>3. /\ f \in Listed(stable.spaceIndex) /\ f.off = q[2] /\ f.len = q[1]
      /\ f \in WasBlocks
  BY <1>1, <1>2 DEF BlockAt, WasBlocks
<1>4. f.off + f.len <= stable.fileEnd /\ stable.fileEnd \in Nat
  BY <1>3, WasFacts
<1>5. ASSUME NEW c \in stable.live \cup WasRoot
      PROVE  c \in Block /\ Disjoint(f, c)
  <2>1. c \in WasBlocks /\ c # f
    BY <1>3, <1>5, WasFacts DEF WasBlocks
  <2>. QED
    BY <1>3, <2>1, WasFacts
<1>6. ASSUME NEW l \in Nat
      PROVE  Disjoint(f, BlockAt(stable.fileEnd, l))
  BY <1>4 DEF Disjoint, BlockAt
<1>7. ASSUME NEW p \in stable.spaceByLength, p # q
      PROVE  Disjoint(f, BlockAt(p[2], p[1]))
  <2>1. PICK g : g = BlockAt(p[2], p[1])
    OBVIOUS
  <2>2. g \in WasBlocks /\ g.off = p[2] /\ g.len = p[1]
    BY <1>1, <2>1 DEF WasBlocks, BlockAt
  <2>3. g # f
    <3>1. SUFFICES ASSUME g = f PROVE FALSE
      OBVIOUS
    <3>2. p[1] = q[1] /\ p[2] = q[2]
      BY <1>3, <2>2, <3>1
    <3>3. p = <<p[1], p[2]>> /\ q = <<q[1], q[2]>>
      BY <1>1
    <3>. QED
      BY <1>7, <3>2, <3>3
  <2>. QED
    BY <1>3, <2>1, <2>2, <2>3, WasFacts
<1>. QED
  BY <1>1, <1>2, <1>3, <1>4, <1>5, <1>6, <1>7

\* The block that a single frame is responsible for.
LEMMA FlightOne ==
    ASSUME NEW x, stack = <<x>>
    PROVE  InFlight = IF x.call = "GetSpace" => x.at = "found" THEN {BlockAt(x.off, x.len)} ELSE {}
<1>1. DOMAIN stack = {1} /\ stack[1] = x
  OBVIOUS
<1>. QED
  BY <1>1 DEF InFlight

\* Two frames: the upper one is responsible for a block unless it is still searching.
LEMMA FlightTwo ==
    ASSUME NEW x, NEW y, stack = <<x, y>>
    PROVE  InFlight \subseteq
                (IF x.call = "GetSpace" => x.at = "found" THEN {BlockAt(x.off, x.len)} ELSE {})
                    \cup {BlockAt(y.off, y.len)}
<1>1. DOMAIN stack = {1, 2} /\ stack[1] = x /\ stack[2] = y
  OBVIOUS
<1>. QED
  BY <1>1 DEF InFlight

\* Nothing that the call has taken, or that the client has, is found.
LEMMA NoneFound ==
    ASSUME CallsInv
    PROVE  SearchableIsFree
<1>1. StableInv
  BY DEF CallsInv
<1>2. CASE Waiting \/ Died
  <2>1. InFlight = {}
    <3>1. DOMAIN stack = {}
      BY <1>2 DEF Waiting, Died
    <3>. QED
      BY <3>1 DEF InFlight
  <2>2. /\ spaceRoot = stable.spaceRoot /\ live \subseteq stable.live
        /\ spaceByLength = stable.spaceByLength
    <3>1. CASE Waiting
      <4>1. stable = Snapshot
        BY <3>1 DEF Waiting
      <4>. QED
        BY <4>1 DEF Snapshot
    <3>2. CASE Died
      BY <3>2 DEF Died
    <3>. QED
      BY <1>2, <3>1, <3>2
  <2>3. RootBlocks = WasRoot
    BY <2>2 DEF RootBlocks, WasRoot
  <2>. QED
    BY <1>1, <2>1, <2>2, <2>3, WasFree DEF SearchableIsFree
<1>3. ASSUME NEW n \in Lengths, Asked(n) \/ TakesEnd(n), live = stable.live
      PROVE  SearchableIsFree
  <2>1. n \in Nat /\ spaceByLength = stable.spaceByLength /\ RootBlocks = WasRoot
    BY <1>3, SpaceAssumption DEF Asked, TakesEnd, FileAsBefore, ViewsAsBefore, RootBlocks, WasRoot
  <2>2. InFlight \subseteq {BlockAt(stable.fileEnd, n)}
    <3>1. CASE Asked(n)
      <4>1. PICK x : x = GetAt(n, 0, "start")
        OBVIOUS
      <4>2. x.call = "GetSpace" /\ x.at = "start" /\ stack = <<x>>
        BY <3>1, <4>1 DEF Asked, GetAt
      <4>. QED
        BY <4>2, FlightOne
    <3>2. CASE TakesEnd(n)
      <4>1. PICK x : x = GetAt(n, stable.fileEnd, "found")
        OBVIOUS
      <4>2. x.off = stable.fileEnd /\ x.len = n /\ stack = <<x>>
        BY <3>2, <4>1 DEF TakesEnd, GetAt
      <4>. QED
        BY <4>2, FlightOne
    <3>. QED
      BY <1>3, <3>1, <3>2
  <2>. QED
    BY <1>1, <1>3, <2>1, <2>2, WasFree DEF SearchableIsFree
<1>4. ASSUME NEW n \in Lengths, NEW p \in stable.spaceByLength, Cuts(n, p), live = stable.live
      PROVE  SearchableIsFree
  <2>1. p[1] >= n /\ RootBlocks = WasRoot
    BY <1>4 DEF Cuts, Was!IsBestFit, FileAsBefore, RootBlocks, WasRoot
  <2>2. p[1] \in Nat \ {0} /\ p[2] \in Nat /\ n \in Nat \ {0}
    BY <1>1, <2>1, FoundFacts
  <2>3. PICK rest, o : rest = p[1] - n /\ o = p[2] + n
    OBVIOUS
  <2>4. rest \in Nat /\ o \in Nat
    BY <2>1, <2>2, <2>3
  <2>5. PICK e, r : e = BlockAt(p[2], n) /\ r = BlockAt(o, rest)
    OBVIOUS
  <2>6. e.off = p[2] /\ e.len = n /\ r.off = o /\ r.len = rest
    BY <2>5 DEF BlockAt
  <2>7. \/ spaceByLength \subseteq stable.spaceByLength \ {p} /\ InFlight \subseteq {e, r}
        \/ /\ spaceByLength \subseteq (stable.spaceByLength \ {p}) \cup {<<rest, o>>}
           /\ InFlight \subseteq {e}
    <3>1. ASSUME NEW point, stack = <<DeleteAt(o, rest, point), GetAt(n, p[2], "found")>>
          PROVE  InFlight \subseteq {e, r}
      <4>1. PICK x, y : x = DeleteAt(o, rest, point) /\ y = GetAt(n, p[2], "found")
        OBVIOUS
      <4>2. x.off = o /\ x.len = rest /\ y.off = p[2] /\ y.len = n /\ stack = <<x, y>>
        BY <3>1, <4>1 DEF DeleteAt, GetAt
      <4>. QED
        BY <2>5, <4>2, FlightTwo
    <3>2. ASSUME stack = <<GetAt(n, p[2], "found")>>
          PROVE  InFlight \subseteq {e}
      <4>1. PICK y : y = GetAt(n, p[2], "found")
        OBVIOUS
      <4>2. y.off = p[2] /\ y.len = n /\ stack = <<y>>
        BY <3>2, <4>1 DEF GetAt
      <4>. QED
        BY <2>5, <4>2, FlightOne
    <3>. QED
      BY <1>4, <2>3, <3>1, <3>2 DEF Cuts, Remains
  <2>8. ASSUME NEW c \in stable.live \cup WasRoot
        PROVE  c \in Block /\ c.off \in Nat /\ c.len \in Nat /\ Disjoint(BlockAt(p[2], p[1]), c)
    BY <1>1, WasFree DEF Block
  <2>9. ASSUME NEW q \in stable.spaceByLength \ {p}
        PROVE  /\ \A c \in live \cup RootBlocks : Disjoint(BlockAt(q[2], q[1]), c)
               /\ Disjoint(BlockAt(q[2], q[1]), e) /\ Disjoint(BlockAt(q[2], q[1]), r)
    <3>1. /\ q[1] \in Nat \ {0} /\ q[2] \in Nat
          /\ Disjoint(BlockAt(q[2], q[1]), BlockAt(p[2], p[1]))
          /\ \A c \in live \cup RootBlocks : Disjoint(BlockAt(q[2], q[1]), c)
      BY <1>1, <1>4, <2>1, <2>9, WasFree
    <3>2. q[2] + q[1] <= p[2] \/ p[2] + p[1] <= q[2]
      BY <3>1 DEF Disjoint, BlockAt
    <3>3. /\ q[2] + q[1] <= p[2] \/ p[2] + n <= q[2]
          /\ q[2] + q[1] <= o \/ o + rest <= q[2]
      BY <2>1, <2>2, <2>3, <3>1, <3>2
    <3>. QED
      BY <2>5, <3>1, <3>3 DEF Disjoint, BlockAt
  <2>10. /\ \A c \in live \cup RootBlocks : Disjoint(r, c)
         /\ Disjoint(r, e)
    <3>1. ASSUME NEW c \in live \cup RootBlocks
          PROVE  Disjoint(r, c)
      <4>1. c.off \in Nat /\ c.len \in Nat /\ Disjoint(BlockAt(p[2], p[1]), c)
        BY <1>4, <2>1, <2>8, <3>1
      <4>2. p[2] + p[1] <= c.off \/ c.off + c.len <= p[2]
        BY <4>1 DEF Disjoint, BlockAt
      <4>3. o + rest <= c.off \/ c.off + c.len <= o
        BY <2>1, <2>2, <2>3, <4>1, <4>2
      <4>. QED
        BY <2>6, <4>3 DEF Disjoint
    <3>2. Disjoint(r, e)
      BY <2>2, <2>3, <2>4, <2>6 DEF Disjoint
    <3>. QED
      BY <3>1, <3>2
  <2>11. ASSUME NEW q \in spaceByLength, NEW b \in live \cup RootBlocks \cup InFlight
         PROVE  Disjoint(BlockAt(q[2], q[1]), b)
    <3>1. CASE q \in stable.spaceByLength \ {p}
      BY <2>7, <2>9, <2>11, <3>1
    <3>2. CASE q \notin stable.spaceByLength \ {p}
      <4>1. q = <<rest, o>> /\ InFlight \subseteq {e}
        BY <2>7, <2>11, <3>2
      <4>2. BlockAt(q[2], q[1]) = r
        BY <2>5, <4>1
      <4>. QED
        BY <2>10, <2>11, <4>1, <4>2
    <3>. QED
      BY <3>1, <3>2
  <2>. QED
    BY <2>11 DEF SearchableIsFree
<1>5. ASSUME NEW b \in stable.live, live = stable.live \ {b}, Called(b) \/ Adds(b) \/ Overflows(b)
      PROVE  SearchableIsFree
  <2>1. NodeSize \in Nat \ {0} /\ stable.fileEnd \in Nat /\ b = BlockAt(b.off, b.len)
        /\ HeaderLength \in Nat \ {0} /\ HeaderLength <= stable.fileEnd
    BY <1>1, WasFacts, SpaceAssumption DEF WasBlocks, Block, BlockAt
  <2>2. PICK e : e = BlockAt(stable.fileEnd, NodeSize)
    OBVIOUS
  <2>3. spaceByLength = stable.spaceByLength
    BY <1>5 DEF Called, Adds, Overflows, ViewsAsBefore
  <2>4. RootBlocks \subseteq WasRoot \cup {e}
    BY <1>5, <2>1, <2>2 DEF Called, Adds, Overflows, FileAsBefore, RootBlocks, WasRoot
  <2>5. ASSUME NEW point, stack = <<DeleteAt(b.off, b.len, point)>>
        PROVE  InFlight \subseteq {b}
    <3>1. PICK x : x = DeleteAt(b.off, b.len, point)
      OBVIOUS
    <3>2. x.off = b.off /\ x.len = b.len /\ stack = <<x>>
      BY <2>5, <3>1 DEF DeleteAt
    <3>. QED
      BY <2>1, <3>2, FlightOne
  <2>6. ASSUME NEW o, NEW point, point = "found" => o = stable.fileEnd,
               stack = <<GetAt(NodeSize, o, point), DeleteAt(b.off, b.len, "saving")>>
        PROVE  InFlight \subseteq {b, e}
    <3>1. PICK x, y : x = GetAt(NodeSize, o, point) /\ y = DeleteAt(b.off, b.len, "saving")
      OBVIOUS
    <3>2. /\ x.call = "GetSpace" /\ x.at = point /\ x.off = o /\ x.len = NodeSize
          /\ y.off = b.off /\ y.len = b.len /\ stack = <<x, y>>
      BY <2>6, <3>1 DEF GetAt, DeleteAt
    <3>3. point = "found" => BlockAt(x.off, x.len) = e
      BY <2>2, <2>6, <3>2
    <3>. QED
      BY <2>1, <3>2, <3>3, FlightTwo
  <2>7. Overflows(b) => InFlight \subseteq {b} \cup RootBlocks
    BY DEF Overflows, InFlight
  <2>8. InFlight \subseteq {b, e} \cup RootBlocks
    <3>1. Called(b) => InFlight \subseteq {b}
      BY <2>5 DEF Called
    <3>2. Adds(b) => InFlight \subseteq {b, e}
      BY <2>5, <2>6 DEF Adds
    <3>. QED
      BY <1>5, <2>7, <3>1, <3>2
  <2>9. ASSUME NEW q \in stable.spaceByLength
        PROVE  /\ \A c \in stable.live \cup WasRoot : Disjoint(BlockAt(q[2], q[1]), c)
               /\ Disjoint(BlockAt(q[2], q[1]), e)
    BY <1>1, <2>1, <2>2, WasFree
  <2>. QED
    BY <1>5, <2>3, <2>4, <2>8, <2>9 DEF SearchableIsFree
<1>. QED
  BY <1>2, <1>3, <1>4, <1>5 DEF CallsInv, InGetSpace, InDelete

\* Only the call that gives back the root again and again is entered twice.
LEMMA EnteredOnce ==
    ASSUME CallsInv
    PROVE  CycleEnteredOnce
<1>1. ASSUME NEW x, stack = <<x>>
      PROVE  ~ Len(stack) > 2
  BY <1>1
<1>2. ASSUME NEW x, NEW y, stack = <<x, y>>
      PROVE  ~ Len(stack) > 2
  BY <1>2
<1>3. CASE Waiting \/ Died
  BY <1>3 DEF Waiting, Died, CycleEnteredOnce
<1>4. ASSUME NEW n \in Lengths, Asked(n) \/ TakesEnd(n)
      PROVE  CycleEnteredOnce
  BY <1>1, <1>4 DEF Asked, TakesEnd, CycleEnteredOnce
<1>5. ASSUME NEW n \in Lengths, NEW p \in stable.spaceByLength, Cuts(n, p)
      PROVE  CycleEnteredOnce
  BY <1>1, <1>2, <1>5 DEF Cuts, CycleEnteredOnce
<1>6. ASSUME NEW b \in stable.live, Called(b) \/ Adds(b) \/ Overflows(b)
      PROVE  CycleEnteredOnce
  BY <1>1, <1>2, <1>6 DEF Called, Adds, Overflows, CycleEnteredOnce
<1>. QED
  BY <1>3, <1>4, <1>5, <1>6 DEF CallsInv, InGetSpace, InDelete

------------------------------------------------------------------------------
(* The theorems. *)

\* Two instances of SpaceManager with the same state say the same.
LEMMA SameInitial ==
    ASSUME Was!Init
    PROVE  Atomic!Init
BY DEF Was!Init, Atomic!Init, Was!NoEntries, Atomic!NoEntries

\* Two instances of SpaceManager with the same state make the same steps.
LEMMA SameStep ==
    ASSUME [Was!Next]_(Was!spaceVars)
    PROVE  [Atomic!Next]_(Atomic!spaceVars)
<1>1. Was!spaceVars = Atomic!spaceVars /\ (Was!spaceVars)' = (Atomic!spaceVars)'
  BY DEF Was!spaceVars, Atomic!spaceVars
<1>2. ASSUME NEW n \in Lengths, Was!Allocate(n)
      PROVE  Atomic!Allocate(n)
  BY <1>2 DEF Was!Allocate, Atomic!Allocate, Was!AllocateAtEnd, Atomic!AllocateAtEnd,
       Was!AllocateReused, Atomic!AllocateReused, Was!IsBestFit, Atomic!IsBestFit,
       Was!BlockAt, Atomic!BlockAt, Was!Insert, Atomic!Insert, Was!Erase, Atomic!Erase,
       Was!Restrict, Atomic!Restrict
<1>3. \A entries : Was!Oversized(entries) <=> Atomic!Oversized(entries)
  BY DEF Was!Oversized, Atomic!Oversized, Was!Cardinality, Atomic!Cardinality
<1>4. ASSUME NEW b \in stable.live, Was!Release(b)
      PROVE  Atomic!Release(b)
  BY <1>3, <1>4 DEF Was!Release, Atomic!Release, Was!ReleaseFirst, Atomic!ReleaseFirst,
       Was!ReleaseLater, Atomic!ReleaseLater, Was!ReleaseOverflow, Atomic!ReleaseOverflow,
       Was!Insert, Atomic!Insert
<1>5. Was!Complete => Atomic!Complete
  BY DEF Was!Complete, Atomic!Complete
<1>6. Was!Open => Atomic!Open
  BY DEF Was!Open, Atomic!Open, Was!Loaded, Atomic!Loaded, Was!ByLength, Atomic!ByLength,
       Was!NoEntries, Atomic!NoEntries
<1>. QED
  BY <1>1, <1>2, <1>4, <1>5, <1>6 DEF Was!Next, Atomic!Next

\* CallsInv is an invariant: every call in progress has got as far as one of
\* the points of SpaceManager::GetSpace and Delete, and has done no more and
\* no less to the state before the client's call than the code up to there.
THEOREM CallsInvariance == CallsSpec => []CallsInv
<1>1. CallsInit => CallsInv
  BY CallsInitially
<1>2. CallsInv /\ [CallsNext]_callVars => CallsInv'
  BY StepOfCalls
<1>. QED
  BY <1>1, <1>2, PTL DEF CallsSpec

\* The recursion between SpaceManager and the free space index is not seen
\* from outside: between client calls the nested calls do what SpaceManager
\* says one whole call does.
THEOREM CallsAreAtomic == CallsSpec => ImplementsAtomic
<1>1. CallsInit => Atomic!Init
  BY CallsInitially, SameInitial
<1>2. CallsInv /\ [CallsNext]_callVars => [Atomic!Next]_(Atomic!spaceVars)
  BY StepOfCalls, SameStep
<1>. QED
  BY <1>1, <1>2, CallsInvariance, PTL DEF CallsSpec, ImplementsAtomic, Atomic!Spec

\* Whatever a GetSpace nested in another call may find in spaceByLength
\* shares no byte with an object, the index node or a block of an outer call.
THEOREM SearchesFindFree == CallsSpec => []SearchableIsFree
<1>1. CallsInv => SearchableIsFree
  BY NoneFound
<1>. QED
  BY <1>1, CallsInvariance, PTL

\* The cycle that the comment in SpaceManager::Delete fears is entered again
\* only when the leaf of the index has outgrown its node.
THEOREM CycleIsEnteredOnce == CallsSpec => []CycleEnteredOnce
<1>1. CallsInv => CycleEnteredOnce
  BY EnteredOnce
<1>. QED
  BY <1>1, CallsInvariance, PTL

(***************************************************************************)
(* The store.                                                              *)
(***************************************************************************)

BlockOf(id, v) == BlockAt(index[id], Length[v])
BodyAt(id, v) == [block |-> BlockOf(id, v), what |-> Body(id, v)]
RootBody == [block |-> IndexRoot, what |-> IndexNode("object")]
SpaceNode == BlockAt(spaceRoot, NodeSize)
SpaceBody == [block |-> SpaceNode, what |-> IndexNode("space")]

\* A set of bodies that lie in a file of this length and do not overlap.
Whole(S, end) ==
    /\ \A c \in S : c.block \in Block /\ c.block.off + c.block.len <= end
    /\ \A c, d \in S : c # d => Disjoint(c.block, d.block)

\* What stays of S when the block b is written.
Over(S, b, what) == {c \in S : Disjoint(c.block, b)} \cup {[block |-> b, what |-> what]}

Indexes ==
    /\ index \in [Ids -> Nat]
    /\ savedOffsets \in [Ids -> Nat]
    /\ session = "completed" => savedOffsets = index

\* Before the index has its node there is nothing in the file.
Blank == ~ Created => bodies = {} /\ handles = [id \in {} |-> NoHandle] /\ Idle

\* The object that is being written has no block of its own; its old body is
\* there until the new one is.
Placed ==
    \A id \in Ids : index[id] # 0 =>
        \E v \in Values : BodyAt(id, v) \in bodies /\ (id # pending.id => BlockOf(id, v) \in live)

Owned ==
    Created =>
        /\ IndexRoot \in live
        /\ \A b \in live :
            b = IndexRoot \/ \E id \in Ids, v \in Values :
                                /\ id # pending.id /\ index[id] # 0
                                /\ BodyAt(id, v) \in bodies /\ b = BlockOf(id, v)

Fresh ==
    \A id \in DOMAIN handles :
        /\ id \in Ids
        /\ handles[id].off = index[id]
        /\ index[id] = 0 => handles[id].len = 0
        /\ index[id] # 0 =>
            \E v \in Values : /\ BodyAt(id, v) \in bodies
                              /\ handles[id].len = Length[v] /\ handles[id].val = v

Pending ==
    ~ Idle => /\ pending.id \in DOMAIN handles
              /\ pending.val \in Values
              /\ pending.off = index[pending.id]
              /\ session = "open"

Bodies == Whole(bodies, fileEnd) /\ NodesReadable

StoreInv == /\ Indexes /\ Blank /\ Bodies /\ Placed /\ Owned /\ Fresh /\ Pending

SInv == TilingInv /\ StoreInv

------------------------------------------------------------------------------
(* Bodies. *)

\* Different things have different names.
LEMMA Names ==
    ASSUME NEW id, NEW v, NEW name
    PROVE  /\ Body(id, v) # IndexNode(name)
           /\ \A x, w : Body(id, v) = Body(x, w) => id = x /\ v = w
BY DEF Body, IndexNode

\* Nodes and objects have lengths.
LEMMA Sizes ==
    /\ NodeSize \in Nat \ {0} /\ HeaderLength \in Nat \ {0}
    /\ \A v \in Values : Length[v] \in Lengths /\ Length[v] \in Nat \ {0}
BY SpaceAssumption, StoreAssumption

\* Writing into the file, which may have grown, keeps what is elsewhere.
LEMMA Overwrite ==
    ASSUME NEW S, NEW end \in Nat, Whole(S, end),
           NEW b \in Block, NEW to \in Nat, end <= to, b.off + b.len <= to, NEW what
    PROVE  Whole(Over(S, b, what), to)
<1> DEFINE e == [block |-> b, what |-> what]
           T == Over(S, b, what)
<1>0. e.block = b
  OBVIOUS
<1>. HIDE DEF e
<1>1. \A c \in T : c = e \/ (c \in S /\ Disjoint(c.block, b))
  BY DEF Over, e
<1>2. \A c \in S : c.block.off \in Nat /\ c.block.len \in Nat
  BY DEF Whole, Block
<1>3. ASSUME NEW c \in T
      PROVE  c.block \in Block /\ c.block.off + c.block.len <= to
  BY <1>0, <1>1, <1>2 DEF Whole
<1>4. ASSUME NEW c \in T, NEW d \in T, c # d
      PROVE  Disjoint(c.block, d.block)
  BY <1>0, <1>1, <1>4 DEF Whole, Disjoint
<1>. QED
  BY <1>3, <1>4 DEF Whole

\* A block shares a byte with itself.
LEMMA NotApart ==
    ASSUME NEW b \in Block, NEW c \in Block, b.off = c.off
    PROVE  ~ Disjoint(b, c)
BY DEF Block, Disjoint

\* Which of two blocks comes first does not matter.
LEMMA DisjointBothWays ==
    ASSUME NEW b, NEW c, Disjoint(b, c)
    PROVE  Disjoint(c, b)
BY DEF Disjoint

\* An object has one body.
LEMMA OneBody ==
    ASSUME StoreInv, NEW id \in Ids, NEW v \in Values, NEW w \in Values,
           BodyAt(id, v) \in bodies, BodyAt(id, w) \in bodies
    PROVE  v = w
<1> DEFINE c == BodyAt(id, v)
           d == BodyAt(id, w)
<1>1. index[id] \in Nat /\ Length[v] \in Nat \ {0} /\ Length[w] \in Nat \ {0}
  BY Sizes DEF StoreInv, Indexes
<1>2. /\ c.block \in Block /\ c.block.off = index[id] /\ c.what = Body(id, v)
      /\ d.block \in Block /\ d.block.off = index[id] /\ d.what = Body(id, w)
  BY <1>1, BlockAtType DEF BodyAt, BlockOf
<1>3. ~ Disjoint(c.block, d.block)
  BY <1>2, NotApart
<1>4. c = d
  <2>. HIDE DEF c, d
  <2>. QED
    BY <1>3 DEF StoreInv, Bodies, Whole, c, d
<1>. QED
  BY <1>2, <1>4, Names

\* A reader of an object finds its body.
Reads ==
    \A id \in Ids :
        /\ index[id] = 0 => ReadAt(index[id], id) = None
        /\ \A v \in Values : index[id] # 0 /\ BodyAt(id, v) \in bodies
                            => ReadAt(index[id], id) = v

\* In a store that keeps the invariant, reading an object finds its body.
LEMMA ReadsBody == StoreInv => Reads
<1>. SUFFICES ASSUME StoreInv, NEW id \in Ids
              PROVE  /\ index[id] = 0 => ReadAt(index[id], id) = None
                     /\ \A v \in Values : index[id] # 0 /\ BodyAt(id, v) \in bodies
                                         => ReadAt(index[id], id) = v
  BY DEF Reads
<1>1. index[id] = 0 => ReadAt(index[id], id) = None
  BY DEF ReadAt
<1>2. ASSUME NEW v \in Values, index[id] # 0, BodyAt(id, v) \in bodies
      PROVE  ReadAt(index[id], id) = v
  <2> DEFINE found == {w \in Values : BodyAt(id, w) \in bodies}
  <2>1. found = {v}
    BY <1>2, OneBody
  <2>2. ReadAt(index[id], id) = IF index[id] = 0 THEN None
                                ELSE IF found = {} THEN Garbage ELSE CHOOSE w \in found : TRUE
    BY DEF ReadAt, BodyAt, BlockOf
  <2>. HIDE DEF found
  <2>. QED
    BY <1>2, <2>1, <2>2
<1>. QED
  BY <1>1, <1>2

\* The same after a step.
LEMMA ReadsNext == StoreInv' => Reads'
BY ReadsBody, PTL

\* The blocks in use and the node of the free space index.
LEMMA Apart ==
    ASSUME TilingInv
    PROVE  /\ fileEnd \in Nat /\ HeaderLength <= fileEnd
           /\ \A b \in live : /\ b \in Block /\ HeaderLength <= b.off
                              /\ b.off + b.len <= fileEnd
                              /\ spaceRoot # 0 => Disjoint(b, SpaceNode) /\ Disjoint(SpaceNode, b)
           /\ \A b, c \in live : b # c => Disjoint(b, c)
           /\ spaceRoot # 0 => /\ SpaceNode \in Block
                               /\ SpaceNode.off + SpaceNode.len <= fileEnd
<1>1. spaceRoot # 0 => SpaceNode \in RootBlocks
  BY DEF RootBlocks, SpaceNode
<1>2. \A b \in live : spaceRoot # 0 => b # SpaceNode
  BY <1>1 DEF TilingInv, Geometry
<1>. QED
  BY <1>1, <1>2 DEF TilingInv, Geometry, Tiled, Blocks

\* Without the node of the index the file is empty.
LEMMA Empty ==
    ASSUME TilingInv, ~ Created
    PROVE  fileEnd = HeaderLength /\ live = {} /\ spaceRoot = 0 /\ spaceByLength = {}
<1>1. fileEnd = HeaderLength /\ HeaderLength \in Nat
  BY Sizes DEF TilingInv, Geometry, Created
<1>2. ASSUME NEW b \in Blocks
      PROVE  FALSE
  BY <1>1 DEF TilingInv, Geometry, Tiled, Block
<1>3. live = {} /\ FreeBlocks = {} /\ RootBlocks = {}
  BY <1>2 DEF Blocks
<1>4. spaceRoot = 0
  BY <1>3 DEF RootBlocks
<1>5. DOMAIN spaceIndex = {}
  BY <1>3 DEF FreeBlocks, Listed
<1>6. spaceByLength = {}
  BY <1>5 DEF TilingInv, Bookkeeping, ViewsAgree, ByLength
<1>. QED
  BY <1>1, <1>3, <1>4, <1>6

\* What Delete changes of the file: nothing, or a node of the index is new.
LEMMA ReleaseFacts ==
    ASSUME TilingInv, NEW b \in live, Release(b)
    PROVE  /\ session = "open"
           /\ \/ session' = "dead" /\ UNCHANGED <<fileEnd, spaceRoot, live>>
              \/ /\ session' = "open" /\ live' = live \ {b}
                 /\ \/ spaceRoot # 0 /\ UNCHANGED <<fileEnd, spaceRoot>>
                    \/ /\ spaceRoot = 0 /\ spaceRoot' = fileEnd
                       /\ fileEnd' = fileEnd + NodeSize
BY DEF Release, ReleaseFirst, ReleaseLater, ReleaseOverflow

\* An object that is not being written has its body in a block of its own.
LEMMA LiveBody ==
    ASSUME StoreInv, NEW id \in Ids, NEW v \in Values, id # pending.id,
           index[id] # 0, BodyAt(id, v) \in bodies
    PROVE  BlockOf(id, v) \in live
BY OneBody DEF StoreInv, Placed

\* While nothing is being written, no object is excepted.
LEMMA IdleIds ==
    ASSUME NEW id \in Ids
    PROVE  /\ Idle => id # pending.id
           /\ id # NoWrite.id
BY StoreAssumption DEF Idle, NoWrite

\* What is read of an object that is there is its body.
LEMMA StoredBody ==
    ASSUME StoreInv, NEW id \in Ids
    PROVE  /\ ReadAt(index[id], id) # Garbage
           /\ ReadAt(index[id], id) \notin Values => index[id] = 0
           /\ ReadAt(index[id], id) = None => index[id] = 0
           /\ ReadAt(index[id], id) \in Values =>
                index[id] # 0 /\ BodyAt(id, ReadAt(index[id], id)) \in bodies
<1>1. Reads
  BY ReadsBody
<1>2. CASE index[id] = 0
  BY <1>1, <1>2, StoreAssumption DEF Reads
<1>3. CASE index[id] # 0
  <2>1. PICK v \in Values : BodyAt(id, v) \in bodies
    BY <1>3 DEF StoreInv, Placed
  <2>2. ReadAt(index[id], id) = v
    BY <1>1, <1>3, <2>1 DEF Reads
  <2>. QED
    BY <1>3, <2>1, <2>2, StoreAssumption
<1>. QED
  BY <1>2, <1>3

\* A loaded object that is in the file has its block in use.
LEMMA LoadedBlock ==
    ASSUME StoreInv, Idle, NEW id \in DOMAIN handles, handles[id].off # 0
    PROVE  \E v \in Values :
                /\ id \in Ids /\ index[id] # 0 /\ handles[id].off = index[id]
                /\ handles[id].len = Length[v] /\ handles[id].val = v
                /\ BodyAt(id, v) \in bodies /\ BlockOf(id, v) \in live
                /\ BlockAt(handles[id].off, handles[id].len) = BlockOf(id, v)
<1>1. /\ id \in Ids /\ index[id] # 0 /\ handles[id].off = index[id]
      /\ \E v \in Values : /\ BodyAt(id, v) \in bodies
                           /\ handles[id].len = Length[v] /\ handles[id].val = v
  BY DEF StoreInv, Fresh
<1>2. PICK v \in Values : /\ BodyAt(id, v) \in bodies
                          /\ handles[id].len = Length[v] /\ handles[id].val = v
  BY <1>1
<1>3. BlockOf(id, v) \in live
  BY <1>1, <1>2, IdleIds, LiveBody
<1>. QED
  BY <1>1, <1>2, <1>3 DEF BlockOf

\* Different objects, and the node of the index, have different blocks.
LEMMA OwnBlock ==
    ASSUME StoreInv, NEW id \in Ids, NEW v \in Values, BodyAt(id, v) \in bodies
    PROVE  /\ Created
           /\ Disjoint(BlockOf(id, v), IndexRoot) /\ BlockOf(id, v) # IndexRoot
           /\ \A x \in Ids, w \in Values :
                x # id /\ BodyAt(x, w) \in bodies =>
                    /\ Disjoint(BlockOf(x, w), BlockOf(id, v))
                    /\ BlockOf(x, w) # BlockOf(id, v)
<1>1. /\ Created /\ Whole(bodies, fileEnd) /\ RootBody \in bodies
  BY DEF StoreInv, Blank, Bodies, NodesReadable, RootBody
<1>2. /\ BodyAt(id, v).block = BlockOf(id, v) /\ BodyAt(id, v).what = Body(id, v)
      /\ RootBody.block = IndexRoot /\ RootBody.what = IndexNode("object")
  BY DEF BodyAt, RootBody
<1>3. BodyAt(id, v) # RootBody
  BY <1>2, Names
<1>4. Disjoint(BlockOf(id, v), IndexRoot) /\ IndexRoot \in Block
  BY <1>1, <1>2, <1>3 DEF Whole
<1>5. ASSUME NEW x \in Ids, NEW w \in Values, x # id, BodyAt(x, w) \in bodies
      PROVE  /\ Disjoint(BlockOf(x, w), BlockOf(id, v))
             /\ BlockOf(x, w) # BlockOf(id, v)
  <2>1. BodyAt(x, w).block = BlockOf(x, w) /\ BodyAt(x, w).what = Body(x, w)
    BY DEF BodyAt
  <2>2. BodyAt(x, w) # BodyAt(id, v)
    BY <1>2, <1>5, <2>1, Names
  <2>3. Disjoint(BlockOf(x, w), BlockOf(id, v)) /\ BlockOf(x, w) \in Block
    BY <1>1, <1>2, <1>5, <2>1, <2>2 DEF Whole
  <2>. QED
    BY <2>3, NotApart
<1>. QED
  BY <1>1, <1>4, <1>5, NotApart

------------------------------------------------------------------------------
(* The store and its allocator. *)

\* Whatever the store does with its space, it asks for lengths that objects
\* have and gives back blocks that are in use.
LEMMA StepOfSpace ==
    ASSUME StoreInv, [StoreNext]_vars
    PROVE  [Next]_spaceVars
<1>1. CASE CreateIndex
  BY <1>1, StoreAssumption DEF CreateIndex, Next
<1>2. ASSUME NEW id \in Ids, Load(id) \/ \E v \in Values : WriteInPlace(id, v) \/ WriteNew(id, v)
      PROVE  UNCHANGED spaceVars
  BY <1>2 DEF Load, WriteInPlace, WriteNew
<1>3. ASSUME NEW id \in Ids, NEW v \in Values, WriteReleases(id, v)
      PROVE  Next
  <2>1. BlockAt(handles[id].off, handles[id].len) \in live
    BY <1>3, LoadedBlock DEF WriteReleases
  <2>. QED
    BY <1>3, <2>1 DEF WriteReleases, Next
<1>4. ASSUME NEW id \in Ids, DeleteObject(id)
      PROVE  Next
  <2> DEFINE v == ReadAt(index[id], id)
  <2>1. v \in Values /\ Idle /\ Release(BlockOf(id, v))
    BY <1>4 DEF DeleteObject, BlockOf
  <2>2. BlockOf(id, v) \in live
    BY <2>1, StoredBody, LiveBody, IdleIds
  <2>. QED
    BY <2>1, <2>2 DEF Next
<1>5. CASE WriteFinish
  <2>1. Length[pending.val] \in Lengths /\ Allocate(Length[pending.val])
    BY <1>5, Sizes DEF WriteFinish, StoreInv, Pending
  <2>. QED
    BY <2>1 DEF Next
<1>6. CASE Save
  BY <1>6 DEF Save, Next
<1>7. CASE Reopen
  BY <1>7 DEF Reopen, Next
<1>8. CASE UNCHANGED vars
  BY <1>8 DEF vars
<1>. QED
  BY <1>1, <1>2, <1>3, <1>4, <1>5, <1>6, <1>7, <1>8 DEF StoreNext

------------------------------------------------------------------------------
(* The steps.  Keeps says that a step leaves an object where it is.  *)

Keeps(id) ==
    /\ index'[id] = index[id]
    /\ \A v \in Values : index[id] # 0 /\ BodyAt(id, v) \in bodies => BodyAt(id, v) \in bodies'

\* A step that changes neither the file nor the index.
LEMMA QuietStep ==
    ASSUME SInv,
           UNCHANGED <<fileEnd, spaceRoot, session, live, index, savedOffsets, bodies>>
    PROVE  /\ Indexes' /\ Bodies'
           /\ pending' = pending => Placed' /\ Owned'
           /\ Created' = Created
           /\ \A id \in Ids : Keeps(id)
BY DEF SInv, StoreInv, Indexes, Bodies, Whole, NodesReadable, Created, Placed, Owned,
       BodyAt, BlockOf, IndexRoot, Keeps

\* A new file.
LEMMA InitStep == StoreInit => StoreInv
<1>. SUFFICES ASSUME StoreInit PROVE StoreInv
  OBVIOUS
<1>1. /\ fileEnd = HeaderLength /\ live = {} /\ spaceRoot = 0 /\ session = "open"
      /\ index = [id \in Ids |-> 0] /\ savedOffsets = index /\ bodies = {}
      /\ handles = [id \in {} |-> NoHandle] /\ pending = NoWrite
  BY DEF StoreInit, Init
<1>2. ~ Created /\ Idle
  BY <1>1, Sizes DEF Created, Idle
<1>3. Indexes /\ Blank /\ Bodies
  BY <1>1, <1>2 DEF Indexes, Blank, Bodies, Whole, NodesReadable
<1>4. Placed /\ Owned /\ Fresh /\ Pending
  BY <1>1, <1>2 DEF Placed, Owned, Fresh, Pending
<1>. QED
  BY <1>3, <1>4 DEF StoreInv

\* The node of the index is the first block of the file.
LEMMA CreateStep ==
    ASSUME SInv, TilingInv', CreateIndex
    PROVE  StoreInv' /\ \A id \in Ids : Keeps(id)
<1>1. ~ Created
  BY Sizes DEF CreateIndex, Created
<1>2. /\ fileEnd = HeaderLength /\ live = {} /\ spaceRoot = 0 /\ spaceByLength = {}
      /\ bodies = {} /\ handles = [id \in {} |-> NoHandle] /\ Idle
  BY <1>1, Empty DEF SInv, StoreInv, Blank
<1>3. \A id \in Ids : index[id] = 0
  BY <1>2 DEF SInv, StoreInv, Placed
<1>4. AllocateAtEnd(NodeSize)
  BY <1>2 DEF CreateIndex, Allocate
<1>5. /\ live' = {IndexRoot} /\ fileEnd' = HeaderLength + NodeSize
      /\ spaceRoot' = 0 /\ session' = session /\ session = "open"
      /\ bodies' = {RootBody}
      /\ UNCHANGED <<index, savedOffsets, handles, pending>>
  BY <1>2, <1>4 DEF CreateIndex, AllocateAtEnd, IndexRoot, RootBody
<1>6. IndexRoot \in Block /\ IndexRoot.off + IndexRoot.len <= fileEnd' /\ Created'
  BY <1>5, Sizes, BlockAtType DEF IndexRoot, Created
<1>7. Indexes' /\ Blank'
  BY <1>5, <1>6 DEF SInv, StoreInv, Indexes, Blank
<1>8. Bodies'
  BY <1>5, <1>6 DEF Bodies, Whole, NodesReadable, RootBody, IndexRoot
<1>9. Placed' /\ Owned' /\ (\A id \in Ids : Keeps(id))
  BY <1>2, <1>3, <1>5 DEF Placed, Owned, Keeps, IndexRoot
<1>10. Fresh' /\ Pending'
  BY <1>2, <1>5 DEF Fresh, Pending, Idle
<1>. QED
  BY <1>7, <1>8, <1>9, <1>10 DEF StoreInv

\* What is loaded is what is there.
LEMMA LoadStep ==
    ASSUME SInv, NEW id \in Ids, Load(id)
    PROVE  StoreInv' /\ \A x \in Ids : Keeps(x)
<1> DEFINE v == ReadAt(index[id], id)
           h == IF v = None THEN [NoHandle EXCEPT !.val = None]
                ELSE [off |-> index[id], len |-> Length[v], val |-> v]
<1>1. /\ Indexes' /\ Bodies' /\ Placed' /\ Owned' /\ (\A x \in Ids : Keeps(x))
      /\ Created /\ Created' /\ Idle /\ Idle'
      /\ UNCHANGED <<index, bodies, pending>>
  BY QuietStep DEF Load, spaceVars, Idle
<1>2. /\ DOMAIN handles' = DOMAIN handles \cup {id} /\ id \notin DOMAIN handles
      /\ handles'[id] = h
      /\ \A x \in DOMAIN handles : handles'[x] = handles[x]
  BY DEF Load
<1>3. /\ v # Garbage
      /\ v \in Values => index[id] # 0 /\ BodyAt(id, v) \in bodies
      /\ v \notin Values => index[id] = 0 /\ v = None
  <2>1. StoreInv
    BY DEF SInv
  <2>2. v \notin Values => index[id] = 0
    BY <2>1, StoredBody
  <2>3. index[id] = 0 => v = None
    BY DEF ReadAt
  <2>. QED
    BY <2>1, <2>2, <2>3, StoredBody
<1>4. /\ h.off = index[id]
      /\ index[id] = 0 => h.len = 0
      /\ index[id] # 0 => v \in Values /\ h.len = Length[v] /\ h.val = v
  <2>1. CASE v \in Values
    BY <1>3, <2>1, StoreAssumption
  <2>2. CASE v \notin Values
    BY <1>3, <2>2 DEF NoHandle
  <2>. QED
    BY <2>1, <2>2
<1>. HIDE DEF v, h
<1>5. Fresh'
  <2>1. \A x \in DOMAIN handles : x \in Ids
    BY DEF SInv, StoreInv, Fresh
  <2>. QED
    BY <1>1, <1>2, <1>3, <1>4, <2>1 DEF SInv, StoreInv, Fresh, BodyAt, BlockOf
<1>. QED
  BY <1>1, <1>5 DEF StoreInv, Blank, Pending

\* The first half of writing a new object only remembers it.
LEMMA NewStep ==
    ASSUME SInv, NEW id \in Ids, NEW v \in Values, WriteNew(id, v)
    PROVE  StoreInv' /\ \A x \in Ids : Keeps(x)
<1>1. /\ UNCHANGED <<fileEnd, spaceRoot, session, live, index, savedOffsets, bodies, handles>>
      /\ session = "open" /\ id \in DOMAIN handles /\ handles[id].off = 0 /\ Idle
      /\ pending' = [id |-> id, val |-> v, off |-> 0]
  BY DEF WriteNew, spaceVars
<1>2. /\ Indexes' /\ Bodies' /\ Created' = Created /\ (\A x \in Ids : Keeps(x))
  BY <1>1, QuietStep
<1>3. index[id] = 0
  BY <1>1 DEF SInv, StoreInv, Fresh
<1>4. Created
  BY <1>1 DEF SInv, StoreInv, Blank
<1>5. /\ pending'.id = id /\ pending'.val = v /\ pending'.off = 0
      /\ \A x \in Ids : x # pending.id
  BY <1>1, IdleIds
<1>6. Placed' /\ Owned'
  BY <1>1, <1>2, <1>3, <1>5 DEF SInv, StoreInv, Placed, Owned, BodyAt, BlockOf, IndexRoot
<1>7. Fresh' /\ Pending' /\ Blank'
  BY <1>1, <1>2, <1>3, <1>4, <1>5 DEF SInv, StoreInv, Fresh, Pending, Blank, BodyAt, BlockOf
<1>. QED
  BY <1>2, <1>6, <1>7 DEF StoreInv

\* Writing an object in place touches nothing but its body.
LEMMA InPlaceStep ==
    ASSUME SInv, NEW id \in Ids, NEW v \in Values, WriteInPlace(id, v)
    PROVE  /\ StoreInv'
           /\ \A x \in Ids \ {id} : Keeps(x)
           /\ index'[id] # 0 /\ BodyAt(id, v)' \in bodies'
<1> DEFINE b == BlockOf(id, v)
<1>1. /\ session = "open" /\ Idle /\ id \in DOMAIN handles /\ handles[id].len = Length[v]
      /\ index' = [index EXCEPT ![id] = handles[id].off]
      /\ UNCHANGED <<fileEnd, spaceRoot, session, live, savedOffsets, pending>>
      /\ handles' = Restrict(handles, DOMAIN handles \ {id})
  BY DEF WriteInPlace, spaceVars, Unload
<1>2. handles[id].off # 0
  BY <1>1, Sizes DEF SInv, StoreInv, Fresh
<1>3. PICK w \in Values :
          /\ index[id] # 0 /\ handles[id].off = index[id]
          /\ handles[id].len = Length[w] /\ handles[id].val = w
          /\ BodyAt(id, w) \in bodies /\ BlockOf(id, w) \in live
  BY <1>1, <1>2, LoadedBlock DEF SInv
<1>4. /\ index' = index /\ index[id] # 0
      /\ BlockOf(id, w) = b /\ b \in live /\ b = BlockAt(handles[id].off, Length[v])
  BY <1>1, <1>3 DEF SInv, StoreInv, Indexes, BlockOf
<1>5. bodies' = IF w = v THEN bodies ELSE Over(bodies, b, Body(id, v))
  BY <1>3, <1>4 DEF WriteInPlace, Written, Over
<1>6. /\ fileEnd \in Nat /\ b \in Block /\ b.off + b.len <= fileEnd
      /\ Whole(bodies, fileEnd)
  BY <1>4, Apart DEF SInv, StoreInv, Bodies
<1>7. Whole(bodies', fileEnd)
  <2>1. CASE w = v
    BY <1>5, <1>6, <2>1
  <2>2. CASE w # v
    <3>. HIDE DEF b
    <3>1. Whole(Over(bodies, b, Body(id, v)), fileEnd)
      BY <1>6, Overwrite
    <3>. QED
      BY <1>5, <2>2, <3>1
  <2>. QED
    BY <2>1, <2>2
<1>8. ASSUME NEW c \in bodies, c # BodyAt(id, w)
      PROVE  c \in bodies'
  <2>1. BodyAt(id, w).block = b
    BY <1>4 DEF BodyAt
  <2>2. Disjoint(c.block, b)
    BY <1>3, <1>6, <1>8, <2>1 DEF Whole
  <2>. QED
    BY <1>5, <2>2 DEF Over
<1>9. BodyAt(id, v) \in bodies'
  BY <1>3, <1>5 DEF Over, BodyAt
<1>. HIDE DEF b
<1>10. Created' = Created /\ Created
  BY <1>1, <1>3, OwnBlock DEF Created, SInv
<1>11. /\ Created => RootBody \in bodies'
       /\ spaceRoot # 0 => SpaceBody \in bodies'
  <2>1. /\ Created => RootBody \in bodies
        /\ spaceRoot # 0 => SpaceBody \in bodies
    BY DEF SInv, StoreInv, Bodies, NodesReadable, RootBody, SpaceBody, SpaceNode
  <2>2. RootBody # BodyAt(id, w) /\ SpaceBody # BodyAt(id, w)
    <3>1. /\ RootBody.what = IndexNode("object") /\ SpaceBody.what = IndexNode("space")
          /\ BodyAt(id, w).what = Body(id, w)
      BY DEF RootBody, SpaceBody, BodyAt
    <3>. QED
      BY <3>1, Names
  <2>. QED
    BY <1>8, <2>1, <2>2
<1>12. Bodies'
  BY <1>1, <1>7, <1>10, <1>11
     DEF Bodies, NodesReadable, RootBody, SpaceBody, SpaceNode, IndexRoot, Created
<1>13. ASSUME NEW x \in Ids \ {id}, NEW y \in Values, BodyAt(x, y) \in bodies
       PROVE  BodyAt(x, y) \in bodies'
  <2>1. BodyAt(x, y).what = Body(x, y) /\ BodyAt(id, w).what = Body(id, w)
    BY DEF BodyAt
  <2>. QED
    BY <1>8, <1>13, <2>1, Names
<1>14. Placed'
  <2>1. ASSUME NEW x \in Ids, index[x] # 0
        PROVE  \E y \in Values :
                  BodyAt(x, y) \in bodies' /\ (x # pending.id => BlockOf(x, y) \in live)
    <3>1. CASE x = id
      BY <1>4, <1>9, <3>1 DEF BodyAt, BlockOf, b
    <3>2. CASE x # id
      BY <1>13, <2>1, <3>2 DEF SInv, StoreInv, Placed
    <3>. QED
      BY <3>1, <3>2
  <2>. QED
    BY <1>1, <1>4, <2>1 DEF Placed, BodyAt, BlockOf
<1>15. Owned'
  <2>1. IndexRoot' \in live'
    BY <1>1, <1>10 DEF SInv, StoreInv, Owned, IndexRoot
  <2>2. ASSUME NEW e \in live', e # IndexRoot
        PROVE  \E x \in Ids, y \in Values :
                  /\ x # pending'.id /\ index'[x] # 0
                  /\ BodyAt(x, y)' \in bodies' /\ e = BlockOf(x, y)'
    <3>1. PICK x \in Ids, y \in Values :
              /\ x # pending.id /\ index[x] # 0
              /\ BodyAt(x, y) \in bodies /\ e = BlockOf(x, y)
      BY <1>1, <1>10, <2>2 DEF SInv, StoreInv, Owned
    <3>2. CASE x = id
      <4>1. y = w
        BY <1>3, <3>1, <3>2, OneBody DEF SInv
      <4>. QED
        BY <1>1, <1>3, <1>4, <1>9, <3>1, <3>2, <4>1 DEF BodyAt, BlockOf, b
    <3>3. CASE x # id
      BY <1>1, <1>4, <1>13, <3>1, <3>3 DEF BodyAt, BlockOf
    <3>. QED
      BY <3>2, <3>3
  <2>. QED
    BY <2>1, <2>2 DEF Owned, IndexRoot
<1>16. Fresh'
  <2>1. /\ DOMAIN handles' = DOMAIN handles \ {id}
        /\ \A x \in DOMAIN handles' : handles'[x] = handles[x]
    BY <1>1 DEF Restrict
  <2>. QED
    BY <1>4, <1>13, <2>1 DEF SInv, StoreInv, Fresh, BodyAt, BlockOf
<1>17. Indexes' /\ Blank' /\ Pending'
  BY <1>1, <1>4, <1>10 DEF SInv, StoreInv, Indexes, Blank, Pending, Idle
<1>18. \A x \in Ids \ {id} : Keeps(x)
  BY <1>4, <1>13 DEF Keeps
<1>. QED
  BY <1>4, <1>9, <1>12, <1>14, <1>15, <1>16, <1>17, <1>18 DEF StoreInv, BodyAt, BlockOf

\* Giving a block back may write the node of the free space index at the end
\* of the file, where it overwrites nothing.
LEMMA NodeWritten ==
    ASSUME SInv, Created, NEW b \in live, Release(b),
           bodies' = IF spaceRoot' = spaceRoot THEN bodies
                     ELSE Written(BlockAt(spaceRoot', NodeSize), IndexNode("space"))
    PROVE  bodies \subseteq bodies' /\ Bodies' /\ Created'
<1>1. /\ fileEnd \in Nat /\ HeaderLength <= fileEnd /\ NodeSize \in Nat \ {0}
      /\ HeaderLength \in Nat \ {0} /\ Whole(bodies, fileEnd)
      /\ RootBody \in bodies /\ (spaceRoot # 0 => SpaceBody \in bodies)
  BY Apart, Sizes DEF SInv, StoreInv, Bodies, NodesReadable, RootBody, SpaceBody, SpaceNode
<1>2. CASE UNCHANGED <<fileEnd, spaceRoot>>
  BY <1>1, <1>2 DEF Bodies, NodesReadable, RootBody, SpaceBody, SpaceNode, IndexRoot, Created
<1>3. CASE spaceRoot = 0 /\ spaceRoot' = fileEnd /\ fileEnd' = fileEnd + NodeSize
  <2> DEFINE n == BlockAt(fileEnd, NodeSize)
  <2>1. n \in Block /\ n.off = fileEnd /\ n.len = NodeSize
    BY <1>1, BlockAtType
  <2>2. bodies' = Over(bodies, n, IndexNode("space"))
    BY <1>1, <1>3 DEF Written, Over
  <2>3. [block |-> n, what |-> IndexNode("space")] \in bodies'
    BY <2>2 DEF Over
  <2>. HIDE DEF n
  <2>4. Whole(bodies', fileEnd')
    BY <1>1, <1>3, <2>1, <2>2, Overwrite
  <2>5. \A c \in bodies : Disjoint(c.block, n)
    BY <1>1, <2>1 DEF Whole, Disjoint
  <2>6. bodies \subseteq bodies'
    BY <2>2, <2>5 DEF Over
  <2>7. Created'
    BY <1>1, <1>3 DEF Created
  <2>. QED
    BY <1>1, <1>3, <2>3, <2>4, <2>6, <2>7
       DEF Bodies, NodesReadable, RootBody, IndexRoot, n
<1>. QED
  BY <1>2, <1>3, ReleaseFacts DEF SInv

\* The first half of a write: the object has its old body until the second.
LEMMA ReleasesStep ==
    ASSUME SInv, NEW id \in Ids, NEW v \in Values, WriteReleases(id, v)
    PROVE  StoreInv' /\ \A x \in Ids : Keeps(x)
<1>1. /\ Idle /\ id \in DOMAIN handles /\ handles[id].off # 0
      /\ pending' = IF session' = "dead" THEN NoWrite
                    ELSE [id |-> id, val |-> v, off |-> handles[id].off]
      /\ bodies' = IF spaceRoot' = spaceRoot THEN bodies
                   ELSE Written(BlockAt(spaceRoot', NodeSize), IndexNode("space"))
      /\ UNCHANGED <<index, savedOffsets, handles>>
  BY DEF WriteReleases
<1>2. PICK w \in Values :
          /\ index[id] # 0 /\ handles[id].off = index[id]
          /\ BodyAt(id, w) \in bodies /\ BlockOf(id, w) \in live
          /\ BlockAt(handles[id].off, handles[id].len) = BlockOf(id, w)
  BY <1>1, LoadedBlock DEF SInv
<1>3. Release(BlockOf(id, w))
  BY <1>2 DEF WriteReleases
<1>4. /\ Created /\ BlockOf(id, w) # IndexRoot
      /\ \A x \in Ids, y \in Values :
            x # id /\ BodyAt(x, y) \in bodies => BlockOf(x, y) # BlockOf(id, w)
  BY <1>2, OwnBlock DEF SInv
<1>5. bodies \subseteq bodies' /\ Bodies' /\ Created'
  BY <1>1, <1>2, <1>3, <1>4, NodeWritten
<1>6. \A x \in Ids : Keeps(x)
  BY <1>1, <1>5 DEF Keeps
<1>7. Fresh'
  BY <1>1, <1>5 DEF SInv, StoreInv, Fresh, BodyAt, BlockOf
<1>8. \A x \in Ids : x # pending.id
  BY <1>1, IdleIds
<1>9. CASE session' = "dead" /\ live' = live
  <2>1. pending' = pending
    BY <1>1, <1>9 DEF Idle
  <2>2. Placed' /\ Owned'
    BY <1>1, <1>4, <1>5, <1>9, <2>1
       DEF SInv, StoreInv, Placed, Owned, BodyAt, BlockOf, IndexRoot
  <2>3. Indexes' /\ Blank' /\ Pending'
    BY <1>1, <1>5, <1>9, <2>1 DEF SInv, StoreInv, Indexes, Blank, Pending, Idle
  <2>. QED
    BY <1>5, <1>6, <1>7, <2>2, <2>3 DEF StoreInv
<1>10. CASE session' = "open" /\ live' = live \ {BlockOf(id, w)}
  <2>1. pending'.id = id /\ pending'.val = v /\ pending'.off = index[id]
    BY <1>1, <1>2, <1>10
  <2>2. Placed'
    BY <1>1, <1>4, <1>5, <1>8, <1>10, <2>1 DEF SInv, StoreInv, Placed, BodyAt, BlockOf
  <2>3. IndexRoot' \in live'
    BY <1>4, <1>10 DEF SInv, StoreInv, Owned, IndexRoot
  <2>4. ASSUME NEW e \in live', e # IndexRoot
        PROVE  \E x \in Ids, y \in Values :
                  /\ x # pending'.id /\ index'[x] # 0
                  /\ BodyAt(x, y)' \in bodies' /\ e = BlockOf(x, y)'
    <3>1. e \in live /\ e # BlockOf(id, w)
      BY <1>10, <2>4
    <3>2. PICK x \in Ids, y \in Values :
              index[x] # 0 /\ BodyAt(x, y) \in bodies /\ e = BlockOf(x, y)
      BY <1>4, <2>4, <3>1 DEF SInv, StoreInv, Owned
    <3>3. x # id
      BY <1>2, <3>1, <3>2, OneBody DEF SInv
    <3>. QED
      BY <1>1, <1>5, <2>1, <3>2, <3>3 DEF BodyAt, BlockOf
  <2>5. Owned'
    BY <2>3, <2>4 DEF Owned, IndexRoot
  <2>6. Indexes' /\ Blank' /\ Pending'
    BY <1>1, <1>5, <1>10, <2>1 DEF SInv, StoreInv, Indexes, Blank, Pending
  <2>. QED
    BY <1>5, <1>6, <1>7, <2>2, <2>5, <2>6 DEF StoreInv
<1>. QED
  BY <1>2, <1>3, <1>9, <1>10, ReleaseFacts DEF SInv

\* The second half: the new block is nobody else's, so that only the body of
\* the object itself can be lost.
LEMMA FinishStep ==
    ASSUME SInv, WriteFinish, NEW id \in Ids, NEW v \in Values,
           id = pending.id, v = pending.val
    PROVE  /\ StoreInv'
           /\ \A x \in Ids \ {id} : Keeps(x)
           /\ index'[id] # 0 /\ BodyAt(id, v)' \in bodies'
<1>1. /\ ~ Idle /\ id \in DOMAIN handles
      /\ pending.off = index[id] /\ Created /\ session = "open"
  BY DEF WriteFinish, SInv, StoreInv, Pending, Blank
<1>2. PICK e \in Block :
          /\ e.len = Length[v] /\ HeaderLength <= e.off /\ e.off + e.len <= fileEnd'
          /\ e \notin live /\ live' = live \cup {e}
          /\ \A c \in live \cup RootBlocks : Disjoint(e, c)
  BY <1>1, Sizes, AllocateIsFresh DEF WriteFinish, SInv
<1>3. /\ fileEnd \in Nat /\ fileEnd' \in Nat /\ fileEnd <= fileEnd' /\ HeaderLength \in Nat \ {0}
      /\ session' = "open" /\ spaceRoot' = spaceRoot /\ HeaderLength <= fileEnd
  BY <1>1, Sizes, Apart, AllocateIsFresh DEF WriteFinish, SInv
<1>4. /\ bodies' = Over(bodies, e, Body(id, v))
      /\ index' = [index EXCEPT ![id] = e.off]
      /\ handles' = Restrict(handles, DOMAIN handles \ {id})
      /\ pending' = NoWrite /\ savedOffsets' = savedOffsets
  <2>1. live' \ live = {e}
    BY <1>2
  <2>. QED
    BY <1>1, <2>1 DEF WriteFinish, Written, Over, Unload
<1>5. /\ e.off \in Nat /\ e.off # 0 /\ e = BlockAt(e.off, Length[v])
      /\ index'[id] = e.off /\ \A x \in Ids \ {id} : index'[x] = index[x]
      /\ index' \in [Ids -> Nat]
  BY <1>2, <1>3, <1>4 DEF Block, BlockAt, SInv, StoreInv, Indexes
<1>6. BodyAt(id, v)' \in bodies' /\ BlockOf(id, v)' = e
  BY <1>4, <1>5 DEF BodyAt, BlockOf, Over
<1>7. Whole(bodies', fileEnd')
  BY <1>2, <1>3, <1>4, Overwrite DEF SInv, StoreInv, Bodies
<1>8. ASSUME NEW c \in bodies, Disjoint(e, c.block)
      PROVE  c \in bodies'
  BY <1>4, <1>8, DisjointBothWays DEF Over
<1>9. /\ IndexRoot \in live /\ Created'
      /\ RootBody \in bodies' /\ (spaceRoot # 0 => SpaceBody \in bodies')
  <2>1. /\ IndexRoot \in live /\ Created'
        /\ RootBody \in bodies /\ (spaceRoot # 0 => SpaceBody \in bodies)
    BY <1>1, <1>3 DEF SInv, StoreInv, Owned, Bodies, NodesReadable, RootBody, SpaceBody,
                      SpaceNode, Created
  <2>2. RootBody.block = IndexRoot /\ SpaceBody.block = SpaceNode
    BY DEF RootBody, SpaceBody
  <2>3. spaceRoot # 0 => SpaceNode \in RootBlocks
    BY DEF RootBlocks, SpaceNode
  <2>. QED
    BY <1>2, <1>8, <2>1, <2>2, <2>3
<1>10. Bodies'
  BY <1>3, <1>7, <1>9 DEF Bodies, NodesReadable, RootBody, SpaceBody, SpaceNode, IndexRoot
<1>11. ASSUME NEW x \in Ids \ {id}, NEW y \in Values, index[x] # 0, BodyAt(x, y) \in bodies
       PROVE  BodyAt(x, y) \in bodies' /\ BlockOf(x, y) \in live
  <2>1. BlockOf(x, y) \in live
    BY <1>11, LiveBody DEF SInv
  <2>2. BodyAt(x, y).block = BlockOf(x, y)
    BY DEF BodyAt
  <2>. QED
    BY <1>2, <1>8, <1>11, <2>1, <2>2
<1>12. Placed'
  <2>1. ASSUME NEW x \in Ids, index'[x] # 0
        PROVE  \E y \in Values :
                  /\ BodyAt(x, y)' \in bodies'
                  /\ BlockOf(x, y)' \in live'
    <3>1. CASE x = id
      BY <1>2, <1>6, <3>1
    <3>2. CASE x # id
      <4>1. PICK y \in Values : BodyAt(x, y) \in bodies
        BY <1>5, <2>1, <3>2 DEF SInv, StoreInv, Placed
      <4>2. BodyAt(x, y) \in bodies' /\ BlockOf(x, y) \in live
        BY <1>5, <1>11, <2>1, <3>2, <4>1
      <4>. QED
        BY <1>2, <1>5, <3>2, <4>2 DEF BodyAt, BlockOf
    <3>. QED
      BY <3>1, <3>2
  <2>. QED
    BY <2>1 DEF Placed
<1>13. \A x \in Ids : x # pending'.id
  BY <1>4, IdleIds
<1>14. Owned'
  <2>1. ASSUME NEW d \in live', d # IndexRoot
        PROVE  \E x \in Ids, y \in Values :
                  /\ x # pending'.id /\ index'[x] # 0
                  /\ BodyAt(x, y)' \in bodies' /\ d = BlockOf(x, y)'
    <3>1. CASE d = e
      BY <1>5, <1>6, <1>13, <3>1
    <3>2. CASE d # e
      <4>1. PICK x \in Ids, y \in Values :
                /\ x # pending.id /\ index[x] # 0
                /\ BodyAt(x, y) \in bodies /\ d = BlockOf(x, y)
        BY <1>1, <1>2, <2>1, <3>2 DEF SInv, StoreInv, Owned
      <4>2. BodyAt(x, y) \in bodies'
        BY <1>11, <4>1
      <4>. QED
        BY <1>5, <1>13, <4>1, <4>2 DEF BodyAt, BlockOf
    <3>. QED
      BY <3>1, <3>2
  <2>. QED
    BY <1>2, <1>9, <2>1 DEF Owned, IndexRoot
<1>15. Fresh'
  <2>1. /\ DOMAIN handles' = DOMAIN handles \ {id}
        /\ \A x \in DOMAIN handles' : handles'[x] = handles[x]
    BY <1>4 DEF Restrict
  <2>. QED
    BY <1>5, <1>11, <2>1 DEF SInv, StoreInv, Fresh, BodyAt, BlockOf
<1>16. Indexes' /\ Blank' /\ Pending'
  BY <1>3, <1>4, <1>5, <1>9 DEF SInv, StoreInv, Indexes, Blank, Pending, Idle
<1>17. \A x \in Ids \ {id} : Keeps(x)
  BY <1>5, <1>11 DEF Keeps
<1>. QED
  BY <1>5, <1>6, <1>10, <1>12, <1>14, <1>15, <1>16, <1>17 DEF StoreInv

\* A deleted object takes its block with it, and nobody else's.
LEMMA DeleteStep ==
    ASSUME SInv, NEW id \in Ids, DeleteObject(id)
    PROVE  /\ StoreInv'
           /\ \A x \in Ids \ {id} : Keeps(x)
           /\ Keeps(id) \/ index'[id] = 0
<1> DEFINE v == ReadAt(index[id], id)
<1>1. /\ Idle /\ id \notin DOMAIN handles /\ v \in Values
      /\ Release(BlockAt(index[id], Length[v]))
      /\ index' = IF session' = "dead" THEN index ELSE [index EXCEPT ![id] = 0]
      /\ bodies' = IF spaceRoot' = spaceRoot THEN bodies
                   ELSE Written(BlockAt(spaceRoot', NodeSize), IndexNode("space"))
      /\ UNCHANGED <<savedOffsets, handles, pending>>
  BY DEF DeleteObject
<1>2. index[id] # 0 /\ BodyAt(id, v) \in bodies
  BY <1>1, StoredBody DEF SInv
<1>. HIDE DEF v
<1>3. BlockOf(id, v) \in live /\ Release(BlockOf(id, v)) /\ id # pending.id
  BY <1>1, <1>2, IdleIds, LiveBody DEF SInv, BlockOf
<1>4. /\ Created /\ BlockOf(id, v) # IndexRoot
      /\ \A x \in Ids, y \in Values :
            x # id /\ BodyAt(x, y) \in bodies => BlockOf(x, y) # BlockOf(id, v)
  BY <1>1, <1>2, OwnBlock DEF SInv
<1>5. bodies \subseteq bodies' /\ Bodies' /\ Created'
  BY <1>1, <1>3, <1>4, NodeWritten
<1>6. CASE session' = "dead" /\ live' = live
  <2>1. index' = index
    BY <1>1, <1>6
  <2>2. Placed' /\ Owned' /\ Fresh'
    BY <1>1, <1>4, <1>5, <1>6, <2>1
       DEF SInv, StoreInv, Placed, Owned, Fresh, BodyAt, BlockOf, IndexRoot
  <2>3. Indexes' /\ Blank' /\ Pending'
    BY <1>1, <1>5, <1>6, <2>1 DEF SInv, StoreInv, Indexes, Blank, Pending, Idle
  <2>4. \A x \in Ids : Keeps(x)
    BY <1>5, <2>1 DEF Keeps
  <2>. QED
    BY <1>5, <2>2, <2>3, <2>4 DEF StoreInv
<1>7. CASE session' = "open" /\ live' = live \ {BlockOf(id, v)}
  <2>1. /\ index' \in [Ids -> Nat] /\ index'[id] = 0
        /\ \A x \in Ids \ {id} : index'[x] = index[x]
    BY <1>1, <1>7 DEF SInv, StoreInv, Indexes
  <2>2. Placed'
    <3>1. ASSUME NEW x \in Ids, index'[x] # 0
          PROVE  \E y \in Values :
                    /\ BodyAt(x, y)' \in bodies'
                    /\ BlockOf(x, y)' \in live'
      <4>1. x # id /\ index'[x] = index[x]
        BY <2>1, <3>1
      <4>2. PICK y \in Values : BodyAt(x, y) \in bodies /\ BlockOf(x, y) \in live
        BY <1>1, <3>1, <4>1, IdleIds DEF SInv, StoreInv, Placed
      <4>3. BodyAt(x, y) \in bodies' /\ BlockOf(x, y) \in live'
        BY <1>4, <1>5, <1>7, <4>1, <4>2
      <4>. QED
        BY <4>1, <4>3 DEF BodyAt, BlockOf
    <3>. QED
      BY <3>1 DEF Placed
  <2>3. Owned'
    <3>1. ASSUME NEW e \in live', e # IndexRoot
          PROVE  \E x \in Ids, y \in Values :
                    /\ x # pending'.id /\ index'[x] # 0
                    /\ BodyAt(x, y)' \in bodies' /\ e = BlockOf(x, y)'
      <4>1. e \in live /\ e # BlockOf(id, v)
        BY <1>7, <3>1
      <4>2. PICK x \in Ids, y \in Values :
                /\ x # pending.id /\ index[x] # 0
                /\ BodyAt(x, y) \in bodies /\ e = BlockOf(x, y)
        BY <1>4, <3>1, <4>1 DEF SInv, StoreInv, Owned
      <4>3. x # id
        BY <1>1, <1>2, <4>1, <4>2, OneBody DEF SInv
      <4>. QED
        BY <1>1, <1>5, <2>1, <4>2, <4>3 DEF BodyAt, BlockOf
    <3>2. IndexRoot' \in live'
      BY <1>4, <1>7 DEF SInv, StoreInv, Owned, IndexRoot
    <3>. QED
      BY <3>1, <3>2 DEF Owned, IndexRoot
  <2>4. Fresh'
    <3>1. ASSUME NEW x \in DOMAIN handles'
          PROVE  /\ x \in Ids \ {id} /\ index'[x] = index[x] /\ handles'[x] = handles[x]
                 /\ x \in DOMAIN handles
      BY <1>1, <2>1, <3>1 DEF SInv, StoreInv, Fresh
    <3>. QED
      BY <1>5, <3>1 DEF SInv, StoreInv, Fresh, BodyAt, BlockOf
  <2>5. Indexes' /\ Blank' /\ Pending'
    BY <1>1, <1>5, <1>7, <2>1 DEF SInv, StoreInv, Indexes, Blank, Pending, Idle
  <2>6. \A x \in Ids \ {id} : Keeps(x)
    BY <1>5, <2>1 DEF Keeps
  <2>. QED
    BY <1>5, <2>1, <2>2, <2>3, <2>4, <2>5, <2>6 DEF StoreInv
<1>. QED
  BY <1>3, <1>6, <1>7, ReleaseFacts DEF SInv

\* Writing both nodes at the end of a session destroys no body: nothing that
\* is in use overlaps them.
LEMMA SaveStep ==
    ASSUME SInv, Save
    PROVE  StoreInv' /\ \A x \in Ids : Keeps(x)
<1> DEFINE S == IF modified THEN Over(bodies, SpaceNode, IndexNode("space")) ELSE bodies
<1>1. /\ Idle /\ Created /\ session = "open" /\ session' = "completed"
      /\ UNCHANGED <<fileEnd, spaceRoot, live, index, pending>>
      /\ savedOffsets' = index /\ handles' = [id \in {} |-> NoHandle]
  BY DEF Save, Complete
<1>2. bodies' = Over(S, IndexRoot, IndexNode("object"))
  BY DEF Save, Written, Over, SpaceNode
<1>3. /\ fileEnd \in Nat /\ Whole(bodies, fileEnd)
      /\ RootBody \in bodies /\ (spaceRoot # 0 => SpaceBody \in bodies)
      /\ IndexRoot \in live /\ IndexRoot \in Block /\ IndexRoot.off + IndexRoot.len <= fileEnd
      /\ modified => spaceRoot # 0
  BY <1>1, Apart DEF SInv, StoreInv, Bodies, NodesReadable, Owned, RootBody, SpaceBody, SpaceNode,
                     TilingInv, Bookkeeping, SavedOnComplete
<1>4. Whole(S, fileEnd)
  BY <1>3, Overwrite, Apart DEF SInv
<1>5. Whole(bodies', fileEnd)
  <2>. HIDE DEF S
  <2>. QED
    BY <1>2, <1>3, <1>4, Overwrite
<1>6. ASSUME NEW c \in bodies, Disjoint(c.block, IndexRoot),
             spaceRoot # 0 => Disjoint(c.block, SpaceNode) \/ c = SpaceBody
      PROVE  c \in bodies'
  <2>1. c \in S
    BY <1>3, <1>6 DEF Over, SpaceBody
  <2>. HIDE DEF S
  <2>. QED
    BY <1>2, <1>6, <2>1 DEF Over
<1>7. RootBody \in bodies'
  BY <1>2 DEF Over, RootBody
<1>8. spaceRoot # 0 => SpaceBody \in bodies'
  <2>1. SpaceBody.block = SpaceNode
    BY DEF SpaceBody
  <2>2. spaceRoot # 0 => Disjoint(SpaceNode, IndexRoot)
    BY <1>3, Apart DEF SInv
  <2>. QED
    BY <1>3, <1>6, <2>1, <2>2
<1>9. ASSUME NEW x \in Ids, NEW y \in Values, index[x] # 0, BodyAt(x, y) \in bodies
      PROVE  BodyAt(x, y) \in bodies'
  <2>1. BlockOf(x, y) \in live
    BY <1>1, <1>9, LiveBody, IdleIds DEF SInv
  <2>2. BodyAt(x, y).block = BlockOf(x, y)
    BY DEF BodyAt
  <2>3. Disjoint(BlockOf(x, y), IndexRoot)
    BY <1>9, OwnBlock DEF SInv
  <2>4. spaceRoot # 0 => Disjoint(BlockOf(x, y), SpaceNode)
    BY <2>1, Apart DEF SInv
  <2>. QED
    BY <1>6, <1>9, <2>2, <2>3, <2>4
<1>. HIDE DEF S
<1>10. Bodies' /\ Created'
  BY <1>1, <1>5, <1>7, <1>8
     DEF Bodies, NodesReadable, RootBody, SpaceBody, SpaceNode, IndexRoot, Created
<1>11. Placed'
  BY <1>1, <1>9 DEF SInv, StoreInv, Placed, BodyAt, BlockOf
<1>12. Owned'
  BY <1>1, <1>9 DEF SInv, StoreInv, Owned, BodyAt, BlockOf, IndexRoot
<1>13. Fresh'
  BY <1>1 DEF Fresh
<1>14. Indexes' /\ Blank' /\ Pending'
  BY <1>1, <1>10 DEF SInv, StoreInv, Indexes, Blank, Pending, Idle
<1>15. \A x \in Ids : Keeps(x)
  BY <1>1, <1>9 DEF Keeps
<1>. QED
  BY <1>10, <1>11, <1>12, <1>13, <1>14, <1>15 DEF StoreInv

\* What is loaded is what was saved.
LEMMA ReopenStep ==
    ASSUME SInv, Reopen
    PROVE  StoreInv' /\ \A x \in Ids : Keeps(x)
<1>1. /\ index' = index /\ session' = "open" /\ session = "completed"
      /\ UNCHANGED <<fileEnd, spaceRoot, live, savedOffsets, bodies, handles, pending>>
  BY DEF Reopen, Open, SInv, StoreInv, Indexes
<1>2. Created' = Created /\ Idle' = Idle
  BY <1>1 DEF Created, Idle
<1>3. Indexes' /\ Blank' /\ Pending'
  BY <1>1, <1>2 DEF SInv, StoreInv, Indexes, Blank, Pending
<1>4. Bodies' /\ Placed' /\ Owned' /\ Fresh'
  BY <1>1, <1>2 DEF SInv, StoreInv, Bodies, NodesReadable, IndexRoot, Placed, Owned, Fresh,
                    BodyAt, BlockOf
<1>5. \A x \in Ids : Keeps(x)
  BY <1>1 DEF Keeps
<1>. QED
  BY <1>3, <1>4, <1>5 DEF StoreInv

\* Steps of others.
LEMMA StutterStep ==
    ASSUME SInv, UNCHANGED vars
    PROVE  StoreInv' /\ \A x \in Ids : Keeps(x)
<1>1. UNCHANGED <<fileEnd, spaceRoot, session, live, index, savedOffsets, bodies, handles, pending>>
  BY DEF vars, spaceVars, storeVars
<1>2. /\ Indexes' /\ Bodies' /\ Placed' /\ Owned' /\ Created' = Created
      /\ \A x \in Ids : Keeps(x)
  BY <1>1, QuietStep
<1>3. Blank' /\ Fresh' /\ Pending'
  BY <1>1, <1>2 DEF SInv, StoreInv, Blank, Fresh, Pending, Idle, BodyAt, BlockOf
<1>. QED
  BY <1>2, <1>3 DEF StoreInv

\* What a step may do to the contents: nothing, or write or delete one object.
Changes ==
    \/ \A x \in Ids : Keeps(x)
    \/ \E id \in Ids :
        /\ \A x \in Ids \ {id} : Keeps(x)
        /\ \/ index'[id] = 0
           \/ \E v \in Values : index'[id] # 0 /\ BodyAt(id, v)' \in bodies'

\* Every step keeps the invariant and changes at most one object.
LEMMA StoreSteps ==
    ASSUME SInv, TilingInv', [StoreNext]_vars
    PROVE  StoreInv' /\ Changes
<1>1. CASE CreateIndex
  BY <1>1, CreateStep DEF Changes
<1>2. ASSUME NEW id \in Ids, Load(id)
      PROVE  StoreInv' /\ Changes
  BY <1>2, LoadStep DEF Changes
<1>3. ASSUME NEW id \in Ids, NEW v \in Values, WriteInPlace(id, v)
      PROVE  StoreInv' /\ Changes
  BY <1>3, InPlaceStep DEF Changes
<1>4. ASSUME NEW id \in Ids, NEW v \in Values, WriteReleases(id, v)
      PROVE  StoreInv' /\ Changes
  BY <1>4, ReleasesStep DEF Changes
<1>5. ASSUME NEW id \in Ids, NEW v \in Values, WriteNew(id, v)
      PROVE  StoreInv' /\ Changes
  BY <1>5, NewStep DEF Changes
<1>6. ASSUME NEW id \in Ids, DeleteObject(id)
      PROVE  StoreInv' /\ Changes
  <2>1. /\ StoreInv' /\ (\A x \in Ids \ {id} : Keeps(x))
        /\ Keeps(id) \/ index'[id] = 0
    BY <1>6, DeleteStep
  <2>. QED
    BY <2>1 DEF Changes
<1>7. CASE WriteFinish
  <2>1. pending.id \in Ids /\ pending.val \in Values
    BY <1>7 DEF WriteFinish, SInv, StoreInv, Pending, Fresh
  <2>2. PICK id \in Ids, v \in Values : id = pending.id /\ v = pending.val
    BY <2>1
  <2>. QED
    BY <1>7, <2>2, FinishStep DEF Changes
<1>8. CASE Save
  BY <1>8, SaveStep DEF Changes
<1>9. CASE Reopen
  BY <1>9, ReopenStep DEF Changes
<1>10. CASE UNCHANGED vars
  BY <1>10, StutterStep DEF Changes
<1>. QED
  BY <1>1, <1>2, <1>3, <1>4, <1>5, <1>6, <1>7, <1>8, <1>9, <1>10 DEF StoreNext

\* Keeping its body keeps the contents of an object.
LEMMA ContentsOf ==
    ASSUME StoreInv, StoreInv', NEW id \in Ids
    PROVE  /\ Keeps(id) => Contents'[id] = Contents[id]
           /\ index'[id] = 0 => Contents'[id] = None
           /\ \A v \in Values : index'[id] # 0 /\ BodyAt(id, v)' \in bodies'
                                => Contents'[id] = v
<1>1. Reads /\ Reads'
  BY ReadsBody, ReadsNext
<1>2. Contents[id] = ReadAt(index[id], id) /\ Contents'[id] = ReadAt(index[id], id)'
  BY DEF Contents
<1>3. index'[id] = 0 => Contents'[id] = None
  BY <1>1, <1>2 DEF Reads
<1>4. \A v \in Values : index'[id] # 0 /\ BodyAt(id, v)' \in bodies' => Contents'[id] = v
  BY <1>1, <1>2 DEF Reads
<1>5. ASSUME Keeps(id)
      PROVE  Contents'[id] = Contents[id]
  <2>1. CASE index[id] = 0
    BY <1>1, <1>2, <1>3, <1>5, <2>1 DEF Keeps, Reads
  <2>2. CASE index[id] # 0
    <3>1. PICK v \in Values : BodyAt(id, v) \in bodies
      BY <2>2 DEF StoreInv, Placed
    <3>2. BodyAt(id, v)' \in bodies' /\ index'[id] # 0
      BY <1>5, <2>2, <3>1 DEF Keeps, BodyAt, BlockOf
    <3>. QED
      BY <1>1, <1>2, <1>4, <2>2, <3>1, <3>2 DEF Reads
  <2>. QED
    BY <2>1, <2>2
<1>. QED
  BY <1>3, <1>4, <1>5

\* Each step writes one object, deletes one, or is no step of the store.
LEMMA StepOfStore ==
    ASSUME StoreInv, StoreInv', Changes
    PROVE  [Store!Next]_Contents
<1>1. /\ Contents = [x \in Ids |-> Contents[x]]
      /\ Contents' = [x \in Ids |-> Contents'[x]]
  BY DEF Contents
<1>2. CASE \A x \in Ids : Keeps(x)
  <2>1. \A x \in Ids : Contents'[x] = Contents[x]
    BY <1>2, ContentsOf
  <2>. QED
    BY <1>1, <2>1
<1>3. ASSUME NEW id \in Ids, \A x \in Ids \ {id} : Keeps(x), index'[id] = 0
      PROVE  Store!Next
  <2>1. /\ Contents'[id] = None
        /\ \A x \in Ids \ {id} : Contents'[x] = Contents[x]
    BY <1>3, ContentsOf
  <2>2. Store!Remove(id)
    BY <1>1, <2>1 DEF Store!Remove
  <2>. QED
    BY <2>2 DEF Store!Next
<1>4. ASSUME NEW id \in Ids, \A x \in Ids \ {id} : Keeps(x),
             NEW v \in Values, index'[id] # 0, BodyAt(id, v)' \in bodies'
      PROVE  Store!Next
  <2>1. /\ Contents'[id] = v
        /\ \A x \in Ids \ {id} : Contents'[x] = Contents[x]
    BY <1>4, ContentsOf
  <2>2. Store!Put(id, v)
    BY <1>1, <2>1 DEF Store!Put
  <2>. QED
    BY <2>2 DEF Store!Next
<1>. QED
  BY <1>2, <1>3, <1>4 DEF Changes

------------------------------------------------------------------------------
(* The results. *)

\* Every step keeps the invariant; the part about the allocator follows from
\* its own proof.
LEMMA StoreNextKeeps ==
    ASSUME SInv, [StoreNext]_vars
    PROVE  SInv' /\ Changes
<1>1. [Next]_spaceVars
  BY StepOfSpace DEF SInv
<1>2. TilingInv'
  BY <1>1, NextTiling DEF SInv
<1>. QED
  BY <1>2, StoreSteps DEF SInv

\* The invariant holds for a new file.
LEMMA StoreBegins == StoreInit => SInv
BY InitStep, InitTiling DEF StoreInit, SInv

\* Whatever is written, moved, deleted and reopened, bodies stay whole and
\* apart, in blocks that the allocator counts as used.
THEOREM StoreInvariance == StoreSpec => []SInv
BY StoreBegins, StoreNextKeeps, PTL DEF StoreSpec

\* The store uses the allocator as it is meant to be used.
THEOREM UsesSpaceManager == StoreSpec => Spec
<1>1. StoreInit => Init
  BY DEF StoreInit
<1>2. SInv /\ [StoreNext]_vars => [Next]_spaceVars
  BY StepOfSpace DEF SInv
<1>. QED
  BY <1>1, <1>2, StoreInvariance, PTL DEF StoreSpec, Spec

\* A reader sees a plain store: only a write and a deletion of an object
\* change what is read of it, and only of it; relocation, the reuse of freed
\* space and the end of a session do not.
THEOREM StoreIsPlain == StoreSpec => ImplementsObjectStore
<1>1. StoreInit => Store!Init
  BY DEF StoreInit, Store!Init, Contents, ReadAt
<1>2. SInv /\ [StoreNext]_vars => [Store!Next]_Contents
  BY StoreNextKeeps, StepOfStore DEF SInv
<1>. QED
  BY <1>1, <1>2, StoreInvariance, PTL DEF StoreSpec, ImplementsObjectStore, Store!Spec

\* The index and its node own exactly the blocks in use: no block is leaked
\* by a relocation, and none is given back that an object still has.
THEOREM IndexOwns == StoreSpec => []IndexOwnsLiveBlocks
<1>1. SInv => IndexOwnsLiveBlocks
  <2>. SUFFICES ASSUME SInv, session # "dead", Created
                PROVE  live = {IndexRoot} \cup
                              {BlockAt(index[id], Length[ReadAt(index[id], id)]) :
                                 id \in {x \in Ids : index[x] # 0 /\ x # pending.id}}
    BY DEF IndexOwnsLiveBlocks, SInv, StoreInv, Bodies
  <2>1. \A id \in Ids, v \in Values : index[id] # 0 /\ BodyAt(id, v) \in bodies =>
            BlockAt(index[id], Length[ReadAt(index[id], id)]) = BlockOf(id, v)
    BY ReadsBody DEF SInv, Reads, BlockOf
  <2>2. ASSUME NEW b \in live, b # IndexRoot
        PROVE  \E id \in {x \in Ids : index[x] # 0 /\ x # pending.id} :
                  b = BlockAt(index[id], Length[ReadAt(index[id], id)])
    BY <2>1, <2>2 DEF SInv, StoreInv, Owned
  <2>3. ASSUME NEW id \in {x \in Ids : index[x] # 0 /\ x # pending.id}
        PROVE  BlockAt(index[id], Length[ReadAt(index[id], id)]) \in live
    BY <2>1 DEF SInv, StoreInv, Placed
  <2>4. IndexRoot \in live
    BY DEF SInv, StoreInv, Owned
  <2>. QED
    BY <2>2, <2>3, <2>4
<1>. QED
  BY <1>1, StoreInvariance, PTL

\* What a loaded object remembers of its place and contents stays true while
\* others are written.
THEOREM HandlesStayFresh == StoreSpec => []HandlesFresh
<1>1. SInv => HandlesFresh
  <2>. SUFFICES ASSUME SInv, NEW id \in DOMAIN handles
                PROVE  /\ handles[id].off = index[id]
                       /\ index[id] # 0 => handles[id].val = ReadAt(index[id], id)
    BY DEF HandlesFresh
  <2>. QED
    BY ReadsBody DEF SInv, StoreInv, Fresh, Reads
<1>. QED
  BY <1>1, StoreInvariance, PTL

\* Every variable of the store keeps its type; no offset points past the end
\* of the file.
THEOREM StoreTypeCorrect == StoreSpec => []StoreTypeOK
<1>1. SInv => StoreTypeOK
  <2>. SUFFICES ASSUME SInv PROVE StoreTypeOK
    OBVIOUS
  <2>1. TypeOK /\ fileEnd \in Nat /\ HeaderLength <= fileEnd /\ HeaderLength \in Nat \ {0}
    BY Apart, Sizes DEF SInv, TilingInv, Bookkeeping
  <2>2. ASSUME NEW id \in Ids
        PROVE  index[id] \in 0 .. fileEnd - 1
    <3>1. CASE index[id] = 0
      BY <2>1, <3>1
    <3>2. CASE index[id] # 0
      <4>1. PICK v \in Values : BodyAt(id, v) \in bodies
        BY <3>2 DEF SInv, StoreInv, Placed
      <4>2. index[id] \in Nat /\ Length[v] \in Nat \ {0}
        BY Sizes DEF SInv, StoreInv, Indexes
      <4>3. index[id] + Length[v] <= fileEnd
        <5>1. /\ BodyAt(id, v).block = BlockOf(id, v)
              /\ BlockOf(id, v).off = index[id] /\ BlockOf(id, v).len = Length[v]
          BY DEF BodyAt, BlockOf, BlockAt
        <5>. QED
          BY <4>1, <5>1 DEF SInv, StoreInv, Bodies, Whole
      <4>. QED
        BY <2>1, <4>2, <4>3
    <3>. QED
      BY <3>1, <3>2
  <2>3. index \in [Ids -> 0 .. fileEnd - 1] /\ savedOffsets \in [Ids -> Nat]
    BY <2>2 DEF SInv, StoreInv, Indexes
  <2>4. \A c \in bodies : c.block \in Block
    BY DEF SInv, StoreInv, Bodies, Whole
  <2>5. ASSUME NEW id \in DOMAIN handles
        PROVE  id \in Ids /\ handles[id].off \in Nat /\ handles[id].len \in Nat
    BY Sizes DEF SInv, StoreInv, Fresh, Indexes
  <2>6. pending.off \in Nat
    <3>1. CASE Idle
      BY <3>1 DEF Idle, NoWrite
    <3>2. CASE ~ Idle
      BY <2>5, <3>2 DEF SInv, StoreInv, Pending, Indexes
    <3>. QED
      BY <3>1, <3>2
  <2>. QED
    BY <2>1, <2>3, <2>4, <2>5, <2>6 DEF StoreTypeOK
<1>. QED
  BY <1>1, StoreInvariance, PTL
==============================================================================
