-------------------------- MODULE SpaceManagerCalls --------------------------
(***************************************************************************)
(* The calls inside one operation of SpaceManager.  SpaceManager keeps its *)
(* free blocks in an Index, and that Index asks SpaceManager for the room  *)
(* of its own node: Delete calls Index::Add, AfterAdd may call GetSpace or *)
(* Delete, GetSpace may call Delete.  Here a step is the code between two  *)
(* such calls and the call stack is explicit.                              *)
(*                                                                         *)
(* The operations as a whole are those of SpaceManager: see                *)
(* ImplementsAtomic.                                                       *)
(***************************************************************************)
EXTENDS SpaceManager, Sequences

CONSTANT StackLimit     \* bound: calls that fit on the machine stack

ASSUME StackAssumption == StackLimit \in Nat /\ StackLimit > 2

VARIABLES
    stack,          \* frames of GetSpace and Delete, innermost first
    stable          \* the state of SpaceManager between two client calls

callVars == <<spaceVars, stack, stable>>

\* A frame: which function, the block (its offset is unknown until GetSpace
\* has found one) and the point it has reached: "start", "found", "added",
\* "saving", "saved" or "splitting".
GetFrame(n) == [call |-> "GetSpace", off |-> 0, len |-> n, at |-> "start"]
FoundFrame(n, o) == [call |-> "GetSpace", off |-> o, len |-> n, at |-> "found"]
DeleteFrame(o, l) == [call |-> "Delete", off |-> o, len |-> l, at |-> "start"]

InCall(f, point) ==
    /\ stack # <<>>
    /\ Head(stack).call = f
    /\ Head(stack).at = point

\* The innermost frame goes on at another point, calls a function, or returns.
Continue(point) == stack' = <<[Head(stack) EXCEPT !.at = point]>> \o Tail(stack)
Call(point, frame) ==
    stack' = <<frame, [Head(stack) EXCEPT !.at = point]>> \o Tail(stack)
Return == stack' = Tail(stack)

Snapshot == [fileEnd |-> fileEnd, spaceRoot |-> spaceRoot, spaceIndex |-> spaceIndex,
             spaceByLength |-> spaceByLength, modified |-> modified,
             savedIndex |-> savedIndex, session |-> session, live |-> live]

\* Between client calls the snapshot follows the state.
Settle == stable' = IF stack' = <<>> THEN Snapshot' ELSE stable

CallsInit == Init /\ stack = <<>> /\ stable = Snapshot

------------------------------------------------------------------------------
CallGetSpace(n) ==
    /\ session = "open" /\ stack = <<>>
    /\ stack' = <<GetFrame(n)>>
    /\ UNCHANGED <<spaceVars, stable>>

CallDelete(b) ==
    /\ session = "open" /\ stack = <<>>
    /\ stack' = <<DeleteFrame(b.off, b.len)>>
    /\ live' = live \ {b}
    /\ UNCHANGED <<fileEnd, spaceRoot, spaceIndex, spaceByLength, modified,
                   savedIndex, session, stable>>

\* GetSpace takes a free block out of both views and calls Delete on the rest.
GetSpaceFound(p) ==
    LET n == Head(stack).len
        top == FoundFrame(n, p[2])
    IN  /\ InCall("GetSpace", "start")
        /\ IsBestFit(p, n)
        /\ spaceByLength' = spaceByLength \ {p}
        /\ spaceIndex' = Erase(spaceIndex, p[2])
        /\ modified' = TRUE
        /\ stack' = (IF p[1] = n THEN <<top>>
                     ELSE <<DeleteFrame(p[2] + n, p[1] - n), top>>) \o Tail(stack)
        /\ UNCHANGED <<fileEnd, spaceRoot, savedIndex, session, live, stable>>

\* GetSpace finds nothing and takes the end of the file.
GetSpaceAtEnd ==
    /\ InCall("GetSpace", "start")
    /\ \A q \in spaceByLength : q[1] < Head(stack).len
    /\ fileEnd + Head(stack).len <= MaxFileEnd
    /\ fileEnd' = fileEnd + Head(stack).len
    /\ stack' = <<FoundFrame(Head(stack).len, fileEnd)>> \o Tail(stack)
    /\ UNCHANGED <<spaceRoot, spaceIndex, spaceByLength, modified, savedIndex,
                   session, live, stable>>

\* GetSpace returns: to a client, or to Index::AfterAdd, which then writes the
\* root node where it was told to and records the place in the file header.
GetSpaceReturn ==
    LET frame == Head(stack)
    IN  /\ InCall("GetSpace", "found")
        /\ IF Tail(stack) = <<>>
             THEN /\ Return
                  /\ live' = live \cup {BlockAt(frame.off, frame.len)}
                  /\ UNCHANGED <<spaceRoot, savedIndex, modified>>
             ELSE /\ stack' = <<[stack[2] EXCEPT !.at = "saved"]>> \o Tail(Tail(stack))
                  /\ spaceRoot' = frame.off
                  /\ savedIndex' = spaceIndex
                  /\ modified' = FALSE
                  /\ UNCHANGED live
        /\ UNCHANGED <<fileEnd, spaceIndex, spaceByLength, session>>
        /\ Settle

\* Mutant: Delete adds the block to the inverted view first.
DeleteAddEarly ==
    /\ InCall("Delete", "start")
    /\ spaceIndex' = Insert(spaceIndex, Head(stack).off, Head(stack).len)
    /\ spaceByLength' = spaceByLength \cup {<<Head(stack).len, Head(stack).off>>}
    /\ modified' = TRUE
    /\ Continue("added")
    /\ UNCHANGED <<fileEnd, spaceRoot, savedIndex, session, live, stable>>

\* Delete first adds the block to the index.
DeleteAdd ==
    /\ InCall("Delete", "start")
    /\ spaceIndex' = Insert(spaceIndex, Head(stack).off, Head(stack).len)
    /\ modified' = TRUE
    /\ Continue("added")
    /\ UNCHANGED <<fileEnd, spaceRoot, spaceByLength, savedIndex, session, live, stable>>

\* Mutant: the nested call takes the place of the outer one, as a loop would.
AfterAddOversizedLoops ==
    /\ InCall("Delete", "added")
    /\ Oversized(spaceIndex)
    /\ stack' = <<DeleteFrame(spaceRoot, NodeSize)>> \o Tail(stack)
    /\ UNCHANGED <<spaceVars, stable>>

\* AfterAdd frees the root before it splits it.  That call of Delete adds its
\* entry to the root, which is oversized as before, so it never returns to
\* the split: the stack overflows and the program dies.
AfterAddOversized ==
    /\ InCall("Delete", "added")
    /\ Oversized(spaceIndex)
    /\ IF Len(stack) < StackLimit
         THEN Call("splitting", DeleteFrame(spaceRoot, NodeSize)) /\ UNCHANGED <<session, stable>>
         ELSE stack' = <<>> /\ session' = "dead" /\ stable' = [stable EXCEPT !.session = "dead"]
    /\ UNCHANGED <<fileEnd, spaceRoot, spaceIndex, spaceByLength, modified,
                   savedIndex, live>>

\* Mutant: the root is placed again on every call.
AfterAddSaveRootAgain ==
    /\ InCall("Delete", "added")
    /\ ~ Oversized(spaceIndex)
    /\ Call("saving", GetFrame(NodeSize))
    /\ UNCHANGED <<spaceVars, stable>>

\* AfterAdd needs room for a root that has never been saved.
AfterAddSaveRoot ==
    /\ InCall("Delete", "added")
    /\ ~ Oversized(spaceIndex)
    /\ spaceRoot = 0
    /\ Call("saving", GetFrame(NodeSize))
    /\ UNCHANGED <<spaceVars, stable>>

\* Mutant: the pair in the inverted view is the wrong way round.
DeleteInsertSwapped ==
    /\ InCall("Delete", "saved") \/ (InCall("Delete", "added") /\ ~ Oversized(spaceIndex) /\ spaceRoot # 0)
    /\ spaceByLength' = spaceByLength \cup {<<Head(stack).off, Head(stack).len>>}
    /\ Return
    /\ UNCHANGED <<fileEnd, spaceRoot, spaceIndex, modified, savedIndex, session, live>>
    /\ Settle

\* Delete adds the block to the inverted view last, and returns.
DeleteInsert ==
    /\ InCall("Delete", "saved") \/ (InCall("Delete", "added") /\ ~ Oversized(spaceIndex) /\ spaceRoot # 0)
    /\ spaceByLength' = spaceByLength \cup {<<Head(stack).len, Head(stack).off>>}
    /\ Return
    /\ UNCHANGED <<fileEnd, spaceRoot, spaceIndex, modified, savedIndex, session, live>>
    /\ Settle

SessionStep == stack = <<>> /\ (Complete \/ Open) /\ UNCHANGED stack /\ Settle

\* The program's own steps between the moment a client calls and its return.
Inside ==
    \/ \E p \in spaceByLength : GetSpaceFound(p)
    \/ GetSpaceAtEnd
    \/ GetSpaceReturn
    \/ DeleteAdd
    \/ AfterAddOversized
    \/ AfterAddSaveRoot
    \/ DeleteInsert

CallsNext ==
    \/ \E n \in Lengths : CallGetSpace(n)
    \/ \E b \in live : CallDelete(b)
    \/ Inside
    \/ SessionStep

\* A call that has begun runs on: nothing else happens in the process.
CallsSpec == CallsInit /\ [][CallsNext]_callVars /\ WF_callVars(Inside)

------------------------------------------------------------------------------
\* The blocks that calls in progress are responsible for.
InFlight ==
    {BlockAt(stack[i].off, stack[i].len) :
        i \in {j \in DOMAIN stack : stack[j].call = "GetSpace" => stack[j].at = "found"}}

\* A nested GetSpace searches spaceByLength while an outer call is half done.
\* Whatever it may find there is free: no object, no block of an outer call
\* and not the index node shares a byte with it.
SearchableIsFree ==
    \A p \in spaceByLength :
        \A b \in live \cup RootBlocks \cup InFlight : Disjoint(BlockAt(p[2], p[1]), b)

\* The comment in SpaceManager::Delete fears the cycle between the index and
\* the allocator; unless a node is oversized it is never entered twice.
CycleEnteredOnce == Len(stack) > 2 => Oversized(spaceIndex)

\* GetSpace waits for room that only the bound MaxFileEnd denies it.
AtFileBound ==
    /\ InCall("GetSpace", "start")
    /\ \A q \in spaceByLength : q[1] < Head(stack).len
    /\ fileEnd + Head(stack).len > MaxFileEnd

\* The recursion of GetSpace, Delete and AfterAdd has no explicit measure:
\* still every call a client begins comes to its end, by its return or, in
\* the one case named above, by the end of the stack.
CallsReturn == stack # <<>> ~> stack = <<>> \/ AtFileBound

\* Seen between client calls, the nested calls do what SpaceManager says.
Atomic == INSTANCE SpaceManager WITH
    fileEnd <- stable.fileEnd, spaceRoot <- stable.spaceRoot,
    spaceIndex <- stable.spaceIndex, spaceByLength <- stable.spaceByLength,
    modified <- stable.modified, savedIndex <- stable.savedIndex,
    session <- stable.session, live <- stable.live
ImplementsAtomic == Atomic!Spec

\* IndexNode.h: "Nodes larger than this are Split() in two."
OversizedIsSplit == Oversized(spaceIndex) ~> ~ Oversized(spaceIndex)
==============================================================================
