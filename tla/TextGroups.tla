------------------------------ MODULE TextGroups ------------------------------
(***************************************************************************)
(* TextGroupsManager and TextGroup: texts of revisions, compressed in      *)
(* groups.  One group is being filled and one is being emptied, both in    *)
(* memory; a group reaches the file when it is full, when another one is   *)
(* emptied, and at the end of the session.  A revision's record in the     *)
(* file holds the id of the group and the place of the text in it.         *)
(***************************************************************************)
EXTENDS Integers, Sequences, FiniteSetsExt, SequencesExt

CONSTANTS
    Revisions, Texts,
    Empty, Deleted,     \* the empty text; deletedTextMark
    GroupSize,          \* 0x100
    MaxGroup,           \* bound: ids of groups
    MaxTrailing,        \* bound: empty texts that loading adds to a group
    ReplaceAnywhere     \* may a revision get another text when its group is
                        \* not the one that is being emptied?

ASSUME TextsAssumption ==
    /\ GroupSize \in Nat \ {0}
    /\ MaxGroup \in Nat /\ MaxTrailing \in Nat
    /\ Empty \notin Texts /\ Deleted \notin Texts /\ Empty # Deleted
    /\ ReplaceAnywhere \in BOOLEAN

VARIABLES
    groups,         \* the groups in the file: id -> texts
    adding,         \* currentGroup, NoGroup for nullptr
    emptying,       \* currentDeletedGroup
    location,       \* what a revision's record in the file says: [group, text]
    wanted,         \* the text each revision was written with
    fresh,          \* revisions whose text was added in this session
    hidden,         \* locations of texts whose revision no longer has a text
    session         \* "open", "completed" or "failed" (an exception)

vars == <<groups, adding, emptying, location, wanted, fresh, hidden, session>>

NoGroup == [id |-> 0, texts |-> <<>>]

Extend(f, x, y) == [z \in DOMAIN f \cup {x} |-> IF z = x THEN y ELSE f[z]]

\* getNewId: one more than the largest id in the index.
NewId(g) == IF DOMAIN g = {} THEN 1 ELSE Max(DOMAIN g) + 1

\* TextGroup::Read.  EnsureCompressed ends each text with a null byte; split
\* adds another one to a string that ends with one, and so finds an empty
\* text after the last.
LoadGroup(id) ==
    IF id \in DOMAIN groups THEN [id |-> id, texts |-> Append(groups[id], Empty)]
    ELSE [id |-> id, texts |-> <<>>]

\* Mutant: one deleted text makes a group empty.
IsEmptyAny(group) == \E i \in DOMAIN group.texts : group.texts[i] = Deleted

IsEmpty(group) == \A i \in DOMAIN group.texts : group.texts[i] = Deleted

\* Mutant: a group takes one text too many.
IsFullLate(group) == Len(group.texts) > GroupSize

IsFull(group) == Len(group.texts) = GroupSize

\* DumpObject::Write of a group.
Stored(g, group) == IF group = NoGroup THEN g ELSE Extend(g, group.id, group.texts)

Init ==
    /\ groups = [id \in {} |-> <<>>]
    /\ adding = NoGroup
    /\ emptying = NoGroup
    /\ location = [r \in {} |-> <<0, 0>>]
    /\ wanted = [r \in {} |-> Empty]
    /\ fresh = {}
    /\ hidden = {}
    /\ session = "open"

------------------------------------------------------------------------------
\* AddTextToGroup, and WriteTextGroupIfFull once the revision is written; g
\* are the groups in the file at that time.
Added(t, g) ==
    LET open   == IF adding = NoGroup THEN [NoGroup EXCEPT !.id = NewId(g)] ELSE adding
        filled == [open EXCEPT !.texts = Append(@, t)]
    IN  [groups |-> IF IsFull(filled) THEN Stored(g, filled) ELSE g,
         adding |-> IF IsFull(filled) THEN NoGroup ELSE filled,
         loc    |-> <<open.id, Len(filled.texts)>>]

\* DeleteTextFromGroup: the group that is being emptied is kept in memory as
\* long as texts of the same group are deleted.  A place that the group does
\* not have ends the program.
Emptied(loc) ==
    LET switch == emptying.id # loc[1]
        group  == IF switch THEN LoadGroup(loc[1]) ELSE emptying
        after  == [group EXCEPT !.texts[loc[2]] = Deleted]
        file   == IF switch THEN Stored(groups, emptying) ELSE groups
    IN  IF loc[2] \notin DOMAIN group.texts
          THEN [fails |-> TRUE, groups |-> groups, emptying |-> emptying]
        ELSE IF IsEmpty(after)
          THEN [fails |-> FALSE, groups |-> Restrict(file, DOMAIN file \ {loc[1]}),
                emptying |-> NoGroup]
        ELSE [fails |-> FALSE, groups |-> file, emptying |-> after]

Drop(f, r) == Restrict(f, DOMAIN f \ {r})

\* DumpRevision::Write of a revision that is new or had no text.
WriteNew(r, t) ==
    LET a == Added(t, groups)
    IN  /\ session = "open"
        /\ r \notin DOMAIN location
        /\ a.loc[1] <= MaxGroup
        /\ groups' = a.groups
        /\ adding' = a.adding
        /\ location' = Extend(location, r, a.loc)
        /\ wanted' = Extend(wanted, r, t)
        /\ fresh' = fresh \cup {r}
        /\ UNCHANGED <<emptying, hidden, session>>

\* Mutant: also a revision that was added in this session.
DeleteRevisionFresh(r) ==
    LET e == Emptied(location[r])
    IN  /\ session = "open"
        /\ r \in DOMAIN location
        /\ groups' = e.groups
        /\ emptying' = e.emptying
        /\ session' = IF e.fails THEN "failed" ELSE session
        /\ location' = Drop(location, r)
        /\ wanted' = Drop(wanted, r)
        /\ UNCHANGED <<adding, fresh, hidden>>

\* Dump::DeleteRevision.  DumpWriter does not delete what it added in the same
\* session: see newRevisionIds in DumpUpdate.
DeleteRevision(r) ==
    LET e == Emptied(location[r])
    IN  /\ session = "open"
        /\ r \in DOMAIN location \ fresh
        /\ groups' = e.groups
        /\ emptying' = e.emptying
        /\ session' = IF e.fails THEN "failed" ELSE session
        /\ location' = Drop(location, r)
        /\ wanted' = Drop(wanted, r)
        /\ UNCHANGED <<adding, fresh, hidden>>

\* DumpRevision::Write of a revision whose text has been hidden on the wiki
\* (RevisionFlags::TextDeleted): its text stays in the group.
HideText(r) ==
    /\ session = "open"
    /\ r \in DOMAIN location \ fresh
    /\ hidden' = hidden \cup {location[r]}
    /\ location' = Drop(location, r)
    /\ wanted' = Drop(wanted, r)
    /\ UNCHANGED <<groups, adding, emptying, fresh, session>>

\* DumpRevision::Write of a revision with another Sha1, in place: its length
\* is the same.  WriteInternal deletes the old text after it has written the
\* first part of the record; if that loads another group, the stream is left
\* behind that group, the new location is written there (what it overwrites
\* is not followed here) and the record keeps the location it had.
ReplaceText(r, t) ==
    LET e     == Emptied(location[r])
        a     == Added(t, e.groups)
        moved == emptying.id # location[r][1]
    IN  /\ session = "open"
        /\ r \in DOMAIN location \ fresh
        /\ ReplaceAnywhere \/ ~ moved
        /\ t # wanted[r]
        /\ a.loc[1] <= MaxGroup
        /\ groups' = a.groups
        /\ adding' = a.adding
        /\ emptying' = e.emptying
        /\ session' = IF e.fails THEN "failed" ELSE session
        /\ location' = IF moved THEN location ELSE Extend(location, r, a.loc)
        /\ wanted' = Extend(wanted, r, t)
        /\ fresh' = fresh \cup {r}
        /\ UNCHANGED hidden

\* Mutant: the group that is being emptied is not written.
CompleteForgetsEmptying ==
    /\ session = "open"
    /\ groups' = Stored(groups, adding)
    /\ adding' = NoGroup
    /\ emptying' = NoGroup
    /\ session' = "completed"
    /\ UNCHANGED <<location, wanted, fresh, hidden>>

\* TextGroupsManager::Complete: EndGroup and EndDeletedGroup.
Complete ==
    /\ session = "open"
    /\ groups' = Stored(Stored(groups, adding), emptying)
    /\ adding' = NoGroup
    /\ emptying' = NoGroup
    /\ session' = "completed"
    /\ UNCHANGED <<location, wanted, fresh, hidden>>

\* Dump::init.
Open ==
    /\ session = "completed"
    /\ \A id \in DOMAIN groups : Len(groups[id]) < GroupSize + MaxTrailing
    /\ fresh' = {}
    /\ session' = "open"
    /\ UNCHANGED <<groups, adding, emptying, location, wanted, hidden>>

Next ==
    \/ \E r \in Revisions :
        \/ \E t \in Texts : WriteNew(r, t) \/ ReplaceText(r, t)
        \/ DeleteRevision(r)
        \/ HideText(r)
    \/ Complete
    \/ Open

Spec == Init /\ [][Next]_vars

------------------------------------------------------------------------------
\* TextGroup::GetText of what a reader finds, in the group that is being
\* filled or in the file.
TextAt(loc) ==
    LET group == IF adding.id = loc[1] THEN adding ELSE LoadGroup(loc[1])
    IN  IF loc[2] \in DOMAIN group.texts THEN group.texts[loc[2]] ELSE Deleted

IsGroup(group) ==
    /\ group.id \in Nat
    /\ \A i \in DOMAIN group.texts : group.texts[i] \in Texts \cup {Empty, Deleted}

\* A group never has more texts than a text id can name, but for the empty
\* ones that loading adds.
TypeOK ==
    /\ IsGroup(adding) /\ IsGroup(emptying)
    /\ Len(adding.texts) < GroupSize
    /\ \A id \in DOMAIN groups : IsGroup([id |-> id, texts |-> groups[id]])
    /\ DOMAIN location \subseteq Revisions /\ DOMAIN wanted = DOMAIN location
    /\ \A r \in DOMAIN location : location[r] \in (1 .. MaxGroup) \X (1 .. GroupSize)
    /\ fresh \subseteq Revisions
    /\ session \in {"open", "completed", "failed"}

\* A revision's text is the one it was written with, while texts around it are
\* deleted, groups are filled, written, loaded and written again, and ids of
\* groups are handed out before the group is in the index.
TextsReadable == \A r \in DOMAIN location : TextAt(location[r]) = wanted[r]

\* No two revisions share a text: deleting the text of one spares the other.
LocationsUnique ==
    /\ \A r, s \in DOMAIN location : r # s => location[r] # location[s]
    /\ \A r \in DOMAIN location : location[r] \notin hidden

\* Deletions are batched, but none is forgotten: in the file every text is
\* that of a revision, or of one whose text was hidden.
DeletionsReachFile ==
    session = "completed" =>
        \A id \in DOMAIN groups : \A i \in DOMAIN groups[id] :
            groups[id][i] \in Texts =>
                <<id, i>> \in hidden \cup {location[r] : r \in DOMAIN location}

\* A text belongs to one revision for as long as the file has it.
TextsOwnedOnce == LocationsUnique /\ DeletionsReachFile

\* A text that is deleted is where its revision says.
NeverFails == session # "failed"
==============================================================================
