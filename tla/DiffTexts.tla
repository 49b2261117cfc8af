------------------------------- MODULE DiffTexts ------------------------------
(***************************************************************************)
(* A dump with texts, its diff dumps, and a copy of the dump that they     *)
(* bring up to date.  A diff dump has a whole text group at once and only  *)
(* then the records of the revisions whose texts are in it, so DiffWriter  *)
(* keeps the records of a dump with texts in a queue.  A record says where *)
(* in its group a text is; the copy gives the group an id of its own.      *)
(***************************************************************************)
EXTENDS TextGroups

VARIABLES
    queue,          \* DiffWriter::changeQueue
    diff,           \* the records of the diff dump that are not applied yet
    copy,           \* the other dump: groups, emptying, location, like above
    imported        \* ChangeProcessor::currentTextGroupId

copyVars == <<copy, imported>>
diffVars == <<vars, queue, diff, copyVars>>

\* TextGroupsManager of the copy; it never adds a text to a group.
Copy == INSTANCE TextGroups WITH
    groups <- copy.groups, emptying <- copy.emptying, location <- copy.location,
    adding <- NoGroup

------------------------------------------------------------------------------
(* Records. *)

Record(kind, r, place, texts) == [kind |-> kind, rev |-> r, place |-> place, texts |-> texts]

\* NewRevision, or RevisionChange with RevisionChangeFlags::Text.
SetText(r, place) == Record("SetText", r, place, <<>>)
\* RevisionChange with the flag TextDeleted.
Hide(r) == Record("Hide", r, 0, <<>>)
Delete(r) == Record("Delete", r, 0, <<>>)
Group(texts) == Record("Group", Empty, 0, texts)
End == Record("End", Empty, 0, <<>>)

\* Mutant: the group comes after the records.
GroupEndedLate(texts, records) == queue \o records \o <<Group(texts)>>

\* DiffWriter::SetTextGroup: the group, and the records that waited for it.
GroupEnded(texts, records) == <<Group(texts)>> \o queue \o records

\* DiffWriter::Process: the record waits.
Process(record) == queue' = Append(queue, record) /\ UNCHANGED diff

\* The record of a revision with a new text is queued by WriteInternal; if its
\* text filled the group, UpdateIndex ends the group.
ProcessText(r, loc) ==
    IF adding' # NoGroup THEN Process(SetText(r, loc[2]))
    ELSE /\ diff' = diff \o GroupEnded(groups'[loc[1]], <<SetText(r, loc[2])>>)
         /\ queue' = <<>>

DiffInit ==
    /\ Init
    /\ queue = <<>>
    /\ diff = <<>>
    /\ copy = [groups |-> groups, emptying |-> emptying, location |-> location]
    /\ imported = 0

------------------------------------------------------------------------------
(* The update of the dump. *)

WriteNewRevision(r, t) ==
    /\ WriteNew(r, t)
    /\ ProcessText(r, Added(t, groups).loc)
    /\ UNCHANGED copyVars

WriteReplaced(r, t) ==
    /\ ReplaceText(r, t)
    /\ ProcessText(r, Added(t, Emptied(location[r]).groups).loc)
    /\ UNCHANGED copyVars

WriteHidden(r) == HideText(r) /\ Process(Hide(r)) /\ UNCHANGED copyVars

WriteDeleted(r) == DeleteRevision(r) /\ Process(Delete(r)) /\ UNCHANGED copyVars

\* Dump::Complete ends the group that is being filled; DiffWriter::Complete
\* writes the records that are left.
CompleteBoth ==
    /\ Complete
    /\ diff' = diff \o (IF adding = NoGroup THEN queue ELSE GroupEnded(adding.texts, <<>>))
                    \o <<End>>
    /\ queue' = <<>>
    /\ UNCHANGED copyVars

OpenBoth ==
    /\ Open
    /\ diff = <<>>
    /\ imported' = 0
    /\ UNCHANGED <<queue, diff, copy>>

------------------------------------------------------------------------------
(* ChangeProcessor, on the copy. *)

Next1(kind) == session = "completed" /\ diff # <<>> /\ Head(diff).kind = kind

\* The record is used up; the dump itself is not touched.
Done ==
    /\ diff' = Tail(diff)
    /\ UNCHANGED <<groups, adding, emptying, location, wanted, fresh, hidden, queue>>

\* TextGroupsManager::ImportTextGroup.
ApplyGroup ==
    LET id == NewId(copy.groups)
    IN  /\ Next1("Group")
        /\ copy' = [copy EXCEPT !.groups = Extend(@, id, Head(diff).texts)]
        /\ imported' = id
        /\ Done /\ UNCHANGED session

\* DumpRevision::SetTextGroup and Write.  A revision that gets another text
\* leaves the old one in its group: textSaved keeps DeleteText from being called.
ApplySetText ==
    LET c == Head(diff)
    IN  /\ Next1("SetText")
        /\ copy' = [copy EXCEPT !.location = Extend(@, c.rev, <<imported, c.place>>)]
        /\ Done /\ UNCHANGED <<imported, session>>

ApplyHide ==
    /\ Next1("Hide")
    /\ copy' = [copy EXCEPT !.location = Drop(@, Head(diff).rev)]
    /\ Done /\ UNCHANGED <<imported, session>>

\* Dump::DeleteRevision.
ApplyDelete ==
    LET r == Head(diff).rev
        e == Copy!Emptied(copy.location[r])
    IN  /\ Next1("Delete")
        /\ IF r \in DOMAIN copy.location /\ ~ e.fails
             THEN /\ copy' = [groups |-> e.groups, emptying |-> e.emptying,
                              location |-> Drop(copy.location, r)]
                  /\ UNCHANGED session
             ELSE session' = "failed" /\ UNCHANGED copy
        /\ Done /\ UNCHANGED imported

\* ChangeProcessor::Complete: EndDeletedGroup.
ApplyEnd ==
    /\ Next1("End")
    /\ copy' = [copy EXCEPT !.groups = Stored(@, copy.emptying), !.emptying = NoGroup]
    /\ Done /\ UNCHANGED <<imported, session>>

DiffNext ==
    \/ \E r \in Revisions :
        \/ \E t \in Texts : WriteNewRevision(r, t) \/ WriteReplaced(r, t)
        \/ WriteDeleted(r)
        \/ WriteHidden(r)
    \/ CompleteBoth
    \/ OpenBoth
    \/ ApplyGroup
    \/ ApplySetText
    \/ ApplyHide
    \/ ApplyDelete
    \/ ApplyEnd

DiffSpec == DiffInit /\ [][DiffNext]_diffVars

------------------------------------------------------------------------------
\* After a diff dump is applied, each revision has the same text in the copy as
\* in the dump: records neither overtake their group nor are taken for those of
\* the next one, and importing groups goes together with deleting texts.
CopyReadsTexts ==
    session = "completed" /\ diff = <<>> =>
        /\ DOMAIN copy.location = DOMAIN wanted
        /\ \A r \in DOMAIN wanted : Copy!TextAt(copy.location[r]) = wanted[r]
==============================================================================
