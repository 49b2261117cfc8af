------------------------------ MODULE DumpUpdate ------------------------------
(***************************************************************************)
(* One update of a dump and of a copy of it.  DumpWriter brings the dump   *)
(* to the state of the wiki, as the wiki sends its pages and revisions,    *)
(* and records in a diff dump, through DiffWriter, what it does.           *)
(* ChangeProcessor then applies the records to another file that was the   *)
(* same dump before the update.  Every dump that a complete update leaves  *)
(* behind is an initial state, so one update stands for all.               *)
(*                                                                         *)
(* In front of the DumpWriter stand the wrappers of the dump's spec: an     *)
(* articles dump has the pages of some namespaces only, a current dump has *)
(* of each page the revision that was sent last.                           *)
(*                                                                         *)
(* This is a dump without texts: records are written when they are made.   *)
(***************************************************************************)
EXTENDS Integers, Sequences, FiniteSetsExt, SequencesExt

CONSTANTS
    Scopes,             \* the dumps there are, see Scope
    NamespaceOf,        \* title -> number of its namespace
    Revisions,          \* ids
    None

Pages == UNION {s.pages : s \in Scopes}
Titles == UNION {s.titles : s \in Scopes}
Contents == UNION {s.contents : s \in Scopes}

\* What kind of dump is made, and the ids, titles and contents of the wiki's
\* pages and revisions.
Scope == [articles : BOOLEAN, current : BOOLEAN,
          pages : SUBSET Pages, titles : SUBSET Titles, contents : SUBSET Contents]

ASSUME UpdateAssumption ==
    /\ Scopes \subseteq Scope
    /\ NamespaceOf \in [Titles -> Int]
    /\ Pages \subseteq Nat /\ Revisions \subseteq Nat /\ IsFiniteSet(Revisions)
    /\ None \notin Titles \cup Contents \cup Pages \cup Revisions

VARIABLES
    scope,          \* which of the dumps it is
    wiki,           \* what the wiki sends
    last,           \* of each page, the revision it sends last
    dump,           \* the dump file that is updated
    phase,          \* "writing", "crashed", "completed", "applied" or "failed"
    todo,           \* pages of the wiki that have not been sent
    unvisited,      \* DumpWriter::unvisitedPageIds
    coming,         \* revisions of the current page that have not been sent
    held,           \* CurrentWriterWrapper::revision, None for nullptr
    newRevisionIds, \* DumpWriter::newRevisionIds
    current,        \* DumpWriter::page and oldPage, NoCurrent between pages
    pageWritten,    \* DiffWriter::pageWritten
    diff,           \* the records of the diff dump
    replica,        \* the file the diff dump is applied to
    target,         \* ChangeProcessor::currentPage, NoCurrent for nullptr
    movedBack       \* history: a revision came with a page that was sent
                    \* before the page that had it

wikiVars == <<scope, wiki, last>>
streamVars == <<todo, coming, held>>
writerVars == <<dump, streamVars, unvisited, newRevisionIds, current, pageWritten>>
applyVars == <<replica, target>>
vars == <<wikiVars, phase, diff, writerVars, applyVars, movedBack>>

\* A page has its own data and RevisionIds; a dump has pages and revisions.
Page(title, revs) == [title |-> title, revs |-> revs]
NoPage == Page(None, {})
NoCurrent == [id |-> None, old |-> NoPage, page |-> NoPage]
Target(p, page) == [id |-> p, old |-> NoPage, page |-> page]

Has(f, x) == x \in DOMAIN f
Extend(f, x, y) == [z \in DOMAIN f \cup {x} |-> IF z = x THEN y ELSE f[z]]
Without(f, S) == Restrict(f, DOMAIN f \ S)

\* A dump in which every revision is in exactly one page.
DumpOf(titles, owner, contents) ==
    [pages |-> [p \in DOMAIN titles |->
                    Page(titles[p], {r \in DOMAIN owner : owner[r] = p})],
     revisions |-> contents]

CompleteDumps(s) ==
    UNION {{DumpOf(titles, owner, contents) :
                titles \in [P -> s.titles], owner \in [R -> P], contents \in [R -> s.contents]} :
           P \in SUBSET s.pages, R \in SUBSET Revisions}

Owner(d, r) == {p \in DOMAIN d.pages : r \in d.pages[p].revs}

PagePut(d, p, page) == [d EXCEPT !.pages = Extend(@, p, page)]
PageDropped(d, p) == [d EXCEPT !.pages = Without(@, {p})]
RevisionPut(d, r, content) == [d EXCEPT !.revisions = Extend(@, r, content)]

\* Mutant: doNotDeleteRevisions is ignored.
RevisionsDroppedAll(d, revs, keep) == [d EXCEPT !.revisions = Without(@, revs)]

\* Dump::DeleteRevision for several revisions: those in keep are not deleted.
RevisionsDropped(d, revs, keep) == [d EXCEPT !.revisions = Without(@, revs \ keep)]

------------------------------------------------------------------------------
(* What is in a dump of this spec. *)

UserNamespace == 2

\* ArticlesWriterWrapper::StartPage.
Included(title) ==
    scope.articles => NamespaceOf[title] % 2 = 0 /\ NamespaceOf[title] # UserNamespace

IncludedPages == {p \in DOMAIN wiki.pages : Included(wiki.pages[p].title)}

\* The revisions of the page that reach the DumpWriter.
RevisionsOf(p) ==
    IF scope.current THEN {last[p]} \ {None} ELSE wiki.pages[p].revs

\* The dump that is wanted.
Filtered ==
    [pages |-> [p \in IncludedPages |-> Page(wiki.pages[p].title, RevisionsOf(p))],
     revisions |-> Restrict(wiki.revisions, UNION {RevisionsOf(p) : p \in IncludedPages})]

\* What a complete update of this spec can have left behind.
IsOfScope(d) ==
    \A p \in DOMAIN d.pages :
        Included(d.pages[p].title) /\ (scope.current => Cardinality(d.pages[p].revs) = 1)

------------------------------------------------------------------------------
(* The records of a diff dump.  A change record has the fields that changed. *)

NewPage(p, title) == [kind |-> "NewPage", id |-> p, to |-> title]
PageChange(p, title) == [kind |-> "PageChange", id |-> p, to |-> title]
NewRevision(r, content) == [kind |-> "NewRevision", id |-> r, to |-> content]
RevisionChange(r, content) == [kind |-> "RevisionChange", id |-> r, to |-> content]
DeleteRevision(r) == [kind |-> "DeleteRevision", id |-> r, to |-> None]
FullDelete(p) == [kind |-> "FullDelete", id |-> p, to |-> None]
PartialDelete(p) == [kind |-> "PartialDelete", id |-> p, to |-> None]

\* Ids in the order of a std::set.  (SortSeq, of which SetToSortSeq is made, is
\* built into TLC: nothing can be proved about it.)
Ascending(S) ==
    CHOOSE order \in [1 .. Cardinality(S) -> S] :
        \A i, j \in DOMAIN order : i < j => order[i] < order[j]

DeleteRevisions(revs) ==
    [i \in 1 .. Cardinality(revs) |-> DeleteRevision(Ascending(revs)[i])]

\* Mutant: the page is announced even if nothing is recorded about it.
RecordEager(records) ==
    /\ diff' = diff \o (IF pageWritten THEN <<>> ELSE <<PageChange(current.id, None)>>)
                     \o records
    /\ pageWritten' = TRUE

\* Mutant: the page is not announced.
RecordUnannounced(records) == diff' = diff \o records /\ UNCHANGED pageWritten

\* DiffWriter::EnsurePageWritten before the records about the current page: a
\* page without changes of its own is announced by its first other record.
Record(records) ==
    IF records = <<>> THEN UNCHANGED <<diff, pageWritten>>
    ELSE /\ diff' = diff \o (IF pageWritten THEN <<>> ELSE <<PageChange(current.id, None)>>)
                         \o records
         /\ pageWritten' = TRUE

------------------------------------------------------------------------------
Init ==
    /\ scope \in Scopes
    /\ wiki \in CompleteDumps(scope)
    /\ last \in IF ~ scope.current THEN {[p \in DOMAIN wiki.pages |-> None]}
                ELSE {f \in [DOMAIN wiki.pages -> Revisions \cup {None}] :
                        \A p \in DOMAIN f : IF wiki.pages[p].revs = {} THEN f[p] = None
                                            ELSE f[p] \in wiki.pages[p].revs}
    /\ dump \in {d \in CompleteDumps(scope) : IsOfScope(d)}
    /\ phase = "writing"
    /\ todo = DOMAIN wiki.pages
    /\ coming = {} /\ held = None
    /\ unvisited = DOMAIN dump.pages
    /\ newRevisionIds = {}
    /\ current = NoCurrent
    /\ pageWritten = FALSE
    /\ diff = <<>>
    /\ replica = dump
    /\ target = NoCurrent
    /\ movedBack = FALSE

\* Revisions of the page p that the wiki moved from a page it sends later.
MovedBack(p) ==
    {r \in RevisionsOf(p) : (Owner(replica, r) \cap todo \cap IncludedPages) \ {p} # {}}

\* A page that ArticlesWriterWrapper keeps back, with all its revisions.
SkipPage(p) ==
    /\ phase = "writing"
    /\ current = NoCurrent
    /\ p \in todo \ IncludedPages
    /\ todo' = todo \ {p}
    /\ UNCHANGED <<wikiVars, dump, phase, coming, held, unvisited, newRevisionIds, current,
                   pageWritten, diff, applyVars, movedBack>>

\* DumpWriter::StartPage with DumpPage::WriteDiff and DiffWriter::StartNewPage
\* or StartExistingPage.
StartPage(p) ==
    LET exists == Has(dump.pages, p)
        old    == IF exists THEN dump.pages[p] ELSE NoPage
        title  == wiki.pages[p].title
    IN  /\ phase = "writing"
        /\ current = NoCurrent
        /\ p \in todo \cap IncludedPages
        /\ movedBack' = (movedBack \/ MovedBack(p) # {})
        /\ todo' = todo \ {p}
        /\ coming' = wiki.pages[p].revs
        /\ unvisited' = unvisited \ {p}
        /\ current' = [id |-> p, old |-> old, page |-> Page(title, {})]
        /\ pageWritten' = (~ exists \/ title # old.title)
        /\ diff' = IF ~ exists THEN Append(diff, NewPage(p, title))
                   ELSE IF title # old.title THEN Append(diff, PageChange(p, title))
                   ELSE diff
        /\ UNCHANGED <<wikiVars, dump, phase, held, newRevisionIds, applyVars>>

\* DumpWriter::AddRevision and DumpRevision::Write.  A revision that is in
\* the dump unchanged but new to this page is recorded by an empty change.
WriterAddsRevision(r) ==
    LET content == wiki.revisions[r]
        isNew   == r \notin current.old.revs
        loaded  == Has(dump.revisions, r)
        same    == loaded /\ dump.revisions[r] = content
    IN  /\ current' = [current EXCEPT !.page.revs = @ \cup {r}]
        /\ newRevisionIds' = newRevisionIds \cup (IF isNew THEN {r} ELSE {})
        /\ dump' = RevisionPut(dump, r, content)
        /\ Record(IF ~ loaded THEN <<NewRevision(r, content)>>
                  ELSE IF ~ same THEN <<RevisionChange(r, content)>>
                  ELSE IF isNew THEN <<RevisionChange(r, None)>>
                  ELSE <<>>)
        /\ UNCHANGED <<wikiVars, phase, todo, unvisited, applyVars, movedBack>>

\* Without CurrentWriterWrapper the revision goes to the DumpWriter at once.
AddRevision(r) ==
    /\ ~ scope.current
    /\ r \in coming
    /\ coming' = coming \ {r}
    /\ WriterAddsRevision(r)
    /\ UNCHANGED held

\* Mutant: the first revision is kept.
HoldRevisionFirst(r) ==
    /\ scope.current
    /\ r \in coming /\ (r = last[current.id] => coming = {r})
    /\ coming' = coming \ {r}
    /\ held' = IF held = None THEN r ELSE held
    /\ UNCHANGED <<wikiVars, dump, phase, todo, unvisited, newRevisionIds, current,
                   pageWritten, diff, applyVars, movedBack>>

\* CurrentWriterWrapper::AddRevision.
HoldRevision(r) ==
    /\ scope.current
    /\ r \in coming /\ (r = last[current.id] => coming = {r})
    /\ coming' = coming \ {r}
    /\ held' = r
    /\ UNCHANGED <<wikiVars, dump, phase, todo, unvisited, newRevisionIds, current,
                   pageWritten, diff, applyVars, movedBack>>

\* The page has ended and CurrentWriterWrapper has nothing passed on yet.
NothingPassed == scope.current /\ current.page.revs = {}

\* CurrentWriterWrapper::EndPage, first half: the revision that was held.
PassRevision ==
    /\ current # NoCurrent /\ coming = {}
    /\ NothingPassed /\ held # None
    /\ held' = None
    /\ WriterAddsRevision(held)
    /\ UNCHANGED coming

\* A page without revisions: AddRevision gets a null pointer.
PassNothing ==
    /\ phase = "writing"
    /\ current # NoCurrent /\ coming = {}
    /\ NothingPassed /\ held = None
    /\ phase' = "crashed"
    /\ UNCHANGED <<wikiVars, diff, writerVars, applyVars, movedBack>>

\* DumpWriter::EndPage: the page is written, then the revisions it no longer
\* has are deleted.
EndPage ==
    LET deleted == current.old.revs \ current.page.revs
    IN  /\ current # NoCurrent
        /\ coming = {} /\ ~ NothingPassed
        /\ dump' = RevisionsDropped(PagePut(dump, current.id, current.page),
                                    deleted, newRevisionIds)
        /\ Record(DeleteRevisions(deleted))
        /\ current' = NoCurrent
        /\ UNCHANGED <<wikiVars, phase, streamVars, unvisited, newRevisionIds, applyVars, movedBack>>

\* One turn of the loop in DumpWriter::Complete, in the order of the ids.
DeleteUnvisited ==
    LET p       == Min(unvisited)
        revs    == dump.pages[p].revs
        deleted == revs \ newRevisionIds
    IN  /\ phase = "writing"
        /\ current = NoCurrent
        /\ todo = {}
        /\ unvisited # {}
        /\ unvisited' = unvisited \ {p}
        /\ dump' = PageDropped(RevisionsDropped(dump, revs, newRevisionIds), p)
        /\ diff' = diff \o IF deleted = revs THEN <<FullDelete(p)>>
                           ELSE <<PartialDelete(p)>> \o DeleteRevisions(deleted)
        /\ UNCHANGED <<wikiVars, phase, streamVars, newRevisionIds, current, pageWritten, applyVars,
                       movedBack>>

Complete ==
    /\ phase = "writing"
    /\ current = NoCurrent
    /\ todo = {} /\ unvisited = {}
    /\ phase' = "completed"
    /\ UNCHANGED <<wikiVars, diff, writerVars, applyVars, movedBack>>

------------------------------------------------------------------------------
(* ChangeProcessor, one record at a time. *)

Next1(kind) == phase = "completed" /\ diff # <<>> /\ Head(diff).kind = kind

\* The record is used up.
Done == diff' = Tail(diff) /\ UNCHANGED <<wikiVars, writerVars, movedBack>>

\* Mutant: the page before the next one is not written.
PageFlushedNever == replica

\* ChangeProcessor::WritePage.
PageFlushed ==
    IF target = NoCurrent THEN replica ELSE PagePut(replica, target.id, target.page)

\* The dump has no such object, or there is no current page: what the code
\* then loads has neither an id nor a contributor.
Fail == phase' = "failed" /\ UNCHANGED applyVars

ApplyNewPage ==
    LET c == Head(diff)
    IN  /\ Next1("NewPage")
        /\ replica' = PageFlushed
        /\ target' = Target(c.id, Page(c.to, {}))
        /\ Done /\ UNCHANGED phase

ApplyPageChange ==
    LET c   == Head(diff)
        old == PageFlushed.pages[c.id]
    IN  /\ Next1("PageChange")
        /\ IF Has(PageFlushed.pages, c.id)
             THEN /\ replica' = PageFlushed
                  /\ target' = Target(c.id, IF c.to = None THEN old
                                            ELSE [old EXCEPT !.title = c.to])
                  /\ UNCHANGED phase
             ELSE Fail
        /\ Done

ApplyNewRevision ==
    LET c == Head(diff)
    IN  /\ Next1("NewRevision")
        /\ IF target # NoCurrent
             THEN /\ replica' = RevisionPut(replica, c.id, c.to)
                  /\ target' = [target EXCEPT !.page.revs = @ \cup {c.id}]
                  /\ UNCHANGED phase
             ELSE Fail
        /\ Done

ApplyRevisionChange ==
    LET c == Head(diff)
    IN  /\ Next1("RevisionChange")
        /\ IF target # NoCurrent /\ Has(replica.revisions, c.id)
             THEN /\ replica' = IF c.to = None THEN replica
                                ELSE RevisionPut(replica, c.id, c.to)
                  /\ target' = [target EXCEPT !.page.revs = @ \cup {c.id}]
                  /\ UNCHANGED phase
             ELSE Fail
        /\ Done

ApplyDeleteRevision ==
    LET c == Head(diff)
    IN  /\ Next1("DeleteRevision")
        /\ IF target # NoCurrent /\ Has(replica.revisions, c.id)
             THEN /\ replica' = RevisionsDropped(replica, {c.id}, {})
                  /\ target' = [target EXCEPT !.page.revs = @ \ {c.id}]
                  /\ UNCHANGED phase
             ELSE Fail
        /\ Done

ApplyFullDelete ==
    LET c    == Head(diff)
        revs == replica.pages[c.id].revs
    IN  /\ Next1("FullDelete")
        /\ IF Has(replica.pages, c.id) /\ revs \subseteq DOMAIN replica.revisions
             THEN /\ replica' = PageDropped(RevisionsDropped(replica, revs, {}), c.id)
                  /\ UNCHANGED <<target, phase>>
             ELSE Fail
        /\ Done

ApplyPartialDelete ==
    LET c == Head(diff)
    IN  /\ Next1("PartialDelete")
        /\ IF Has(replica.pages, c.id)
             THEN replica' = PageDropped(replica, c.id) /\ UNCHANGED <<target, phase>>
             ELSE Fail
        /\ Done

\* The end of the diff dump: ChangeProcessor::Complete.
ApplyComplete ==
    /\ phase = "completed"
    /\ diff = <<>>
    /\ replica' = PageFlushed
    /\ target' = NoCurrent
    /\ phase' = "applied"
    /\ UNCHANGED <<wikiVars, diff, writerVars, movedBack>>

Write ==
    \/ \E p \in Pages : SkipPage(p) \/ StartPage(p)
    \/ \E r \in Revisions : AddRevision(r) \/ HoldRevision(r)
    \/ PassRevision
    \/ PassNothing
    \/ EndPage
    \/ DeleteUnvisited
    \/ Complete

Apply ==
    \/ ApplyNewPage
    \/ ApplyPageChange
    \/ ApplyNewRevision
    \/ ApplyRevisionChange
    \/ ApplyDeleteRevision
    \/ ApplyFullDelete
    \/ ApplyPartialDelete
    \/ ApplyComplete

Next == Write \/ Apply

Spec == Init /\ [][Next]_vars

------------------------------------------------------------------------------
\* After the update the dump is the wiki, or the part of it that its spec
\* asks for: whatever was added, changed, deleted or moved between pages or
\* into and out of the namespaces of articles, and in whatever order the pages
\* and revisions came, each page has its revisions, and no revision without a
\* page is left behind.
DumpIsWiki == phase \in {"completed", "applied"} => dump = Filtered

\* At no time during the update does a stored page list a revision that is
\* not stored: moving a revision never deletes it under its new page.
ListedAreStored ==
    \A p \in DOMAIN dump.pages : dump.pages[p].revs \subseteq DOMAIN dump.revisions

\* After the diff dump is applied, the copy is the dump, unless a revision
\* moved to a page sent before the one it left: see RecordsAllActions.
ReplicaIsDump == phase = "applied" /\ ~ movedBack => replica = dump

\* The records suffice to be applied: each names an object that the copy has
\* at that point, and one about a revision comes when there is a current page.
\* The same exception applies.  The update itself only fails for a current
\* dump, by a page that has no revision.
FailsForCause ==
    /\ phase = "failed" => movedBack
    /\ phase = "crashed" =>
        scope.current /\ \E p \in IncludedPages : wiki.pages[p].revs = {}

\* An update that changes nothing leaves an empty diff dump: as long as the
\* dump is written, the copy is what the dump was before.
NoChangeNoRecord == phase = "writing" /\ replica = Filtered => diff = <<>>

\* DumpWriter.h: diffWriter "records all actions done by this writer", and only
\* those: whoever applies the records ends up with the same dump.
RecordsAllActions ==
    phase \in {"applied", "failed"} => phase = "applied" /\ replica = dump
==============================================================================
