--------------------------- MODULE DumpUpdateProofs ---------------------------
(***************************************************************************)
(* Proofs about DumpUpdate, for every kind of dump, every wiki and every   *)
(* dump that is updated.  First of the dump: it becomes the wiki, and at   *)
(* no time lists a revision that it does not have.  Then of the copy: the  *)
(* records of the update, applied to it one by one, never fail and make it *)
(* the same dump, unless the wiki moved a revision to a page that it sends *)
(* before the page that had it.                                            *)
(***************************************************************************)
EXTENDS DumpUpdate, FiniteSetTheorems, TLAPS, WellFoundedInduction

IsFunction(f) == f = [x \in DOMAIN f |-> f[x]]

Shape(d) ==
    /\ d = [pages |-> d.pages, revisions |-> d.revisions]
    /\ IsFunction(d.pages) /\ IsFunction(d.revisions)

\* Every revision is in exactly one page.
IsDump(d) ==
    /\ Shape(d)
    /\ DOMAIN d.pages \subseteq Pages /\ DOMAIN d.revisions \subseteq Revisions
    /\ \A p \in DOMAIN d.pages : d.pages[p].revs \subseteq DOMAIN d.revisions
    /\ \A r \in DOMAIN d.revisions : \E p \in DOMAIN d.pages : r \in d.pages[p].revs
    /\ \A p, q \in DOMAIN d.pages : p # q =>
            \A r \in d.pages[p].revs : r \notin d.pages[q].revs

\* What the update is given: the wiki never changes.
Given ==
    /\ IsDump(wiki)
    /\ scope.current =>
        \A p \in DOMAIN wiki.pages :
            IF wiki.pages[p].revs = {} THEN last[p] = None ELSE last[p] \in wiki.pages[p].revs

\* The replica is the old dump until the diff dump is applied.
OldRevs(p) == IF p \in DOMAIN replica.pages THEN replica.pages[p].revs ELSE {}
OldPage(p) == IF p \in DOMAIN replica.pages THEN replica.pages[p] ELSE NoPage

\* The pages that the writer is done with.
Finished == IncludedPages \ (todo \cup {current.id})

\* Revisions that the writer has put into their new pages, and those that
\* it has not yet taken from their old ones.
IsPassed(r) == r \in current.page.revs \/ \E p \in Finished : r \in RevisionsOf(p)
IsLeft(r) == r \in current.old.revs \/ \E p \in unvisited : r \in replica.pages[p].revs

CurrentIs ==
    \/ current = NoCurrent
    \/ /\ current.id \in IncludedPages \ todo
       /\ current = [id |-> current.id, old |-> OldPage(current.id),
                     page |-> Page(wiki.pages[current.id].title, current.page.revs)]

PagesAre ==
    /\ todo \subseteq DOMAIN wiki.pages
    /\ unvisited \subseteq DOMAIN replica.pages \ (IncludedPages \ todo)
    /\ (todo \cap IncludedPages) \cap DOMAIN replica.pages \subseteq unvisited
    /\ unvisited \subseteq DOMAIN dump.pages
    /\ \A p \in DOMAIN dump.pages :
        p \in Finished \/ p \in unvisited \/ (p = current.id /\ p \in DOMAIN replica.pages)
    /\ \A p \in Finished :
        p \in DOMAIN dump.pages /\ dump.pages[p] = Page(wiki.pages[p].title, RevisionsOf(p))
    /\ \A p \in DOMAIN dump.pages \ Finished : dump.pages[p] = replica.pages[p]

RevisionsAre ==
    /\ \A r : IsPassed(r) => /\ r \in DOMAIN dump.revisions
                             /\ dump.revisions[r] = wiki.revisions[r]
    /\ \A r : IsLeft(r) => r \in DOMAIN dump.revisions
    /\ \A r \in DOMAIN dump.revisions : IsPassed(r) \/ IsLeft(r)

\* A revision that came to a page from elsewhere is remembered, so that it is
\* not deleted with what is left of the page it came from.
NewOnes ==
    /\ \A r \in newRevisionIds : IsPassed(r)
    /\ \A p \in Finished : \A r \in RevisionsOf(p) : r \notin OldRevs(p) => r \in newRevisionIds
    /\ \A r \in current.page.revs : r \notin current.old.revs => r \in newRevisionIds

\* What has not been sent of the current page, and what is held back.
Coming ==
    /\ current = NoCurrent => coming = {} /\ (scope.current => held = None)
    /\ current # NoCurrent =>
        /\ coming \subseteq wiki.pages[current.id].revs
        /\ ~ scope.current => current.page.revs = wiki.pages[current.id].revs \ coming
        /\ scope.current =>
            \/ /\ current.page.revs = {}
               /\ IF coming = {} THEN held = last[current.id] ELSE last[current.id] \in coming
            \/ /\ current.page.revs = {last[current.id]} /\ last[current.id] # None
               /\ coming = {} /\ held = None

Writing ==
    /\ IsDump(replica) /\ Shape(dump)
    /\ CurrentIs /\ PagesAre /\ RevisionsAre /\ NewOnes /\ Coming

\* Nothing follows a page without revisions.
Stuck == current # NoCurrent /\ coming = {} /\ held = None /\ NothingPassed

IInv ==
    /\ Given
    /\ phase \in {"writing", "crashed"} => Writing
    /\ phase = "crashed" => Stuck
    /\ phase \notin {"writing", "crashed"} =>
        dump = Filtered /\ current = NoCurrent /\ coming = {}

------------------------------------------------------------------------------
(* Operators. *)

\* The smallest page is a page.
LEMMA LeastExists ==
    ASSUME NEW S, S \subseteq Nat, S # {}
    PROVE  Min(S) \in S /\ \A y \in S : Min(S) =< y
<1> DEFINE R == OpToRel(<, Nat)
<1>1. ASSUME NEW a \in Nat, NEW b \in Nat, a < b
      PROVE  <<a, b>> \in R
  <2>1. R = {ss \in Nat \X Nat : ss[1] < ss[2]}
    BY DEF OpToRel
  <2>. QED
    BY <1>1, <2>1
<1>2. PICK x \in S : \A y \in S : ~ (<<y, x>> \in R)
  <2>. HIDE DEF R
  <2>1. IsWellFoundedOn(R, Nat)
    BY NatLessThanWellFounded DEF R
  <2>. QED
    BY <2>1, WFMin
<1>. HIDE DEF R
<1>3. \A y \in S : x =< y
  <2>. SUFFICES ASSUME NEW y \in S, y < x PROVE FALSE
    OBVIOUS
  <2>1. <<y, x>> \in R
    BY <1>1
  <2>. QED
    BY <1>2, <2>1
<1>. QED
  BY <1>3 DEF Min

\* Objects are put into and taken out of one part of a dump.
LEMMA PutPage ==
    ASSUME NEW d, Shape(d), NEW p, NEW page
    PROVE  LET e == PagePut(d, p, page)
           IN  /\ Shape(e) /\ e.revisions = d.revisions
               /\ DOMAIN e.pages = DOMAIN d.pages \cup {p}
               /\ e.pages[p] = page
               /\ \A q \in DOMAIN d.pages : q # p => e.pages[q] = d.pages[q]
BY DEF PagePut, Shape, IsFunction, Extend

\* A page that is dropped takes no other with it.
LEMMA DropPage ==
    ASSUME NEW d, Shape(d), NEW p
    PROVE  LET e == PageDropped(d, p)
           IN  /\ Shape(e) /\ e.revisions = d.revisions
               /\ DOMAIN e.pages = DOMAIN d.pages \ {p}
               /\ \A q \in DOMAIN e.pages : e.pages[q] = d.pages[q]
BY DEF PageDropped, Shape, IsFunction, Without, Restrict

\* A revision is added or replaced.
LEMMA PutRevision ==
    ASSUME NEW d, Shape(d), NEW r, NEW content
    PROVE  LET e == RevisionPut(d, r, content)
           IN  /\ Shape(e) /\ e.pages = d.pages
               /\ DOMAIN e.revisions = DOMAIN d.revisions \cup {r}
               /\ e.revisions[r] = content
               /\ \A s \in DOMAIN d.revisions : s # r => e.revisions[s] = d.revisions[s]
BY DEF RevisionPut, Shape, IsFunction, Extend

\* Of the revisions of a deleted page, those kept stay as they are.
LEMMA DropRevisions ==
    ASSUME NEW d, Shape(d), NEW revs, NEW keep
    PROVE  LET e == RevisionsDropped(d, revs, keep)
           IN  /\ Shape(e) /\ e.pages = d.pages
               /\ DOMAIN e.revisions = DOMAIN d.revisions \ (revs \ keep)
               /\ \A s \in DOMAIN e.revisions : e.revisions[s] = d.revisions[s]
BY DEF RevisionsDropped, Shape, IsFunction, Without, Restrict

\* A revision is put into the current page.
LEMMA GrowPage ==
    ASSUME NEW id, NEW old, NEW title, NEW revs, NEW r, NEW c,
           c = [id |-> id, old |-> old, page |-> Page(title, revs)]
    PROVE  LET e == [c EXCEPT !.page.revs = @ \cup {r}]
           IN  /\ e = [id |-> id, old |-> old, page |-> Page(title, revs \cup {r})]
               /\ e.id = id /\ e.old = old /\ e.page.revs = revs \cup {r}
<1>1. /\ c.id = id /\ c.old = old /\ c.page = [title |-> title, revs |-> revs]
  BY DEF Page
<1>2. [c EXCEPT !.page.revs = @ \cup {r}]
        = [id |-> id, old |-> old, page |-> [title |-> title, revs |-> revs \cup {r}]]
  BY <1>1
<1>. QED
  BY <1>2 DEF Page

\* A dump that a complete update left behind.
LEMMA CompleteIsDump ==
    ASSUME NEW s \in Scopes, NEW d \in CompleteDumps(s)
    PROVE  IsDump(d)
<1> DEFINE Of(P, R) ==
           {DumpOf(titles, owner, contents) :
                titles \in [P -> s.titles], owner \in [R -> P], contents \in [R -> s.contents]}
<1>0. CompleteDumps(s) = UNION {Of(P, R) : P \in SUBSET s.pages, R \in SUBSET Revisions}
  BY DEF CompleteDumps
<1>. HIDE DEF Of
<1>1. PICK P \in SUBSET s.pages, R \in SUBSET Revisions : d \in Of(P, R)
  BY <1>0
<1>2. PICK titles \in [P -> s.titles], owner \in [R -> P], contents \in [R -> s.contents] :
        d = DumpOf(titles, owner, contents)
  BY <1>1 DEF Of
<1>3. /\ d = [pages |-> d.pages, revisions |-> d.revisions]
      /\ d.pages = [p \in P |-> Page(titles[p], {r \in R : owner[r] = p})]
      /\ d.revisions = contents
  BY <1>2 DEF DumpOf
<1>4. /\ DOMAIN d.pages = P /\ DOMAIN d.revisions = R
      /\ \A p \in P : d.pages[p].revs = {r \in R : owner[r] = p}
  BY <1>3 DEF Page
<1>5. IsFunction(d.pages) /\ IsFunction(d.revisions)
  BY <1>3 DEF IsFunction
<1>6. P \subseteq Pages
  BY DEF Pages
<1>. QED
  BY <1>3, <1>4, <1>5, <1>6 DEF IsDump, Shape

------------------------------------------------------------------------------
(* What does not change. *)

\* The wiki, and with it the dump that is wanted.
LEMMA SameWiki ==
    ASSUME UNCHANGED wikiVars
    PROVE  /\ IncludedPages' = IncludedPages
           /\ \A p : RevisionsOf(p)' = RevisionsOf(p)
           /\ Filtered' = Filtered
           /\ Given => Given'
<1>1. scope' = scope /\ wiki' = wiki /\ last' = last
  BY DEF wikiVars
<1>2. IncludedPages' = IncludedPages
  BY <1>1 DEF IncludedPages, Included
<1>3. \A p : RevisionsOf(p)' = RevisionsOf(p)
  BY <1>1 DEF RevisionsOf
<1>4. Filtered' = Filtered
  BY <1>1, <1>2 DEF Filtered, RevisionsOf
<1>5. Given => Given'
  BY <1>1 DEF Given
<1>. QED
  BY <1>2, <1>3, <1>4, <1>5

\* A page in the dump has revisions that it has in the wiki.
LEMMA RevisionsOfWiki ==
    ASSUME Given, NEW p \in DOMAIN wiki.pages
    PROVE  /\ RevisionsOf(p) \subseteq wiki.pages[p].revs
           /\ None \notin wiki.pages[p].revs /\ p # None
           /\ ~ scope.current => RevisionsOf(p) = wiki.pages[p].revs
           /\ scope.current => RevisionsOf(p) = {last[p]} \ {None}
<1>1. wiki.pages[p].revs \subseteq Revisions /\ p \in Pages
  BY DEF Given, IsDump
<1>2. CASE scope.current
  BY <1>1, <1>2, UpdateAssumption DEF Given, RevisionsOf
<1>3. CASE ~ scope.current
  BY <1>1, <1>3, UpdateAssumption DEF RevisionsOf
<1>. QED
  BY <1>2, <1>3

\* Between pages there is no current page, and in a page there is one.
LEMMA CurrentFacts ==
    ASSUME Given, CurrentIs
    PROVE  /\ current = NoCurrent =>
                /\ current.id = None /\ current.page.revs = {} /\ current.old.revs = {}
                /\ current.id \notin IncludedPages
           /\ current # NoCurrent =>
                /\ current.id \in IncludedPages \ todo /\ current.id \in DOMAIN wiki.pages
                /\ current.id # None
                /\ current.old.revs = OldRevs(current.id)
<1>1. \A p \in IncludedPages : p \in DOMAIN wiki.pages /\ p # None
  BY RevisionsOfWiki DEF IncludedPages
<1>2. ASSUME current = NoCurrent
      PROVE  current.id = None /\ current.page.revs = {} /\ current.old.revs = {}
  BY <1>2 DEF NoCurrent, NoPage, Page
<1>3. ASSUME current # NoCurrent
      PROVE  current.id \in IncludedPages \ todo /\ current.old.revs = OldRevs(current.id)
  <2>1. current.id \in IncludedPages \ todo /\ current.old = OldPage(current.id)
    BY <1>3 DEF CurrentIs
  <2>. QED
    BY <2>1 DEF OldPage, OldRevs, NoPage, Page
<1>. QED
  BY <1>1, <1>2, <1>3

------------------------------------------------------------------------------
(* The steps of the writer. *)

\* A new file or an old one, and no page sent.
LEMMA InitStep == Init => IInv
<1>. SUFFICES ASSUME Init PROVE IInv
  OBVIOUS
<1>. USE DEF Init
<1>1. IsDump(wiki) /\ IsDump(dump)
  BY CompleteIsDump
<1>2. Given
  BY <1>1 DEF Given
<1>3. /\ current.id = None /\ current.page.revs = {} /\ current.old.revs = {}
  BY DEF NoCurrent, NoPage, Page
<1>4. IncludedPages \subseteq DOMAIN wiki.pages
  BY DEF IncludedPages
<1>5. Finished = {}
  BY <1>4 DEF Finished
<1>6. CurrentIs /\ Coming
  BY DEF CurrentIs, Coming
<1>7. PagesAre
  BY <1>4, <1>5 DEF PagesAre
<1>8. RevisionsAre
  BY <1>1, <1>3, <1>5 DEF RevisionsAre, IsPassed, IsLeft, IsDump
<1>9. NewOnes
  BY <1>3, <1>5 DEF NewOnes
<1>10. IsDump(replica) /\ Shape(dump)
  BY <1>1 DEF IsDump
<1>. QED
  BY <1>2, <1>6, <1>7, <1>8, <1>9, <1>10 DEF IInv, Writing

\* A page that is kept back is in no part of the invariant.
LEMMA SkipStep ==
    ASSUME Given, Writing, NEW p \in Pages, SkipPage(p)
    PROVE  Writing'
<1>. USE DEF SkipPage, applyVars
<1>1. IncludedPages' = IncludedPages /\ \A q : RevisionsOf(q)' = RevisionsOf(q)
  BY SameWiki
<1>2. scope' = scope /\ wiki' = wiki /\ last' = last
  BY DEF wikiVars
<1>3. Finished' = Finished
  BY <1>1 DEF Finished
<1>4. CurrentIs'
  BY DEF Writing, CurrentIs
<1>5. PagesAre'
  BY <1>1, <1>2, <1>3 DEF Writing, PagesAre
<1>6. RevisionsAre'
  BY <1>1, <1>2, <1>3 DEF Writing, RevisionsAre, IsPassed, IsLeft
<1>7. NewOnes'
  BY <1>1, <1>2, <1>3 DEF Writing, NewOnes, IsPassed, OldRevs
<1>8. Coming'
  BY <1>2 DEF Writing, Coming
<1>. QED
  BY <1>4, <1>5, <1>6, <1>7, <1>8 DEF Writing

\* The page that is started takes its revisions with it out of the pages that
\* have not been visited.
LEMMA StartStep ==
    ASSUME Given, Writing, NEW p \in Pages, StartPage(p)
    PROVE  Writing'
<1>. USE DEF applyVars
<1>1. /\ current = NoCurrent /\ p \in todo /\ p \in IncludedPages
      /\ todo' = todo \ {p} /\ coming' = wiki.pages[p].revs /\ unvisited' = unvisited \ {p}
      /\ UNCHANGED <<wikiVars, dump, held, newRevisionIds, replica>>
      /\ current' = [id |-> p, old |-> IF Has(dump.pages, p) THEN dump.pages[p] ELSE NoPage,
                     page |-> Page(wiki.pages[p].title, {})]
  BY DEF StartPage
<1>2. IncludedPages' = IncludedPages /\ \A q : RevisionsOf(q)' = RevisionsOf(q)
  BY <1>1, SameWiki
<1>3. scope' = scope /\ wiki' = wiki /\ last' = last
  BY <1>1 DEF wikiVars
<1>4. p \in DOMAIN wiki.pages
  BY <1>1 DEF IncludedPages
<1>5. current.page.revs = {} /\ current.old.revs = {} /\ current.id \notin IncludedPages
  BY <1>1, CurrentFacts DEF Writing
<1>6. Finished' = Finished /\ p \notin Finished /\ current'.id = p
  BY <1>1, <1>2, <1>5 DEF Finished
<1>7. (p \in DOMAIN dump.pages) = (p \in DOMAIN replica.pages)
  BY <1>1, <1>6, <1>5 DEF Writing, PagesAre
<1>8. p \in DOMAIN dump.pages => dump.pages[p] = replica.pages[p]
  BY <1>6 DEF Writing, PagesAre
<1>9. /\ current'.page.revs = {}
      /\ current'.old = OldPage(p)'
      /\ current'.old.revs = OldRevs(p)
      /\ current'.page = Page(wiki.pages[p].title, {})
  BY <1>1, <1>7, <1>8 DEF Has, OldPage, OldRevs, NoPage, Page
<1>10. CurrentIs'
  BY <1>1, <1>2, <1>3, <1>6, <1>9 DEF CurrentIs
<1>11. PagesAre'
  <2>. USE DEF Writing, PagesAre
  <2>1. /\ todo' \subseteq DOMAIN wiki'.pages
        /\ unvisited' \subseteq DOMAIN replica'.pages \ (IncludedPages \ todo)'
        /\ ((todo \cap IncludedPages) \cap DOMAIN replica.pages)' \subseteq unvisited'
        /\ unvisited' \subseteq DOMAIN dump'.pages
    BY <1>1, <1>2, <1>3
  <2>2. ASSUME NEW q \in DOMAIN dump'.pages
        PROVE  \/ q \in Finished' \/ q \in unvisited'
               \/ q = current'.id /\ q \in DOMAIN replica'.pages
    <3>1. current.id \notin DOMAIN replica.pages
      BY <1>1, UpdateAssumption DEF IsDump, NoCurrent
    <3>. QED
      BY <1>1, <1>6, <1>7, <3>1
  <2>3. ASSUME NEW q \in Finished'
        PROVE  /\ q \in DOMAIN dump'.pages
               /\ dump'.pages[q] = Page(wiki'.pages[q].title, RevisionsOf(q)')
    BY <1>1, <1>2, <1>3, <1>6
  <2>4. ASSUME NEW q \in DOMAIN dump'.pages \ Finished'
        PROVE  dump'.pages[q] = replica'.pages[q]
    BY <1>1, <1>6
  <2>. QED
    BY <2>1, <2>2, <2>3, <2>4
<1>12. RevisionsAre'
  <2>1. \A r : IsPassed(r)' = IsPassed(r)
    BY <1>2, <1>5, <1>6, <1>9 DEF IsPassed
  <2>2. \A r : IsLeft(r)' = IsLeft(r)
    BY <1>1, <1>5, <1>9 DEF IsLeft, OldRevs, Writing, PagesAre
  <2>. QED
    BY <1>1, <1>3, <2>1, <2>2 DEF Writing, RevisionsAre
<1>13. NewOnes'
  BY <1>1, <1>2, <1>5, <1>6, <1>9 DEF Writing, NewOnes, IsPassed, OldRevs
<1>14. Coming'
  <2>1. current' # NoCurrent
    BY <1>1, <1>4, <1>6, RevisionsOfWiki DEF NoCurrent
  <2>2. scope.current => held = None
    BY <1>1 DEF Writing, Coming
  <2>. QED
    BY <1>1, <1>3, <1>4, <1>6, <1>9, <2>1, <2>2 DEF Coming, Given
<1>. QED
  BY <1>1, <1>10, <1>11, <1>12, <1>13, <1>14 DEF Writing

\* A revision that the page has in the wiki is put into it.
LEMMA AddsStep ==
    ASSUME Given, Writing, current # NoCurrent, NEW r \in RevisionsOf(current.id),
           WriterAddsRevision(r)
    PROVE  /\ IsDump(replica)' /\ Shape(dump)'
           /\ CurrentIs' /\ PagesAre' /\ RevisionsAre' /\ NewOnes'
           /\ current'.id = current.id /\ current'.page.revs = current.page.revs \cup {r}
           /\ current' # NoCurrent
<1>. USE DEF applyVars
<1>1. /\ current' = [current EXCEPT !.page.revs = @ \cup {r}]
      /\ newRevisionIds' = newRevisionIds \cup
                                (IF r \notin current.old.revs THEN {r} ELSE {})
      /\ dump' = RevisionPut(dump, r, wiki.revisions[r])
      /\ UNCHANGED <<wikiVars, todo, unvisited, replica>>
  BY DEF WriterAddsRevision
<1>2. IncludedPages' = IncludedPages /\ \A q : RevisionsOf(q)' = RevisionsOf(q)
  BY <1>1, SameWiki
<1>3. scope' = scope /\ wiki' = wiki /\ last' = last
  BY <1>1 DEF wikiVars
<1>4. /\ Shape(dump') /\ dump'.pages = dump.pages
      /\ DOMAIN dump'.revisions = DOMAIN dump.revisions \cup {r}
      /\ dump'.revisions[r] = wiki.revisions[r]
      /\ \A s \in DOMAIN dump.revisions : s # r => dump'.revisions[s] = dump.revisions[s]
  BY <1>1, PutRevision DEF Writing
<1>5. /\ current.id \in IncludedPages \ todo
      /\ current = [id |-> current.id, old |-> OldPage(current.id),
                    page |-> Page(wiki.pages[current.id].title, current.page.revs)]
  BY DEF Writing, CurrentIs
<1>6. /\ current'.id = current.id /\ current'.old = current.old
      /\ current'.page.revs = current.page.revs \cup {r}
      /\ current' = [id |-> current.id, old |-> OldPage(current.id),
                     page |-> Page(wiki.pages[current.id].title, current.page.revs \cup {r})]
  <2>1. PICK id, old, title, revs :
            /\ current = [id |-> id, old |-> old, page |-> Page(title, revs)]
            /\ id = current.id /\ old = OldPage(current.id)
            /\ title = wiki.pages[current.id].title /\ revs = current.page.revs
    BY <1>5
  <2>2. current.old = old
    BY <2>1
  <2>3. /\ current' = [id |-> id, old |-> old, page |-> Page(title, revs \cup {r})]
        /\ current'.id = id /\ current'.old = old /\ current'.page.revs = revs \cup {r}
    BY <1>1, <2>1, GrowPage
  <2>. QED
    BY <2>1, <2>2, <2>3
<1>7. CurrentIs'
  BY <1>1, <1>2, <1>3, <1>5, <1>6 DEF CurrentIs, OldPage
<1>8. current' # NoCurrent
  BY <1>6, CurrentFacts DEF NoCurrent, Writing
<1>9. Finished' = Finished
  BY <1>1, <1>2, <1>6 DEF Finished
<1>10. PagesAre'
  BY <1>1, <1>2, <1>3, <1>4, <1>6, <1>9 DEF Writing, PagesAre
<1>11. /\ \A s : IsPassed(s)' <=> (IsPassed(s) \/ s = r)
       /\ \A s : IsLeft(s)' = IsLeft(s)
  BY <1>1, <1>2, <1>6, <1>9 DEF IsPassed, IsLeft
<1>12. RevisionsAre'
  BY <1>3, <1>4, <1>11 DEF Writing, RevisionsAre
<1>13. NewOnes'
  <2>1. \A s \in newRevisionIds' : IsPassed(s)'
    BY <1>1, <1>11 DEF Writing, NewOnes
  <2>2. ASSUME NEW p \in Finished', NEW s \in RevisionsOf(p)', s \notin OldRevs(p)'
        PROVE  s \in newRevisionIds'
    BY <1>1, <1>2, <1>9, <2>2 DEF Writing, NewOnes, OldRevs
  <2>3. ASSUME NEW s \in current'.page.revs, s \notin current'.old.revs
        PROVE  s \in newRevisionIds'
    BY <1>1, <1>6, <2>3 DEF Writing, NewOnes
  <2>. QED
    BY <2>1, <2>2, <2>3 DEF NewOnes
<1>. QED
  BY <1>1, <1>4, <1>6, <1>7, <1>8, <1>10, <1>12, <1>13 DEF Writing

\* A revision of the page that has not been sent is one of the wiki.
LEMMA AddStep ==
    ASSUME Given, Writing, NEW r \in Revisions, AddRevision(r)
    PROVE  Writing'
<1>1. /\ ~ scope.current /\ r \in coming /\ coming' = coming \ {r}
      /\ WriterAddsRevision(r) /\ held' = held
  BY DEF AddRevision
<1>2. current # NoCurrent
  BY <1>1 DEF Writing, Coming
<1>3. current.id \in DOMAIN wiki.pages
  BY <1>2, CurrentFacts DEF Writing
<1>4. /\ RevisionsOf(current.id) = wiki.pages[current.id].revs
      /\ r \in wiki.pages[current.id].revs
  BY <1>1, <1>2, <1>3, RevisionsOfWiki DEF Writing, Coming
<1>5. /\ IsDump(replica)' /\ Shape(dump)'
      /\ CurrentIs' /\ PagesAre' /\ RevisionsAre' /\ NewOnes'
      /\ current'.id = current.id /\ current'.page.revs = current.page.revs \cup {r}
      /\ current' # NoCurrent
  BY <1>1, <1>2, <1>4, AddsStep
<1>6. scope' = scope /\ wiki' = wiki /\ last' = last
  BY <1>1 DEF WriterAddsRevision, wikiVars
<1>7. Coming'
  BY <1>1, <1>2, <1>4, <1>5, <1>6 DEF Writing, Coming
<1>. QED
  BY <1>5, <1>7 DEF Writing

\* The revision that is held is the latest when nothing more comes.
LEMMA HoldStep ==
    ASSUME Given, Writing, NEW r \in Revisions, HoldRevision(r)
    PROVE  Writing'
<1>. USE DEF HoldRevision, applyVars
<1>1. IncludedPages' = IncludedPages /\ \A q : RevisionsOf(q)' = RevisionsOf(q)
  BY SameWiki
<1>2. scope' = scope /\ wiki' = wiki /\ last' = last
  BY DEF wikiVars
<1>3. Finished' = Finished
  BY <1>1 DEF Finished
<1>4. CurrentIs'
  BY <1>1, <1>2 DEF Writing, CurrentIs, OldPage
<1>5. PagesAre'
  BY <1>1, <1>2, <1>3 DEF Writing, PagesAre
<1>6. RevisionsAre'
  BY <1>1, <1>2, <1>3 DEF Writing, RevisionsAre, IsPassed, IsLeft
<1>7. NewOnes'
  BY <1>1, <1>2, <1>3 DEF Writing, NewOnes, IsPassed, OldRevs
<1>8. Coming'
  BY <1>2 DEF Writing, Coming
<1>. QED
  BY <1>4, <1>5, <1>6, <1>7, <1>8 DEF Writing

\* The page gets the one revision that is held.
LEMMA PassStep ==
    ASSUME Given, Writing, PassRevision
    PROVE  Writing'
<1>1. /\ current # NoCurrent /\ coming = {} /\ scope.current /\ current.page.revs = {}
      /\ held # None /\ held' = None /\ coming' = coming
      /\ WriterAddsRevision(held)
  BY DEF PassRevision, NothingPassed
<1>2. current.id \in DOMAIN wiki.pages
  BY <1>1, CurrentFacts DEF Writing
<1>3. held = last[current.id]
  BY <1>1 DEF Writing, Coming
<1>4. held \in RevisionsOf(current.id)
  BY <1>1, <1>2, <1>3, RevisionsOfWiki
<1>5. /\ IsDump(replica)' /\ Shape(dump)'
      /\ CurrentIs' /\ PagesAre' /\ RevisionsAre' /\ NewOnes'
      /\ current'.id = current.id /\ current'.page.revs = current.page.revs \cup {held}
      /\ current' # NoCurrent
  BY <1>1, <1>4, AddsStep
<1>6. scope' = scope /\ wiki' = wiki /\ last' = last
  BY <1>1 DEF WriterAddsRevision, wikiVars
<1>7. Coming'
  BY <1>1, <1>3, <1>5, <1>6 DEF Coming
<1>. QED
  BY <1>5, <1>7 DEF Writing

\* The page has all its revisions, and those it has lost are deleted unless
\* another page has them.
LEMMA EndStep ==
    ASSUME Given, Writing, EndPage
    PROVE  Writing'
<1>. USE DEF applyVars, streamVars
<1> DEFINE id   == current.id
           mid  == PagePut(dump, id, current.page)
           lost == (current.old.revs \ current.page.revs) \ newRevisionIds
<1>1. /\ current # NoCurrent /\ coming = {} /\ ~ NothingPassed
      /\ dump' = RevisionsDropped(mid, current.old.revs \ current.page.revs, newRevisionIds)
      /\ current' = NoCurrent
      /\ UNCHANGED <<wikiVars, todo, coming, held, unvisited, newRevisionIds, replica>>
  BY DEF EndPage
<1>2. IncludedPages' = IncludedPages /\ \A q : RevisionsOf(q)' = RevisionsOf(q)
  BY <1>1, SameWiki
<1>3. scope' = scope /\ wiki' = wiki /\ last' = last
  BY <1>1 DEF wikiVars
<1>4. /\ id \in IncludedPages \ todo /\ id \in DOMAIN wiki.pages /\ id # None
      /\ current.old.revs = OldRevs(id)
  BY <1>1, CurrentFacts DEF Writing
<1>5. current.page.revs = RevisionsOf(id)
  <2>1. CASE scope.current
    <3>1. current.page.revs = {last[id]} /\ last[id] # None
      BY <1>1, <2>1 DEF Writing, Coming, NothingPassed
    <3>. QED
      BY <1>4, <2>1, <3>1, RevisionsOfWiki
  <2>2. CASE ~ scope.current
    BY <1>1, <1>4, <2>2, RevisionsOfWiki DEF Writing, Coming
  <2>. QED
    BY <2>1, <2>2
<1>6. current.page = Page(wiki.pages[id].title, RevisionsOf(id))
  BY <1>1, <1>5 DEF Writing, CurrentIs
<1>7. /\ Shape(mid) /\ mid.revisions = dump.revisions
      /\ DOMAIN mid.pages = DOMAIN dump.pages \cup {id}
      /\ mid.pages[id] = current.page
      /\ \A q \in DOMAIN dump.pages : q # id => mid.pages[q] = dump.pages[q]
  BY PutPage DEF Writing
<1>8. /\ Shape(dump')
      /\ DOMAIN dump'.pages = DOMAIN dump.pages \cup {id}
      /\ dump'.pages[id] = current.page
      /\ \A q \in DOMAIN dump.pages : q # id => dump'.pages[q] = dump.pages[q]
      /\ DOMAIN dump'.revisions = DOMAIN dump.revisions \ lost
      /\ \A s \in DOMAIN dump'.revisions : dump'.revisions[s] = dump.revisions[s]
  <2>. HIDE DEF mid
  <2>. QED
    BY <1>1, <1>7, DropRevisions
<1>9. Finished' = Finished \cup {id} /\ id \notin Finished
  BY <1>1, <1>2, <1>4, RevisionsOfWiki DEF Finished, IncludedPages, NoCurrent
<1>10. current'.page.revs = {} /\ current'.old.revs = {} /\ current'.id = None
  BY <1>1 DEF NoCurrent, NoPage, Page
<1>11. id \notin unvisited
  BY <1>4 DEF Writing, PagesAre
<1>. HIDE DEF mid
<1>12. CurrentIs'
  BY <1>1 DEF CurrentIs
<1>13. PagesAre'
  <2>. USE DEF Writing, PagesAre
  <2>1. /\ todo' \subseteq DOMAIN wiki'.pages
        /\ unvisited' \subseteq DOMAIN replica'.pages \ (IncludedPages \ todo)'
        /\ ((todo \cap IncludedPages) \cap DOMAIN replica.pages)' \subseteq unvisited'
        /\ unvisited' \subseteq DOMAIN dump'.pages
    BY <1>1, <1>2, <1>3, <1>8
  <2>2. ASSUME NEW q \in DOMAIN dump'.pages
        PROVE  q \in Finished' \/ q \in unvisited'
    BY <1>1, <1>8, <1>9
  <2>3. ASSUME NEW q \in Finished'
        PROVE  /\ q \in DOMAIN dump'.pages
               /\ dump'.pages[q] = Page(wiki'.pages[q].title, RevisionsOf(q)')
    BY <1>2, <1>3, <1>6, <1>8, <1>9
  <2>4. ASSUME NEW q \in DOMAIN dump'.pages \ Finished'
        PROVE  dump'.pages[q] = replica'.pages[q]
    BY <1>1, <1>8, <1>9
  <2>. QED
    BY <2>1, <2>2, <2>3, <2>4
<1>14. \A r : IsPassed(r)' <=> IsPassed(r)
  BY <1>2, <1>5, <1>9, <1>10 DEF IsPassed
<1>15. \A r : IsLeft(r)' <=> \E p \in unvisited : r \in replica.pages[p].revs
  BY <1>1, <1>10 DEF IsLeft
<1>16. \A r : IsPassed(r) => r \notin lost
  <2>. SUFFICES ASSUME NEW r, IsPassed(r), r \in OldRevs(id), r \notin current.page.revs
                PROVE  r \in newRevisionIds
    BY <1>4
  <2>1. PICK q \in Finished : r \in RevisionsOf(q)
    BY DEF IsPassed
  <2>2. r \notin OldRevs(q)
    BY <1>9, <2>1 DEF OldRevs, Writing, IsDump
  <2>. QED
    BY <2>1, <2>2 DEF Writing, NewOnes
<1>17. \A r : IsLeft(r)' => r \notin lost
  BY <1>4, <1>11, <1>15 DEF OldRevs, Writing, IsDump, PagesAre
<1>18. RevisionsAre'
  <2>1. ASSUME NEW r, IsPassed(r)'
        PROVE  r \in DOMAIN dump'.revisions /\ dump'.revisions[r] = wiki'.revisions[r]
    BY <1>3, <1>8, <1>14, <1>16, <2>1 DEF Writing, RevisionsAre
  <2>2. ASSUME NEW r, IsLeft(r)'
        PROVE  r \in DOMAIN dump'.revisions
    BY <1>8, <1>15, <1>17, <2>2 DEF Writing, RevisionsAre, IsLeft
  <2>3. ASSUME NEW r \in DOMAIN dump'.revisions
        PROVE  IsPassed(r)' \/ IsLeft(r)'
    <3>1. r \in DOMAIN dump.revisions /\ r \notin lost
      BY <1>8
    <3>2. CASE IsPassed(r)
      BY <1>14, <3>2
    <3>3. CASE r \in current.old.revs
      BY <1>14, <3>1, <3>3 DEF Writing, NewOnes, IsPassed
    <3>. QED
      BY <1>15, <3>1, <3>2, <3>3 DEF Writing, RevisionsAre, IsLeft
  <2>. QED
    BY <2>1, <2>2, <2>3 DEF RevisionsAre
<1>19. NewOnes'
  <2>1. \A r \in newRevisionIds' : IsPassed(r)'
    BY <1>1, <1>14 DEF Writing, NewOnes
  <2>2. ASSUME NEW p \in Finished', NEW r \in RevisionsOf(p)', r \notin OldRevs(p)'
        PROVE  r \in newRevisionIds'
    BY <1>1, <1>2, <1>4, <1>5, <1>9, <2>2 DEF Writing, NewOnes, OldRevs
  <2>. QED
    BY <1>10, <2>1, <2>2 DEF NewOnes
<1>20. Coming'
  <2>1. scope.current => held = None
    BY <1>1, <1>4, RevisionsOfWiki DEF Writing, Coming, NothingPassed
  <2>. QED
    BY <1>1, <1>3, <2>1 DEF Coming
<1>. QED
  BY <1>1, <1>8, <1>12, <1>13, <1>18, <1>19, <1>20 DEF Writing

\* A page that has not been sent goes, with the revisions no page took.
LEMMA DeleteStep ==
    ASSUME Given, Writing, DeleteUnvisited
    PROVE  Writing'
<1>. USE DEF applyVars, streamVars
<1> DEFINE p    == Min(unvisited)
           mid  == RevisionsDropped(dump, dump.pages[p].revs, newRevisionIds)
           lost == replica.pages[p].revs \ newRevisionIds
<1>1. /\ current = NoCurrent /\ todo = {} /\ unvisited # {}
      /\ unvisited' = unvisited \ {p}
      /\ dump' = PageDropped(mid, p)
      /\ UNCHANGED <<wikiVars, todo, coming, held, newRevisionIds, current, replica>>
  BY DEF DeleteUnvisited
<1>2. p \in unvisited
  <2>1. unvisited \subseteq Nat
    BY UpdateAssumption DEF Writing, PagesAre, IsDump
  <2>. QED
    BY <1>1, <2>1, LeastExists
<1>. HIDE DEF p
<1>3. IncludedPages' = IncludedPages /\ \A q : RevisionsOf(q)' = RevisionsOf(q)
  BY <1>1, SameWiki
<1>4. scope' = scope /\ wiki' = wiki /\ last' = last
  BY <1>1 DEF wikiVars
<1>5. current.page.revs = {} /\ current.old.revs = {} /\ current.id \notin IncludedPages
  BY <1>1, CurrentFacts DEF Writing
<1>6. Finished' = Finished /\ p \notin Finished
  BY <1>1, <1>2, <1>3 DEF Finished, Writing, PagesAre
<1>7. p \in DOMAIN dump.pages /\ dump.pages[p] = replica.pages[p] /\ p \in DOMAIN replica.pages
  BY <1>2, <1>6 DEF Writing, PagesAre
<1>8. /\ Shape(mid) /\ mid.pages = dump.pages
      /\ DOMAIN mid.revisions = DOMAIN dump.revisions \ lost
      /\ \A s \in DOMAIN mid.revisions : mid.revisions[s] = dump.revisions[s]
  BY <1>7, DropRevisions DEF Writing
<1>9. /\ Shape(dump')
      /\ DOMAIN dump'.pages = DOMAIN dump.pages \ {p}
      /\ \A q \in DOMAIN dump'.pages : dump'.pages[q] = dump.pages[q]
      /\ DOMAIN dump'.revisions = DOMAIN dump.revisions \ lost
      /\ \A s \in DOMAIN dump'.revisions : dump'.revisions[s] = dump.revisions[s]
  <2>. HIDE DEF mid
  <2>. QED
    BY <1>1, <1>8, DropPage
<1>. HIDE DEF mid
<1>10. CurrentIs'
  BY <1>1 DEF CurrentIs
<1>11. PagesAre'
  BY <1>1, <1>3, <1>4, <1>6, <1>9 DEF Writing, PagesAre
<1>12. \A r : IsPassed(r)' <=> IsPassed(r)
  BY <1>1, <1>3, <1>6 DEF IsPassed
<1>13. \A r : IsLeft(r)' <=> \E q \in unvisited \ {p} : r \in replica.pages[q].revs
  BY <1>1, <1>5 DEF IsLeft
<1>14. \A r : IsPassed(r) => r \notin lost
  <2>. SUFFICES ASSUME NEW r, IsPassed(r), r \in replica.pages[p].revs
                PROVE  r \in newRevisionIds
    OBVIOUS
  <2>1. PICK q \in Finished : r \in RevisionsOf(q)
    BY <1>5 DEF IsPassed
  <2>2. r \notin OldRevs(q)
    BY <1>6, <1>7, <2>1 DEF OldRevs, Writing, IsDump
  <2>. QED
    BY <2>1, <2>2 DEF Writing, NewOnes
<1>15. \A r : IsLeft(r)' => r \notin lost
  BY <1>7, <1>13 DEF Writing, IsDump, PagesAre
<1>16. RevisionsAre'
  <2>1. ASSUME NEW r, IsPassed(r)'
        PROVE  r \in DOMAIN dump'.revisions /\ dump'.revisions[r] = wiki'.revisions[r]
    BY <1>4, <1>9, <1>12, <1>14, <2>1 DEF Writing, RevisionsAre
  <2>2. ASSUME NEW r, IsLeft(r)'
        PROVE  r \in DOMAIN dump'.revisions
    BY <1>9, <1>13, <1>15, <2>2 DEF Writing, RevisionsAre, IsLeft
  <2>3. ASSUME NEW r \in DOMAIN dump'.revisions
        PROVE  IsPassed(r)' \/ IsLeft(r)'
    <3>1. r \in DOMAIN dump.revisions /\ r \notin lost
      BY <1>9
    <3>2. CASE IsPassed(r)
      BY <1>12, <3>2
    <3>3. CASE r \in replica.pages[p].revs
      BY <1>12, <3>1, <3>3 DEF Writing, NewOnes
    <3>. QED
      BY <1>5, <1>13, <3>1, <3>2, <3>3 DEF Writing, RevisionsAre, IsLeft
  <2>. QED
    BY <2>1, <2>2, <2>3 DEF RevisionsAre
<1>17. NewOnes'
  BY <1>1, <1>3, <1>5, <1>6, <1>12 DEF Writing, NewOnes, OldRevs
<1>18. Coming'
  BY <1>1, <1>4 DEF Writing, Coming
<1>. QED
  BY <1>1, <1>9, <1>10, <1>11, <1>16, <1>17, <1>18 DEF Writing

\* When nothing is left to send and to visit, what was passed is all there is.
LEMMA CompleteStep ==
    ASSUME Given, Writing, Complete
    PROVE  dump = Filtered /\ coming = {} /\ current = NoCurrent
<1>1. current = NoCurrent /\ todo = {} /\ unvisited = {}
  BY DEF Complete
<1>2. /\ current.page.revs = {} /\ current.old.revs = {} /\ current.id = None
      /\ current.id \notin IncludedPages
  BY <1>1, CurrentFacts DEF Writing
<1>3. Finished = IncludedPages
  BY <1>1, <1>2 DEF Finished
<1>4. /\ DOMAIN dump.pages = IncludedPages
      /\ \A p \in IncludedPages : dump.pages[p] = Page(wiki.pages[p].title, RevisionsOf(p))
  <2>1. None \notin DOMAIN replica.pages
    BY UpdateAssumption DEF Writing, IsDump
  <2>. QED
    BY <1>1, <1>2, <1>3, <2>1 DEF Writing, PagesAre
<1>5. dump.pages = [p \in IncludedPages |-> Page(wiki.pages[p].title, RevisionsOf(p))]
  <2>1. dump.pages = [p \in DOMAIN dump.pages |-> dump.pages[p]]
    BY DEF Writing, Shape, IsFunction
  <2>. QED
    BY <1>4, <2>1
<1>6. \A r : r \in DOMAIN dump.revisions <=> \E p \in IncludedPages : r \in RevisionsOf(p)
  BY <1>1, <1>2, <1>3 DEF Writing, RevisionsAre, IsPassed, IsLeft
<1>7. DOMAIN dump.revisions = UNION {RevisionsOf(p) : p \in IncludedPages}
  BY <1>6
<1>8. \A r \in DOMAIN dump.revisions : dump.revisions[r] = wiki.revisions[r]
  BY <1>3, <1>6 DEF Writing, RevisionsAre, IsPassed
<1>9. dump.revisions = Restrict(wiki.revisions, UNION {RevisionsOf(p) : p \in IncludedPages})
  <2>1. dump.revisions = [r \in DOMAIN dump.revisions |-> dump.revisions[r]]
    BY DEF Writing, Shape, IsFunction
  <2>. QED
    BY <1>7, <1>8, <2>1 DEF Restrict
<1>10. dump = [pages |-> dump.pages, revisions |-> dump.revisions]
  BY DEF Writing, Shape
<1>11. coming = {}
  BY <1>1 DEF Writing, Coming
<1>. QED
  BY <1>1, <1>5, <1>9, <1>10, <1>11 DEF Filtered

\* A writer that has stopped at a page without revisions does nothing more.
LEMMA NothingWhenStuck ==
    ASSUME Stuck
    PROVE  /\ \A r \in Revisions : ~ AddRevision(r) /\ ~ HoldRevision(r)
           /\ ~ PassRevision /\ ~ EndPage
BY DEF Stuck, AddRevision, HoldRevision, PassRevision, EndPage

------------------------------------------------------------------------------
(* The results. *)

\* Applying the diff dump to the copy leaves the dump alone.
LEMMA ApplyStep ==
    ASSUME Apply
    PROVE  /\ phase = "completed" /\ phase' \in {"completed", "applied", "failed"}
           /\ UNCHANGED <<wikiVars, dump, coming, current>>
BY DEF Apply, ApplyNewPage, ApplyPageChange, ApplyNewRevision, ApplyRevisionChange,
       ApplyDeleteRevision, ApplyFullDelete, ApplyPartialDelete, ApplyComplete, Next1, Done,
       Fail, writerVars, streamVars

\* Which steps there are while the dump is written, and where they lead.
LEMMA WriteStep ==
    ASSUME Given, phase \in {"writing", "crashed"} => Writing, phase = "crashed" => Stuck,
           phase \notin {"writing", "crashed"} => current = NoCurrent /\ coming = {},
           Write
    PROVE  /\ phase = "writing" /\ UNCHANGED wikiVars
           /\ \/ phase' = "writing" /\ Writing'
              \/ phase' = "crashed" /\ Writing' /\ Stuck'
              \/ phase' = "completed" /\ dump' = Filtered /\ coming' = {} /\ current' = NoCurrent
<1>1. ASSUME NEW p \in Pages, SkipPage(p)
      PROVE  phase = "writing" /\ phase' = "writing" /\ UNCHANGED wikiVars /\ Writing'
  BY <1>1, SkipStep DEF SkipPage
<1>2. ASSUME NEW p \in Pages, StartPage(p)
      PROVE  phase = "writing" /\ phase' = "writing" /\ UNCHANGED wikiVars /\ Writing'
  BY <1>2, StartStep DEF StartPage
<1>3. ASSUME NEW r \in Revisions, AddRevision(r)
      PROVE  phase = "writing" /\ phase' = "writing" /\ UNCHANGED wikiVars /\ Writing'
  <2>1. phase \in {"writing", "crashed"} /\ phase # "crashed"
    BY <1>3, NothingWhenStuck DEF AddRevision
  <2>2. UNCHANGED <<wikiVars, phase>>
    BY <1>3 DEF AddRevision, WriterAddsRevision
  <2>. QED
    BY <1>3, <2>1, <2>2, AddStep
<1>4. ASSUME NEW r \in Revisions, HoldRevision(r)
      PROVE  phase = "writing" /\ phase' = "writing" /\ UNCHANGED wikiVars /\ Writing'
  <2>1. phase \in {"writing", "crashed"} /\ phase # "crashed"
    BY <1>4, NothingWhenStuck DEF HoldRevision
  <2>2. UNCHANGED <<wikiVars, phase>>
    BY <1>4 DEF HoldRevision
  <2>. QED
    BY <1>4, <2>1, <2>2, HoldStep
<1>5. ASSUME PassRevision
      PROVE  phase = "writing" /\ phase' = "writing" /\ UNCHANGED wikiVars /\ Writing'
  <2>1. phase \in {"writing", "crashed"} /\ phase # "crashed"
    BY <1>5, NothingWhenStuck DEF PassRevision
  <2>2. UNCHANGED <<wikiVars, phase>>
    BY <1>5 DEF PassRevision, WriterAddsRevision
  <2>. QED
    BY <1>5, <2>1, <2>2, PassStep
<1>6. ASSUME PassNothing
      PROVE  /\ phase = "writing" /\ phase' = "crashed" /\ UNCHANGED wikiVars
             /\ Writing' /\ Stuck'
  <2>. USE <1>6 DEF PassNothing
  <2>1. /\ phase = "writing" /\ phase' = "crashed" /\ UNCHANGED <<wikiVars, dump, replica>>
        /\ UNCHANGED <<todo, coming, held, unvisited, newRevisionIds, current>>
    BY DEF writerVars, streamVars, applyVars
  <2>2. IncludedPages' = IncludedPages /\ \A q : RevisionsOf(q)' = RevisionsOf(q)
    BY SameWiki
  <2>3. scope' = scope /\ wiki' = wiki /\ last' = last
    BY DEF wikiVars
  <2>4. Finished' = Finished
    BY <2>1, <2>2 DEF Finished
  <2>5. CurrentIs' /\ PagesAre' /\ Coming'
    BY <2>1, <2>2, <2>3, <2>4 DEF Writing, CurrentIs, OldPage, PagesAre, Coming
  <2>6. RevisionsAre' /\ NewOnes'
    BY <2>1, <2>2, <2>3, <2>4 DEF Writing, RevisionsAre, NewOnes, IsPassed, IsLeft, OldRevs
  <2>7. Stuck'
    BY <2>1, <2>3 DEF Stuck, NothingPassed
  <2>. QED
    BY <2>1, <2>5, <2>6, <2>7 DEF Writing
<1>7. ASSUME EndPage
      PROVE  phase = "writing" /\ phase' = "writing" /\ UNCHANGED wikiVars /\ Writing'
  <2>1. phase \in {"writing", "crashed"} /\ phase # "crashed"
    BY <1>7, NothingWhenStuck DEF EndPage
  <2>2. UNCHANGED <<wikiVars, phase>>
    BY <1>7 DEF EndPage
  <2>. QED
    BY <1>7, <2>1, <2>2, EndStep
<1>8. ASSUME DeleteUnvisited
      PROVE  phase = "writing" /\ phase' = "writing" /\ UNCHANGED wikiVars /\ Writing'
  BY <1>8, DeleteStep DEF DeleteUnvisited
<1>9. ASSUME Complete
      PROVE  /\ phase = "writing" /\ phase' = "completed" /\ UNCHANGED wikiVars
             /\ dump' = Filtered /\ coming' = {} /\ current' = NoCurrent
  <2>1. phase = "writing" /\ phase' = "completed" /\ UNCHANGED <<wikiVars, dump, coming, current>>
    BY <1>9 DEF Complete, writerVars, streamVars
  <2>. QED
    BY <1>9, <2>1, CompleteStep
<1>. QED
  BY <1>1, <1>2, <1>3, <1>4, <1>5, <1>6, <1>7, <1>8, <1>9 DEF Write

\* A step of something else.
LEMMA StutterStep ==
    ASSUME IInv, UNCHANGED vars
    PROVE  IInv'
<1>1. /\ UNCHANGED <<wikiVars, phase, dump, replica>>
      /\ UNCHANGED <<todo, coming, held, unvisited, newRevisionIds, current>>
  BY DEF vars, writerVars, streamVars, applyVars
<1>2. /\ IncludedPages' = IncludedPages /\ \A q : RevisionsOf(q)' = RevisionsOf(q)
      /\ Filtered' = Filtered /\ Given'
  BY <1>1, SameWiki DEF IInv
<1>3. scope' = scope /\ wiki' = wiki /\ last' = last
  BY <1>1 DEF wikiVars
<1>4. Finished' = Finished
  BY <1>1, <1>2 DEF Finished
<1>5. ASSUME Writing
      PROVE  Writing'
  <2>1. CurrentIs' /\ PagesAre' /\ Coming'
    BY <1>1, <1>2, <1>3, <1>4, <1>5 DEF Writing, CurrentIs, OldPage, PagesAre, Coming
  <2>2. RevisionsAre' /\ NewOnes'
    BY <1>1, <1>2, <1>3, <1>4, <1>5
    DEF Writing, RevisionsAre, NewOnes, IsPassed, IsLeft, OldRevs
  <2>. QED
    BY <1>1, <1>5, <2>1, <2>2 DEF Writing
<1>6. Stuck' = Stuck
  BY <1>1, <1>3 DEF Stuck, NothingPassed
<1>. QED
  BY <1>1, <1>2, <1>5, <1>6 DEF IInv

\* Every step keeps the invariant.
LEMMA NextKeeps ==
    ASSUME IInv, [Next]_vars
    PROVE  IInv'
<1>1. CASE Write
  <2>1. /\ phase = "writing" /\ UNCHANGED wikiVars
        /\ \/ phase' = "writing" /\ Writing'
           \/ phase' = "crashed" /\ Writing' /\ Stuck'
           \/ phase' = "completed" /\ dump' = Filtered /\ coming' = {} /\ current' = NoCurrent
    BY <1>1, WriteStep DEF IInv
  <2>2. Given' /\ Filtered' = Filtered
    BY <2>1, SameWiki DEF IInv
  <2>. QED
    BY <2>1, <2>2 DEF IInv
<1>2. CASE Apply
  <2>1. /\ phase = "completed" /\ phase' \in {"completed", "applied", "failed"}
        /\ UNCHANGED <<wikiVars, dump, coming, current>>
    BY <1>2, ApplyStep
  <2>2. Given' /\ Filtered' = Filtered
    BY <2>1, SameWiki DEF IInv
  <2>. QED
    BY <2>1, <2>2 DEF IInv
<1>3. CASE UNCHANGED vars
  BY <1>3, StutterStep
<1>. QED
  BY <1>1, <1>2, <1>3 DEF Next

\* Of each revision in the dump that is being written it is known where it
\* comes from or where it went.
THEOREM Invariance == Spec => []IInv
BY InitStep, NextKeeps, PTL DEF Spec

\* The dump becomes the wiki, or the part of it that its spec asks for: no
\* page and no revision is missing, old or left over, however they moved.
THEOREM DumpBecomesWiki == Spec => []DumpIsWiki
<1>1. IInv => DumpIsWiki
  BY DEF IInv, DumpIsWiki
<1>. QED
  BY <1>1, Invariance, PTL

\* Moving a revision never deletes it under its new page.
THEOREM ListedStayStored == Spec => []ListedAreStored
<1>1. IInv => ListedAreStored
  <2>1. ASSUME IInv, Writing, NEW p \in DOMAIN dump.pages, NEW r \in dump.pages[p].revs
        PROVE  r \in DOMAIN dump.revisions
    <3>1. CASE p \in Finished
      <4>1. r \in RevisionsOf(p)
        <5>1. dump.pages[p] = Page(wiki.pages[p].title, RevisionsOf(p))
          BY <2>1, <3>1 DEF Writing, PagesAre
        <5>. QED
          BY <5>1 DEF Page
      <4>. QED
        BY <2>1, <3>1, <4>1 DEF Writing, RevisionsAre, IsPassed
    <3>2. CASE p \notin Finished
      <4>1. dump.pages[p] = replica.pages[p] /\ p \in DOMAIN replica.pages
        BY <2>1, <3>2 DEF Writing, PagesAre
      <4>2. CASE p \in unvisited
        BY <2>1, <4>1, <4>2 DEF Writing, RevisionsAre, IsLeft
      <4>3. CASE p = current.id
        <5>1. current # NoCurrent
          BY <2>1, <4>1, <4>3, UpdateAssumption DEF Writing, IsDump, NoCurrent
        <5>2. r \in current.old.revs
          BY <2>1, <4>1, <4>3, <5>1, CurrentFacts DEF IInv, Writing, OldRevs
        <5>. QED
          BY <2>1, <5>2 DEF Writing, RevisionsAre, IsLeft
      <4>. QED
        BY <2>1, <3>2, <4>2, <4>3 DEF Writing, PagesAre
    <3>. QED
      BY <3>1, <3>2
  <2>2. ASSUME IInv, dump = Filtered, NEW p \in DOMAIN dump.pages, NEW r \in dump.pages[p].revs
        PROVE  r \in DOMAIN dump.revisions
    <3>1. p \in IncludedPages /\ r \in RevisionsOf(p)
      BY <2>2 DEF Filtered, Page
    <3>. QED
      BY <2>2, <3>1 DEF Filtered, Restrict
  <2>. QED
    BY <2>1, <2>2 DEF IInv, ListedAreStored
<1>. QED
  BY <1>1, Invariance, PTL

------------------------------------------------------------------------------
(* What the records of a diff dump do to a file.  Sequences of steps compose, *)
(* so no induction over the records is needed: what has been recorded leads   *)
(* from the old dump to a file, and each step of the writer leads on.         *)

\* A file, with the page that is changed and not written yet.
Flushed(file, page) == IF page = NoCurrent THEN file ELSE PagePut(file, page.id, page.page)

\* The record c takes the file from f, with the page t, to g, with the page u.
Applies(c, f, t, g, u) ==
    \/ /\ c.kind = "NewPage"
       /\ g = Flushed(f, t) /\ u = Target(c.id, Page(c.to, {}))
    \/ /\ c.kind = "PageChange"
       /\ Has(Flushed(f, t).pages, c.id)
       /\ g = Flushed(f, t)
       /\ u = Target(c.id, IF c.to = None THEN g.pages[c.id]
                           ELSE [g.pages[c.id] EXCEPT !.title = c.to])
    \/ /\ c.kind = "NewRevision"
       /\ t # NoCurrent
       /\ g = RevisionPut(f, c.id, c.to) /\ u = [t EXCEPT !.page.revs = @ \cup {c.id}]
    \/ /\ c.kind = "RevisionChange"
       /\ t # NoCurrent /\ Has(f.revisions, c.id)
       /\ g = IF c.to = None THEN f ELSE RevisionPut(f, c.id, c.to)
       /\ u = [t EXCEPT !.page.revs = @ \cup {c.id}]
    \/ /\ c.kind = "DeleteRevision"
       /\ t # NoCurrent /\ Has(f.revisions, c.id)
       /\ g = RevisionsDropped(f, {c.id}, {}) /\ u = [t EXCEPT !.page.revs = @ \ {c.id}]
    \/ /\ c.kind = "FullDelete"
       /\ Has(f.pages, c.id) /\ f.pages[c.id].revs \subseteq DOMAIN f.revisions
       /\ g = PageDropped(RevisionsDropped(f, f.pages[c.id].revs, {}), c.id) /\ u = t
    \/ /\ c.kind = "PartialDelete"
       /\ Has(f.pages, c.id)
       /\ g = PageDropped(f, c.id) /\ u = t

IsSeq(s) == \E S : s \in Seq(S)

\* All the records, one after the other, do so: none of them fails.
Leads(records, f, t, g, u) ==
    /\ IsSeq(records)
    /\ \E files, pages :
        /\ files[0] = f /\ pages[0] = t
        /\ files[Len(records)] = g /\ pages[Len(records)] = u
        /\ \A i \in 1 .. Len(records) :
            Applies(records[i], files[i - 1], pages[i - 1], files[i], pages[i])

------------------------------------------------------------------------------
(* The invariant. *)

\* A page took no revision from a page that the wiki sent later.
InOrder ==
    \A p \in IncludedPages \ todo : \A r \in RevisionsOf(p) :
        \A q \in IncludedPages : q # p /\ r \in OldRevs(q) =>
            q \in Finished

\* The file that the records so far lead to has what the dump has: all of it,
\* but for the current page, of which it has what was recorded.
Started(f, t) ==
    /\ t = Target(current.id, Page(wiki.pages[current.id].title,
                                   current.old.revs \cup current.page.revs))
    /\ DOMAIN f.pages \cup {current.id} = DOMAIN dump.pages \cup {current.id}
    /\ \A q \in DOMAIN dump.pages : q # current.id => f.pages[q] = dump.pages[q]

Unchanged(f, t) ==
    /\ Flushed(f, t) = dump
    /\ current # NoCurrent =>
            /\ current.id \in DOMAIN dump.pages
            /\ current.old.title = wiki.pages[current.id].title
            /\ current.page.revs \subseteq current.old.revs

Mirrors(f, t) ==
    /\ Shape(f) /\ f.revisions = dump.revisions
    /\ IF t = NoCurrent THEN newRevisionIds = {}
       ELSE /\ t.id \in IncludedPages \ todo
            /\ \E title, revs : t = Target(t.id, Page(title, revs))
    /\ IF current # NoCurrent /\ pageWritten THEN Started(f, t) ELSE Unchanged(f, t)

\* Nothing is written about a page that is as it was.
Quiet ==
    replica = Filtered =>
        /\ diff = <<>>
        /\ current # NoCurrent => ~ pageWritten
        /\ newRevisionIds = {} /\ dump.revisions = replica.revisions

\* Titles and contents are none of the marks for what is left out.
Named ==
    /\ \A p \in DOMAIN wiki.pages : wiki.pages[p].title # None
    /\ \A r \in DOMAIN wiki.revisions : wiki.revisions[r] # None

Recorded ==
    /\ Named
    /\ \A p \in DOMAIN replica.pages :
            replica.pages[p] = Page(replica.pages[p].title, replica.pages[p].revs)
    /\ target = NoCurrent
    /\ Quiet
    /\ ~ movedBack => InOrder /\ \E f, t : Leads(diff, replica, target, f, t) /\ Mirrors(f, t)

RInv ==
    /\ phase = "writing" => Recorded
    /\ phase = "crashed" => scope.current /\ \E p \in IncludedPages : wiki.pages[p].revs = {}
    /\ phase = "completed" /\ ~ movedBack =>
        \E f, t : Leads(diff, replica, target, f, t) /\ Flushed(f, t) = dump
    /\ phase = "applied" /\ ~ movedBack => replica = dump
    /\ phase = "failed" => movedBack

------------------------------------------------------------------------------
(* Sequences of records. *)

\* What two sequences of records are, one behind the other.
LEMMA JoinIs ==
    ASSUME NEW a, NEW b, IsSeq(a), IsSeq(b)
    PROVE  /\ IsSeq(a \o b)
           /\ Len(a) \in Nat /\ Len(b) \in Nat /\ Len(a \o b) = Len(a) + Len(b)
           /\ \A i \in 1 .. Len(a) : (a \o b)[i] = a[i]
           /\ \A i \in 1 .. Len(b) : (a \o b)[Len(a) + i] = b[i]
<1>1. PICK A : a \in Seq(A)
  BY DEF IsSeq
<1>2. PICK B : b \in Seq(B)
  BY DEF IsSeq
<1>3. PICK C : C = A \cup B
  OBVIOUS
<1>4. a \in Seq(C) /\ b \in Seq(C)
  BY <1>1, <1>2, <1>3
<1>5. a \o b \in Seq(C)
  BY <1>4
<1>. QED
  BY <1>4, <1>5 DEF IsSeq

\* What is left behind the first record.
LEMMA TailIs ==
    ASSUME NEW a, IsSeq(a), a # <<>>
    PROVE  /\ IsSeq(Tail(a)) /\ Len(a) \in Nat \ {0} /\ Len(Tail(a)) = Len(a) - 1
           /\ Head(a) = a[1]
           /\ \A i \in 1 .. Len(Tail(a)) : Tail(a)[i] = a[i + 1]
<1>1. PICK A : a \in Seq(A)
  BY DEF IsSeq
<1>2. Tail(a) \in Seq(A)
  BY <1>1
<1>. QED
  BY <1>1, <1>2 DEF IsSeq

\* No record and one.
LEMMA ShortSeq ==
    /\ IsSeq(<<>>) /\ Len(<<>>) = 0
    /\ \A c : IsSeq(<<c>>) /\ Len(<<c>>) = 1 /\ <<c>>[1] = c
<1>1. <<>> \in Seq({})
  OBVIOUS
<1>2. ASSUME NEW c PROVE <<c>> \in Seq({c})
  OBVIOUS
<1>. QED
  BY <1>1, <1>2 DEF IsSeq

\* Without a record nothing happens.
LEMMA LeadsNowhere ==
    ASSUME NEW f, NEW t
    PROVE  Leads(<<>>, f, t, f, t)
<1>1. PICK files : files = [i \in {0} |-> f]
  OBVIOUS
<1>2. PICK pages : pages = [i \in {0} |-> t]
  OBVIOUS
<1>. QED
  BY <1>1, <1>2, ShortSeq DEF Leads

\* One record.
LEMMA LeadsOne ==
    ASSUME NEW c, NEW f, NEW t, NEW g, NEW u, Applies(c, f, t, g, u)
    PROVE  Leads(<<c>>, f, t, g, u)
<1>1. PICK files : files = [i \in {0, 1} |-> IF i = 0 THEN f ELSE g]
  OBVIOUS
<1>2. PICK pages : pages = [i \in {0, 1} |-> IF i = 0 THEN t ELSE u]
  OBVIOUS
<1>3. /\ files[0] = f /\ files[1] = g /\ pages[0] = t /\ pages[1] = u
  BY <1>1, <1>2
<1>4. PICK a : a = <<c>>
  OBVIOUS
<1>5. IsSeq(a) /\ Len(a) = 1 /\ a[1] = c
  BY <1>4, ShortSeq
<1>6. \A i \in 1 .. Len(a) : Applies(a[i], files[i - 1], pages[i - 1], files[i], pages[i])
  <2>. SUFFICES ASSUME NEW i \in 1 .. Len(a), i = 1
                PROVE  Applies(a[i], files[i - 1], pages[i - 1], files[i], pages[i])
    BY <1>5
  <2>1. i - 1 = 0
    OBVIOUS
  <2>. QED
    BY <1>3, <1>5, <2>1
<1>7. Leads(a, f, t, g, u)
  BY <1>3, <1>5, <1>6 DEF Leads
<1>. QED
  BY <1>4, <1>7

\* One way behind the other.
LEMMA LeadsOn ==
    ASSUME NEW a, NEW b, NEW f, NEW t, NEW g, NEW u, NEW h, NEW v,
           Leads(a, f, t, g, u), Leads(b, g, u, h, v)
    PROVE  Leads(a \o b, f, t, h, v)
<1>1. IsSeq(a) /\ IsSeq(b)
  BY DEF Leads
<1>2. PICK fa, ta :
        /\ fa[0] = f /\ ta[0] = t /\ fa[Len(a)] = g /\ ta[Len(a)] = u
        /\ \A i \in 1 .. Len(a) : Applies(a[i], fa[i - 1], ta[i - 1], fa[i], ta[i])
  BY DEF Leads
<1>3. PICK fb, tb :
        /\ fb[0] = g /\ tb[0] = u /\ fb[Len(b)] = h /\ tb[Len(b)] = v
        /\ \A i \in 1 .. Len(b) : Applies(b[i], fb[i - 1], tb[i - 1], fb[i], tb[i])
  BY DEF Leads
<1>4. PICK c : c = a \o b
  OBVIOUS
<1>5. PICK n, m : n = Len(a) /\ m = Len(b)
  OBVIOUS
<1>6. /\ IsSeq(c) /\ n \in Nat /\ m \in Nat /\ Len(c) = n + m
      /\ \A i \in 1 .. n : c[i] = a[i]
      /\ \A i \in 1 .. m : c[n + i] = b[i]
  BY <1>1, <1>4, <1>5, JoinIs
<1>7. PICK files : files = [i \in 0 .. n + m |-> IF i < n THEN fa[i] ELSE fb[i - n]]
  OBVIOUS
<1>8. PICK pages : pages = [i \in 0 .. n + m |-> IF i < n THEN ta[i] ELSE tb[i - n]]
  OBVIOUS
<1>9. \A i \in 0 .. n : files[i] = fa[i] /\ pages[i] = ta[i]
  BY <1>2, <1>3, <1>5, <1>6, <1>7, <1>8
<1>10. \A i \in 0 .. m : files[n + i] = fb[i] /\ pages[n + i] = tb[i]
  <2>. SUFFICES ASSUME NEW i \in 0 .. m
                PROVE  files[n + i] = fb[i] /\ pages[n + i] = tb[i]
    OBVIOUS
  <2>1. PICK k \in Int : k = n + i
    BY <1>6
  <2>2. k \in 0 .. n + m /\ ~ k < n /\ k - n = i
    BY <1>6, <2>1
  <2>. QED
    BY <1>7, <1>8, <2>1, <2>2
<1>11. ASSUME NEW i \in 1 .. Len(c)
       PROVE  Applies(c[i], files[i - 1], pages[i - 1], files[i], pages[i])
  <2>1. CASE i =< n
    <3>1. i \in 1 .. n /\ i \in 0 .. n /\ i - 1 \in 0 .. n
      BY <1>6, <2>1
    <3>2. Applies(a[i], fa[i - 1], ta[i - 1], fa[i], ta[i])
      BY <1>2, <1>5, <3>1
    <3>. QED
      BY <1>6, <1>9, <3>1, <3>2
  <2>2. CASE ~ i =< n
    <3>1. PICK j : j = i - n
      OBVIOUS
    <3>2. j \in 1 .. m /\ j \in 0 .. m /\ j - 1 \in 0 .. m /\ n + j = i /\ n + (j - 1) = i - 1
      BY <1>6, <2>2, <3>1
    <3>3. Applies(b[j], fb[j - 1], tb[j - 1], fb[j], tb[j])
      BY <1>3, <1>5, <3>2
    <3>4. c[i] = b[j] /\ files[i] = fb[j] /\ pages[i] = tb[j]
      BY <1>6, <1>10, <3>2
    <3>5. files[i - 1] = fb[j - 1] /\ pages[i - 1] = tb[j - 1]
      BY <1>10, <3>2
    <3>. QED
      BY <3>3, <3>4, <3>5
  <2>. QED
    BY <2>1, <2>2
<1>12. /\ files[0] = f /\ pages[0] = t
       /\ files[Len(c)] = h /\ pages[Len(c)] = v
  <2>1. 0 \in 0 .. n /\ m \in 0 .. m
    BY <1>6
  <2>. QED
    BY <1>2, <1>3, <1>5, <1>6, <1>9, <1>10, <2>1
<1>13. Leads(c, f, t, h, v)
  BY <1>6, <1>11, <1>12 DEF Leads
<1>. QED
  BY <1>4, <1>13

\* The first record is applied, and the others after it.
LEMMA LeadsFirst ==
    ASSUME NEW a, a # <<>>, NEW f, NEW t, NEW h, NEW v, Leads(a, f, t, h, v)
    PROVE  \E g, u : Applies(Head(a), f, t, g, u) /\ Leads(Tail(a), g, u, h, v)
<1>1. PICK fa, ta :
        /\ fa[0] = f /\ ta[0] = t /\ fa[Len(a)] = h /\ ta[Len(a)] = v
        /\ \A i \in 1 .. Len(a) : Applies(a[i], fa[i - 1], ta[i - 1], fa[i], ta[i])
  BY DEF Leads
<1>2. PICK b : b = Tail(a)
  OBVIOUS
<1>3. PICK n : n = Len(a)
  OBVIOUS
<1>4. /\ IsSeq(b) /\ n \in Nat \ {0} /\ Len(b) = n - 1 /\ Head(a) = a[1]
      /\ \A i \in 1 .. n - 1 : b[i] = a[i + 1]
  BY <1>2, <1>3, TailIs DEF Leads
<1>5. PICK files : files = [i \in 0 .. n - 1 |-> fa[i + 1]]
  OBVIOUS
<1>6. PICK pages : pages = [i \in 0 .. n - 1 |-> ta[i + 1]]
  OBVIOUS
<1>7. /\ files[0] = fa[1] /\ pages[0] = ta[1]
      /\ files[n - 1] = h /\ pages[n - 1] = v
  <2>1. 0 \in 0 .. n - 1 /\ n - 1 \in 0 .. n - 1 /\ 0 + 1 = 1 /\ (n - 1) + 1 = n
    BY <1>4
  <2>. QED
    BY <1>1, <1>3, <1>5, <1>6, <2>1
<1>8. ASSUME NEW i \in 1 .. Len(b)
      PROVE  Applies(b[i], files[i - 1], pages[i - 1], files[i], pages[i])
  <2>1. PICK j : j = i + 1
    OBVIOUS
  <2>2. j \in 1 .. n /\ j - 1 = i /\ (i - 1) + 1 = i /\ i \in 0 .. n - 1 /\ i - 1 \in 0 .. n - 1
        /\ i \in 1 .. n - 1
    BY <1>4, <2>1
  <2>3. Applies(a[j], fa[j - 1], ta[j - 1], fa[j], ta[j])
    BY <1>1, <1>3, <2>2
  <2>4. b[i] = a[j]
    BY <1>4, <2>1, <2>2
  <2>5. files[i - 1] = fa[i] /\ pages[i - 1] = ta[i] /\ files[i] = fa[j] /\ pages[i] = ta[j]
    BY <1>5, <1>6, <2>1, <2>2
  <2>. QED
    BY <2>2, <2>3, <2>4, <2>5
<1>9. Leads(b, fa[1], ta[1], h, v)
  BY <1>4, <1>7, <1>8 DEF Leads
<1>10. Applies(a[1], f, t, fa[1], ta[1])
  <2>1. 1 \in 1 .. n /\ 1 - 1 = 0
    BY <1>4
  <2>. QED
    BY <1>1, <1>3, <2>1
<1>. QED
  BY <1>2, <1>4, <1>9, <1>10

------------------------------------------------------------------------------
(* Deleting several revisions, in the order of their ids. *)

\* Ids can be put in order.
LEMMA AscendingExists ==
    ASSUME NEW S, S \subseteq Nat, IsFiniteSet(S)
    PROVE  \E order \in [1 .. Cardinality(S) -> S] :
                \A i, j \in DOMAIN order : i < j => order[i] < order[j]
<1> DEFINE InOrderly(T) == \E order \in [1 .. Cardinality(T) -> T] :
                                \A i, j \in DOMAIN order : i < j => order[i] < order[j]
           Bad == {n \in Nat : \E T \in SUBSET Nat :
                        IsFiniteSet(T) /\ Cardinality(T) = n /\ ~ InOrderly(T)}
<1>. HIDE DEF InOrderly
<1>1. SUFFICES ASSUME Bad # {} PROVE FALSE
  <2>1. Cardinality(S) \in Nat
    BY FS_CardinalityType
  <2>2. InOrderly(S) \/ Cardinality(S) \in Bad
    BY <2>1
  <2>. QED
    BY <2>2 DEF InOrderly
<1>2. PICK n \in Bad : \A m \in Bad : n =< m
  BY <1>1, LeastExists
<1>3. PICK T \in SUBSET Nat : IsFiniteSet(T) /\ Cardinality(T) = n /\ ~ InOrderly(T)
  BY <1>2
<1>4. CASE T = {}
  <2>1. Cardinality(T) = 0
    BY <1>4, FS_EmptySet
  <2>2. PICK order : order = [i \in {} |-> 0]
    OBVIOUS
  <2>3. 1 .. Cardinality(T) = {}
    BY <2>1
  <2>4. order \in [1 .. Cardinality(T) -> T] /\ DOMAIN order = {}
    BY <2>2, <2>3
  <2>. QED
    BY <1>3, <2>4 DEF InOrderly
<1>5. CASE T # {}
  <2>1. PICK m : m = Min(T)
    OBVIOUS
  <2>2. m \in T /\ \A y \in T : m =< y
    BY <1>5, <2>1, LeastExists
  <2>3. PICK U : U = T \ {m}
    OBVIOUS
  <2>4. /\ IsFiniteSet(U) /\ Cardinality(U) = n - 1 /\ U \in SUBSET Nat
        /\ n - 1 \in Nat
    <3>1. IsFiniteSet(U) /\ Cardinality(U) = Cardinality(T) - 1
      BY <1>3, <2>2, <2>3, FS_RemoveElement
    <3>2. Cardinality(U) \in Nat
      BY <3>1, FS_CardinalityType
    <3>. QED
      BY <1>3, <2>3, <3>1, <3>2
  <2>5. InOrderly(U)
    <3>1. n \in Nat
      BY <1>2
    <3>2. n - 1 \notin Bad
      BY <1>2, <3>1
    <3>. QED
      BY <2>4, <3>2
  <2>6. PICK rest \in [1 .. n - 1 -> U] :
            \A i, j \in 1 .. n - 1 : i < j => rest[i] < rest[j]
    BY <2>4, <2>5 DEF InOrderly
  <2>7. PICK order : order = [i \in 1 .. n |-> IF i = 1 THEN m ELSE rest[i - 1]]
    OBVIOUS
  <2>8. \A i \in 1 .. n : i = 1 \/ i - 1 \in 1 .. n - 1
    BY <2>4
  <2>9. order \in [1 .. n -> T]
    BY <2>2, <2>3, <2>6, <2>7, <2>8
  <2>10. ASSUME NEW i \in 1 .. n, NEW j \in 1 .. n, i < j
         PROVE  order[i] < order[j]
    <3>1. j - 1 \in 1 .. n - 1 /\ j # 1
      BY <2>4, <2>10
    <3>2. order[j] = rest[j - 1] /\ rest[j - 1] \in U
      BY <2>6, <2>7, <3>1
    <3>3. CASE i = 1
      <4>1. order[i] = m
        BY <2>7, <3>3
      <4>2. order[j] \in Nat /\ m \in Nat /\ order[j] # m /\ m =< order[j]
        BY <1>3, <2>2, <2>3, <3>2
      <4>. QED
        BY <4>1, <4>2
    <3>4. CASE i # 1
      <4>1. i - 1 \in 1 .. n - 1 /\ i - 1 < j - 1
        BY <2>4, <2>10, <3>4
      <4>2. rest[i - 1] < rest[j - 1] /\ order[i] = rest[i - 1]
        BY <2>6, <2>7, <3>1, <3>4, <4>1
      <4>. QED
        BY <3>2, <4>2
    <3>. QED
      BY <3>3, <3>4
  <2>. QED
    BY <1>3, <2>9, <2>10 DEF InOrderly
<1>. QED
  BY <1>4, <1>5

\* Each id is there, and there once.
LEMMA AscendingIs ==
    ASSUME NEW S, S \subseteq Nat, IsFiniteSet(S)
    PROVE  LET order == Ascending(S)
               n     == Cardinality(S)
           IN  /\ n \in Nat
               /\ order \in [1 .. n -> S]
               /\ \A i, j \in 1 .. n : order[i] = order[j] => i = j
               /\ \A r \in S : \E i \in 1 .. n : order[i] = r
<1>1. PICK order : order = Ascending(S)
  OBVIOUS
<1>2. PICK n : n = Cardinality(S)
  OBVIOUS
<1>3. n \in Nat
  BY <1>2, FS_CardinalityType
<1>4. /\ order \in [1 .. n -> S]
      /\ \A i, j \in DOMAIN order : i < j => order[i] < order[j]
  BY <1>1, <1>2, AscendingExists DEF Ascending
<1>5. ASSUME NEW i \in 1 .. n, NEW j \in 1 .. n, order[i] = order[j]
      PROVE  i = j
  <2>1. order[i] \in Nat /\ DOMAIN order = 1 .. n
    BY <1>4
  <2>2. ~ i < j
    BY <1>4, <1>5, <2>1
  <2>3. ~ j < i
    BY <1>4, <1>5, <2>1
  <2>. QED
    BY <1>3, <2>2, <2>3
<1>6. ASSUME NEW r \in S, \A i \in 1 .. n : order[i] # r
      PROVE  FALSE
  <2>1. PICK U : U = S \ {r}
    OBVIOUS
  <2>2. IsFiniteSet(U) /\ Cardinality(U) = n - 1
    BY <1>2, <2>1, FS_RemoveElement
  <2>3. order \in [1 .. n -> U]
    BY <1>4, <1>6, <2>1
  <2>4. IsFiniteSet(1 .. n) /\ Cardinality(1 .. n) = n
    BY <1>3, FS_Interval
  <2>5. Cardinality(U) < Cardinality(1 .. n)
    BY <1>3, <2>2, <2>4
  <2>6. \E x, y \in 1 .. n : x # y /\ order[x] = order[y]
    BY <2>2, <2>3, <2>4, <2>5, FS_PigeonHole
  <2>. QED
    BY <1>5, <2>6
<1>. QED
  BY <1>1, <1>2, <1>3, <1>4, <1>5, <1>6

\* Which records there are.
LEMMA DeletesAre ==
    ASSUME NEW S, S \subseteq Nat, IsFiniteSet(S)
    PROVE  /\ IsSeq(DeleteRevisions(S)) /\ Len(DeleteRevisions(S)) = Cardinality(S)
           /\ (DeleteRevisions(S) = <<>>) = (S = {})
<1>1. PICK n : n = Cardinality(S)
  OBVIOUS
<1>2. n \in Nat /\ (n = 0 <=> S = {})
  BY <1>1, FS_CardinalityType, FS_EmptySet
<1>3. PICK d : d = DeleteRevisions(S)
  OBVIOUS
<1>4. PICK C : C = {DeleteRevision(Ascending(S)[i]) : i \in 1 .. n}
  OBVIOUS
<1>5. d \in [1 .. n -> C]
  BY <1>1, <1>3, <1>4 DEF DeleteRevisions
<1>6. d \in Seq(C) /\ Len(d) = n
  BY <1>2, <1>5
<1>7. (d = <<>>) = (n = 0)
  BY <1>2, <1>6
<1>. QED
  BY <1>1, <1>2, <1>3, <1>6, <1>7 DEF IsSeq

\* What becomes of the page that records are about.
LEMMA TargetIs ==
    ASSUME NEW p, NEW title, NEW revs, NEW t, t = Target(p, Page(title, revs))
    PROVE  /\ t.id = p /\ t.page = Page(title, revs)
           /\ p # None => t # NoCurrent
           /\ t.page.title = title /\ t.page.revs = revs
BY DEF Target, Page, NoCurrent

\* They are deleted from the file and taken out of the current page.
LEMMA LeadsDelete ==
    ASSUME NEW S, S \subseteq Nat, IsFiniteSet(S), NEW f, Shape(f), S \subseteq DOMAIN f.revisions,
           NEW p, p # None, NEW title, NEW revs
    PROVE  LET t == Target(p, Page(title, revs))
           IN  Leads(DeleteRevisions(S), f, t,
                     RevisionsDropped(f, S, {}), Target(p, Page(title, revs \ S)))
<1>1. PICK n : n = Cardinality(S)
  OBVIOUS
<1>2. PICK order : order = Ascending(S)
  OBVIOUS
<1>3. /\ n \in Nat /\ order \in [1 .. n -> S]
      /\ \A i, j \in 1 .. n : order[i] = order[j] => i = j
      /\ \A r \in S : \E i \in 1 .. n : order[i] = r
  BY <1>1, <1>2, AscendingIs
<1>4. PICK d : d = DeleteRevisions(S)
  OBVIOUS
<1>5. IsSeq(d) /\ Len(d) = n /\ \A i \in 1 .. n : d[i] = DeleteRevision(order[i])
  BY <1>1, <1>2, <1>4, DeletesAre DEF DeleteRevisions
<1> DEFINE First(i) == {order[j] : j \in 1 .. i}
<1>6. PICK files : files = [i \in 0 .. n |-> RevisionsDropped(f, First(i), {})]
  OBVIOUS
<1>7. PICK pages : pages = [i \in 0 .. n |-> Target(p, Page(title, revs \ First(i)))]
  OBVIOUS
<1>8. First(0) = {} /\ First(n) = S
  <2>1. 1 .. 0 = {}
    OBVIOUS
  <2>2. First(0) = {}
    BY <2>1
  <2>3. \A i \in 1 .. n : order[i] \in S
    BY <1>3
  <2>4. First(n) = S
    <3>1. ASSUME NEW x \in S
          PROVE  x \in First(n)
      <4>1. PICK i \in 1 .. n : order[i] = x
        BY <1>3
      <4>. QED
        BY <4>1
    <3>2. ASSUME NEW x \in First(n)
          PROVE  x \in S
      BY <2>3
    <3>. QED
      BY <3>1, <3>2
  <2>. QED
    BY <2>2, <2>4
<1>9. ASSUME NEW i \in 1 .. n
      PROVE  /\ i - 1 \in 0 .. n /\ i \in 0 .. n
             /\ First(i) = First(i - 1) \cup {order[i]}
             /\ order[i] \in S /\ order[i] \notin First(i - 1)
  <2>1. 1 .. i = (1 .. (i - 1)) \cup {i}
    OBVIOUS
  <2>2. First(i) = First(i - 1) \cup {order[i]}
    BY <2>1
  <2>3. order[i] \notin First(i - 1)
    <3>. SUFFICES ASSUME NEW j \in 1 .. i - 1, order[j] = order[i] PROVE FALSE
      OBVIOUS
    <3>1. j \in 1 .. n /\ j # i
      BY <1>3
    <3>. QED
      BY <1>3, <3>1
  <2>. QED
    BY <1>3, <2>2, <2>3
<1>. HIDE DEF First
<1>10. ASSUME NEW A
       PROVE  /\ Target(p, Page(title, A)) = [id |-> p, old |-> NoPage, page |-> Page(title, A)]
              /\ Target(p, Page(title, A)) # NoCurrent
  <2>1. Target(p, Page(title, A)) = [id |-> p, old |-> NoPage, page |-> Page(title, A)]
    BY DEF Target
  <2>. QED
    BY <2>1 DEF NoCurrent
<1>11. ASSUME NEW i \in 1 .. n
       PROVE  Applies(d[i], files[i - 1], pages[i - 1], files[i], pages[i])
  <2>1. PICK r : r = order[i]
    OBVIOUS
  <2>2. PICK A : A = First(i - 1)
    OBVIOUS
  <2>3. /\ files[i - 1] = RevisionsDropped(f, A, {})
        /\ files[i] = RevisionsDropped(f, A \cup {r}, {})
        /\ pages[i - 1] = Target(p, Page(title, revs \ A))
        /\ pages[i] = Target(p, Page(title, revs \ (A \cup {r})))
        /\ r \in S /\ r \notin A /\ d[i] = DeleteRevision(r)
    BY <1>5, <1>6, <1>7, <1>9, <2>1, <2>2
  <2>4. PICK g : g = RevisionsDropped(f, A, {})
    OBVIOUS
  <2>5. /\ Shape(g) /\ g.pages = f.pages /\ DOMAIN g.revisions = DOMAIN f.revisions \ A
        /\ \A s \in DOMAIN g.revisions : g.revisions[s] = f.revisions[s]
    BY <2>4, DropRevisions
  <2>6. PICK h : h = RevisionsDropped(g, {r}, {})
    OBVIOUS
  <2>7. /\ Shape(h) /\ h.pages = g.pages /\ DOMAIN h.revisions = DOMAIN g.revisions \ {r}
        /\ \A s \in DOMAIN h.revisions : h.revisions[s] = g.revisions[s]
    BY <2>5, <2>6, DropRevisions
  <2>8. PICK k : k = RevisionsDropped(f, A \cup {r}, {})
    OBVIOUS
  <2>9. /\ Shape(k) /\ k.pages = f.pages /\ DOMAIN k.revisions = DOMAIN f.revisions \ (A \cup {r})
        /\ \A s \in DOMAIN k.revisions : k.revisions[s] = f.revisions[s]
    BY <2>8, DropRevisions
  <2>10. h = k
    <3>1. h.pages = k.pages
      BY <2>5, <2>7, <2>9
    <3>2. h.revisions = k.revisions
      <4>1. DOMAIN h.revisions = DOMAIN k.revisions
        BY <2>5, <2>7, <2>9
      <4>2. \A s \in DOMAIN h.revisions : h.revisions[s] = k.revisions[s]
        BY <2>5, <2>7, <2>9
      <4>. QED
        BY <2>7, <2>9, <4>1, <4>2 DEF Shape, IsFunction
    <3>. QED
      BY <2>7, <2>9, <3>1, <3>2 DEF Shape
  <2>11. [pages[i - 1] EXCEPT !.page.revs = @ \ {r}] = pages[i]
    <3>1. (revs \ A) \ {r} = revs \ (A \cup {r})
      OBVIOUS
    <3>2. PICK A2 : A2 = revs \ A
      OBVIOUS
    <3>3. PICK T : T = pages[i - 1]
      OBVIOUS
    <3>4. T = Target(p, Page(title, A2))
      BY <2>3, <3>2, <3>3
    <3>5. PICK B : B = A2 \ {r}
      OBVIOUS
    <3>6. [T EXCEPT !.page.revs = B] = Target(p, Page(title, B))
      <4>1. /\ T = [id |-> p, old |-> NoPage, page |-> [title |-> title, revs |-> A2]]
            /\ T.page = [title |-> title, revs |-> A2]
        BY <3>4 DEF Target, Page
      <4>2. [T EXCEPT !.page.revs = B]
                = [id |-> p, old |-> NoPage, page |-> [title |-> title, revs |-> B]]
        BY <4>1
      <4>. QED
        BY <4>2 DEF Target, Page
    <3>7. T.page.revs \ {r} = B
      BY <3>4, <3>5 DEF Target, Page
    <3>8. [T EXCEPT !.page.revs = @ \ {r}] = Target(p, Page(title, B))
      BY <3>6, <3>7
    <3>. QED
      BY <2>3, <3>1, <3>2, <3>3, <3>5, <3>8
  <2>12. r \in DOMAIN g.revisions
    BY <2>3, <2>5
  <2>13. d[i].kind = "DeleteRevision" /\ d[i].id = r
    BY <2>3 DEF DeleteRevision
  <2>14. pages[i - 1] # NoCurrent
    BY <1>10, <2>3
  <2>. QED
    BY <2>3, <2>4, <2>6, <2>8, <2>10, <2>11, <2>12, <2>13, <2>14 DEF Applies, Has
<1>12. RevisionsDropped(f, {}, {}) = f
  <2>1. PICK g : g = RevisionsDropped(f, {}, {})
    OBVIOUS
  <2>2. /\ Shape(g) /\ g.pages = f.pages /\ DOMAIN g.revisions = DOMAIN f.revisions
        /\ \A s \in DOMAIN g.revisions : g.revisions[s] = f.revisions[s]
    <3>1. PICK A : A = {}
      OBVIOUS
    <3>2. g = RevisionsDropped(f, A, {})
      BY <2>1, <3>1
    <3>3. /\ Shape(g) /\ g.pages = f.pages /\ DOMAIN g.revisions = DOMAIN f.revisions \ (A \ {})
          /\ \A s \in DOMAIN g.revisions : g.revisions[s] = f.revisions[s]
      BY <3>2, DropRevisions
    <3>4. DOMAIN f.revisions \ (A \ {}) = DOMAIN f.revisions
      BY <3>1
    <3>. QED
      BY <3>3, <3>4
  <2>3. g.revisions = f.revisions
    BY <2>2 DEF Shape, IsFunction
  <2>. QED
    BY <2>1, <2>2, <2>3 DEF Shape
<1>13. /\ files[0] = f /\ pages[0] = Target(p, Page(title, revs))
       /\ files[n] = RevisionsDropped(f, S, {}) /\ pages[n] = Target(p, Page(title, revs \ S))
  <2>1. revs \ {} = revs /\ 0 \in 0 .. n /\ n \in 0 .. n
    BY <1>3
  <2>. QED
    BY <1>6, <1>7, <1>8, <1>12, <2>1
<1>14. Leads(d, f, Target(p, Page(title, revs)),
             RevisionsDropped(f, S, {}), Target(p, Page(title, revs \ S)))
  BY <1>5, <1>11, <1>13 DEF Leads
<1>. QED
  BY <1>4, <1>14

------------------------------------------------------------------------------
(* Files. *)

\* Two files with the same pages and revisions.
LEMMA SameFile ==
    ASSUME NEW a, NEW b, Shape(a), Shape(b),
           DOMAIN a.pages = DOMAIN b.pages,
           \A p \in DOMAIN a.pages : a.pages[p] = b.pages[p],
           DOMAIN a.revisions = DOMAIN b.revisions,
           \A r \in DOMAIN a.revisions : a.revisions[r] = b.revisions[r]
    PROVE  a = b
<1>1. a.pages = b.pages
  BY DEF Shape, IsFunction
<1>2. a.revisions = b.revisions
  BY DEF Shape, IsFunction
<1>. QED
  BY <1>1, <1>2 DEF Shape

\* A page that is written into a file.
LEMMA FlushedIs ==
    ASSUME NEW f, NEW p, p # None, NEW page, NEW t, t = Target(p, page)
    PROVE  Flushed(f, t) = PagePut(f, p, page)
BY DEF Flushed, Target, NoCurrent

\* The page that is written before the first record about it.
LEMMA Announced ==
    ASSUME Given, Writing, Recorded, current # NoCurrent, NEW f, NEW t, Mirrors(f, t)
    PROVE  \E g, u :
                /\ Leads(IF pageWritten THEN <<>> ELSE <<PageChange(current.id, None)>>, f, t, g, u)
                /\ Shape(g) /\ g.revisions = dump.revisions /\ Started(g, u)
<1>1. CASE pageWritten
  BY <1>1, LeadsNowhere DEF Mirrors
<1>2. CASE ~ pageWritten
  <2>1. PICK id : id = current.id
    OBVIOUS
  <2>2. /\ Unchanged(f, t) /\ id \in DOMAIN dump.pages
        /\ id \in IncludedPages \ todo /\ current.old.revs = OldRevs(id)
    BY <1>2, <2>1, CurrentFacts DEF Mirrors, Unchanged, Writing
  <2>3. id \in DOMAIN replica.pages /\ dump.pages[id] = replica.pages[id]
    BY <2>1, <2>2 DEF Writing, PagesAre, Finished
  <2>4. current.old = replica.pages[id]
    BY <2>1, <2>3, CurrentFacts DEF Writing, CurrentIs, OldPage
  <2>5. dump.pages[id] = Page(wiki.pages[id].title, current.old.revs \cup current.page.revs)
    <3>1. replica.pages[id] = Page(replica.pages[id].title, replica.pages[id].revs)
      BY <2>3 DEF Recorded
    <3>2. current.old.title = wiki.pages[id].title
      BY <2>1, <2>2 DEF Unchanged
    <3>3. current.old.revs \cup current.page.revs = current.old.revs
      BY <2>1, <2>2 DEF Unchanged
    <3>. QED
      BY <2>3, <2>4, <3>1, <3>2, <3>3
  <2>6. PICK u : u = Target(id, dump.pages[id])
    OBVIOUS
  <2>7. PICK c : c = PageChange(id, None)
    OBVIOUS
  <2>8. c.kind = "PageChange" /\ c.id = id /\ c.to = None
    BY <2>7 DEF PageChange
  <2>9. Flushed(f, t) = dump
    BY <2>2 DEF Unchanged
  <2>10. Applies(c, f, t, dump, u)
    BY <2>2, <2>6, <2>8, <2>9 DEF Applies, Has
  <2>11. Leads(<<c>>, f, t, dump, u)
    BY <2>10, LeadsOne
  <2>12. Started(dump, u)
    BY <2>1, <2>5, <2>6 DEF Started
  <2>. QED
    BY <1>2, <2>1, <2>7, <2>11, <2>12 DEF Writing
<1>. QED
  BY <1>1, <1>2

------------------------------------------------------------------------------
(* The steps of the writer, and their records. *)

\* More records lead further.
LEMMA LeadsFurther ==
    ASSUME NEW f, NEW t, NEW g, NEW u, NEW records,
           Leads(diff, replica, target, f, t), Leads(records, f, t, g, u),
           diff' = diff \o records, UNCHANGED applyVars
    PROVE  Leads(diff, replica, target, g, u)'
<1>1. PICK d : d = diff \o records
  OBVIOUS
<1>2. Leads(d, replica, target, g, u)
  BY <1>1, LeadsOn
<1>. QED
  BY <1>1, <1>2 DEF applyVars

\* A page of the old dump that the writer has not come to is as it was.
LEMMA NotReached ==
    ASSUME Given, Writing, NEW p \in IncludedPages \cap todo, current = NoCurrent
    PROVE  /\ (p \in DOMAIN dump.pages) = (p \in DOMAIN replica.pages)
           /\ p \in DOMAIN dump.pages => p \in unvisited /\ dump.pages[p] = replica.pages[p]
<1>1. current.id \notin IncludedPages
  BY CurrentFacts DEF Writing
<1>2. p \notin Finished /\ p # current.id
  BY <1>1 DEF Finished
<1>3. p \in DOMAIN dump.pages => p \in unvisited
  BY <1>2 DEF Writing, PagesAre
<1>. QED
  BY <1>2, <1>3 DEF Writing, PagesAre

\* A page that is new or has a new title is recorded at once.
LEMMA StartRecords ==
    ASSUME Given, Writing, Recorded, NEW p \in Pages, StartPage(p),
           NEW f, NEW t, Leads(diff, replica, target, f, t), Mirrors(f, t)
    PROVE  \E g, u : Leads(diff, replica, target, g, u)' /\ Mirrors(g, u)'
<1> DEFINE title == wiki.pages[p].title
<1>1. /\ current = NoCurrent /\ p \in todo /\ p \in IncludedPages
      /\ todo' = todo \ {p}
      /\ UNCHANGED <<wikiVars, dump, newRevisionIds, applyVars>>
      /\ current' = [id |-> p, old |-> IF Has(dump.pages, p) THEN dump.pages[p] ELSE NoPage,
                     page |-> Page(title, {})]
      /\ pageWritten' = (~ Has(dump.pages, p) \/
                            title # (IF Has(dump.pages, p) THEN dump.pages[p] ELSE NoPage).title)
      /\ diff' = IF ~ Has(dump.pages, p) THEN Append(diff, NewPage(p, title))
                 ELSE IF title # (IF Has(dump.pages, p) THEN dump.pages[p] ELSE NoPage).title
                   THEN Append(diff, PageChange(p, title))
                   ELSE diff
  BY DEF StartPage
<1>2. IncludedPages' = IncludedPages /\ wiki' = wiki
  BY <1>1, SameWiki DEF wikiVars
<1>3. p \in DOMAIN wiki.pages /\ p # None /\ title # None
  BY <1>1, RevisionsOfWiki DEF IncludedPages, Recorded, Named
<1>4. current'.id = p /\ current'.page.revs = {} /\ current' # NoCurrent
  BY <1>1, <1>3 DEF Page, NoCurrent
<1>5. Flushed(f, t) = dump /\ Shape(dump)
  BY <1>1 DEF Mirrors, Unchanged, Writing
<1>6. p \in IncludedPages' \ todo' /\ IncludedPages \ todo \subseteq IncludedPages' \ todo'
  BY <1>1, <1>2
<1>7. PICK y : y = title
  OBVIOUS
<1>. HIDE DEF title
<1>8. CASE ~ Has(dump.pages, p)
  <2>1. PICK c : c = NewPage(p, y)
    OBVIOUS
  <2>2. PICK u : u = Target(p, Page(y, {}))
    OBVIOUS
  <2>3. c.kind = "NewPage" /\ c.id = p /\ c.to = y
    BY <2>1 DEF NewPage
  <2>4. Applies(c, f, t, dump, u)
    BY <1>5, <2>2, <2>3 DEF Applies
  <2>5. Leads(<<c>>, f, t, dump, u)
    BY <2>4, LeadsOne
  <2>6. diff' = diff \o <<c>>
    <3>1. PICK A : diff \in Seq(A)
      BY DEF Leads, IsSeq
    <3>2. PICK B : B = A \cup {c}
      OBVIOUS
    <3>3. diff \in Seq(B) /\ c \in B
      BY <3>1, <3>2
    <3>. QED
      BY <1>1, <1>7, <1>8, <2>1, <3>3
  <2>7. Leads(diff, replica, target, dump, u)'
    BY <1>1, <2>5, <2>6, LeadsFurther
  <2>8. pageWritten' /\ current'.old.revs = {}
    BY <1>1, <1>8 DEF NoPage, Page
  <2>9. u = Target(p, Page(y, current'.old.revs \cup current'.page.revs))
    BY <1>4, <2>2, <2>8
  <2>10. Started(dump, u)'
    BY <1>1, <1>2, <1>4, <1>7, <2>9 DEF Started, title
  <2>11. u.id = p /\ u # NoCurrent
    BY <1>3, <2>2, TargetIs
  <2>12. Mirrors(dump, u)'
    BY <1>1, <1>4, <1>5, <1>6, <2>2, <2>8, <2>10, <2>11 DEF Mirrors
  <2>. QED
    BY <1>1, <2>7, <2>12
<1>9. CASE Has(dump.pages, p)
  <2>1. p \in DOMAIN replica.pages /\ dump.pages[p] = replica.pages[p] /\ p \in DOMAIN dump.pages
    BY <1>1, <1>9, NotReached DEF Has
  <2>2. PICK old : old = dump.pages[p]
    OBVIOUS
  <2>3. old = Page(old.title, old.revs) /\ current'.old = old
    BY <1>1, <1>9, <2>1, <2>2 DEF Recorded
  <2>4. CASE y # old.title
    <3>1. PICK c : c = PageChange(p, y)
      OBVIOUS
    <3>2. PICK u : u = Target(p, Page(y, old.revs))
      OBVIOUS
    <3>3. c.kind = "PageChange" /\ c.id = p /\ c.to = y
      BY <3>1 DEF PageChange
    <3>4. [dump.pages[p] EXCEPT !.title = y] = Page(y, old.revs)
      <4>1. old = [title |-> old.title, revs |-> old.revs]
        BY <2>3 DEF Page
      <4>2. PICK n, v : old = [title |-> n, revs |-> v] /\ v = old.revs
        BY <4>1
      <4>3. [old EXCEPT !.title = y] = [title |-> y, revs |-> v]
        BY <4>2
      <4>. QED
        BY <2>2, <4>2, <4>3 DEF Page
    <3>5. Applies(c, f, t, dump, u)
      BY <1>3, <1>5, <1>7, <2>1, <3>2, <3>3, <3>4 DEF Applies, Has
    <3>6. Leads(<<c>>, f, t, dump, u)
      BY <3>5, LeadsOne
    <3>7. diff' = diff \o <<c>>
      <4>1. PICK A : diff \in Seq(A)
        BY DEF Leads, IsSeq
      <4>2. PICK B : B = A \cup {c}
        OBVIOUS
      <4>3. diff \in Seq(B) /\ c \in B
        BY <4>1, <4>2
      <4>. QED
        BY <1>1, <1>7, <1>9, <2>2, <2>4, <3>1, <4>3
    <3>8. Leads(diff, replica, target, dump, u)'
      BY <1>1, <3>6, <3>7, LeadsFurther
    <3>9. pageWritten'
      BY <1>1, <1>7, <1>9, <2>2, <2>4
    <3>10. u = Target(p, Page(y, current'.old.revs \cup current'.page.revs))
      BY <1>4, <2>3, <3>2
    <3>11. Started(dump, u)'
      BY <1>1, <1>2, <1>4, <1>7, <3>10 DEF Started, title
    <3>12. u.id = p /\ u # NoCurrent
      BY <1>3, <3>2, TargetIs
    <3>13. Mirrors(dump, u)'
      BY <1>1, <1>4, <1>5, <1>6, <3>2, <3>9, <3>11, <3>12 DEF Mirrors
    <3>. QED
      BY <1>1, <3>8, <3>13
  <2>5. CASE y = old.title
    <3>1. ~ pageWritten' /\ diff' = diff
      BY <1>1, <1>7, <1>9, <2>2, <2>5
    <3>2. Leads(diff, replica, target, f, t)'
      BY <1>1, <3>1 DEF applyVars
    <3>3. Unchanged(f, t)'
      BY <1>1, <1>2, <1>4, <1>5, <1>7, <2>1, <2>3, <2>5 DEF Unchanged, title
    <3>4. Mirrors(f, t)'
      BY <1>1, <1>6, <3>1, <3>3 DEF Mirrors
    <3>. QED
      BY <3>2, <3>4
  <2>. QED
    BY <2>4, <2>5
<1>. QED
  BY <1>8, <1>9

\* Records about the current page come after it is announced.
LEMMA RecordsLead ==
    ASSUME Given, Writing, Recorded, current # NoCurrent,
           NEW f, NEW t, Leads(diff, replica, target, f, t), Mirrors(f, t),
           NEW records, records # <<>>, Record(records)
    PROVE  /\ pageWritten'
           /\ \E g, u :
                /\ Shape(g) /\ g.revisions = dump.revisions /\ Started(g, u)
                /\ \A h, v : Leads(records, g, u, h, v) => Leads(diff', replica, target, h, v)
<1>1. PICK announcement :
            announcement = IF pageWritten THEN <<>> ELSE <<PageChange(current.id, None)>>
  OBVIOUS
<1>2. pageWritten' /\ diff' = diff \o announcement \o records
  BY <1>1 DEF Record
<1>3. PICK g, u :
        /\ Leads(announcement, f, t, g, u)
        /\ Shape(g) /\ g.revisions = dump.revisions /\ Started(g, u)
  BY <1>1, Announced
<1>4. PICK d : d = diff \o announcement
  OBVIOUS
<1>5. Leads(d, replica, target, g, u)
  BY <1>3, <1>4, LeadsOn
<1>6. PICK e : e = d \o records
  OBVIOUS
<1>7. ASSUME NEW h, NEW v, Leads(records, g, u, h, v)
      PROVE  Leads(e, replica, target, h, v)
  BY <1>5, <1>6, <1>7, LeadsOn
<1>8. diff' = e
  BY <1>2, <1>4, <1>6
<1>. QED
  BY <1>2, <1>3, <1>7, <1>8

\* The current page has the revision, and so has the dump.
LEMMA AddsRecords ==
    ASSUME Given, Writing, Recorded, current # NoCurrent,
           NEW r \in RevisionsOf(current.id), WriterAddsRevision(r),
           current'.id = current.id, current'.page.revs = current.page.revs \cup {r},
           current'.old = current.old, current' # NoCurrent,
           NEW f, NEW t, Leads(diff, replica, target, f, t), Mirrors(f, t)
    PROVE  \E g, u : Leads(diff, replica, target, g, u)' /\ Mirrors(g, u)'
<1> DEFINE content == wiki.revisions[r]
           isNew   == r \notin current.old.revs
           loaded  == Has(dump.revisions, r)
           same    == loaded /\ dump.revisions[r] = content
<1>1. /\ newRevisionIds' = newRevisionIds \cup (IF isNew THEN {r} ELSE {})
      /\ dump' = RevisionPut(dump, r, content)
      /\ Record(IF ~ loaded THEN <<NewRevision(r, content)>>
                  ELSE IF ~ same THEN <<RevisionChange(r, content)>>
                  ELSE IF isNew THEN <<RevisionChange(r, None)>>
                  ELSE <<>>)
      /\ UNCHANGED <<wikiVars, todo, applyVars>>
  BY DEF WriterAddsRevision
<1>2. IncludedPages' = IncludedPages /\ wiki' = wiki
  BY <1>1, SameWiki DEF wikiVars
<1>3. PICK id : id = current.id
  OBVIOUS
<1>4. id \in IncludedPages \ todo /\ id \in DOMAIN wiki.pages /\ id # None
  BY <1>3, CurrentFacts DEF Writing
<1>5. r \in DOMAIN wiki.revisions /\ content # None
  <2>1. r \in wiki.pages[id].revs
    BY <1>3, <1>4, RevisionsOfWiki
  <2>. QED
    BY <1>4, <2>1 DEF Given, IsDump, Recorded, Named
<1>6. /\ Shape(dump') /\ dump'.pages = dump.pages
      /\ DOMAIN dump'.revisions = DOMAIN dump.revisions \cup {r}
      /\ dump'.revisions[r] = content
      /\ \A s \in DOMAIN dump.revisions : s # r => dump'.revisions[s] = dump.revisions[s]
  BY <1>1, PutRevision DEF Writing
<1>7. PICK y : y = content
  OBVIOUS
<1>8. same => dump' = dump
  <2>. SUFFICES ASSUME same PROVE dump' = dump
    OBVIOUS
  <2>1. PICK e : e = dump'
    OBVIOUS
  <2>2. /\ DOMAIN e.revisions = DOMAIN dump.revisions
        /\ \A s \in DOMAIN e.revisions : e.revisions[s] = dump.revisions[s]
    BY <1>6, <2>1 DEF Has
  <2>. QED
    BY <1>6, <2>1, <2>2, SameFile DEF Writing
<1>9. CASE same /\ ~ isNew
  <2>1. /\ diff' = diff /\ pageWritten' = pageWritten /\ newRevisionIds' = newRevisionIds
        /\ dump' = dump
    BY <1>1, <1>8, <1>9 DEF Record
  <2>2. Leads(diff, replica, target, f, t)'
    BY <1>1, <2>1 DEF applyVars
  <2>3. current'.old.revs \cup current'.page.revs = current.old.revs \cup current.page.revs
    BY <1>9
  <2>4. Started(f, t) => Started(f, t)'
    BY <1>2, <2>1, <2>3 DEF Started
  <2>5. Unchanged(f, t) => Unchanged(f, t)'
    BY <1>2, <1>9, <2>1 DEF Unchanged
  <2>6. Mirrors(f, t)'
    BY <1>1, <1>2, <2>1, <2>4, <2>5 DEF Mirrors
  <2>. QED
    BY <2>2, <2>6
<1>10. CASE ~ (same /\ ~ isNew)
  <2>1. PICK c : c = IF ~ loaded THEN NewRevision(r, content)
                     ELSE IF ~ same THEN RevisionChange(r, content)
                     ELSE RevisionChange(r, None)
    OBVIOUS
  <2>2. PICK records : records = <<c>>
    OBVIOUS
  <2>3. records # <<>> /\ Record(records)
    BY <1>1, <1>10, <2>1, <2>2
  <2>4. PICK g, u :
            /\ Shape(g) /\ g.revisions = dump.revisions /\ Started(g, u)
            /\ \A h, v : Leads(records, g, u, h, v) => Leads(diff', replica, target, h, v)
    BY <2>3, RecordsLead
  <2>5. pageWritten'
    BY <2>3, RecordsLead
  <2>6. PICK title, revs : /\ title = wiki.pages[id].title
                           /\ revs = current.old.revs \cup current.page.revs
    OBVIOUS
  <2>7. u = Target(id, Page(title, revs))
    BY <1>3, <2>4, <2>6 DEF Started
  <2>8. PICK v : v = Target(id, Page(title, revs \cup {r}))
    OBVIOUS
  <2>9. [u EXCEPT !.page.revs = @ \cup {r}] = v
    <3>1. /\ u = [id |-> id, old |-> NoPage, page |-> [title |-> title, revs |-> revs]]
          /\ u.page = [title |-> title, revs |-> revs]
      BY <2>7 DEF Target, Page
    <3>2. [u EXCEPT !.page.revs = @ \cup {r}]
            = [id |-> id, old |-> NoPage, page |-> [title |-> title, revs |-> revs \cup {r}]]
      BY <3>1
    <3>. QED
      BY <2>8, <3>2 DEF Target, Page
  <2>10. u # NoCurrent /\ v # NoCurrent /\ v.id = id
    BY <1>4, <2>7, <2>8, TargetIs
  <2>11. PICK h : h = IF same THEN g ELSE RevisionPut(g, r, y)
    OBVIOUS
  <2>12. Applies(c, g, u, h, v)
    <3>1. CASE ~ loaded
      <4>1. c.kind = "NewRevision" /\ c.id = r /\ c.to = y
        BY <1>7, <2>1, <3>1 DEF NewRevision
      <4>2. h = RevisionPut(g, r, y)
        BY <2>11, <3>1
      <4>. QED
        BY <2>9, <2>10, <4>1, <4>2 DEF Applies
    <3>2. CASE loaded /\ ~ same
      <4>1. c.kind = "RevisionChange" /\ c.id = r /\ c.to = y
        BY <1>7, <2>1, <3>2 DEF RevisionChange
      <4>2. h = RevisionPut(g, r, y) /\ y # None
        BY <1>5, <1>7, <2>11, <3>2
      <4>3. Has(g.revisions, r)
        BY <2>4, <3>2 DEF Has
      <4>. QED
        BY <2>9, <2>10, <4>1, <4>2, <4>3 DEF Applies
    <3>3. CASE same
      <4>1. c.kind = "RevisionChange" /\ c.id = r /\ c.to = None
        BY <2>1, <3>3 DEF RevisionChange
      <4>2. h = g
        BY <2>11, <3>3
      <4>3. Has(g.revisions, r)
        BY <2>4, <3>3 DEF Has
      <4>. QED
        BY <2>9, <2>10, <4>1, <4>2, <4>3 DEF Applies
    <3>. QED
      BY <3>1, <3>2, <3>3
  <2>13. Leads(records, g, u, h, v)
    BY <2>2, <2>12, LeadsOne
  <2>14. Leads(diff, replica, target, h, v)'
    BY <1>1, <2>4, <2>13 DEF applyVars
  <2>15. Shape(h) /\ h.pages = g.pages /\ h.revisions = dump'.revisions
    <3>1. CASE same
      BY <1>8, <2>4, <2>11, <3>1
    <3>2. CASE ~ same
      <4>1. h = RevisionPut(g, r, y)
        BY <2>11, <3>2
      <4>2. /\ Shape(h) /\ h.pages = g.pages
            /\ DOMAIN h.revisions = DOMAIN g.revisions \cup {r}
            /\ h.revisions[r] = y
            /\ \A s \in DOMAIN g.revisions : s # r => h.revisions[s] = g.revisions[s]
        BY <2>4, <4>1, PutRevision
      <4>3. PICK e : e = dump'
        OBVIOUS
      <4>4. /\ DOMAIN h.revisions = DOMAIN e.revisions
            /\ \A s \in DOMAIN h.revisions : h.revisions[s] = e.revisions[s]
        BY <1>6, <1>7, <2>4, <4>2, <4>3
      <4>5. h.revisions = e.revisions
        BY <1>6, <4>2, <4>3, <4>4 DEF Shape, IsFunction
      <4>. QED
        BY <4>2, <4>3, <4>5
    <3>. QED
      BY <3>1, <3>2
  <2>16. Started(h, v)'
    <3>1. v = Target(current'.id, Page(wiki'.pages[current'.id].title,
                                       current'.old.revs \cup current'.page.revs))
      <4>1. current'.old.revs \cup current'.page.revs = revs \cup {r}
        BY <2>6
      <4>. QED
        BY <1>2, <1>3, <2>6, <2>8, <4>1
    <3>. QED
      BY <1>6, <2>4, <2>15, <3>1 DEF Started
  <2>17. Mirrors(h, v)'
    BY <1>1, <1>2, <1>4, <2>5, <2>8, <2>10, <2>15, <2>16 DEF Mirrors
  <2>. QED
    BY <2>14, <2>17
<1>. QED
  BY <1>9, <1>10

\* Revisions that the old dump has are numbers, and finitely many.
LEMMA FewRevisions ==
    ASSUME Given, Writing, NEW p, NEW S, S \subseteq OldRevs(p)
    PROVE  S \subseteq Nat /\ IsFiniteSet(S)
<1>1. OldRevs(p) \subseteq Revisions
  BY DEF OldRevs, Writing, IsDump
<1>. QED
  BY <1>1, UpdateAssumption, FS_Subset

\* The page has all its revisions when it ends.
LEMMA PageIsWhole ==
    ASSUME Given, Writing, EndPage
    PROVE  /\ current # NoCurrent
           /\ current.page = Page(wiki.pages[current.id].title, RevisionsOf(current.id))
           /\ current.page.revs = RevisionsOf(current.id)
<1>1. current # NoCurrent /\ coming = {} /\ ~ NothingPassed
  BY DEF EndPage
<1>2. current.id \in DOMAIN wiki.pages
  BY <1>1, CurrentFacts DEF Writing
<1>3. current.page.revs = RevisionsOf(current.id)
  <2>1. CASE scope.current
    <3>1. current.page.revs = {last[current.id]} /\ last[current.id] # None
      BY <1>1, <2>1 DEF Writing, Coming, NothingPassed
    <3>. QED
      BY <1>2, <2>1, <3>1, RevisionsOfWiki
  <2>2. CASE ~ scope.current
    BY <1>1, <1>2, <2>2, RevisionsOfWiki DEF Writing, Coming
  <2>. QED
    BY <2>1, <2>2
<1>4. current.page = Page(wiki.pages[current.id].title, RevisionsOf(current.id))
  BY <1>1, <1>3 DEF Writing, CurrentIs
<1>. QED
  BY <1>1, <1>3, <1>4

\* A revision that the page has lost was not taken by a page sent before it.
LEMMA LostIsGone ==
    ASSUME Given, Writing, InOrder, EndPage,
           NEW r \in current.old.revs \ current.page.revs
    PROVE  r \notin newRevisionIds
<1>. SUFFICES ASSUME r \in newRevisionIds PROVE FALSE
  OBVIOUS
<1>1. /\ current # NoCurrent /\ current.id \in IncludedPages \ todo
      /\ current.old.revs = OldRevs(current.id)
  BY PageIsWhole, CurrentFacts DEF Writing
<1>2. PICK p \in Finished : r \in RevisionsOf(p)
  BY DEF Writing, NewOnes, IsPassed
<1>3. p \in IncludedPages \ todo /\ p # current.id
  BY <1>2 DEF Finished
<1>4. current.id \in Finished
  BY <1>1, <1>2, <1>3 DEF InOrder
<1>. QED
  BY <1>4 DEF Finished

\* What the page has lost is deleted from the file, and it is as the dump.
LEMMA EndRecords ==
    ASSUME Given, Writing, Recorded, InOrder, EndPage,
           NEW f, NEW t, Leads(diff, replica, target, f, t), Mirrors(f, t)
    PROVE  \E g, u : Leads(diff, replica, target, g, u)' /\ Mirrors(g, u)'
<1>1. PICK id, title, revs, lost :
        /\ id = current.id /\ title = wiki.pages[id].title /\ revs = current.page.revs
        /\ lost = current.old.revs \ current.page.revs
  OBVIOUS
<1>2. PICK mid : mid = PagePut(dump, id, current.page)
  OBVIOUS
<1>3. /\ dump' = RevisionsDropped(mid, lost, newRevisionIds)
      /\ Record(DeleteRevisions(lost))
      /\ current' = NoCurrent
      /\ UNCHANGED <<wikiVars, todo, newRevisionIds, applyVars>>
  BY <1>1, <1>2 DEF EndPage, streamVars
<1>4. IncludedPages' = IncludedPages
  BY <1>3, SameWiki
<1>5. /\ current # NoCurrent /\ id \in IncludedPages \ todo /\ id # None
      /\ current.old.revs = OldRevs(id)
      /\ current.page = Page(title, revs) /\ revs = RevisionsOf(id)
  BY <1>1, PageIsWhole, CurrentFacts DEF Writing
<1>6. lost \subseteq Nat /\ IsFiniteSet(lost) /\ (DeleteRevisions(lost) = <<>>) = (lost = {})
  <2>1. lost \subseteq OldRevs(id)
    BY <1>1, <1>5
  <2>. QED
    BY <2>1, FewRevisions, DeletesAre
<1>7. lost \ newRevisionIds = lost
  BY <1>1, LostIsGone
<1>8. /\ Shape(mid) /\ mid.revisions = dump.revisions
      /\ DOMAIN mid.pages = DOMAIN dump.pages \cup {id}
      /\ mid.pages[id] = Page(title, revs)
      /\ \A q \in DOMAIN dump.pages : q # id => mid.pages[q] = dump.pages[q]
  BY <1>2, <1>5, PutPage DEF Writing
<1>9. PICK e : e = dump'
  OBVIOUS
<1>10. /\ Shape(e) /\ e.pages = mid.pages
       /\ DOMAIN e.revisions = DOMAIN dump.revisions \ lost
       /\ \A s \in DOMAIN e.revisions : e.revisions[s] = dump.revisions[s]
  BY <1>3, <1>7, <1>8, <1>9, DropRevisions
<1>11. PICK v : v = Target(id, Page(title, revs))
  OBVIOUS
<1>12. v # NoCurrent /\ v.id = id
  BY <1>5, <1>11, TargetIs
<1>13. ASSUME NEW h, Shape(h), h.revisions = e.revisions,
              DOMAIN h.pages \cup {id} = DOMAIN dump.pages \cup {id},
              \A q \in DOMAIN dump.pages : q # id => h.pages[q] = dump.pages[q]
       PROVE  Mirrors(h, v)'
  <2>1. PICK k : k = Flushed(h, v)
    OBVIOUS
  <2>2. /\ Shape(k) /\ k.revisions = h.revisions
        /\ DOMAIN k.pages = DOMAIN h.pages \cup {id}
        /\ k.pages[id] = Page(title, revs)
        /\ \A q \in DOMAIN h.pages : q # id => k.pages[q] = h.pages[q]
    <3>1. k = PagePut(h, id, Page(title, revs))
      BY <1>5, <1>11, <2>1, FlushedIs
    <3>. QED
      BY <1>13, <3>1, PutPage
  <2>3. DOMAIN k.pages = DOMAIN e.pages /\ \A q \in DOMAIN k.pages : k.pages[q] = e.pages[q]
    BY <1>8, <1>10, <1>13, <2>2
  <2>4. k = e
    BY <1>10, <1>13, <2>2, <2>3, SameFile
  <2>5. Unchanged(h, v)'
    BY <1>3, <1>9, <2>1, <2>4 DEF Unchanged
  <2>. QED
    BY <1>3, <1>4, <1>5, <1>9, <1>11, <1>12, <1>13, <2>5 DEF Mirrors
<1>14. CASE lost = {}
  <2>1. diff' = diff
    BY <1>3, <1>6, <1>14 DEF Record
  <2>2. Leads(diff, replica, target, f, t)'
    BY <1>3, <2>1 DEF applyVars
  <2>3. e.revisions = dump.revisions
    <3>1. DOMAIN e.revisions = DOMAIN dump.revisions
      BY <1>10, <1>14
    <3>2. /\ e.revisions = [s \in DOMAIN e.revisions |-> e.revisions[s]]
          /\ dump.revisions = [s \in DOMAIN dump.revisions |-> dump.revisions[s]]
      BY <1>10 DEF Shape, IsFunction, Writing
    <3>. QED
      BY <1>10, <3>1, <3>2
  <2>4. CASE pageWritten
    <3>1. Started(f, t)
      BY <1>5, <2>4 DEF Mirrors
    <3>2. current.old.revs \cup current.page.revs = revs
      BY <1>1, <1>14
    <3>3. t = v
      BY <1>1, <1>11, <3>1, <3>2 DEF Started
    <3>4. Mirrors(f, v)'
      BY <1>1, <1>13, <2>3, <3>1 DEF Started, Mirrors
    <3>. QED
      BY <2>2, <3>3, <3>4
  <2>5. CASE ~ pageWritten
    <3>1. Unchanged(f, t) /\ Flushed(f, t) = dump
      BY <2>5 DEF Mirrors, Unchanged
    <3>2. id \in DOMAIN dump.pages /\ current.old.title = title /\ current.old.revs = revs
      BY <1>1, <1>5, <1>14, <3>1 DEF Unchanged
    <3>3. dump.pages[id] = Page(title, revs)
      <4>1. id \in DOMAIN replica.pages /\ dump.pages[id] = replica.pages[id]
        BY <1>1, <1>5, <3>2 DEF Writing, PagesAre, Finished
      <4>2. current.old = replica.pages[id]
        BY <1>1, <1>5, <4>1 DEF Writing, CurrentIs, OldPage
      <4>. QED
        BY <3>2, <4>1, <4>2 DEF Recorded
    <3>4. e = dump
      <4>1. DOMAIN e.pages = DOMAIN dump.pages /\ \A q \in DOMAIN e.pages : e.pages[q] = dump.pages[q]
        BY <1>8, <1>10, <3>2, <3>3
      <4>. QED
        BY <1>10, <2>3, <4>1, SameFile DEF Writing
    <3>5. Unchanged(f, t)'
      BY <1>3, <1>9, <3>1, <3>4 DEF Unchanged
    <3>6. Mirrors(f, t)'
      BY <1>3, <1>4, <1>9, <3>4, <3>5 DEF Mirrors
    <3>. QED
      BY <2>2, <3>6
  <2>. QED
    BY <2>4, <2>5
<1>15. CASE lost # {}
  <2>1. PICK records : records = DeleteRevisions(lost)
    OBVIOUS
  <2>2. records # <<>> /\ Record(records)
    BY <1>3, <1>6, <1>15, <2>1
  <2>3. PICK g, u :
            /\ Shape(g) /\ g.revisions = dump.revisions /\ Started(g, u)
            /\ \A h, w : Leads(records, g, u, h, w) => Leads(diff', replica, target, h, w)
    BY <1>5, <2>2, RecordsLead
  <2>4. PICK all : all = current.old.revs \cup current.page.revs
    OBVIOUS
  <2>5. u = Target(id, Page(title, all))
    BY <1>1, <2>3, <2>4 DEF Started
  <2>6. all \ lost = revs
    BY <1>1, <2>4
  <2>7. lost \subseteq DOMAIN g.revisions
    BY <1>1, <2>3 DEF Writing, RevisionsAre, IsLeft
  <2>8. PICK h : h = RevisionsDropped(g, lost, {})
    OBVIOUS
  <2>9. Leads(records, g, u, h, Target(id, Page(title, all \ lost)))
    BY <1>5, <1>6, <2>1, <2>3, <2>5, <2>7, <2>8, LeadsDelete
  <2>10. Leads(records, g, u, h, v)
    BY <1>11, <2>6, <2>9
  <2>11. Leads(diff, replica, target, h, v)'
    BY <1>3, <2>3, <2>10 DEF applyVars
  <2>12. /\ Shape(h) /\ h.pages = g.pages
         /\ DOMAIN h.revisions = DOMAIN dump.revisions \ lost
         /\ \A s \in DOMAIN h.revisions : h.revisions[s] = dump.revisions[s]
    <3>1. PICK none : none = {}
      OBVIOUS
    <3>2. lost \ none = lost
      BY <3>1
    <3>. QED
      BY <2>3, <2>8, <3>1, <3>2, DropRevisions
  <2>13. h.revisions = e.revisions
    BY <1>10, <2>12 DEF Shape, IsFunction
  <2>14. Mirrors(h, v)'
    BY <1>1, <1>13, <2>3, <2>12, <2>13 DEF Started
  <2>. QED
    BY <2>11, <2>14
<1>. QED
  BY <1>14, <1>15

\* A page that is not in the wiki any more is deleted with those of its
\* revisions that no other page took.
LEMMA DeleteRecords ==
    ASSUME Given, Writing, Recorded, DeleteUnvisited,
           NEW f, NEW t, Leads(diff, replica, target, f, t), Mirrors(f, t)
    PROVE  \E g, u : Leads(diff, replica, target, g, u)' /\ Mirrors(g, u)'
<1>1. PICK p : p = Min(unvisited)
  OBVIOUS
<1>2. PICK revs, gone : revs = dump.pages[p].revs /\ gone = revs \ newRevisionIds
  OBVIOUS
<1>3. PICK mid : mid = RevisionsDropped(dump, revs, newRevisionIds)
  OBVIOUS
<1>4. /\ current = NoCurrent /\ current' = NoCurrent /\ unvisited # {}
      /\ dump' = PageDropped(mid, p)
      /\ diff' = diff \o IF gone = revs THEN <<FullDelete(p)>>
                         ELSE <<PartialDelete(p)>> \o DeleteRevisions(gone)
      /\ UNCHANGED <<wikiVars, todo, newRevisionIds, applyVars>>
  BY <1>1, <1>2, <1>3 DEF DeleteUnvisited, streamVars
<1>5. IncludedPages' = IncludedPages
  BY <1>4, SameWiki
<1>6. p \in unvisited
  <2>1. unvisited \subseteq Nat
    BY UpdateAssumption DEF Writing, PagesAre, IsDump
  <2>. QED
    BY <1>1, <1>4, <2>1, LeastExists
<1>7. /\ p \in DOMAIN dump.pages /\ p \in DOMAIN replica.pages /\ p \notin IncludedPages \ todo
      /\ dump.pages[p] = replica.pages[p] /\ revs = OldRevs(p)
      /\ revs \subseteq DOMAIN dump.revisions
  <2>1. p \in DOMAIN dump.pages /\ p \in DOMAIN replica.pages /\ p \notin IncludedPages \ todo
    BY <1>6 DEF Writing, PagesAre
  <2>2. dump.pages[p] = replica.pages[p]
    BY <2>1 DEF Writing, PagesAre, Finished
  <2>3. revs = OldRevs(p)
    BY <1>2, <2>1, <2>2 DEF OldRevs
  <2>4. revs \subseteq DOMAIN dump.revisions
    BY <1>2, <1>6, <2>2 DEF Writing, RevisionsAre, IsLeft
  <2>. QED
    BY <2>1, <2>2, <2>3, <2>4
<1>8. gone \subseteq Nat /\ IsFiniteSet(gone)
  BY <1>2, <1>7, FewRevisions
<1>9. /\ Shape(f) /\ f.revisions = dump.revisions /\ Flushed(f, t) = dump
      /\ t = NoCurrent => newRevisionIds = {}
  BY <1>4 DEF Mirrors, Unchanged
<1>10. t # NoCurrent => /\ t.id \in IncludedPages \ todo /\ t.id # None /\ t.id # p
                        /\ t = Target(t.id, Page(t.page.title, t.page.revs))
  <2>. SUFFICES ASSUME t # NoCurrent
                PROVE  /\ t.id \in IncludedPages \ todo /\ t.id # None /\ t.id # p
                       /\ t = Target(t.id, Page(t.page.title, t.page.revs))
    OBVIOUS
  <2>1. t.id \in IncludedPages \ todo
    BY DEF Mirrors
  <2>2. PICK title, has : t = Target(t.id, Page(title, has))
    BY DEF Mirrors
  <2>3. t.page.title = title /\ t.page.revs = has
    BY <2>2 DEF Target, Page
  <2>4. t.id # None
    BY <2>1, RevisionsOfWiki DEF IncludedPages
  <2>. QED
    BY <1>7, <2>1, <2>2, <2>3, <2>4
<1>11. p \in DOMAIN f.pages /\ f.pages[p] = dump.pages[p]
  <2>1. CASE t = NoCurrent
    BY <1>7, <1>9, <2>1 DEF Flushed
  <2>2. CASE t # NoCurrent
    <3>1. PICK id, page : id = t.id /\ page = Page(t.page.title, t.page.revs)
      OBVIOUS
    <3>2. t = Target(id, page) /\ id # None /\ id # p
      BY <1>10, <2>2, <3>1
    <3>3. PICK d : d = dump
      OBVIOUS
    <3>4. d = Flushed(f, t)
      BY <1>9, <3>3
    <3>5. /\ DOMAIN d.pages = DOMAIN f.pages \cup {id}
          /\ \A q \in DOMAIN f.pages : q # id => d.pages[q] = f.pages[q]
      <4>1. d = PagePut(f, id, page)
        BY <3>2, <3>4, FlushedIs
      <4>. QED
        BY <1>9, <4>1, PutPage
    <3>. QED
      BY <1>7, <3>2, <3>3, <3>5
  <2>. QED
    BY <2>1, <2>2
<1>12. PICK e : e = dump'
  OBVIOUS
<1>13. /\ Shape(e)
       /\ DOMAIN e.pages = DOMAIN dump.pages \ {p}
       /\ \A q \in DOMAIN e.pages : e.pages[q] = dump.pages[q]
       /\ DOMAIN e.revisions = DOMAIN dump.revisions \ gone
       /\ \A s \in DOMAIN e.revisions : e.revisions[s] = dump.revisions[s]
  <2>1. /\ Shape(mid) /\ mid.pages = dump.pages
        /\ DOMAIN mid.revisions = DOMAIN dump.revisions \ gone
        /\ \A s \in DOMAIN mid.revisions : mid.revisions[s] = dump.revisions[s]
    BY <1>2, <1>3, DropRevisions DEF Writing
  <2>. QED
    BY <1>4, <1>12, <2>1, DropPage
\* The file without the page and what is gone with it.
<1>14. ASSUME NEW h, Shape(h), DOMAIN h.pages = DOMAIN f.pages \ {p},
              \A q \in DOMAIN h.pages : h.pages[q] = f.pages[q],
              DOMAIN h.revisions = DOMAIN f.revisions \ gone,
              \A s \in DOMAIN h.revisions : h.revisions[s] = f.revisions[s]
       PROVE  Mirrors(h, t)'
  <2>1. h.revisions = e.revisions
    <3>1. DOMAIN h.revisions = DOMAIN e.revisions
      BY <1>9, <1>13, <1>14
    <3>2. \A s \in DOMAIN h.revisions : h.revisions[s] = e.revisions[s]
      BY <1>9, <1>13, <1>14
    <3>. QED
      BY <1>13, <1>14, <3>1, <3>2 DEF Shape, IsFunction
  <2>2. Flushed(h, t) = e
    <3>1. CASE t = NoCurrent
      <4>1. f = dump /\ Flushed(h, t) = h
        BY <1>9, <3>1 DEF Flushed
      <4>2. DOMAIN h.pages = DOMAIN e.pages /\ \A q \in DOMAIN h.pages : h.pages[q] = e.pages[q]
        BY <1>13, <1>14, <4>1
      <4>. QED
        BY <1>13, <1>14, <2>1, <4>1, <4>2, SameFile
    <3>2. CASE t # NoCurrent
      <4>1. PICK id, page : id = t.id /\ page = Page(t.page.title, t.page.revs)
        OBVIOUS
      <4>2. t = Target(id, page) /\ id # None /\ id # p
        BY <1>10, <3>2, <4>1
      <4>3. /\ DOMAIN dump.pages = DOMAIN f.pages \cup {id}
            /\ dump.pages[id] = page
            /\ \A q \in DOMAIN f.pages : q # id => dump.pages[q] = f.pages[q]
        <5>1. PICK d : d = dump
          OBVIOUS
        <5>2. d = Flushed(f, t)
          BY <1>9, <5>1
        <5>3. /\ DOMAIN d.pages = DOMAIN f.pages \cup {id}
              /\ d.pages[id] = page
              /\ \A q \in DOMAIN f.pages : q # id => d.pages[q] = f.pages[q]
          <6>1. d = PagePut(f, id, page)
            BY <4>2, <5>2, FlushedIs
          <6>. QED
            BY <1>9, <6>1, PutPage
        <5>. QED
          BY <5>1, <5>3
      <4>4. PICK k : k = Flushed(h, t)
        OBVIOUS
      <4>5. /\ Shape(k) /\ k.revisions = h.revisions
            /\ DOMAIN k.pages = DOMAIN h.pages \cup {id}
            /\ k.pages[id] = page
            /\ \A q \in DOMAIN h.pages : q # id => k.pages[q] = h.pages[q]
        <5>1. k = PagePut(h, id, page)
          BY <4>2, <4>4, FlushedIs
        <5>. QED
          BY <1>14, <5>1, PutPage
      <4>6. DOMAIN k.pages = DOMAIN e.pages /\ \A q \in DOMAIN k.pages : k.pages[q] = e.pages[q]
        BY <1>13, <1>14, <4>2, <4>3, <4>5
      <4>. QED
        BY <1>13, <2>1, <4>4, <4>5, <4>6, SameFile
    <3>. QED
      BY <3>1, <3>2
  <2>3. Unchanged(h, t)'
    BY <1>4, <1>12, <2>2 DEF Unchanged
  <2>4. t # NoCurrent => \E title, has : t = Target(t.id, Page(title, has))
    BY <1>10
  <2>. QED
    BY <1>4, <1>5, <1>9, <1>10, <1>12, <1>14, <2>1, <2>3, <2>4 DEF Mirrors
<1>15. CASE gone = revs
  <2>1. PICK c : c = FullDelete(p)
    OBVIOUS
  <2>2. c.kind = "FullDelete" /\ c.id = p
    BY <2>1 DEF FullDelete
  <2>3. PICK g : g = RevisionsDropped(f, revs, {})
    OBVIOUS
  <2>4. PICK h : h = PageDropped(g, p)
    OBVIOUS
  <2>5. f.pages[p].revs = revs /\ revs \subseteq DOMAIN f.revisions
    BY <1>2, <1>7, <1>9, <1>11
  <2>6. Applies(c, f, t, h, t)
    BY <1>11, <2>2, <2>3, <2>4, <2>5 DEF Applies, Has
  <2>7. Leads(<<c>>, f, t, h, t)
    BY <2>6, LeadsOne
  <2>8. Leads(diff, replica, target, h, t)'
    BY <1>4, <1>15, <2>1, <2>7, LeadsFurther
  <2>9. /\ Shape(g) /\ g.pages = f.pages
        /\ DOMAIN g.revisions = DOMAIN f.revisions \ gone
        /\ \A s \in DOMAIN g.revisions : g.revisions[s] = f.revisions[s]
    <3>1. PICK none : none = {}
      OBVIOUS
    <3>2. revs \ none = gone
      BY <1>15, <3>1
    <3>. QED
      BY <1>9, <2>3, <3>1, <3>2, DropRevisions
  <2>10. /\ Shape(h) /\ h.revisions = g.revisions
         /\ DOMAIN h.pages = DOMAIN f.pages \ {p}
         /\ \A q \in DOMAIN h.pages : h.pages[q] = f.pages[q]
    BY <2>4, <2>9, DropPage
  <2>11. Mirrors(h, t)'
    BY <1>14, <2>9, <2>10
  <2>. QED
    BY <2>8, <2>11
<1>16. CASE gone # revs
  <2>1. t # NoCurrent
    BY <1>2, <1>9, <1>16
  <2>2. PICK id, title, has : id = t.id /\ title = t.page.title /\ has = t.page.revs
    OBVIOUS
  <2>3. t = Target(id, Page(title, has)) /\ id # None /\ id # p /\ id \in IncludedPages \ todo
    BY <1>10, <2>1, <2>2
  <2>4. has \ gone = has
    <3>1. dump.pages[id] = Page(title, has)
      <4>1. PICK d, page : d = dump /\ page = Page(title, has)
        OBVIOUS
      <4>2. d = Flushed(f, t) /\ t = Target(id, page) /\ id # None
        BY <1>9, <2>3, <4>1
      <4>3. d = PagePut(f, id, page)
        BY <4>2, FlushedIs
      <4>4. d.pages[id] = page
        BY <1>9, <4>3, PutPage
      <4>. QED
        BY <4>1, <4>4
    <3>2. id \in Finished
      BY <1>4, <2>3, CurrentFacts DEF Finished, Writing
    <3>3. dump.pages[id].revs = RevisionsOf(id)
      <4>1. dump.pages[id] = Page(wiki.pages[id].title, RevisionsOf(id))
        BY <3>2 DEF Writing, PagesAre
      <4>. QED
        BY <4>1 DEF Page
    <3>4. has = RevisionsOf(id)
      BY <3>1, <3>3 DEF Page
    <3>5. ASSUME NEW r \in has, r \in gone
          PROVE  FALSE
      <4>1. r \notin OldRevs(id)
        BY <1>2, <1>7, <2>3, <3>5 DEF OldRevs, Writing, IsDump
      <4>2. r \in newRevisionIds
        BY <3>2, <3>4, <4>1 DEF Writing, NewOnes
      <4>. QED
        BY <1>2, <3>5, <4>2
    <3>. QED
      BY <3>5
  <2>5. PICK c : c = PartialDelete(p)
    OBVIOUS
  <2>6. c.kind = "PartialDelete" /\ c.id = p
    BY <2>5 DEF PartialDelete
  <2>7. PICK g : g = PageDropped(f, p)
    OBVIOUS
  <2>8. PICK h : h = RevisionsDropped(g, gone, {})
    OBVIOUS
  <2>9. /\ Shape(g) /\ g.revisions = f.revisions
        /\ DOMAIN g.pages = DOMAIN f.pages \ {p}
        /\ \A q \in DOMAIN g.pages : g.pages[q] = f.pages[q]
    BY <1>9, <2>7, DropPage
  <2>10. Applies(c, f, t, g, t)
    BY <1>11, <2>6, <2>7 DEF Applies, Has
  <2>11. Leads(<<c>>, f, t, g, t)
    BY <2>10, LeadsOne
  <2>12. PICK records : records = DeleteRevisions(gone)
    OBVIOUS
  <2>13. Leads(records, g, t, h, t)
    <3>1. gone \subseteq DOMAIN g.revisions
      BY <1>2, <1>7, <1>9, <2>9
    <3>2. Leads(records, g, t, h, Target(id, Page(title, has \ gone)))
      BY <1>8, <2>3, <2>8, <2>9, <2>12, <3>1, LeadsDelete
    <3>. QED
      BY <2>3, <2>4, <3>2
  <2>14. PICK both : both = <<c>> \o records
    OBVIOUS
  <2>15. Leads(both, f, t, h, t)
    BY <2>11, <2>13, <2>14, LeadsOn
  <2>16. diff' = diff \o both
    BY <1>4, <1>16, <2>5, <2>12, <2>14
  <2>17. Leads(diff, replica, target, h, t)'
    BY <1>4, <2>15, <2>16, LeadsFurther
  <2>18. /\ Shape(h) /\ h.pages = g.pages
         /\ DOMAIN h.revisions = DOMAIN f.revisions \ gone
         /\ \A s \in DOMAIN h.revisions : h.revisions[s] = f.revisions[s]
    <3>1. PICK none : none = {}
      OBVIOUS
    <3>2. gone \ none = gone
      BY <3>1
    <3>. QED
      BY <2>8, <2>9, <3>1, <3>2, DropRevisions
  <2>19. Mirrors(h, t)'
    BY <1>14, <2>9, <2>18
  <2>. QED
    BY <2>17, <2>19
<1>. QED
  BY <1>15, <1>16

------------------------------------------------------------------------------
(* An update that changes nothing. *)

\* The old dump is the wiki.
LEMMA AsBefore ==
    ASSUME Writing, replica = Filtered
    PROVE  /\ DOMAIN replica.pages = IncludedPages
           /\ \A p \in IncludedPages :
                replica.pages[p].title = wiki.pages[p].title /\ OldRevs(p) = RevisionsOf(p)
           /\ \A r \in DOMAIN replica.revisions : replica.revisions[r] = wiki.revisions[r]
<1>1. /\ replica.pages = [p \in IncludedPages |-> Page(wiki.pages[p].title, RevisionsOf(p))]
      /\ replica.revisions
            = Restrict(wiki.revisions, UNION {RevisionsOf(p) : p \in IncludedPages})
  BY DEF Filtered
<1>2. DOMAIN replica.pages = IncludedPages
  BY <1>1
<1>3. ASSUME NEW p \in IncludedPages
      PROVE  replica.pages[p].title = wiki.pages[p].title /\ OldRevs(p) = RevisionsOf(p)
  <2>1. replica.pages[p] = Page(wiki.pages[p].title, RevisionsOf(p))
    BY <1>1
  <2>. QED
    BY <1>2, <2>1 DEF Page, OldRevs
<1>4. \A r \in DOMAIN replica.revisions : replica.revisions[r] = wiki.revisions[r]
  BY <1>1 DEF Restrict
<1>. QED
  BY <1>2, <1>3, <1>4

\* A page that starts is neither new nor has it a new title.
LEMMA StartQuiet ==
    ASSUME Given, Writing, Quiet, NEW p \in Pages, StartPage(p)
    PROVE  Quiet'
<1>1. /\ p \in IncludedPages \cap todo /\ current = NoCurrent
      /\ UNCHANGED <<wikiVars, dump, newRevisionIds, replica>>
      /\ pageWritten' = (~ Has(dump.pages, p) \/
                            wiki.pages[p].title # (IF Has(dump.pages, p) THEN dump.pages[p] ELSE NoPage).title)
      /\ diff' = IF ~ Has(dump.pages, p) THEN Append(diff, NewPage(p, wiki.pages[p].title))
                 ELSE IF wiki.pages[p].title # (IF Has(dump.pages, p) THEN dump.pages[p] ELSE NoPage).title
                   THEN Append(diff, PageChange(p, wiki.pages[p].title))
                   ELSE diff
  BY DEF StartPage, applyVars
<1>2. Filtered' = Filtered
  BY <1>1, SameWiki
<1>3. SUFFICES ASSUME replica = Filtered
               PROVE  /\ diff' = <<>> /\ ~ pageWritten'
                      /\ newRevisionIds' = {} /\ dump'.revisions = replica'.revisions
  BY <1>1, <1>2 DEF Quiet
<1>4. p \in DOMAIN replica.pages /\ replica.pages[p].title = wiki.pages[p].title
  BY <1>1, <1>3, AsBefore
<1>5. Has(dump.pages, p) /\ dump.pages[p] = replica.pages[p]
  BY <1>1, <1>4, NotReached DEF Has
<1>. QED
  BY <1>1, <1>3, <1>4, <1>5 DEF Quiet

\* Its revisions are in it and have not changed.
LEMMA AddsQuiet ==
    ASSUME Given, Writing, Quiet, current # NoCurrent,
           NEW r \in RevisionsOf(current.id), WriterAddsRevision(r)
    PROVE  Quiet'
<1> DEFINE content == wiki.revisions[r]
           isNew   == r \notin current.old.revs
           loaded  == Has(dump.revisions, r)
           same    == loaded /\ dump.revisions[r] = content
<1>1. /\ newRevisionIds' = newRevisionIds \cup (IF isNew THEN {r} ELSE {})
      /\ dump' = RevisionPut(dump, r, content)
      /\ Record(IF ~ loaded THEN <<NewRevision(r, content)>>
                  ELSE IF ~ same THEN <<RevisionChange(r, content)>>
                  ELSE IF isNew THEN <<RevisionChange(r, None)>>
                  ELSE <<>>)
      /\ UNCHANGED <<wikiVars, replica>>
  BY DEF WriterAddsRevision, applyVars
<1>2. Filtered' = Filtered
  BY <1>1, SameWiki
<1>3. SUFFICES ASSUME replica = Filtered
               PROVE  /\ diff' = <<>> /\ ~ pageWritten'
                      /\ newRevisionIds' = {} /\ dump'.revisions = replica'.revisions
  BY <1>1, <1>2 DEF Quiet
<1>4. /\ current.id \in IncludedPages /\ current.old.revs = OldRevs(current.id)
  BY CurrentFacts DEF Writing
<1>5. r \in OldRevs(current.id)
  BY <1>3, <1>4, AsBefore
<1>6. r \in DOMAIN replica.revisions /\ replica.revisions[r] = content
  BY <1>3, <1>5, AsBefore DEF OldRevs, Writing, IsDump
<1>7. same /\ ~ isNew
  BY <1>3, <1>4, <1>5, <1>6 DEF Quiet, Has
<1>8. diff' = diff /\ pageWritten' = pageWritten /\ newRevisionIds' = newRevisionIds
  BY <1>1, <1>7 DEF Record
<1>9. dump'.revisions = dump.revisions
  <2>1. PICK e : e = dump'
    OBVIOUS
  <2>2. /\ Shape(e) /\ DOMAIN e.revisions = DOMAIN dump.revisions \cup {r}
        /\ e.revisions[r] = content
        /\ \A s \in DOMAIN dump.revisions : s # r => e.revisions[s] = dump.revisions[s]
    BY <1>1, <2>1, PutRevision DEF Writing
  <2>3. /\ DOMAIN e.revisions = DOMAIN dump.revisions
        /\ \A s \in DOMAIN e.revisions : e.revisions[s] = dump.revisions[s]
    BY <1>7, <2>2 DEF Has
  <2>. QED
    BY <2>1, <2>2, <2>3 DEF Shape, IsFunction, Writing
<1>. QED
  BY <1>1, <1>3, <1>8, <1>9 DEF Quiet

\* It has lost nothing.
LEMMA EndQuiet ==
    ASSUME Given, Writing, Quiet, EndPage
    PROVE  Quiet'
<1>1. PICK lost : lost = current.old.revs \ current.page.revs
  OBVIOUS
<1>2. PICK mid : mid = PagePut(dump, current.id, current.page)
  OBVIOUS
<1>3. /\ dump' = RevisionsDropped(mid, lost, newRevisionIds)
      /\ Record(DeleteRevisions(lost))
      /\ current' = NoCurrent
      /\ UNCHANGED <<wikiVars, newRevisionIds, replica>>
  BY <1>1, <1>2 DEF EndPage, streamVars, applyVars
<1>4. Filtered' = Filtered
  BY <1>3, SameWiki
<1>5. SUFFICES ASSUME replica = Filtered
               PROVE  /\ diff' = <<>>
                      /\ newRevisionIds' = {} /\ dump'.revisions = replica'.revisions
  BY <1>3, <1>4 DEF Quiet
<1>6. /\ current # NoCurrent /\ current.id \in IncludedPages
      /\ current.old.revs = OldRevs(current.id) /\ current.page.revs = RevisionsOf(current.id)
  BY PageIsWhole, CurrentFacts DEF Writing
<1>7. lost = {}
  BY <1>1, <1>5, <1>6, AsBefore
<1>8. DeleteRevisions(lost) = <<>>
  <2>1. lost \subseteq OldRevs(current.id)
    BY <1>7
  <2>. QED
    BY <1>7, <2>1, FewRevisions, DeletesAre
<1>9. diff' = diff
  BY <1>3, <1>8 DEF Record
<1>10. dump'.revisions = dump.revisions
  <2>1. Shape(mid) /\ mid.revisions = dump.revisions
    BY <1>2, PutPage DEF Writing
  <2>2. PICK e : e = dump'
    OBVIOUS
  <2>3. lost \ newRevisionIds = {}
    BY <1>7
  <2>4. /\ Shape(e)
        /\ DOMAIN e.revisions = DOMAIN mid.revisions \ (lost \ newRevisionIds)
        /\ \A s \in DOMAIN e.revisions : e.revisions[s] = mid.revisions[s]
    BY <1>3, <2>1, <2>2, DropRevisions
  <2>5. DOMAIN e.revisions = DOMAIN mid.revisions
    BY <2>3, <2>4
  <2>. QED
    BY <2>1, <2>2, <2>4, <2>5 DEF Shape, IsFunction
<1>. QED
  BY <1>3, <1>5, <1>9, <1>10 DEF Quiet

\* And no page is deleted.
LEMMA DeleteQuiet ==
    ASSUME Given, Writing, Quiet, DeleteUnvisited
    PROVE  Quiet'
<1>1. current = NoCurrent /\ todo = {} /\ unvisited # {} /\ UNCHANGED <<wikiVars, replica>>
  BY DEF DeleteUnvisited, applyVars
<1>2. Filtered' = Filtered
  BY <1>1, SameWiki
<1>3. SUFFICES ASSUME replica = Filtered PROVE FALSE
  BY <1>1, <1>2 DEF Quiet
<1>4. DOMAIN replica.pages = IncludedPages
  BY <1>3, AsBefore
<1>. QED
  BY <1>1, <1>4 DEF Writing, PagesAre

------------------------------------------------------------------------------
(* Applying the records. *)

\* Nothing is left to be applied.
LEMMA LeadsNot ==
    ASSUME NEW f, NEW t, NEW g, NEW u, Leads(<<>>, f, t, g, u)
    PROVE  f = g /\ t = u
BY ShortSeq DEF Leads

\* A record does to the file what it was recorded for.
LEMMA RecordApplied ==
    ASSUME Apply, diff # <<>>, NEW g, NEW u, Applies(Head(diff), replica, target, g, u)
    PROVE  /\ phase' = "completed" /\ diff' = Tail(diff)
           /\ replica' = g /\ target' = u
           /\ UNCHANGED <<wikiVars, dump, movedBack>>
<1>1. PICK c : c = Head(diff)
  OBVIOUS
<1>2. PageFlushed = Flushed(replica, target)
  BY DEF PageFlushed, Flushed
<1>3. ~ ApplyComplete
  BY DEF ApplyComplete
<1>4. ASSUME ApplyNewPage
      PROVE  /\ phase = "completed" /\ phase' = phase /\ Done /\ replica' = g /\ target' = u
  BY <1>1, <1>2, <1>4 DEF ApplyNewPage, Next1, Applies
<1>5. ASSUME ApplyPageChange
      PROVE  /\ phase = "completed" /\ phase' = phase /\ Done /\ replica' = g /\ target' = u
  BY <1>1, <1>2, <1>5 DEF ApplyPageChange, Next1, Applies
<1>6. ASSUME ApplyNewRevision
      PROVE  /\ phase = "completed" /\ phase' = phase /\ Done /\ replica' = g /\ target' = u
  BY <1>1, <1>6 DEF ApplyNewRevision, Next1, Applies
<1>7. ASSUME ApplyRevisionChange
      PROVE  /\ phase = "completed" /\ phase' = phase /\ Done /\ replica' = g /\ target' = u
  BY <1>1, <1>7 DEF ApplyRevisionChange, Next1, Applies
<1>8. ASSUME ApplyDeleteRevision
      PROVE  /\ phase = "completed" /\ phase' = phase /\ Done /\ replica' = g /\ target' = u
  BY <1>1, <1>8 DEF ApplyDeleteRevision, Next1, Applies
<1>9. ASSUME ApplyFullDelete
      PROVE  /\ phase = "completed" /\ phase' = phase /\ Done /\ replica' = g /\ target' = u
  BY <1>1, <1>9 DEF ApplyFullDelete, Next1, Applies
<1>10. ASSUME ApplyPartialDelete
       PROVE  /\ phase = "completed" /\ phase' = phase /\ Done /\ replica' = g /\ target' = u
  BY <1>1, <1>10 DEF ApplyPartialDelete, Next1, Applies
<1>11. phase = "completed" /\ phase' = phase /\ Done /\ replica' = g /\ target' = u
  BY <1>3, <1>4, <1>5, <1>6, <1>7, <1>8, <1>9, <1>10 DEF Apply
<1>. QED
  BY <1>11 DEF Done, writerVars

------------------------------------------------------------------------------
(* The invariant. *)

\* Pages have titles, and revisions contents.
LEMMA CompleteIsNamed ==
    ASSUME NEW s \in Scopes, NEW d \in CompleteDumps(s)
    PROVE  /\ \A p \in DOMAIN d.pages :
                d.pages[p].title # None /\ d.pages[p] = Page(d.pages[p].title, d.pages[p].revs)
           /\ \A r \in DOMAIN d.revisions : d.revisions[r] # None
<1> DEFINE Of(P, R) ==
           {DumpOf(titles, owner, contents) :
                titles \in [P -> s.titles], owner \in [R -> P], contents \in [R -> s.contents]}
<1>0. CompleteDumps(s) = UNION {Of(P, R) : P \in SUBSET s.pages, R \in SUBSET Revisions}
  BY DEF CompleteDumps
<1>. HIDE DEF Of
<1>1. PICK P \in SUBSET s.pages, R \in SUBSET Revisions : d \in Of(P, R)
  BY <1>0
<1>2. PICK titles \in [P -> s.titles], owner \in [R -> P], contents \in [R -> s.contents] :
        d = DumpOf(titles, owner, contents)
  BY <1>1 DEF Of
<1>3. /\ d.pages = [p \in P |-> Page(titles[p], {r \in R : owner[r] = p})]
      /\ d.revisions = contents
  BY <1>2 DEF DumpOf
<1>4. None \notin s.titles /\ None \notin s.contents
  BY UpdateAssumption DEF Titles, Contents
<1>5. \A r \in DOMAIN d.revisions : d.revisions[r] # None
  BY <1>3, <1>4
<1>6. ASSUME NEW p \in DOMAIN d.pages
      PROVE  d.pages[p].title # None /\ d.pages[p] = Page(d.pages[p].title, d.pages[p].revs)
  <2>1. PICK revs : revs = {r \in R : owner[r] = p}
    OBVIOUS
  <2>2. d.pages[p] = Page(titles[p], revs) /\ p \in P
    BY <1>3, <2>1
  <2>3. d.pages[p].title = titles[p] /\ d.pages[p].revs = revs
    BY <2>2 DEF Page
  <2>. QED
    BY <1>4, <2>2, <2>3
<1>. QED
  BY <1>5, <1>6

\* Nothing is recorded, and the copy is the dump.
LEMMA InitRecorded == Init => RInv
<1>. SUFFICES ASSUME Init PROVE RInv
  OBVIOUS
<1>. USE DEF Init
<1>1. Named
  BY CompleteIsNamed DEF Named
<1>2. \A p \in DOMAIN replica.pages :
            replica.pages[p] = Page(replica.pages[p].title, replica.pages[p].revs)
  BY CompleteIsNamed
<1>3. Quiet
  BY DEF Quiet
<1>4. InOrder
  BY DEF InOrder, IncludedPages
<1>5. Leads(diff, replica, target, dump, NoCurrent)
  BY LeadsNowhere
<1>6. Mirrors(dump, NoCurrent)
  <2>1. Shape(dump)
    BY CompleteIsDump DEF IsDump
  <2>. QED
    BY <2>1 DEF Mirrors, Unchanged, Flushed
<1>. QED
  BY <1>1, <1>2, <1>3, <1>4, <1>5, <1>6 DEF RInv, Recorded

\* What no step of the writer touches.
LEMMA SameFacts ==
    ASSUME Recorded, UNCHANGED wikiVars, UNCHANGED applyVars
    PROVE  /\ Named' /\ target' = NoCurrent
           /\ \A p \in DOMAIN replica'.pages :
                replica'.pages[p] = Page(replica'.pages[p].title, replica'.pages[p].revs)
BY DEF Recorded, Named, wikiVars, applyVars

\* Pages that were sent remain so.
LEMMA SameOrder ==
    ASSUME InOrder, UNCHANGED wikiVars, UNCHANGED applyVars,
           (IncludedPages \ todo)' = IncludedPages \ todo, Finished \subseteq Finished'
    PROVE  InOrder'
<1>1. IncludedPages' = IncludedPages /\ \A p : RevisionsOf(p)' = RevisionsOf(p)
  BY SameWiki
<1>2. \A p : OldRevs(p)' = OldRevs(p)
  BY DEF OldRevs, applyVars
<1>. QED
  BY <1>1, <1>2 DEF InOrder

\* The page that is started takes nothing from a page to come.
LEMMA StartOrder ==
    ASSUME Given, Writing, InOrder, NEW p \in Pages, StartPage(p), ~ movedBack'
    PROVE  InOrder'
<1>1. /\ current = NoCurrent /\ p \in todo /\ p \in IncludedPages
      /\ todo' = todo \ {p} /\ current'.id = p
      /\ MovedBack(p) = {}
      /\ UNCHANGED <<wikiVars, replica>>
  BY DEF StartPage, applyVars
<1>2. IncludedPages' = IncludedPages /\ \A q : RevisionsOf(q)' = RevisionsOf(q)
  BY <1>1, SameWiki
<1>3. \A q : OldRevs(q)' = OldRevs(q)
  BY <1>1 DEF OldRevs
<1>4. current.id \notin IncludedPages
  BY <1>1, CurrentFacts DEF Writing
<1>5. Finished = IncludedPages \ todo /\ Finished' = IncludedPages \ todo
  BY <1>1, <1>2, <1>4 DEF Finished
<1>6. ASSUME NEW r \in RevisionsOf(p), NEW q \in IncludedPages, q # p, r \in OldRevs(q)
      PROVE  q \notin todo
  <2>1. q \in Owner(replica, r)
    BY <1>6 DEF Owner, OldRevs
  <2>. QED
    BY <1>1, <1>6, <2>1 DEF MovedBack
<1>. QED
  BY <1>1, <1>2, <1>3, <1>5, <1>6 DEF InOrder

\* Every step of the writer is recorded.
LEMMA WriteRecorded ==
    ASSUME IInv, Recorded, phase = "writing", Write
    PROVE  \/ phase' \in {"writing", "crashed"} /\ Recorded'
           \/ phase' = "completed" /\ Complete
<1>. USE DEF IInv
<1>0. Given /\ Writing
  OBVIOUS
<1>1. ASSUME NEW p \in Pages, SkipPage(p)
      PROVE  phase' = "writing" /\ Recorded'
  <2>. USE <1>1 DEF SkipPage
  <2>1. IncludedPages' = IncludedPages
    BY SameWiki
  <2>2. (IncludedPages \ todo)' = IncludedPages \ todo /\ Finished' = Finished
    BY <2>1 DEF Finished
  <2>3. InOrder => InOrder'
    BY <2>2, SameOrder
  <2>4. Quiet'
    <3>1. Filtered' = Filtered
      BY SameWiki
    <3>. QED
      BY <3>1 DEF Recorded, Quiet, applyVars
  <2>5. ASSUME NEW f, NEW t, Leads(diff, replica, target, f, t), Mirrors(f, t)
        PROVE  Leads(diff, replica, target, f, t)' /\ Mirrors(f, t)'
    <3>1. Leads(diff, replica, target, f, t)'
      BY <2>5 DEF applyVars
    <3>2. Mirrors(f, t)'
      BY <2>2, <2>5 DEF Mirrors, Started, Unchanged, wikiVars
    <3>. QED
      BY <3>1, <3>2
  <2>. QED
    BY <2>3, <2>4, <2>5, SameFacts DEF Recorded
<1>2. ASSUME NEW p \in Pages, StartPage(p)
      PROVE  phase' = "writing" /\ Recorded'
  <2>1. phase' = "writing" /\ UNCHANGED <<wikiVars, applyVars>> /\ (movedBack => movedBack')
    BY <1>2 DEF StartPage
  <2>2. Quiet'
    BY <1>0, <1>2, StartQuiet DEF Recorded
  <2>3. ASSUME ~ movedBack'
        PROVE  InOrder' /\ \E f, t : Leads(diff, replica, target, f, t)' /\ Mirrors(f, t)'
    <3>1. InOrder
      BY <2>1, <2>3 DEF Recorded
    <3>2. PICK f, t : Leads(diff, replica, target, f, t) /\ Mirrors(f, t)
      BY <2>1, <2>3 DEF Recorded
    <3>. QED
      BY <1>0, <1>2, <2>3, <3>1, <3>2, StartOrder, StartRecords
  <2>. QED
    BY <2>1, <2>2, <2>3, SameFacts DEF Recorded
<1>3. ASSUME current # NoCurrent, NEW r \in RevisionsOf(current.id), WriterAddsRevision(r)
      PROVE  phase' = "writing" /\ Recorded'
  <2>1. /\ phase' = "writing" /\ UNCHANGED <<wikiVars, applyVars, todo, movedBack>>
        /\ current' = [current EXCEPT !.page.revs = @ \cup {r}]
    BY <1>3 DEF WriterAddsRevision
  <2>2. /\ current'.id = current.id /\ current'.page.revs = current.page.revs \cup {r}
        /\ current' # NoCurrent
    BY <1>0, <1>3, AddsStep
  <2>3. current'.old = current.old
    <3>1. PICK id, old, title, revs :
              /\ current = [id |-> id, old |-> old, page |-> Page(title, revs)]
      BY <1>0, <1>3 DEF Writing, CurrentIs
    <3>2. PICK c : c = current
      OBVIOUS
    <3>3. c = [id |-> id, old |-> old, page |-> Page(title, revs)] /\ c.old = old
      BY <3>1, <3>2
    <3>4. [c EXCEPT !.page.revs = @ \cup {r}].old = old
      BY <3>3, GrowPage
    <3>. QED
      BY <2>1, <3>2, <3>3, <3>4
  <2>4. IncludedPages' = IncludedPages
    BY <2>1, SameWiki
  <2>5. (IncludedPages \ todo)' = IncludedPages \ todo /\ Finished' = Finished
    BY <2>1, <2>2, <2>4 DEF Finished
  <2>6. Quiet'
    BY <1>0, <1>3, AddsQuiet DEF Recorded
  <2>7. ASSUME ~ movedBack'
        PROVE  InOrder' /\ \E f, t : Leads(diff, replica, target, f, t)' /\ Mirrors(f, t)'
    <3>1. InOrder'
      BY <2>1, <2>5, <2>7, SameOrder DEF Recorded
    <3>2. PICK f, t : Leads(diff, replica, target, f, t) /\ Mirrors(f, t)
      BY <2>1, <2>7 DEF Recorded
    <3>. QED
      BY <1>0, <1>3, <2>2, <2>3, <3>1, <3>2, AddsRecords
  <2>. QED
    BY <2>1, <2>6, <2>7, SameFacts DEF Recorded
<1>4. ASSUME NEW r \in Revisions, AddRevision(r)
      PROVE  phase' = "writing" /\ Recorded'
  <2>1. ~ scope.current /\ r \in coming /\ WriterAddsRevision(r)
    BY <1>4 DEF AddRevision
  <2>2. current # NoCurrent
    BY <1>0, <2>1 DEF Writing, Coming
  <2>3. r \in RevisionsOf(current.id)
    BY <1>0, <2>1, <2>2, CurrentFacts, RevisionsOfWiki DEF Writing, Coming
  <2>. QED
    BY <1>3, <2>1, <2>2, <2>3
<1>5. ASSUME NEW r \in Revisions, HoldRevision(r)
      PROVE  phase' = "writing" /\ Recorded'
  <2>. USE <1>5 DEF HoldRevision
  <2>1. IncludedPages' = IncludedPages
    BY SameWiki
  <2>2. (IncludedPages \ todo)' = IncludedPages \ todo /\ Finished' = Finished
    BY <2>1 DEF Finished
  <2>3. InOrder => InOrder'
    BY <2>2, SameOrder
  <2>4. Quiet'
    <3>1. Filtered' = Filtered
      BY SameWiki
    <3>. QED
      BY <3>1 DEF Recorded, Quiet, applyVars
  <2>5. ASSUME NEW f, NEW t, Leads(diff, replica, target, f, t), Mirrors(f, t)
        PROVE  Leads(diff, replica, target, f, t)' /\ Mirrors(f, t)'
    <3>1. Leads(diff, replica, target, f, t)'
      BY <2>5 DEF applyVars
    <3>2. Mirrors(f, t)'
      BY <2>2, <2>5 DEF Mirrors, Started, Unchanged, wikiVars
    <3>. QED
      BY <3>1, <3>2
  <2>. QED
    BY <2>3, <2>4, <2>5, SameFacts DEF Recorded
<1>6. ASSUME PassRevision
      PROVE  phase' = "writing" /\ Recorded'
  <2>1. /\ current # NoCurrent /\ coming = {} /\ scope.current /\ current.page.revs = {}
        /\ held # None /\ WriterAddsRevision(held)
    BY <1>6 DEF PassRevision, NothingPassed
  <2>2. held = last[current.id]
    BY <1>0, <2>1 DEF Writing, Coming
  <2>3. held \in RevisionsOf(current.id)
    BY <1>0, <2>1, <2>2, CurrentFacts, RevisionsOfWiki DEF Writing
  <2>. QED
    BY <1>3, <2>1, <2>3
<1>7. ASSUME PassNothing
      PROVE  phase' = "crashed" /\ Recorded'
  <2>. USE <1>7 DEF PassNothing
  <2>1. /\ UNCHANGED <<wikiVars, diff, dump, replica, target, movedBack>>
        /\ UNCHANGED <<todo, newRevisionIds, current, pageWritten>>
    BY DEF writerVars, streamVars, applyVars
  <2>2. IncludedPages' = IncludedPages
    BY SameWiki
  <2>3. (IncludedPages \ todo)' = IncludedPages \ todo /\ Finished' = Finished
    BY <2>1, <2>2 DEF Finished
  <2>4. InOrder => InOrder'
    BY <2>3, SameOrder
  <2>5. Quiet'
    <3>1. Filtered' = Filtered
      BY SameWiki
    <3>. QED
      BY <2>1, <3>1 DEF Recorded, Quiet
  <2>6. ASSUME NEW f, NEW t, Leads(diff, replica, target, f, t), Mirrors(f, t)
        PROVE  Leads(diff, replica, target, f, t)' /\ Mirrors(f, t)'
    <3>1. Leads(diff, replica, target, f, t)'
      BY <2>1, <2>6
    <3>2. Mirrors(f, t)'
      BY <2>1, <2>3, <2>6 DEF Mirrors, Started, Unchanged, wikiVars
    <3>. QED
      BY <3>1, <3>2
  <2>. QED
    BY <2>1, <2>4, <2>5, <2>6, SameFacts DEF Recorded
<1>8. ASSUME EndPage
      PROVE  phase' = "writing" /\ Recorded'
  <2>1. /\ phase' = "writing" /\ current' = NoCurrent
        /\ UNCHANGED <<wikiVars, applyVars, todo, movedBack>>
    BY <1>8 DEF EndPage, streamVars
  <2>2. IncludedPages' = IncludedPages
    BY <2>1, SameWiki
  <2>3. (IncludedPages \ todo)' = IncludedPages \ todo /\ Finished \subseteq Finished'
    <3>1. \A p \in IncludedPages : p # None
      BY <1>0, RevisionsOfWiki DEF IncludedPages
    <3>. QED
      BY <2>1, <2>2, <3>1 DEF Finished, NoCurrent
  <2>4. Quiet'
    BY <1>0, <1>8, EndQuiet DEF Recorded
  <2>5. ASSUME ~ movedBack'
        PROVE  InOrder' /\ \E f, t : Leads(diff, replica, target, f, t)' /\ Mirrors(f, t)'
    <3>1. InOrder /\ InOrder'
      BY <2>1, <2>3, <2>5, SameOrder DEF Recorded
    <3>2. PICK f, t : Leads(diff, replica, target, f, t) /\ Mirrors(f, t)
      BY <2>1, <2>5 DEF Recorded
    <3>. QED
      BY <1>0, <1>8, <3>1, <3>2, EndRecords
  <2>. QED
    BY <2>1, <2>4, <2>5, SameFacts DEF Recorded
<1>9. ASSUME DeleteUnvisited
      PROVE  phase' = "writing" /\ Recorded'
  <2>1. /\ phase' = "writing" /\ current' = current
        /\ UNCHANGED <<wikiVars, applyVars, todo, movedBack>>
    BY <1>9 DEF DeleteUnvisited, streamVars
  <2>2. IncludedPages' = IncludedPages
    BY <2>1, SameWiki
  <2>3. (IncludedPages \ todo)' = IncludedPages \ todo /\ Finished' = Finished
    BY <2>1, <2>2 DEF Finished
  <2>4. Quiet'
    BY <1>0, <1>9, DeleteQuiet DEF Recorded
  <2>5. ASSUME ~ movedBack'
        PROVE  InOrder' /\ \E f, t : Leads(diff, replica, target, f, t)' /\ Mirrors(f, t)'
    <3>1. InOrder'
      BY <2>1, <2>3, <2>5, SameOrder DEF Recorded
    <3>2. PICK f, t : Leads(diff, replica, target, f, t) /\ Mirrors(f, t)
      BY <2>1, <2>5 DEF Recorded
    <3>. QED
      BY <1>0, <1>9, <3>1, <3>2, DeleteRecords
  <2>. QED
    BY <2>1, <2>4, <2>5, SameFacts DEF Recorded
<1>10. Complete => phase' = "completed"
  BY DEF Complete
<1>. QED
  BY <1>1, <1>2, <1>4, <1>5, <1>6, <1>7, <1>8, <1>9, <1>10 DEF Write

\* Only a page without revisions stops the update.
LEMMA StuckForCause ==
    ASSUME Given, Writing, Stuck
    PROVE  scope.current /\ \E p \in IncludedPages : wiki.pages[p].revs = {}
<1>1. current # NoCurrent /\ coming = {} /\ held = None /\ scope.current /\ current.page.revs = {}
  BY DEF Stuck, NothingPassed
<1>2. current.id \in IncludedPages /\ current.id \in DOMAIN wiki.pages
  BY <1>1, CurrentFacts DEF Writing
<1>3. last[current.id] = None
  BY <1>1 DEF Writing, Coming
<1>4. wiki.pages[current.id].revs = {}
  BY <1>1, <1>2, <1>3, RevisionsOfWiki DEF Given
<1>. QED
  BY <1>1, <1>2, <1>4

\* The writer crashes only at a page without revisions.
LEMMA OnlyNothingCrashes ==
    ASSUME Write, phase' = "crashed", phase = "writing"
    PROVE  PassNothing
<1>. QED
  BY DEF Write, SkipPage, StartPage, AddRevision, HoldRevision, PassRevision, PassNothing,
         WriterAddsRevision, EndPage, DeleteUnvisited, Complete

\* Each record, when it comes to be applied, can be applied.
LEMMA ApplyRecorded ==
    ASSUME RInv, Apply
    PROVE  /\ phase' = "completed" /\ ~ movedBack' =>
                \E f, t : Leads(diff, replica, target, f, t)' /\ Flushed(f, t) = dump'
           /\ phase' = "applied" /\ ~ movedBack' => replica' = dump'
           /\ phase' = "failed" => movedBack'
<1>1. /\ phase = "completed" /\ phase' \in {"completed", "applied", "failed"}
      /\ dump' = dump
  BY ApplyStep
<1>2. movedBack' = movedBack
  BY DEF Apply, ApplyNewPage, ApplyPageChange, ApplyNewRevision, ApplyRevisionChange,
         ApplyDeleteRevision, ApplyFullDelete, ApplyPartialDelete, ApplyComplete, Done
<1>3. SUFFICES ASSUME ~ movedBack
               PROVE  /\ phase' = "completed" =>
                            \E f, t : Leads(diff, replica, target, f, t)' /\ Flushed(f, t) = dump'
                      /\ phase' = "applied" => replica' = dump'
                      /\ phase' # "failed"
  BY <1>2
<1>4. PICK f, t : Leads(diff, replica, target, f, t) /\ Flushed(f, t) = dump
  BY <1>1, <1>3 DEF RInv
<1>5. CASE diff = <<>>
  <2>1. ApplyComplete
    BY <1>5 DEF Apply, ApplyNewPage, ApplyPageChange, ApplyNewRevision, ApplyRevisionChange,
                ApplyDeleteRevision, ApplyFullDelete, ApplyPartialDelete, Next1
  <2>2. replica' = PageFlushed /\ phase' = "applied"
    BY <2>1 DEF ApplyComplete
  <2>3. replica = f /\ target = t
    BY <1>4, <1>5, LeadsNot
  <2>. QED
    BY <1>1, <1>4, <2>2, <2>3 DEF PageFlushed, Flushed
<1>6. CASE diff # <<>>
  <2>1. PICK g, u : Applies(Head(diff), replica, target, g, u) /\ Leads(Tail(diff), g, u, f, t)
    BY <1>4, <1>6, LeadsFirst
  <2>2. /\ phase' = "completed" /\ diff' = Tail(diff)
        /\ replica' = g /\ target' = u
    BY <1>6, <2>1, RecordApplied
  <2>3. Leads(diff', replica', target', f, t)
    BY <2>1, <2>2
  <2>. QED
    BY <1>1, <1>4, <2>2, <2>3
<1>. QED
  BY <1>5, <1>6

\* Every step keeps the invariant.
LEMMA NextRecorded ==
    ASSUME IInv, IInv', RInv, [Next]_vars
    PROVE  RInv'
<1>1. CASE Write
  <2>1. /\ phase = "writing" /\ UNCHANGED wikiVars
        /\ \/ phase' = "writing" /\ Writing'
           \/ phase' = "crashed" /\ Writing' /\ Stuck'
           \/ phase' = "completed" /\ dump' = Filtered /\ coming' = {} /\ current' = NoCurrent
    BY <1>1, WriteStep DEF IInv
  <2>2. \/ phase' \in {"writing", "crashed"} /\ Recorded'
        \/ phase' = "completed" /\ Complete
    BY <1>1, <2>1, WriteRecorded DEF RInv
  <2>3. CASE phase' = "writing"
    BY <2>2, <2>3 DEF RInv
  <2>4. CASE phase' = "crashed"
    <3>1. PassNothing
      BY <1>1, <2>1, <2>4, OnlyNothingCrashes
    <3>2. Stuck
      BY <3>1 DEF PassNothing, Stuck
    <3>3. PICK p \in IncludedPages : scope.current /\ wiki.pages[p].revs = {}
      BY <2>1, <3>2, StuckForCause DEF IInv
    <3>4. wiki' = wiki /\ scope' = scope /\ IncludedPages' = IncludedPages
      BY <2>1, SameWiki DEF wikiVars
    <3>5. scope'.current /\ \E q \in IncludedPages' : wiki'.pages[q].revs = {}
      BY <3>3, <3>4
    <3>. QED
      BY <2>2, <2>4, <3>5 DEF RInv
  <2>5. CASE phase' = "completed" /\ Complete
    <3>1. /\ current = NoCurrent
          /\ UNCHANGED <<diff, dump, replica, target, movedBack>>
      BY <2>5 DEF Complete, writerVars, applyVars
    <3>2. ASSUME ~ movedBack
          PROVE  \E f, t : Leads(diff, replica, target, f, t) /\ Flushed(f, t) = dump
      <4>1. PICK f, t : Leads(diff, replica, target, f, t) /\ Mirrors(f, t)
        BY <2>1, <3>2 DEF RInv, Recorded
      <4>. QED
        BY <3>1, <4>1 DEF Mirrors, Unchanged
    <3>3. ASSUME ~ movedBack'
          PROVE  \E f, t : Leads(diff', replica', target', f, t) /\ Flushed(f, t) = dump'
      <4>1. PICK f, t : Leads(diff, replica, target, f, t) /\ Flushed(f, t) = dump
        BY <3>1, <3>2, <3>3
      <4>2. Leads(diff', replica', target', f, t) /\ Flushed(f, t) = dump'
        BY <3>1, <4>1
      <4>. QED
        BY <4>2
    <3>. QED
      BY <2>5, <3>3 DEF RInv
  <2>. QED
    BY <2>1, <2>2, <2>3, <2>4, <2>5
<1>2. CASE Apply
  <2>1. phase' \in {"completed", "applied", "failed"}
    BY <1>2, ApplyStep
  <2>. QED
    BY <1>2, <2>1, ApplyRecorded DEF RInv
<1>3. CASE UNCHANGED vars
  <2>1. /\ UNCHANGED <<wikiVars, phase, dump, replica, target, diff, movedBack>>
        /\ UNCHANGED <<todo, newRevisionIds, current, pageWritten, scope, wiki, last>>
    BY <1>3 DEF vars, writerVars, streamVars, applyVars, wikiVars
  <2>2. IncludedPages' = IncludedPages /\ \A q : RevisionsOf(q)' = RevisionsOf(q)
        /\ Filtered' = Filtered
    BY <2>1, SameWiki
  <2>3. Finished' = Finished /\ \A q : OldRevs(q)' = OldRevs(q)
    BY <2>1, <2>2 DEF Finished, OldRevs
  <2>4. ASSUME Recorded
        PROVE  Recorded'
    <3>1. Named' /\ Quiet' /\ (InOrder => InOrder')
      BY <2>1, <2>2, <2>3, <2>4 DEF Recorded, Named, Quiet, InOrder
    <3>2. ASSUME NEW f, NEW t, Leads(diff, replica, target, f, t), Mirrors(f, t)
          PROVE  Leads(diff', replica', target', f, t) /\ Mirrors(f, t)'
      <4>1. Leads(diff', replica', target', f, t)
        BY <2>1, <3>2
      <4>2. Mirrors(f, t)'
        BY <2>1, <2>2, <3>2 DEF Mirrors, Started, Unchanged
      <4>. QED
        BY <4>1, <4>2
    <3>. QED
      BY <2>1, <2>4, <3>1, <3>2 DEF Recorded
  <2>5. ASSUME phase = "completed" /\ ~ movedBack
        PROVE  \E f, t : Leads(diff', replica', target', f, t) /\ Flushed(f, t) = dump'
    <3>1. PICK f, t : Leads(diff, replica, target, f, t) /\ Flushed(f, t) = dump
      BY <2>5 DEF RInv
    <3>2. Leads(diff', replica', target', f, t) /\ Flushed(f, t) = dump'
      BY <2>1, <3>1
    <3>. QED
      BY <3>2
  <2>. QED
    BY <2>1, <2>2, <2>4, <2>5 DEF RInv
<1>. QED
  BY <1>1, <1>2, <1>3 DEF Next

------------------------------------------------------------------------------
(* The results. *)

\* What the records so far lead to is the dump as it is, but for the page that
\* is being written.
THEOREM RecordsInvariance == Spec => []RInv
<1>1. IInv /\ IInv' /\ RInv /\ [Next]_vars => RInv'
  BY NextRecorded
<1>. QED
  BY <1>1, InitRecorded, Invariance, PTL DEF Spec

\* The copy becomes the dump.
THEOREM CopyBecomesDump == Spec => []ReplicaIsDump
<1>1. RInv => ReplicaIsDump
  BY DEF RInv, ReplicaIsDump
<1>. QED
  BY <1>1, RecordsInvariance, PTL

\* No record fails to apply, and the update fails only at an empty page.
THEOREM RecordsApply == Spec => []FailsForCause
<1>1. RInv => FailsForCause
  BY DEF RInv, FailsForCause
<1>. QED
  BY <1>1, RecordsInvariance, PTL

\* An update that changes nothing records nothing.
THEOREM NothingRecorded == Spec => []NoChangeNoRecord
<1>1. RInv => NoChangeNoRecord
  BY DEF RInv, Recorded, Quiet, NoChangeNoRecord
<1>. QED
  BY <1>1, RecordsInvariance, PTL
==============================================================================
