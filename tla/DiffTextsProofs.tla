---------------------------- MODULE DiffTextsProofs ----------------------------
(***************************************************************************)
(* Proofs about the texts of revisions, for any number of revisions, texts *)
(* and sessions and every size of a group, in two parts.                   *)
(*                                                                         *)
(* The groups of a file, TextGroups: as long as no revision has its text   *)
(* replaced in a group other than the one that is being emptied, every     *)
(* revision finds its text, no two share one, and no deletion is           *)
(* forgotten.                                                              *)
(*                                                                         *)
(* The diff dump, DiffTexts: a copy of the dump reads every text once it   *)
(* has applied the diff dump, and no deletion in it fails.  The invariant  *)
(* says of the records that are not applied yet what they will do: diff is *)
(* followed by queue, with the group that is being filled between them.    *)
(***************************************************************************)
EXTENDS DiffTexts, TLAPS, WellFoundedInduction

------------------------------------------------------------------------------
(* The groups of a file. *)

Content == Texts \cup {Empty, Deleted}

\* A group that is open in memory, or none.
IsOpen(group) ==
    group = NoGroup \/ /\ group = [id |-> group.id, texts |-> group.texts]
                       /\ group.id \in Nat \ {0} /\ group.texts \in Seq(Content)

\* The groups in a file, and the one of them that is being emptied in memory:
\* it has more empty texts at its end, and some texts are deleted.
Shelf(g, e) ==
    /\ g = [id \in DOMAIN g |-> g[id]]
    /\ \A id \in DOMAIN g : id \in Nat \ {0} /\ g[id] \in Seq(Content)
    /\ IsOpen(e)
    /\ e # NoGroup =>
        /\ e.id \in DOMAIN g /\ Len(g[e.id]) <= Len(e.texts)
        /\ \A i \in 1 .. Len(e.texts) :
            e.texts[i] = Deleted \/
                IF i <= Len(g[e.id]) THEN e.texts[i] = g[e.id][i] ELSE e.texts[i] = Empty

\* A text that is in a group, and not deleted in memory.
In(texts, i, t) == i \in 1 .. Len(texts) /\ texts[i] = t
Has(g, e, id, i, t) ==
    id \in DOMAIN g /\ In(IF e.id = id THEN e.texts ELSE g[id], i, t)

\* The operators of TextGroups, for the groups of any file.
Loaded(g, id) == [id |-> id, texts |-> IF id \in DOMAIN g THEN Append(g[id], Empty) ELSE <<>>]
EmptiedIn(g, e, loc) ==
    LET switch == e.id # loc[1]
        group  == IF switch THEN Loaded(g, loc[1]) ELSE e
        after  == [group EXCEPT !.texts[loc[2]] = Deleted]
        file   == IF switch THEN Stored(g, e) ELSE g
    IN  IF loc[2] \notin DOMAIN group.texts
          THEN [fails |-> TRUE, groups |-> g, emptying |-> e]
        ELSE IF IsEmpty(after)
          THEN [fails |-> FALSE, groups |-> Restrict(file, DOMAIN file \ {loc[1]}),
                emptying |-> NoGroup]
        ELSE [fails |-> FALSE, groups |-> file, emptying |-> after]

------------------------------------------------------------------------------
(* Operators. *)

\* A bounded set of numbers has a greatest one.
LEMMA GreatestExists ==
    ASSUME NEW n \in Nat, NEW S \in SUBSET (1 .. n), S # {}
    PROVE  Max(S) \in S /\ \A x \in S : x <= Max(S)
<1> DEFINE R == OpToRel(<, Nat)
           D == {n - x : x \in S}
<1>1. ASSUME NEW a \in Nat, NEW b \in Nat, a < b
      PROVE  <<a, b>> \in R
  <2>1. R = {ss \in Nat \X Nat : ss[1] < ss[2]}
    BY DEF OpToRel
  <2>. QED
    BY <1>1, <2>1
<1>2. D \subseteq Nat /\ D # {}
  <2>1. \A x \in S : n - x \in Nat
    OBVIOUS
  <2>. QED
    BY <2>1
<1>3. PICK d \in D : \A c \in D : ~ (<<c, d>> \in R)
  <2>. HIDE DEF R, D
  <2>1. IsWellFoundedOn(R, Nat)
    BY NatLessThanWellFounded DEF R
  <2>. QED
    BY <1>2, <2>1, WFMin
<1>. HIDE DEF R
<1>4. PICK x \in S : d = n - x
  OBVIOUS
<1>5. \A y \in S : y <= x
  <2>. SUFFICES ASSUME NEW y \in S, x < y PROVE FALSE
    OBVIOUS
  <2>1. n - y \in D /\ n - y < d /\ n - y \in Nat /\ d \in Nat
    BY <1>4
  <2>. QED
    BY <1>1, <1>3, <2>1
<1>. QED
  BY <1>5 DEF Max

\* A new id is greater than all that are in use.
LEMMA NewIds ==
    ASSUME NEW n \in Nat, NEW g, DOMAIN g \subseteq 1 .. n
    PROVE  /\ NewId(g) \in 1 .. n + 1
           /\ \A id \in DOMAIN g : id < NewId(g)
<1>1. CASE DOMAIN g = {}
  BY <1>1 DEF NewId
<1>2. CASE DOMAIN g # {}
  <2>1. Max(DOMAIN g) \in DOMAIN g /\ \A x \in DOMAIN g : x <= Max(DOMAIN g)
    BY <1>2, GreatestExists
  <2>2. PICK m \in 1 .. n : m = Max(DOMAIN g)
    BY <2>1
  <2>3. NewId(g) = m + 1
    BY <1>2, <2>2 DEF NewId
  <2>. QED
    BY <2>1, <2>2, <2>3
<1>. QED
  BY <1>1, <1>2

\* A group that is loaded has what it has in the file, and an empty text.
LEMMA LoadedHas ==
    ASSUME NEW g, NEW id \in DOMAIN g, g[id] \in Seq(Content)
    PROVE  LET texts == Loaded(g, id).texts
           IN  /\ texts \in Seq(Content) /\ Len(texts) = Len(g[id]) + 1
               /\ \A i \in 1 .. Len(texts) :
                    texts[i] = IF i <= Len(g[id]) THEN g[id][i] ELSE Empty
BY DEF Loaded, Content

\* The group that is being emptied is written: nothing is lost by it, and no
\* deleted text is left.
LEMMA StoreEmptying ==
    ASSUME NEW g, NEW e, Shelf(g, e)
    PROVE  /\ Shelf(Stored(g, e), NoGroup) /\ DOMAIN Stored(g, e) = DOMAIN g
           /\ \A id, i : \A t \in Content :
                Has(Stored(g, e), NoGroup, id, i, t) <=> Has(g, e, id, i, t)
<1>1. NoGroup.id = 0 /\ 0 \notin DOMAIN g /\ IsOpen(NoGroup)
  BY DEF NoGroup, Shelf, IsOpen
<1>2. CASE e = NoGroup
  BY <1>1, <1>2 DEF Stored, Shelf, Has
<1>3. CASE e # NoGroup
  <2>1. e.id \in DOMAIN g /\ e.texts \in Seq(Content)
    BY <1>3 DEF Shelf, IsOpen
  <2>2. PICK f : f = Stored(g, e)
    OBVIOUS
  <2>3. /\ DOMAIN f = DOMAIN g \cup {e.id} /\ f = [id \in DOMAIN f |-> f[id]]
        /\ f[e.id] = e.texts
        /\ \A id \in DOMAIN g : id # e.id => f[id] = g[id]
    BY <1>3, <2>2 DEF Stored, Extend
  <2>4. DOMAIN f = DOMAIN g
    BY <2>1, <2>3
  <2>. QED
    BY <1>1, <2>1, <2>2, <2>3, <2>4 DEF Shelf, Has
<1>. QED
  BY <1>2, <1>3

\* A text is deleted in the group that is being emptied, after that has been
\* changed if need be: all other texts stay, and the text was there.
LEMMA EmptiedKeeps ==
    ASSUME NEW g, NEW e, Shelf(g, e), NEW id, NEW i, NEW t \in Texts, Has(g, e, id, i, t)
    PROVE  LET x == EmptiedIn(g, e, <<id, i>>)
           IN  /\ ~ x.fails /\ Shelf(x.groups, x.emptying) /\ DOMAIN x.groups \subseteq DOMAIN g
               /\ \A h, j : \A u \in Texts :
                    Has(x.groups, x.emptying, h, j, u)
                        <=> Has(g, e, h, j, u) /\ <<h, j>> # <<id, i>>
<1>1. id \in DOMAIN g /\ id \in Nat \ {0} /\ g[id] \in Seq(Content) /\ NoGroup.id = 0
  BY DEF Has, Shelf, NoGroup
<1>2. Empty \notin Texts /\ Deleted \notin Texts /\ Texts \subseteq Content /\ Deleted \in Content
  BY TextsAssumption DEF Content
<1>3. PICK group, file :
        /\ group = IF e.id # id THEN Loaded(g, id) ELSE e
        /\ file = IF e.id # id THEN Stored(g, e) ELSE g
  OBVIOUS
<1>4. /\ Shelf(file, group) /\ group # NoGroup /\ group.id = id /\ DOMAIN file = DOMAIN g
      /\ \A h, j : \A u \in Texts : Has(file, group, h, j, u) <=> Has(g, e, h, j, u)
  <2>1. CASE e.id = id
    BY <1>1, <1>3, <2>1
  <2>2. CASE e.id # id
    <3>1. /\ Shelf(file, NoGroup) /\ DOMAIN file = DOMAIN g
          /\ \A h, j : \A u \in Texts : Has(file, NoGroup, h, j, u) <=> Has(g, e, h, j, u)
      BY <1>2, <1>3, <2>2, StoreEmptying
    <3>2. file[id] = g[id]
      <4>1. CASE e = NoGroup
        BY <1>3, <2>2, <4>1 DEF Stored
      <4>2. CASE e # NoGroup
        BY <1>1, <1>3, <2>2, <4>2 DEF Stored, Extend
      <4>. QED
        BY <4>1, <4>2
    <3>3. /\ group = [id |-> id, texts |-> group.texts]
          /\ group.texts \in Seq(Content) /\ Len(group.texts) = Len(g[id]) + 1
          /\ \A j \in 1 .. Len(group.texts) :
                group.texts[j] = IF j <= Len(g[id]) THEN g[id][j] ELSE Empty
      <4>1. group = Loaded(g, id)
        BY <1>3, <2>2
      <4>2. group = [id |-> id, texts |-> group.texts]
        BY <4>1 DEF Loaded
      <4>. QED
        BY <1>1, <4>1, <4>2, LoadedHas
    <3>4. group # NoGroup /\ group.id = id
      BY <1>1, <3>3
    <3>5. Len(g[id]) \in Nat
      BY <1>1
    <3>6. Shelf(file, group)
      BY <1>1, <3>1, <3>2, <3>3, <3>4, <3>5 DEF Shelf, IsOpen
    <3>7. \A h, j : \A u \in Texts : Has(file, group, h, j, u) <=> Has(file, NoGroup, h, j, u)
      BY <1>1, <1>2, <3>1, <3>2, <3>3, <3>4, <3>5 DEF Has, In, Shelf
    <3>. QED
      BY <3>1, <3>4, <3>6, <3>7
  <2>. QED
    BY <2>1, <2>2
<1>5. /\ group = [id |-> id, texts |-> group.texts] /\ group.texts \in Seq(Content)
      /\ i \in 1 .. Len(group.texts) /\ group.texts[i] = t
  <2>1. Has(file, group, id, i, t)
    BY <1>4
  <2>2. IsOpen(group)
    BY <1>4 DEF Shelf
  <2>. QED
    BY <1>4, <2>1, <2>2 DEF IsOpen, Has, In
<1>6. PICK after : after = [group EXCEPT !.texts[i] = Deleted]
  OBVIOUS
<1>7. /\ after = [id |-> id, texts |-> after.texts] /\ after.id = id
      /\ after.texts = [group.texts EXCEPT ![i] = Deleted]
  BY <1>5, <1>6
<1>8. /\ after.texts \in Seq(Content) /\ Len(after.texts) = Len(group.texts)
      /\ \A j \in 1 .. Len(after.texts) :
            after.texts[j] = IF j = i THEN Deleted ELSE group.texts[j]
  BY <1>2, <1>5, <1>7
<1>9. after # NoGroup
  BY <1>1, <1>7
<1>10. Shelf(file, after)
  BY <1>1, <1>4, <1>5, <1>7, <1>8, <1>9 DEF Shelf, IsOpen
<1>11. \A h, j : \A u \in Texts :
          Has(file, after, h, j, u) <=> Has(file, group, h, j, u) /\ <<h, j>> # <<id, i>>
  BY <1>2, <1>4, <1>5, <1>7, <1>8 DEF Has, In
<1>12. PICK x : x = EmptiedIn(g, e, <<id, i>>)
  OBVIOUS
<1>13. x = IF IsEmpty(after)
             THEN [fails |-> FALSE, groups |-> Restrict(file, DOMAIN file \ {id}),
                   emptying |-> NoGroup]
             ELSE [fails |-> FALSE, groups |-> file, emptying |-> after]
  <2>1. i \in DOMAIN group.texts
    BY <1>5
  <2>. QED
    BY <1>3, <1>6, <1>12, <2>1 DEF EmptiedIn
<1>14. CASE ~ IsEmpty(after)
  BY <1>4, <1>10, <1>11, <1>12, <1>13, <1>14
<1>15. CASE IsEmpty(after)
  <2>1. \A j \in 1 .. Len(after.texts) : after.texts[j] = Deleted
    BY <1>8, <1>15 DEF IsEmpty
  <2>2. PICK f : f = Restrict(file, DOMAIN file \ {id})
    OBVIOUS
  <2>3. /\ DOMAIN f = DOMAIN file \ {id} /\ f = [h \in DOMAIN f |-> f[h]]
        /\ \A h \in DOMAIN f : f[h] = file[h]
    BY <2>2 DEF Restrict
  <2>4. Shelf(f, NoGroup)
    BY <1>10, <2>3 DEF Shelf, IsOpen
  <2>5. \A h, j : \A u \in Texts : Has(f, NoGroup, h, j, u) <=> Has(file, after, h, j, u)
    BY <1>1, <1>2, <1>7, <1>10, <2>1, <2>3 DEF Has, In, Shelf
  <2>. QED
    BY <1>4, <1>11, <1>12, <1>13, <1>15, <2>2, <2>3, <2>4, <2>5
<1>. QED
  BY <1>14, <1>15

------------------------------------------------------------------------------
(* A text is added. *)

\* A text that is in a group of the file or in the one that is being filled.
StandsIn(g, e, a, id, i, t) == Has(g, e, id, i, t) \/ (a.id = id /\ In(a.texts, i, t))

\* The group that is being filled is not in the file yet.
IsFilling(a, g) ==
    /\ IsOpen(a)
    /\ a # NoGroup => a.id \notin DOMAIN g /\ Len(a.texts) < GroupSize

\* A group that is full, or the last one, is written to the file.
LEMMA StoreFilled ==
    ASSUME NEW g, NEW e, NEW a, Shelf(g, e), IsOpen(a), a # NoGroup => a.id \notin DOMAIN g
    PROVE  /\ Shelf(Stored(g, a), e)
           /\ DOMAIN Stored(g, a) = DOMAIN g \cup (IF a = NoGroup THEN {} ELSE {a.id})
           /\ \A h, j, u : StandsIn(Stored(g, a), e, NoGroup, h, j, u)
                                <=> StandsIn(g, e, a, h, j, u)
<1>1. NoGroup.id = 0 /\ NoGroup.texts = <<>> /\ Len(NoGroup.texts) = 0
  BY DEF NoGroup
<1>2. CASE a = NoGroup
  BY <1>2 DEF Stored
<1>3. CASE a # NoGroup
  <2>1. PICK f : f = Stored(g, a)
    OBVIOUS
  <2>2. /\ DOMAIN f = DOMAIN g \cup {a.id} /\ f = [h \in DOMAIN f |-> f[h]]
        /\ f[a.id] = a.texts /\ \A h \in DOMAIN g : h # a.id => f[h] = g[h]
    BY <1>3, <2>1 DEF Stored, Extend
  <2>3. /\ a.id \in Nat \ {0} /\ a.texts \in Seq(Content) /\ a.id \notin DOMAIN g
        /\ e # NoGroup => e.id \in DOMAIN g
    BY <1>3 DEF IsOpen, Shelf
  <2>4. e.id # a.id
    BY <1>1, <2>3
  <2>5. Shelf(f, e)
    BY <2>2, <2>3 DEF Shelf
  <2>6. \A h, j, u : StandsIn(f, e, NoGroup, h, j, u) <=> StandsIn(g, e, a, h, j, u)
    BY <1>1, <2>2, <2>3, <2>4 DEF StandsIn, Has, In
  <2>. QED
    BY <1>3, <2>1, <2>2, <2>5, <2>6
<1>. QED
  BY <1>2, <1>3

\* A text that is added gets a place that no text has had in this group, and
\* the others stay.
LEMMA AddedKeeps ==
    ASSUME NEW g, NEW e, Shelf(g, e), DOMAIN g \subseteq 1 .. MaxGroup, IsFilling(adding, g),
           NEW t \in Texts
    PROVE  LET x == Added(t, g)
           IN  \E id \in Nat \ {0}, i \in 1 .. GroupSize :
                /\ x.loc = <<id, i>> /\ id \notin DOMAIN g
                /\ Shelf(x.groups, e) /\ IsFilling(x.adding, x.groups)
                /\ DOMAIN g \subseteq DOMAIN x.groups /\ DOMAIN x.groups \subseteq DOMAIN g \cup {id}
                /\ x.adding # NoGroup => x.adding.id = id
                /\ x.adding = NoGroup => id \in DOMAIN x.groups
                /\ \A u : ~ StandsIn(g, e, adding, id, i, u)
                /\ \A h, j, u : StandsIn(x.groups, e, x.adding, h, j, u)
                        <=> StandsIn(g, e, adding, h, j, u) \/ (h = id /\ j = i /\ u = t)
<1>1. NoGroup.id = 0 /\ NoGroup.texts = <<>> /\ Len(NoGroup.texts) = 0
  BY DEF NoGroup
<1>2. PICK open : open = IF adding = NoGroup THEN [NoGroup EXCEPT !.id = NewId(g)] ELSE adding
  OBVIOUS
<1>3. /\ open = [id |-> open.id, texts |-> open.texts] /\ open.id \in Nat \ {0}
      /\ open.texts \in Seq(Content) /\ Len(open.texts) < GroupSize /\ open.id \notin DOMAIN g
      /\ \A h, j, u : StandsIn(g, e, open, h, j, u) <=> StandsIn(g, e, adding, h, j, u)
  <2>1. CASE adding = NoGroup
    <3>1. PICK n : n = NewId(g)
      OBVIOUS
    <3>2. n \in Nat \ {0} /\ n \notin DOMAIN g
      BY <3>1, NewIds, TextsAssumption
    <3>3. open = [id |-> n, texts |-> <<>>]
      BY <1>2, <2>1, <3>1 DEF NoGroup
    <3>. QED
      BY <1>1, <2>1, <3>2, <3>3, TextsAssumption DEF StandsIn, In
  <2>2. CASE adding # NoGroup
    BY <1>2, <2>2 DEF IsFilling, IsOpen
  <2>. QED
    BY <2>1, <2>2
<1>4. PICK filled : filled = [open EXCEPT !.texts = Append(@, t)]
  OBVIOUS
<1>5. /\ filled = [id |-> open.id, texts |-> filled.texts] /\ filled.id = open.id
      /\ filled.texts = Append(open.texts, t)
  BY <1>3, <1>4
<1>6. /\ filled.texts \in Seq(Content) /\ Len(filled.texts) = Len(open.texts) + 1
      /\ Len(open.texts) \in Nat
      /\ \A j \in 1 .. Len(open.texts) : filled.texts[j] = open.texts[j]
      /\ filled.texts[Len(open.texts) + 1] = t
  BY <1>3, <1>5 DEF Content
<1>7. PICK id, i : id = open.id /\ i = Len(filled.texts)
  OBVIOUS
<1>8. i \in 1 .. GroupSize
  BY <1>3, <1>6, <1>7, TextsAssumption
<1>9. filled # NoGroup /\ IsOpen(filled)
  BY <1>1, <1>3, <1>5, <1>6 DEF IsOpen
<1>10. \A h, j, u : StandsIn(g, e, filled, h, j, u)
            <=> StandsIn(g, e, adding, h, j, u) \/ (h = id /\ j = i /\ u = t)
  <2>1. \A h, j, u : StandsIn(g, e, filled, h, j, u)
            <=> StandsIn(g, e, open, h, j, u) \/ (h = id /\ j = i /\ u = t)
    BY <1>3, <1>5, <1>6, <1>7 DEF StandsIn, In
  <2>. QED
    BY <1>3, <2>1
<1>11. \A u : ~ StandsIn(g, e, adding, id, i, u)
  <2>1. \A u : ~ StandsIn(g, e, open, id, i, u)
    BY <1>3, <1>6, <1>7 DEF StandsIn, In, Has
  <2>. QED
    BY <1>3, <2>1
<1>12. PICK x : x = Added(t, g)
  OBVIOUS
<1>13. x = [groups |-> IF IsFull(filled) THEN Stored(g, filled) ELSE g,
            adding |-> IF IsFull(filled) THEN NoGroup ELSE filled,
            loc |-> <<id, i>>]
  BY <1>2, <1>4, <1>7, <1>12 DEF Added
<1>14. CASE IsFull(filled)
  <2>1. /\ x.loc = <<id, i>> /\ x.groups = Stored(g, filled) /\ x.adding = NoGroup
    BY <1>13, <1>14
  <2>2. /\ Shelf(x.groups, e) /\ DOMAIN x.groups = DOMAIN g \cup {id}
        /\ \A h, j, u : StandsIn(x.groups, e, NoGroup, h, j, u)
                            <=> StandsIn(g, e, filled, h, j, u)
    <3>1. filled.id = id /\ (filled # NoGroup => filled.id \notin DOMAIN g)
      BY <1>3, <1>5, <1>7
    <3>2. /\ Shelf(Stored(g, filled), e)
          /\ DOMAIN Stored(g, filled)
                = DOMAIN g \cup (IF filled = NoGroup THEN {} ELSE {filled.id})
          /\ \A h, j, u : StandsIn(Stored(g, filled), e, NoGroup, h, j, u)
                                <=> StandsIn(g, e, filled, h, j, u)
      BY <1>9, <3>1, StoreFilled
    <3>. QED
      BY <1>9, <2>1, <3>1, <3>2
  <2>3. IsFilling(x.adding, x.groups)
    BY <2>1 DEF IsFilling, IsOpen
  <2>. QED
    BY <1>3, <1>7, <1>8, <1>10, <1>11, <1>12, <2>1, <2>2, <2>3
<1>15. CASE ~ IsFull(filled)
  <2>1. /\ x.loc = <<id, i>> /\ x.groups = g /\ x.adding = filled
    BY <1>13, <1>15
  <2>2. IsFilling(x.adding, x.groups)
    BY <1>3, <1>5, <1>6, <1>9, <1>15, <2>1, TextsAssumption DEF IsFilling, IsFull
  <2>. QED
    BY <1>3, <1>5, <1>7, <1>8, <1>9, <1>10, <1>11, <1>12, <2>1, <2>2
<1>. QED
  BY <1>14, <1>15

------------------------------------------------------------------------------
(* The invariant. *)

Stands(id, i, t) == StandsIn(groups, emptying, adding, id, i, t)

\* Places that belong to a revision, or did until its text was hidden.
Known(id, i) == <<id, i>> \in hidden \/ \E r \in DOMAIN location : location[r] = <<id, i>>

\* Groups in memory and in the file.
GroupsAre ==
    /\ Shelf(groups, emptying) /\ IsFilling(adding, groups)
    /\ DOMAIN groups \subseteq 1 .. MaxGroup
    /\ adding # NoGroup => adding.id <= MaxGroup

\* Each revision has a place of its own, and its text is there; only those of
\* this session can be in the group that is being filled.
Placed ==
    /\ location = [r \in DOMAIN location |-> location[r]]
    /\ wanted = [r \in DOMAIN wanted |-> wanted[r]]
    /\ DOMAIN location \subseteq Revisions /\ DOMAIN wanted = DOMAIN location
    /\ \A r \in DOMAIN location :
        /\ location[r] \in (1 .. MaxGroup) \X (1 .. GroupSize) /\ wanted[r] \in Texts
        /\ Stands(location[r][1], location[r][2], wanted[r])
        /\ r \notin fresh => location[r][1] \in DOMAIN groups
    /\ LocationsUnique

\* Texts that are hidden are in the file, and there are no others than those
\* and the texts of revisions.
Accounted ==
    /\ \A l \in hidden : \E id, i : \E t \in Texts :
            l = <<id, i>> /\ Has(groups, emptying, id, i, t)
    /\ \A id, i : \A t \in Texts : Stands(id, i, t) => Known(id, i)

Sessions ==
    /\ fresh \subseteq Revisions
    /\ session \in {"open", "completed"}
    /\ session = "completed" => adding = NoGroup /\ emptying = NoGroup

IInv == GroupsAre /\ Placed /\ Accounted /\ Sessions

\* Emptied and TextAt are about the groups of the dump.
LEMMA EmptiedHere == \A loc : Emptied(loc) = EmptiedIn(groups, emptying, loc)
BY DEF Emptied, EmptiedIn, LoadGroup, Loaded

\* The text of a revision of an earlier session is taken out of its group.
LEMMA RemovedFacts ==
    ASSUME GroupsAre, Placed, NEW r \in DOMAIN location \ fresh
    PROVE  LET x == Emptied(location[r])
           IN  \E id, i :
                /\ location[r] = <<id, i>> /\ Has(groups, emptying, id, i, wanted[r])
                /\ ~ x.fails /\ Shelf(x.groups, x.emptying) /\ IsFilling(adding, x.groups)
                /\ DOMAIN x.groups \subseteq DOMAIN groups
                /\ \A h, j : \A u \in Texts :
                    /\ Has(x.groups, x.emptying, h, j, u)
                            <=> Has(groups, emptying, h, j, u) /\ <<h, j>> # <<id, i>>
                    /\ StandsIn(x.groups, x.emptying, adding, h, j, u)
                            <=> Stands(h, j, u) /\ <<h, j>> # <<id, i>>
<1>1. PICK id, i : location[r] = <<id, i>>
  BY DEF Placed
<1>2. /\ id \in DOMAIN groups /\ wanted[r] \in Texts /\ Stands(id, i, wanted[r])
      /\ Shelf(groups, emptying) /\ IsFilling(adding, groups)
  BY <1>1 DEF Placed, GroupsAre
<1>3. adding.id # id
  BY <1>2 DEF IsFilling, Shelf, NoGroup
<1>4. Has(groups, emptying, id, i, wanted[r])
  BY <1>2, <1>3 DEF Stands, StandsIn
<1>5. PICK x : x = Emptied(location[r])
  OBVIOUS
<1>6. x = EmptiedIn(groups, emptying, <<id, i>>)
  BY <1>1, <1>5, EmptiedHere
<1>7. /\ ~ x.fails /\ Shelf(x.groups, x.emptying) /\ DOMAIN x.groups \subseteq DOMAIN groups
      /\ \A h, j : \A u \in Texts :
            Has(x.groups, x.emptying, h, j, u)
                <=> Has(groups, emptying, h, j, u) /\ <<h, j>> # <<id, i>>
  BY <1>2, <1>4, <1>6, EmptiedKeeps
<1>8. IsFilling(adding, x.groups)
  BY <1>2, <1>7 DEF IsFilling
<1>9. \A h, j : \A u \in Texts :
        StandsIn(x.groups, x.emptying, adding, h, j, u) <=> Stands(h, j, u) /\ <<h, j>> # <<id, i>>
  BY <1>3, <1>7 DEF Stands, StandsIn
<1>. QED
  BY <1>1, <1>4, <1>5, <1>7, <1>8, <1>9

\* There is nothing yet.
LEMMA InitStep == Init => IInv
<1>. SUFFICES ASSUME Init PROVE IInv
  OBVIOUS
<1>. USE DEF Init
<1>1. NoGroup.id = 0 /\ NoGroup.texts = <<>> /\ Len(NoGroup.texts) = 0
  BY DEF NoGroup
<1>2. GroupsAre
  BY DEF GroupsAre, Shelf, IsFilling, IsOpen
<1>3. \A id, i, t : ~ Stands(id, i, t)
  BY <1>1 DEF Stands, StandsIn, Has, In
<1>4. Placed /\ Accounted /\ Sessions
  BY <1>3 DEF Placed, Accounted, Sessions, LocationsUnique
<1>. QED
  BY <1>2, <1>4 DEF IInv

\* A new text is in nobody's place.
LEMMA WriteStep ==
    ASSUME IInv, NEW r \in Revisions, NEW t \in Texts, WriteNew(r, t)
    PROVE  IInv'
<1>1. PICK x : x = Added(t, groups)
  OBVIOUS
<1>2. /\ r \notin DOMAIN location /\ x.loc[1] <= MaxGroup
      /\ groups' = x.groups /\ adding' = x.adding /\ emptying' = emptying
      /\ location' = Extend(location, r, x.loc) /\ wanted' = Extend(wanted, r, t)
      /\ fresh' = fresh \cup {r} /\ hidden' = hidden /\ session' = session /\ session = "open"
  BY <1>1 DEF WriteNew
<1>3. PICK id \in Nat \ {0}, i \in 1 .. GroupSize :
        /\ x.loc = <<id, i>> /\ id \notin DOMAIN groups
        /\ Shelf(groups', emptying) /\ IsFilling(adding', groups')
        /\ DOMAIN groups \subseteq DOMAIN groups' /\ DOMAIN groups' \subseteq DOMAIN groups \cup {id}
        /\ adding' # NoGroup => adding'.id = id
        /\ adding' = NoGroup => id \in DOMAIN groups'
        /\ \A u : ~ Stands(id, i, u)
        /\ \A h, j, u : Stands(h, j, u)' <=> Stands(h, j, u) \/ (h = id /\ j = i /\ u = t)
  <2>1. Shelf(groups, emptying) /\ DOMAIN groups \subseteq 1 .. MaxGroup /\ IsFilling(adding, groups)
    BY DEF IInv, GroupsAre
  <2>. QED
    BY <1>1, <1>2, <2>1, AddedKeeps DEF Stands
<1>4. id \in 1 .. MaxGroup
  BY <1>2, <1>3, TextsAssumption
<1>5. GroupsAre'
  BY <1>2, <1>3, <1>4 DEF IInv, GroupsAre
<1>6. /\ DOMAIN location' = DOMAIN location \cup {r} /\ location'[r] = <<id, i>>
      /\ \A s \in DOMAIN location : location'[s] = location[s]
      /\ DOMAIN wanted' = DOMAIN wanted \cup {r} /\ wanted'[r] = t
      /\ \A s \in DOMAIN wanted : s # r => wanted'[s] = wanted[s]
  BY <1>2, <1>3 DEF Extend, IInv, Placed
<1>7. /\ location' = [s \in DOMAIN location' |-> location'[s]]
      /\ wanted' = [s \in DOMAIN wanted' |-> wanted'[s]]
  BY <1>2 DEF Extend
<1>8. Has(groups, emptying, id, i, t) => Stands(id, i, t)
  BY DEF Stands, StandsIn
<1>9. ~ Known(id, i)
  <2>1. \A l \in hidden : l # <<id, i>>
    BY <1>3 DEF IInv, Accounted, Has
  <2>2. ASSUME NEW s \in DOMAIN location, location[s] = <<id, i>> PROVE FALSE
    <3>1. Stands(id, i, wanted[s])
      BY <2>2 DEF IInv, Placed
    <3>. QED
      BY <1>3, <3>1
  <2>. QED
    BY <2>1, <2>2 DEF Known
<1>10. LocationsUnique'
  BY <1>2, <1>6, <1>9 DEF IInv, Placed, LocationsUnique, Known
<1>11. Placed'
  <2>1. ASSUME NEW s \in DOMAIN location'
        PROVE  /\ location'[s] \in (1 .. MaxGroup) \X (1 .. GroupSize) /\ wanted'[s] \in Texts
               /\ Stands(location[s][1], location[s][2], wanted[s])'
               /\ s \notin fresh' => location'[s][1] \in DOMAIN groups'
    <3>1. CASE s = r
      BY <1>2, <1>3, <1>4, <1>6, <3>1
    <3>2. CASE s # r
      BY <1>2, <1>3, <1>6, <3>2 DEF IInv, Placed
    <3>. QED
      BY <3>1, <3>2
  <2>. QED
    BY <1>6, <1>7, <1>10, <2>1 DEF IInv, Placed
<1>12. Accounted'
  <2>1. \A l \in hidden' : \E h, j : \E u \in Texts :
            l = <<h, j>> /\ Has(groups', emptying', h, j, u)
    <3>. SUFFICES ASSUME NEW l \in hidden
                  PROVE  \E h, j : \E u \in Texts :
                            l = <<h, j>> /\ Has(groups', emptying', h, j, u)
      BY <1>2
    <3>1. PICK h, j : \E u \in Texts : l = <<h, j>> /\ Has(groups, emptying, h, j, u)
      BY DEF IInv, Accounted
    <3>0. PICK u \in Texts : l = <<h, j>> /\ Has(groups, emptying, h, j, u)
      BY <3>1
    <3>2. h \in DOMAIN groups /\ h # id /\ Stands(h, j, u)'
      BY <1>3, <3>0 DEF Has, Stands, StandsIn
    <3>3. Has(groups', emptying', h, j, u)
      BY <1>2, <1>3, <3>2 DEF Stands, StandsIn, IsFilling, IsOpen, In, NoGroup
    <3>. QED
      BY <3>0, <3>3
  <2>2. ASSUME NEW h, NEW j, NEW u \in Texts, Stands(h, j, u)'
        PROVE  Known(h, j)'
    <3>1. CASE h = id /\ j = i
      BY <1>6, <3>1 DEF Known
    <3>2. CASE ~ (h = id /\ j = i)
      <4>1. Known(h, j)
        BY <1>3, <2>2, <3>2 DEF IInv, Accounted
      <4>. QED
        BY <1>2, <1>6, <4>1 DEF Known
    <3>. QED
      BY <3>1, <3>2
  <2>. QED
    BY <2>1, <2>2 DEF Accounted
<1>13. Sessions'
  BY <1>2 DEF IInv, Sessions
<1>. QED
  BY <1>5, <1>11, <1>12, <1>13 DEF IInv

\* Only the text of the deleted revision goes.
LEMMA DeleteStep ==
    ASSUME IInv, NEW r \in Revisions, DeleteRevision(r)
    PROVE  IInv'
<1>1. PICK x : x = Emptied(location[r])
  OBVIOUS
<1>2. /\ r \in DOMAIN location \ fresh /\ session = "open"
      /\ groups' = x.groups /\ emptying' = x.emptying /\ adding' = adding
      /\ session' = IF x.fails THEN "failed" ELSE session
      /\ location' = Drop(location, r) /\ wanted' = Drop(wanted, r)
      /\ fresh' = fresh /\ hidden' = hidden
  BY <1>1 DEF DeleteRevision
<1>3. GroupsAre /\ Placed /\ Accounted /\ Sessions
  BY DEF IInv
<1>4. PICK id, i :
        /\ location[r] = <<id, i>> /\ Has(groups, emptying, id, i, wanted[r])
        /\ ~ x.fails /\ Shelf(groups', emptying') /\ IsFilling(adding, groups')
        /\ DOMAIN groups' \subseteq DOMAIN groups
        /\ \A h, j : \A u \in Texts :
            /\ Has(groups', emptying', h, j, u)
                    <=> Has(groups, emptying, h, j, u) /\ <<h, j>> # <<id, i>>
            /\ Stands(h, j, u)' <=> Stands(h, j, u) /\ <<h, j>> # <<id, i>>
  BY <1>1, <1>2, <1>3, RemovedFacts DEF Stands
<1>5. GroupsAre'
  BY <1>2, <1>3, <1>4 DEF GroupsAre
<1>6. /\ DOMAIN location' = DOMAIN location \ {r} /\ DOMAIN wanted' = DOMAIN wanted \ {r}
      /\ \A s \in DOMAIN location' : location'[s] = location[s]
      /\ \A s \in DOMAIN wanted' : wanted'[s] = wanted[s]
      /\ location' = [s \in DOMAIN location' |-> location'[s]]
      /\ wanted' = [s \in DOMAIN wanted' |-> wanted'[s]]
  BY <1>2 DEF Drop, Restrict
<1>7. \A s \in DOMAIN location' : location[s] # <<id, i>>
  BY <1>2, <1>3, <1>4, <1>6 DEF Placed, LocationsUnique
<1>8. \A l \in hidden : l # <<id, i>>
  BY <1>2, <1>3, <1>4 DEF Placed, LocationsUnique
<1>9. Placed'
  <2>1. ASSUME NEW s \in DOMAIN location'
        PROVE  /\ location'[s] \in (1 .. MaxGroup) \X (1 .. GroupSize) /\ wanted'[s] \in Texts
               /\ Stands(location[s][1], location[s][2], wanted[s])'
               /\ s \notin fresh' => location'[s][1] \in DOMAIN groups'
    <3>1. /\ location'[s] = location[s] /\ wanted'[s] = wanted[s] /\ s \in DOMAIN location
          /\ location[s] \in (1 .. MaxGroup) \X (1 .. GroupSize) /\ wanted[s] \in Texts
          /\ Stands(location[s][1], location[s][2], wanted[s])
          /\ s \notin fresh => location[s][1] \in DOMAIN groups
      BY <1>3, <1>6 DEF Placed
    <3>2. location[s] = <<location[s][1], location[s][2]>>
      BY <3>1
    <3>3. Stands(location[s][1], location[s][2], wanted[s])'
      BY <1>4, <1>7, <3>1, <3>2
    <3>4. s \notin fresh => location[s][1] \in DOMAIN groups'
      <4>1. SUFFICES ASSUME s \notin fresh
                     PROVE  Has(groups', emptying', location[s][1], location[s][2], wanted[s])
        BY <3>1 DEF Has
      <4>2. adding.id # location[s][1]
        BY <1>3, <3>1, <4>1 DEF GroupsAre, IsFilling, Shelf, NoGroup
      <4>. QED
        BY <1>2, <3>1, <3>3, <4>2 DEF Stands, StandsIn
    <3>. QED
      BY <1>2, <3>1, <3>3, <3>4
  <2>2. LocationsUnique'
    BY <1>2, <1>3, <1>6 DEF Placed, LocationsUnique
  <2>. QED
    BY <1>2, <1>3, <1>6, <2>1, <2>2 DEF Placed
<1>10. Accounted'
  <2>1. ASSUME NEW l \in hidden
        PROVE  \E h, j : \E u \in Texts : l = <<h, j>> /\ Has(groups', emptying', h, j, u)
    BY <1>3, <1>4, <1>8 DEF Accounted
  <2>2. ASSUME NEW h, NEW j, NEW u \in Texts, Stands(h, j, u)'
        PROVE  Known(h, j)'
    <3>1. Known(h, j) /\ <<h, j>> # <<id, i>>
      BY <1>3, <1>4, <2>2 DEF Accounted
    <3>. QED
      BY <1>2, <1>4, <1>6, <3>1 DEF Known
  <2>. QED
    BY <1>2, <2>1, <2>2 DEF Accounted
<1>11. Sessions'
  BY <1>2, <1>3, <1>4 DEF Sessions
<1>. QED
  BY <1>5, <1>9, <1>10, <1>11 DEF IInv

\* A hidden text keeps its place.
LEMMA HideStep ==
    ASSUME IInv, NEW r \in Revisions, HideText(r)
    PROVE  IInv'
<1>1. /\ r \in DOMAIN location \ fresh /\ session = "open" /\ session' = session
      /\ groups' = groups /\ emptying' = emptying /\ adding' = adding
      /\ location' = Drop(location, r) /\ wanted' = Drop(wanted, r)
      /\ fresh' = fresh /\ hidden' = hidden \cup {location[r]}
  BY DEF HideText
<1>2. GroupsAre /\ Placed /\ Accounted /\ Sessions
  BY DEF IInv
<1>3. PICK id, i : location[r] = <<id, i>> /\ Has(groups, emptying, id, i, wanted[r])
  BY <1>1, <1>2, RemovedFacts
<1>4. /\ DOMAIN location' = DOMAIN location \ {r} /\ DOMAIN wanted' = DOMAIN wanted \ {r}
      /\ \A s \in DOMAIN location' : location'[s] = location[s]
      /\ \A s \in DOMAIN wanted' : wanted'[s] = wanted[s]
      /\ location' = [s \in DOMAIN location' |-> location'[s]]
      /\ wanted' = [s \in DOMAIN wanted' |-> wanted'[s]]
  BY <1>1 DEF Drop, Restrict
<1>5. \A h, j, u : Stands(h, j, u)' <=> Stands(h, j, u)
  BY <1>1 DEF Stands
<1>6. Placed'
  <2>1. LocationsUnique'
    BY <1>1, <1>2, <1>4 DEF Placed, LocationsUnique
  <2>. QED
    BY <1>1, <1>2, <1>4, <1>5, <2>1 DEF Placed
<1>7. Accounted'
  <2>1. \A h, j : Known(h, j) => Known(h, j)'
    BY <1>1, <1>4 DEF Known
  <2>2. wanted[r] \in Texts
    BY <1>1, <1>2 DEF Placed
  <2>3. \A l \in hidden' : \E h, j : \E u \in Texts :
            l = <<h, j>> /\ Has(groups, emptying, h, j, u)
    BY <1>1, <1>2, <1>3, <2>2 DEF Accounted
  <2>. QED
    BY <1>1, <1>2, <1>5, <2>1, <2>3 DEF Accounted
<1>. QED
  BY <1>1, <1>2, <1>6, <1>7 DEF IInv, GroupsAre, Sessions

\* The new text of a revision has a place of its own, which may be the one that
\* the old text has left, and the old text goes.
LEMMA ReplaceStep ==
    ASSUME IInv, NEW r \in Revisions, NEW t \in Texts, ReplaceText(r, t), ~ ReplaceAnywhere
    PROVE  IInv'
<1>1. PICK x : x = Emptied(location[r])
  OBVIOUS
<1>2. PICK y : y = Added(t, x.groups)
  OBVIOUS
<1>3. /\ r \in DOMAIN location \ fresh /\ y.loc[1] <= MaxGroup
      /\ groups' = y.groups /\ adding' = y.adding /\ emptying' = x.emptying
      /\ session' = IF x.fails THEN "failed" ELSE session
      /\ location' = Extend(location, r, y.loc) /\ wanted' = Extend(wanted, r, t)
      /\ fresh' = fresh \cup {r} /\ hidden' = hidden /\ session = "open"
  BY <1>1, <1>2 DEF ReplaceText
<1>4. GroupsAre /\ Placed /\ Accounted /\ Sessions
  BY DEF IInv
<1>5. PICK old, at :
        /\ location[r] = <<old, at>> /\ Has(groups, emptying, old, at, wanted[r])
        /\ ~ x.fails /\ Shelf(x.groups, x.emptying) /\ IsFilling(adding, x.groups)
        /\ DOMAIN x.groups \subseteq DOMAIN groups
        /\ \A h, j : \A u \in Texts :
            /\ Has(x.groups, x.emptying, h, j, u)
                    <=> Has(groups, emptying, h, j, u) /\ <<h, j>> # <<old, at>>
            /\ StandsIn(x.groups, x.emptying, adding, h, j, u)
                    <=> Stands(h, j, u) /\ <<h, j>> # <<old, at>>
  BY <1>1, <1>3, <1>4, RemovedFacts
<1>6. PICK id \in Nat \ {0}, i \in 1 .. GroupSize :
        /\ y.loc = <<id, i>> /\ id \notin DOMAIN x.groups
        /\ Shelf(groups', emptying') /\ IsFilling(adding', groups')
        /\ DOMAIN x.groups \subseteq DOMAIN groups'
        /\ DOMAIN groups' \subseteq DOMAIN x.groups \cup {id}
        /\ adding' # NoGroup => adding'.id = id
        /\ adding' = NoGroup => id \in DOMAIN groups'
        /\ \A u : ~ StandsIn(x.groups, x.emptying, adding, id, i, u)
        /\ \A h, j, u : Stands(h, j, u)'
                <=> StandsIn(x.groups, x.emptying, adding, h, j, u) \/ (h = id /\ j = i /\ u = t)
  <2>1. DOMAIN x.groups \subseteq 1 .. MaxGroup
    BY <1>4, <1>5 DEF GroupsAre
  <2>. QED
    BY <1>2, <1>3, <1>5, <2>1, AddedKeeps DEF Stands
<1>7. id \in 1 .. MaxGroup
  BY <1>3, <1>6, TextsAssumption
<1>8. GroupsAre'
  BY <1>3, <1>4, <1>5, <1>6, <1>7 DEF GroupsAre
<1>9. /\ DOMAIN location' = DOMAIN location /\ location'[r] = <<id, i>>
      /\ \A s \in DOMAIN location : s # r => location'[s] = location[s]
      /\ DOMAIN wanted' = DOMAIN wanted /\ wanted'[r] = t
      /\ \A s \in DOMAIN wanted : s # r => wanted'[s] = wanted[s]
      /\ location' = [s \in DOMAIN location' |-> location'[s]]
      /\ wanted' = [s \in DOMAIN wanted' |-> wanted'[s]]
  BY <1>3, <1>4, <1>6 DEF Extend, Placed
<1>10. ASSUME NEW s \in DOMAIN location, s # r
       PROVE  /\ location[s] = <<location[s][1], location[s][2]>>
              /\ location[s] # <<old, at>> /\ location[s] # <<id, i>>
              /\ StandsIn(x.groups, x.emptying, adding, location[s][1], location[s][2], wanted[s])
  <2>1. /\ location[s] = <<location[s][1], location[s][2]>> /\ wanted[s] \in Texts
        /\ Stands(location[s][1], location[s][2], wanted[s])
        /\ location[s] # location[r]
    BY <1>3, <1>4, <1>10 DEF Placed, LocationsUnique
  <2>2. StandsIn(x.groups, x.emptying, adding, location[s][1], location[s][2], wanted[s])
    BY <1>5, <2>1
  <2>. QED
    BY <1>5, <1>6, <2>1, <2>2
<1>11. ASSUME NEW l \in hidden
       PROVE  \E h, j : \E u \in Texts :
                /\ l = <<h, j>> /\ <<h, j>> # <<old, at>> /\ <<h, j>> # <<id, i>>
                /\ Has(x.groups, x.emptying, h, j, u)
  <2>1. PICK h, j : \E u \in Texts : l = <<h, j>> /\ Has(groups, emptying, h, j, u)
    BY <1>4 DEF Accounted
  <2>2. <<h, j>> # <<old, at>>
    BY <1>3, <1>4, <1>5, <2>1 DEF Placed, LocationsUnique
  <2>3. PICK u \in Texts : Has(x.groups, x.emptying, h, j, u)
    BY <1>5, <2>1, <2>2
  <2>4. h \in DOMAIN x.groups
    BY <2>3 DEF Has
  <2>. QED
    BY <1>6, <2>1, <2>2, <2>3, <2>4
<1>12. LocationsUnique'
  <2>1. \A s \in DOMAIN location : s # r => location'[s] = location[s] /\ location[s] # <<id, i>>
    BY <1>9, <1>10
  <2>2. \A l \in hidden : l # <<id, i>>
    BY <1>11
  <2>3. /\ \A s, q \in DOMAIN location : location[s] = location[q] => s = q
        /\ \A s \in DOMAIN location : location[s] \notin hidden
    BY <1>4 DEF Placed, LocationsUnique
  <2>4. DOMAIN location' = DOMAIN location /\ location'[r] = <<id, i>> /\ hidden' = hidden
    BY <1>3, <1>9
  <2>5. ASSUME NEW s \in DOMAIN location, NEW q \in DOMAIN location, location'[s] = location'[q]
        PROVE  s = q
    BY <2>1, <2>3, <2>4, <2>5
  <2>6. ASSUME NEW s \in DOMAIN location
        PROVE  location'[s] \notin hidden
    BY <2>1, <2>2, <2>3, <2>4
  <2>. QED
    BY <2>4, <2>5, <2>6 DEF LocationsUnique
<1>13. Placed'
  <2>1. ASSUME NEW s \in DOMAIN location'
        PROVE  /\ location'[s] \in (1 .. MaxGroup) \X (1 .. GroupSize) /\ wanted'[s] \in Texts
               /\ Stands(location[s][1], location[s][2], wanted[s])'
               /\ s \notin fresh' => location'[s][1] \in DOMAIN groups'
    <3>1. CASE s = r
      BY <1>3, <1>6, <1>7, <1>9, <3>1
    <3>2. CASE s # r
      <4>1. /\ location'[s] = location[s] /\ wanted'[s] = wanted[s] /\ s \in DOMAIN location
            /\ location[s] \in (1 .. MaxGroup) \X (1 .. GroupSize) /\ wanted[s] \in Texts
            /\ s \notin fresh => location[s][1] \in DOMAIN groups
        BY <1>4, <1>9, <3>2 DEF Placed
      <4>2. Stands(location[s][1], location[s][2], wanted[s])'
        BY <1>6, <1>10, <3>2, <4>1
      <4>3. s \notin fresh => location[s][1] \in DOMAIN x.groups
        <5>1. SUFFICES ASSUME s \notin fresh
                       PROVE  Has(x.groups, x.emptying, location[s][1], location[s][2], wanted[s])
          BY DEF Has
        <5>2. adding.id # location[s][1]
          BY <1>4, <4>1, <5>1 DEF GroupsAre, IsFilling, Shelf, NoGroup
        <5>. QED
          BY <1>10, <3>2, <4>1, <5>2 DEF StandsIn
      <4>. QED
        BY <1>3, <1>6, <4>1, <4>2, <4>3
    <3>. QED
      BY <3>1, <3>2
  <2>. QED
    BY <1>4, <1>9, <1>12, <2>1 DEF Placed
<1>14. Accounted'
  <2>1. ASSUME NEW l \in hidden
        PROVE  \E h, j : \E u \in Texts : l = <<h, j>> /\ Has(groups', emptying', h, j, u)
    <3>1. PICK h, j : \E u \in Texts : l = <<h, j>> /\ Has(x.groups, x.emptying, h, j, u)
      BY <1>11
    <3>2. PICK u \in Texts : l = <<h, j>> /\ Has(x.groups, x.emptying, h, j, u)
      BY <3>1
    <3>3. h \in DOMAIN x.groups /\ h # id /\ Stands(h, j, u)'
      BY <1>6, <3>2 DEF Has, StandsIn
    <3>4. Has(groups', emptying', h, j, u)
      BY <1>3, <1>6, <3>3 DEF Stands, StandsIn, IsFilling, IsOpen, In, NoGroup
    <3>. QED
      BY <3>2, <3>4
  <2>2. ASSUME NEW h, NEW j, NEW u \in Texts, Stands(h, j, u)'
        PROVE  Known(h, j)'
    <3>1. CASE h = id /\ j = i
      BY <1>3, <1>9, <3>1 DEF Known
    <3>2. CASE ~ (h = id /\ j = i)
      <4>1. Stands(h, j, u) /\ <<h, j>> # <<old, at>>
        BY <1>5, <1>6, <2>2, <3>2
      <4>2. Known(h, j)
        BY <1>4, <4>1 DEF Accounted
      <4>. QED
        BY <1>3, <1>5, <1>9, <4>1, <4>2 DEF Known
    <3>. QED
      BY <3>1, <3>2
  <2>. QED
    BY <1>3, <2>1, <2>2 DEF Accounted
<1>15. Sessions'
  BY <1>3, <1>4, <1>5 DEF Sessions
<1>. QED
  BY <1>8, <1>13, <1>14, <1>15 DEF IInv

\* What was in memory is in the file.
LEMMA CompleteStep ==
    ASSUME IInv, Complete
    PROVE  IInv'
<1>1. PICK g : g = Stored(groups, adding)
  OBVIOUS
<1>2. /\ groups' = Stored(g, emptying) /\ adding' = NoGroup /\ emptying' = NoGroup
      /\ session' = "completed" /\ location' = location /\ wanted' = wanted
      /\ fresh' = fresh /\ hidden' = hidden
  BY <1>1 DEF Complete
<1>3. GroupsAre /\ Placed /\ Accounted /\ Sessions
  BY DEF IInv
<1>4. /\ Shelf(g, emptying)
      /\ DOMAIN g = DOMAIN groups \cup (IF adding = NoGroup THEN {} ELSE {adding.id})
      /\ \A h, j, u : StandsIn(g, emptying, NoGroup, h, j, u) <=> Stands(h, j, u)
  <2>1. /\ Shelf(groups, emptying) /\ IsOpen(adding)
        /\ adding # NoGroup => adding.id \notin DOMAIN groups
    BY <1>3 DEF GroupsAre, IsFilling
  <2>. QED
    BY <1>1, <2>1, StoreFilled DEF Stands
<1>5. /\ Shelf(groups', NoGroup) /\ DOMAIN groups' = DOMAIN g
      /\ \A h, j : \A u \in Content :
            Has(groups', NoGroup, h, j, u) <=> Has(g, emptying, h, j, u)
  BY <1>2, <1>4, StoreEmptying
<1>6. NoGroup.id = 0 /\ NoGroup.texts = <<>> /\ Len(NoGroup.texts) = 0 /\ Texts \subseteq Content
  BY DEF NoGroup, Content
<1>7. \A h, j : \A u \in Texts :
        /\ Stands(h, j, u)' <=> Stands(h, j, u)
        /\ Has(groups', emptying', h, j, u) <=> Stands(h, j, u)
  <2>1. \A h, j, u : ~ (NoGroup.id = h /\ In(NoGroup.texts, j, u))
    BY <1>6 DEF In
  <2>. QED
    BY <1>2, <1>4, <1>5, <1>6, <2>1 DEF Stands, StandsIn
<1>8. GroupsAre'
  <2>1. adding # NoGroup => adding.id \in 1 .. MaxGroup
    BY <1>3, TextsAssumption DEF GroupsAre, IsFilling, IsOpen
  <2>2. DOMAIN groups' \subseteq 1 .. MaxGroup
    BY <1>3, <1>4, <1>5, <2>1 DEF GroupsAre
  <2>3. IsFilling(NoGroup, groups')
    BY DEF IsFilling, IsOpen
  <2>. QED
    BY <1>2, <1>5, <2>2, <2>3 DEF GroupsAre
<1>9. DOMAIN groups \subseteq DOMAIN groups'
  BY <1>4, <1>5
<1>10. Placed' /\ Accounted'
  <2>1. \A h, j : Known(h, j)' <=> Known(h, j)
    BY <1>2 DEF Known
  <2>2. Placed'
    BY <1>2, <1>3, <1>7, <1>9 DEF Placed, LocationsUnique
  <2>3. \A l \in hidden : \E h, j : \E u \in Texts :
            l = <<h, j>> /\ Has(groups', emptying', h, j, u)
    BY <1>3, <1>7 DEF Accounted, Stands, StandsIn
  <2>. QED
    BY <1>2, <1>3, <1>7, <2>1, <2>2, <2>3 DEF Accounted
<1>11. Sessions'
  BY <1>2, <1>3 DEF Sessions
<1>. QED
  BY <1>8, <1>10, <1>11 DEF IInv

\* A new session finds all groups in the file.
LEMMA OpenStep ==
    ASSUME IInv, Open
    PROVE  IInv'
<1>1. /\ session = "completed" /\ session' = "open" /\ fresh' = {}
      /\ groups' = groups /\ adding' = adding /\ emptying' = emptying /\ location' = location
      /\ wanted' = wanted /\ hidden' = hidden
  BY DEF Open
<1>2. GroupsAre /\ Placed /\ Accounted /\ Sessions
  BY DEF IInv
<1>3. adding.id = 0 /\ 0 \notin DOMAIN groups
  BY <1>1, <1>2 DEF Sessions, NoGroup, GroupsAre, Shelf
<1>4. \A h, j, u : Stands(h, j, u) => h \in DOMAIN groups
  BY <1>1, <1>2 DEF Sessions, NoGroup, Stands, StandsIn, Has, In
<1>5. Placed'
  BY <1>1, <1>2, <1>4 DEF Placed, Stands, LocationsUnique
<1>6. Accounted'
  BY <1>1, <1>2 DEF Accounted, Stands, Known
<1>. QED
  BY <1>1, <1>2, <1>5, <1>6 DEF IInv, GroupsAre, Sessions

\* Every step keeps the invariant.
LEMMA NextKeeps ==
    ASSUME IInv, [Next]_vars, ~ ReplaceAnywhere
    PROVE  IInv'
<1>1. CASE \E r \in Revisions, t \in Texts : WriteNew(r, t)
  BY <1>1, WriteStep
<1>2. CASE \E r \in Revisions, t \in Texts : ReplaceText(r, t)
  BY <1>2, ReplaceStep
<1>3. CASE \E r \in Revisions : DeleteRevision(r)
  BY <1>3, DeleteStep
<1>4. CASE \E r \in Revisions : HideText(r)
  BY <1>4, HideStep
<1>5. CASE Complete
  BY <1>5, CompleteStep
<1>6. CASE Open
  BY <1>6, OpenStep
<1>7. CASE UNCHANGED vars
  <2>1. /\ groups' = groups /\ adding' = adding /\ emptying' = emptying /\ location' = location
        /\ wanted' = wanted /\ fresh' = fresh /\ hidden' = hidden /\ session' = session
    BY <1>7 DEF vars
  <2>. QED
    BY <2>1 DEF IInv, GroupsAre, Placed, Accounted, Sessions, Stands, Known, LocationsUnique
<1>. QED
  BY <1>1, <1>2, <1>3, <1>4, <1>5, <1>6, <1>7 DEF Next

------------------------------------------------------------------------------
(* The results. *)

\* What the invariant says of what is found, owned and typed.
LEMMA InvImplies ==
    ASSUME IInv
    PROVE  TypeOK /\ TextsReadable /\ TextsOwnedOnce /\ NeverFails
<1>1. GroupsAre /\ Placed /\ Accounted /\ Sessions
  BY DEF IInv
<1>2. /\ NoGroup.id = 0 /\ NoGroup.texts = <<>> /\ Len(NoGroup.texts) = 0
      /\ Empty \notin Texts /\ Deleted \notin Texts
  BY TextsAssumption DEF NoGroup
<1>3. TypeOK
  <2>1. \A a : IsOpen(a) => IsGroup(a)
    BY <1>2 DEF IsOpen, IsGroup, Content
  <2>2. \A id \in DOMAIN groups : IsGroup([id |-> id, texts |-> groups[id]])
    BY <1>1 DEF GroupsAre, Shelf, IsGroup, Content
  <2>3. Len(adding.texts) < GroupSize
    BY <1>1, <1>2, TextsAssumption DEF GroupsAre, IsFilling
  <2>. QED
    BY <1>1, <2>1, <2>2, <2>3
       DEF TypeOK, GroupsAre, IsFilling, Shelf, Placed, Sessions
<1>4. TextsReadable
  <2>1. ASSUME NEW r \in DOMAIN location
        PROVE  TextAt(location[r]) = wanted[r]
    <3>1. PICK id, i, t : id = location[r][1] /\ i = location[r][2] /\ t = wanted[r]
      OBVIOUS
    <3>2. Stands(id, i, t) /\ t \in Texts
      BY <1>1, <3>1 DEF Placed
    <3>3. CASE adding.id = id
      <4>1. adding.texts \in Seq(Content)
        <5>1. CASE adding = NoGroup
          <6>1. adding.texts = <<>>
            BY <1>2, <5>1
          <6>2. <<>> \in Seq(Content)
            OBVIOUS
          <6>. QED
            BY <6>1, <6>2
        <5>2. CASE adding # NoGroup
          BY <1>1, <5>2 DEF GroupsAre, IsFilling, IsOpen
        <5>. QED
          BY <5>1, <5>2
      <4>2. ~ Has(groups, emptying, id, i, t)
        BY <1>1, <1>2, <3>3 DEF GroupsAre, IsFilling, Shelf, Has
      <4>. QED
        BY <3>1, <3>2, <3>3, <4>1, <4>2 DEF Stands, StandsIn, In, TextAt
    <3>4. CASE adding.id # id
      <4>1. Has(groups, emptying, id, i, t) /\ id \in DOMAIN groups /\ groups[id] \in Seq(Content)
        BY <1>1, <3>2, <3>4 DEF Stands, StandsIn, Has, GroupsAre, Shelf
      <4>2. i \in 1 .. Len(groups[id]) /\ groups[id][i] = t
        BY <1>1, <1>2, <3>2, <4>1 DEF GroupsAre, Shelf, Has, In
      <4>3. LoadGroup(id).texts = Append(groups[id], Empty)
        BY <4>1 DEF LoadGroup
      <4>4. /\ i \in DOMAIN Append(groups[id], Empty)
            /\ Append(groups[id], Empty)[i] = t
        BY <4>1, <4>2
      <4>. QED
        BY <3>1, <3>4, <4>3, <4>4 DEF TextAt
    <3>. QED
      BY <3>3, <3>4
  <2>. QED
    BY <2>1 DEF TextsReadable
<1>5. DeletionsReachFile
  <2>. SUFFICES ASSUME session = "completed", NEW id \in DOMAIN groups,
                       NEW i \in DOMAIN groups[id], groups[id][i] \in Texts
                PROVE  <<id, i>> \in hidden \cup {location[r] : r \in DOMAIN location}
    BY DEF DeletionsReachFile
  <2>1. groups[id] \in Seq(Content) /\ emptying.id # id
    BY <1>1, <1>2 DEF Sessions, GroupsAre, Shelf
  <2>2. Stands(id, i, groups[id][i])
    BY <2>1 DEF Stands, StandsIn, Has, In
  <2>. QED
    BY <1>1, <2>2 DEF Accounted, Known
<1>. QED
  BY <1>1, <1>3, <1>4, <1>5 DEF TextsOwnedOnce, NeverFails, Placed, Sessions

\* Of every text in a group it is known whose it is, and every revision's text
\* is where its record says, in memory or in the file.
THEOREM Invariance ==
    ASSUME ~ ReplaceAnywhere
    PROVE  Spec => []IInv
<1>1. Init => IInv
  BY InitStep
<1>2. IInv /\ [Next]_vars => IInv'
  BY NextKeeps
<1>. QED
  BY <1>1, <1>2, PTL DEF Spec

\* Every revision finds its text, whatever is deleted, filled, written and
\* loaded around it.
THEOREM TextsStayReadable ==
    ASSUME ~ ReplaceAnywhere
    PROVE  Spec => []TextsReadable
BY Invariance, InvImplies, PTL

\* No two revisions share a text, and every deletion reaches the file.
THEOREM TextsHaveOneOwner ==
    ASSUME ~ ReplaceAnywhere
    PROVE  Spec => []TextsOwnedOnce
BY Invariance, InvImplies, PTL

\* No text is looked for in a place that its group does not have.
THEOREM DeletionsSucceed ==
    ASSUME ~ ReplaceAnywhere
    PROVE  Spec => []NeverFails
BY Invariance, InvImplies, PTL

\* The type invariant, with at most GroupSize texts written to a group.
THEOREM TypeCorrect ==
    ASSUME ~ ReplaceAnywhere
    PROVE  Spec => []TypeOK
BY Invariance, InvImplies, PTL

------------------------------------------------------------------------------
(* The diff dump. *)

Kinds == {"SetText", "Hide", "Delete", "Group", "End"}
Records == [kind : Kinds, rev : Revisions \cup {Empty}, place : Nat, texts : Seq(Content)]

Removes(c) == c.kind \in {"Hide", "Delete"}
Sets(c) == c.kind = "SetText"
About(c) == Sets(c) \/ Removes(c)

SetIn(s) == {s[k].rev : k \in {l \in 1 .. Len(s) : Sets(s[l])}}
RemovedIn(s) == {s[k].rev : k \in {l \in 1 .. Len(s) : Removes(s[l])}}

\* In one update a revision is deleted or its text hidden at most once, and
\* afterwards gets a text at most once.
Ordered(s) ==
    \A j, k \in 1 .. Len(s) :
        j < k /\ About(s[j]) /\ About(s[k]) /\ s[j].rev = s[k].rev
            => Removes(s[j]) /\ Sets(s[k])

\* The group at place j, or for 0 the one that was imported last, is the one
\* that the record at place k is about.
Under(s, j, k) ==
    /\ j < k /\ (j = 0 \/ s[j].kind = "Group")
    /\ \A l \in j + 1 .. k - 1 : s[l].kind # "Group"

HasIn(c, id, i, t) == Has(c.groups, c.emptying, id, i, t)

\* Each record of a text finds it in its group, where no other revision has
\* one.
FitsImported(s, c, id, w) ==
    \A k \in 1 .. Len(s) : Sets(s[k]) /\ Under(s, 0, k) =>
        /\ HasIn(c, id, s[k].place, w[s[k].rev])
        /\ \A r \in DOMAIN c.location : c.location[r] # <<id, s[k].place>>
FitsGroups(s, w) ==
    \A j, k \in 1 .. Len(s) : Sets(s[k]) /\ Under(s, j, k) =>
        In(s[j].texts, s[k].place, w[s[k].rev])
Apart(s) ==
    \A j \in 0 .. Len(s) : \A k, l \in 1 .. Len(s) :
        k # l /\ Sets(s[k]) /\ Sets(s[l]) /\ Under(s, j, k) /\ Under(s, j, l)
            => s[k].place # s[l].place
Fits(s, c, id, w) == FitsImported(s, c, id, w) /\ FitsGroups(s, w) /\ Apart(s)

\* So do those in the queue, in the group that is being filled.
Waits(q, texts, w) ==
    /\ \A k \in 1 .. Len(q) : About(q[k]) /\ (Sets(q[k]) => In(texts, q[k].place, w[q[k].rev]))
    /\ \A k, l \in 1 .. Len(q) : k # l /\ Sets(q[k]) /\ Sets(q[l]) => q[k].place # q[l].place

\* The copy keeps its own texts.
CopyIs(c) ==
    /\ c = [groups |-> c.groups, emptying |-> c.emptying, location |-> c.location]
    /\ Shelf(c.groups, c.emptying)
    /\ \E n \in Nat : DOMAIN c.groups \subseteq 1 .. n
    /\ c.location = [r \in DOMAIN c.location |-> c.location[r]]
    /\ DOMAIN c.location \subseteq Revisions
    /\ \A r \in DOMAIN c.location :
        /\ c.location[r] = <<c.location[r][1], c.location[r][2]>>
        /\ \E t \in Texts : HasIn(c, c.location[r][1], c.location[r][2], t)
    /\ \A r, q \in DOMAIN c.location : c.location[r] = c.location[q] => r = q

\* What the copy will have when the records of s are applied is what the dump
\* has.
Tracks(s, c, w) ==
    /\ SetIn(s) \subseteq DOMAIN w
    /\ RemovedIn(s) \subseteq DOMAIN c.location
    /\ \A r \in RemovedIn(s) \ SetIn(s) : r \notin DOMAIN w
    /\ \A r \in Revisions \ (SetIn(s) \cup RemovedIn(s)) :
        /\ r \in DOMAIN w <=> r \in DOMAIN c.location
        /\ r \in DOMAIN w => HasIn(c, c.location[r][1], c.location[r][2], w[r])

Streams ==
    /\ diff \in Seq(Records) /\ queue \in Seq(Records)
    /\ session = "open" => SetIn(diff \o queue) \subseteq fresh
    /\ session = "completed" => queue = <<>>
    /\ session = "completed" /\ diff # <<>> => diff[Len(diff)].kind = "End"
    /\ session = "open" \/ diff = <<>> => copy.emptying = NoGroup

DInv ==
    /\ IInv
    /\ CopyIs(copy)
    /\ Streams
    /\ Ordered(diff \o queue)
    /\ Tracks(diff \o queue, copy, wanted)
    /\ Fits(diff, copy, imported, wanted)
    /\ Waits(queue, adding.texts, wanted)

------------------------------------------------------------------------------
(* Sequences of records. *)

\* Kinds of records are not the same.
LEMMA KindsDiffer ==
    \A c : /\ ~ (Sets(c) /\ Removes(c))
           /\ c.kind = "Group" => ~ About(c)
           /\ c.kind = "End" => ~ About(c)
BY DEF Sets, Removes, About

\* Who is in these sets.
LEMMA MembersOf ==
    \A s, r : /\ r \in SetIn(s) <=> \E k \in 1 .. Len(s) : Sets(s[k]) /\ s[k].rev = r
              /\ r \in RemovedIn(s) <=> \E k \in 1 .. Len(s) : Removes(s[k]) /\ s[k].rev = r
BY DEF SetIn, RemovedIn

\* What a record at the end adds.
LEMMA AppendKeeps ==
    ASSUME NEW s \in Seq(Records), NEW c \in Records
    PROVE  /\ Append(s, c) \in Seq(Records)
           /\ SetIn(Append(s, c)) = SetIn(s) \cup (IF Sets(c) THEN {c.rev} ELSE {})
           /\ RemovedIn(Append(s, c)) = RemovedIn(s) \cup (IF Removes(c) THEN {c.rev} ELSE {})
           /\ /\ Ordered(s)
              /\ Sets(c) => c.rev \notin SetIn(s)
              /\ Removes(c) => c.rev \notin SetIn(s) \cup RemovedIn(s)
              => Ordered(Append(s, c))
<1>1. PICK z : z = Append(s, c)
  OBVIOUS
<1>2. /\ z \in Seq(Records) /\ Len(z) = Len(s) + 1 /\ z[Len(s) + 1] = c
      /\ \A k \in 1 .. Len(s) : z[k] = s[k]
      /\ Len(s) \in Nat
  BY <1>1
<1>3. SetIn(z) = SetIn(s) \cup (IF Sets(c) THEN {c.rev} ELSE {})
  BY <1>2 DEF SetIn
<1>4. RemovedIn(z) = RemovedIn(s) \cup (IF Removes(c) THEN {c.rev} ELSE {})
  BY <1>2 DEF RemovedIn
<1>5. ASSUME Ordered(s), Sets(c) => c.rev \notin SetIn(s),
             Removes(c) => c.rev \notin SetIn(s) \cup RemovedIn(s)
      PROVE  Ordered(z)
  <2>1. SUFFICES ASSUME NEW j \in 1 .. Len(z), NEW k \in 1 .. Len(z), j < k,
                        About(z[j]), About(z[k]), z[j].rev = z[k].rev
                 PROVE  Removes(z[j]) /\ Sets(z[k])
    BY DEF Ordered
  <2>2. j \in 1 .. Len(s) /\ z[j] = s[j]
    BY <1>2, <2>1
  <2>3. CASE k \in 1 .. Len(s)
    BY <1>2, <1>5, <2>1, <2>2, <2>3 DEF Ordered
  <2>4. CASE k = Len(s) + 1
    BY <1>2, <1>5, <2>1, <2>2, <2>4 DEF About, SetIn, RemovedIn
  <2>. QED
    BY <1>2, <2>3, <2>4
<1>. QED
  BY <1>1, <1>2, <1>3, <1>4, <1>5

\* A record that is not about a revision changes nothing for revisions.
LEMMA InsertKeeps ==
    ASSUME NEW a \in Seq(Records), NEW b \in Seq(Records), NEW x \in Records, ~ About(x)
    PROVE  LET s == a \o b
               z == a \o <<x>> \o b
           IN  /\ z \in Seq(Records) /\ SetIn(z) = SetIn(s) /\ RemovedIn(z) = RemovedIn(s)
               /\ Ordered(s) => Ordered(z)
<1>1. PICK s, z : s = a \o b /\ z = a \o <<x>> \o b
  OBVIOUS
<1>2. /\ s \in Seq(Records) /\ z \in Seq(Records)
      /\ Len(s) = Len(a) + Len(b) /\ Len(z) = Len(s) + 1 /\ Len(a) \in Nat /\ Len(b) \in Nat
      /\ \A k \in 1 .. Len(s) : s[k] = IF k <= Len(a) THEN a[k] ELSE b[k - Len(a)]
      /\ \A k \in 1 .. Len(z) :
            z[k] = IF k <= Len(a) THEN a[k] ELSE IF k = Len(a) + 1 THEN x ELSE b[k - Len(a) - 1]
  BY <1>1
<1>3. /\ \A k \in 1 .. Len(a) : k \in 1 .. Len(s) /\ k \in 1 .. Len(z) /\ z[k] = s[k]
      /\ z[Len(a) + 1] = x
  <2>1. ASSUME NEW k \in 1 .. Len(a)
        PROVE  k \in 1 .. Len(s) /\ k \in 1 .. Len(z) /\ z[k] = s[k]
    <3>1. k \in 1 .. Len(s) /\ k \in 1 .. Len(z) /\ k <= Len(a)
      BY <1>2
    <3>2. s[k] = a[k]
      BY <1>2, <3>1
    <3>3. z[k] = a[k]
      BY <1>2, <3>1
    <3>. QED
      BY <3>1, <3>2, <3>3
  <2>2. Len(a) + 1 \in 1 .. Len(z) /\ ~ (Len(a) + 1 <= Len(a))
    BY <1>2
  <2>3. z[Len(a) + 1] = x
    BY <1>2, <2>2
  <2>. QED
    BY <2>1, <2>3
<1>9. \A k \in Len(a) + 1 .. Len(s) : k + 1 \in 1 .. Len(z) /\ z[k + 1] = s[k]
  <2>1. SUFFICES ASSUME NEW k \in Len(a) + 1 .. Len(s)
                 PROVE  k + 1 \in 1 .. Len(z) /\ z[k + 1] = s[k]
    OBVIOUS
  <2>2. k \in 1 .. Len(s) /\ k + 1 \in 1 .. Len(z) /\ k > Len(a)
    BY <1>2
  <2>3. s[k] = b[k - Len(a)]
    BY <1>2, <2>2
  <2>4. z[k + 1] = b[k + 1 - Len(a) - 1] /\ k + 1 - Len(a) - 1 = k - Len(a)
    BY <1>2, <2>2
  <2>. QED
    BY <2>2, <2>3, <2>4
<1>10. \A k \in 1 .. Len(z) : \/ k \in 1 .. Len(a)
                              \/ k = Len(a) + 1
                              \/ k - 1 \in Len(a) + 1 .. Len(s) /\ z[k] = s[k - 1]
  <2>1. SUFFICES ASSUME NEW k \in 1 .. Len(z), k > Len(a) + 1
                 PROVE  k - 1 \in Len(a) + 1 .. Len(s) /\ z[k] = s[k - 1]
    BY <1>2
  <2>2. k - 1 \in Len(a) + 1 .. Len(s) /\ (k - 1) + 1 = k
    BY <1>2, <2>1
  <2>. QED
    BY <1>9, <2>2
<1>4. ASSUME NEW k \in 1 .. Len(s)
      PROVE  \E l \in 1 .. Len(z) : z[l] = s[k]
  <2>1. CASE k \in 1 .. Len(a)
    BY <1>3, <2>1
  <2>2. CASE k \in Len(a) + 1 .. Len(s)
    BY <1>9, <2>2
  <2>. QED
    BY <1>2, <2>1, <2>2
<1>5. ASSUME NEW k \in 1 .. Len(z), About(z[k])
      PROVE  \E l \in 1 .. Len(s) : z[k] = s[l] /\ l = IF k <= Len(a) THEN k ELSE k - 1
  BY <1>2, <1>3, <1>5, <1>10
<1>6. SetIn(z) = SetIn(s)
  <2>1. ASSUME NEW r \in SetIn(z)
        PROVE  r \in SetIn(s)
    BY <1>5, <2>1, MembersOf DEF About
  <2>2. ASSUME NEW r \in SetIn(s)
        PROVE  r \in SetIn(z)
    BY <1>4, <2>2, MembersOf
  <2>. QED
    BY <2>1, <2>2
<1>7. RemovedIn(z) = RemovedIn(s)
  <2>1. ASSUME NEW r \in RemovedIn(z)
        PROVE  r \in RemovedIn(s)
    BY <1>5, <2>1, MembersOf DEF About
  <2>2. ASSUME NEW r \in RemovedIn(s)
        PROVE  r \in RemovedIn(z)
    BY <1>4, <2>2, MembersOf
  <2>. QED
    BY <2>1, <2>2
<1>8. ASSUME Ordered(s)
      PROVE  Ordered(z)
  <2>1. SUFFICES ASSUME NEW j \in 1 .. Len(z), NEW k \in 1 .. Len(z), j < k,
                        About(z[j]), About(z[k]), z[j].rev = z[k].rev
                 PROVE  Removes(z[j]) /\ Sets(z[k])
    BY DEF Ordered
  <2>2. PICK i \in 1 .. Len(s) : z[j] = s[i] /\ i = IF j <= Len(a) THEN j ELSE j - 1
    BY <1>5, <2>1
  <2>3. PICK l \in 1 .. Len(s) : z[k] = s[l] /\ l = IF k <= Len(a) THEN k ELSE k - 1
    BY <1>5, <2>1
  <2>4. i < l
    <3>1. j # Len(a) + 1
      BY <1>3, <2>1
    <3>. QED
      BY <1>2, <2>1, <2>2, <2>3, <3>1
  <2>. QED
    BY <1>8, <2>1, <2>2, <2>3, <2>4 DEF Ordered
<1>. QED
  BY <1>1, <1>2, <1>6, <1>7, <1>8

\* What is left when the first record is used up.
LEMMA TailKeeps ==
    ASSUME NEW s \in Seq(Records), s # <<>>
    PROVE  LET h == Head(s)
               z == Tail(s)
           IN  /\ z \in Seq(Records) /\ h \in Records /\ h = s[1]
               /\ SetIn(s) = SetIn(z) \cup (IF Sets(h) THEN {h.rev} ELSE {})
               /\ RemovedIn(s) = RemovedIn(z) \cup (IF Removes(h) THEN {h.rev} ELSE {})
               /\ Ordered(s) => /\ Ordered(z)
                                /\ Sets(h) => h.rev \notin SetIn(z) \cup RemovedIn(z)
                                /\ Removes(h) => h.rev \notin RemovedIn(z)
<1>1. PICK z : z = Tail(s)
  OBVIOUS
<1>2. /\ z \in Seq(Records) /\ Len(s) = Len(z) + 1 /\ Len(z) \in Nat
      /\ \A k \in 1 .. Len(z) : z[k] = s[k + 1]
      /\ Head(s) = s[1] /\ s[1] \in Records
  BY <1>1
<1>3. /\ \A k \in 1 .. Len(z) : k + 1 \in 1 .. Len(s) /\ s[k + 1] = z[k]
      /\ \A k \in 1 .. Len(s) : k = 1 \/ (k - 1 \in 1 .. Len(z) /\ s[k] = z[k - 1])
      /\ 1 \in 1 .. Len(s)
  BY <1>2
<1>4. SetIn(s) = SetIn(z) \cup (IF Sets(s[1]) THEN {s[1].rev} ELSE {})
  <2>1. ASSUME NEW r
        PROVE  r \in SetIn(s) <=> r \in SetIn(z) \/ (Sets(s[1]) /\ r = s[1].rev)
    BY <1>3, MembersOf
  <2>. QED
    BY <2>1
<1>5. RemovedIn(s) = RemovedIn(z) \cup (IF Removes(s[1]) THEN {s[1].rev} ELSE {})
  <2>1. ASSUME NEW r
        PROVE  r \in RemovedIn(s) <=> r \in RemovedIn(z) \/ (Removes(s[1]) /\ r = s[1].rev)
    <3>1. ASSUME NEW k \in 1 .. Len(s), Removes(s[k]), s[k].rev = r
          PROVE  r \in RemovedIn(z) \/ (Removes(s[1]) /\ r = s[1].rev)
      BY <1>3, <3>1, MembersOf
    <3>2. ASSUME NEW k \in 1 .. Len(z), Removes(z[k]), z[k].rev = r
          PROVE  r \in RemovedIn(s)
      BY <1>3, <3>2, MembersOf
    <3>. QED
      BY <1>3, <3>1, <3>2, MembersOf
  <2>. QED
    BY <2>1
<1>6. ASSUME Ordered(s)
      PROVE  /\ Ordered(z)
             /\ Sets(s[1]) => s[1].rev \notin SetIn(z) \cup RemovedIn(z)
             /\ Removes(s[1]) => s[1].rev \notin RemovedIn(z)
  <2>1. ASSUME NEW j \in 1 .. Len(z), NEW k \in 1 .. Len(z), j < k,
               About(z[j]), About(z[k]), z[j].rev = z[k].rev
        PROVE  Removes(z[j]) /\ Sets(z[k])
    <3>1. /\ j + 1 \in 1 .. Len(s) /\ k + 1 \in 1 .. Len(s) /\ j + 1 < k + 1
          /\ z[j] = s[j + 1] /\ z[k] = s[k + 1]
      BY <1>2, <1>3, <2>1
    <3>. QED
      BY <1>6, <2>1, <3>1 DEF Ordered
  <2>2. ASSUME NEW k \in 1 .. Len(z), About(s[1]), About(z[k]), z[k].rev = s[1].rev
        PROVE  Removes(s[1]) /\ Sets(z[k])
    <3>1. k + 1 \in 1 .. Len(s) /\ 1 < k + 1 /\ z[k] = s[k + 1]
      BY <1>2, <1>3
    <3>. QED
      BY <1>3, <1>6, <2>2, <3>1 DEF Ordered
  <2>. QED
    BY <2>1, <2>2, KindsDiffer DEF Ordered, SetIn, RemovedIn, About
<1>. QED
  BY <1>1, <1>2, <1>4, <1>5, <1>6

------------------------------------------------------------------------------
(* Records and their groups. *)

\* What is before a place of a sequence does not depend on what is after it.
LEMMA UnderLonger ==
    ASSUME NEW a \in Seq(Records), NEW z \in Seq(Records), Len(a) <= Len(z),
           \A k \in 1 .. Len(a) : z[k] = a[k],
           NEW j \in Nat, NEW k \in 1 .. Len(a)
    PROVE  Under(z, j, k) <=> Under(a, j, k)
BY DEF Under

\* Records of a further group, or of none, are added at the end.
LEMMA FitsLonger ==
    ASSUME NEW a \in Seq(Records), NEW z \in Seq(Records), Len(a) <= Len(z),
           \A k \in 1 .. Len(a) : z[k] = a[k],
           NEW c, NEW id, NEW w, Fits(a, c, id, w),
           NEW n \in Nat, n = Len(a) + 1,
           \A k \in n .. Len(z) : Sets(z[k]) =>
                z[n].kind = "Group" /\ In(z[n].texts, z[k].place, w[z[k].rev]),
           \A k \in n + 1 .. Len(z) : z[k].kind # "Group",
           \A k, l \in n .. Len(z) :
                k # l /\ Sets(z[k]) /\ Sets(z[l]) => z[k].place # z[l].place
    PROVE  Fits(z, c, id, w)
<1>1. Len(a) \in Nat /\ Len(z) \in Nat
  OBVIOUS
<1>2. ASSUME NEW j \in 0 .. Len(z), NEW k \in n .. Len(z), Sets(z[k]), Under(z, j, k)
      PROVE  j = n
  <2>1. z[n].kind = "Group" /\ ~ Sets(z[n])
    BY <1>2 DEF Sets
  <2>2. k > n
    BY <1>1, <1>2, <2>1
  <2>3. ~ (j < n)
    BY <1>1, <1>2, <2>1, <2>2 DEF Under
  <2>4. ~ (j > n)
    BY <1>1, <1>2 DEF Under
  <2>. QED
    BY <1>1, <2>3, <2>4
<1>3. ASSUME NEW k \in 1 .. Len(z)
      PROVE  k \in 1 .. Len(a) \/ k \in n .. Len(z)
  BY <1>1
<1>4. ASSUME NEW k \in 1 .. Len(a), NEW j \in Nat, Under(z, j, k)
      PROVE  Under(a, j, k) /\ z[k] = a[k] /\ j < k /\ k \in 1 .. Len(z) /\ (j = 0 \/ j \in 1 .. Len(a))
  BY <1>1, <1>4, UnderLonger DEF Under
<1>5. FitsImported(z, c, id, w)
  <2>1. SUFFICES ASSUME NEW k \in 1 .. Len(z), Sets(z[k]), Under(z, 0, k)
                 PROVE  /\ HasIn(c, id, z[k].place, w[z[k].rev])
                        /\ \A r \in DOMAIN c.location : c.location[r] # <<id, z[k].place>>
    BY DEF FitsImported
  <2>2. k \in 1 .. Len(a)
    BY <1>1, <1>2, <1>3, <2>1
  <2>. QED
    BY <1>4, <2>1, <2>2 DEF Fits, FitsImported
<1>6. FitsGroups(z, w)
  <2>1. SUFFICES ASSUME NEW j \in 1 .. Len(z), NEW k \in 1 .. Len(z), Sets(z[k]), Under(z, j, k)
                 PROVE  In(z[j].texts, z[k].place, w[z[k].rev])
    BY DEF FitsGroups
  <2>2. CASE k \in 1 .. Len(a)
    <3>1. Under(a, j, k) /\ z[k] = a[k] /\ j \in 1 .. Len(a) /\ z[j] = a[j]
      BY <1>4, <2>1, <2>2
    <3>. QED
      BY <2>1, <2>2, <3>1 DEF Fits, FitsGroups
  <2>3. CASE k \in n .. Len(z)
    BY <1>1, <1>2, <2>1, <2>3
  <2>. QED
    BY <1>3, <2>2, <2>3
<1>7. Apart(z)
  <2>1. SUFFICES ASSUME NEW j \in 0 .. Len(z), NEW k \in 1 .. Len(z), NEW l \in 1 .. Len(z),
                        k # l, Sets(z[k]), Sets(z[l]), Under(z, j, k), Under(z, j, l)
                 PROVE  z[k].place # z[l].place
    BY DEF Apart
  <2>2. CASE k \in n .. Len(z) /\ l \in n .. Len(z)
    BY <2>1, <2>2
  <2>3. CASE k \in 1 .. Len(a) /\ l \in 1 .. Len(a)
    <3>1. /\ Under(a, j, k) /\ Under(a, j, l) /\ z[k] = a[k] /\ z[l] = a[l] /\ j \in 0 .. Len(a)
      BY <1>1, <1>4, <2>1, <2>3
    <3>. QED
      BY <2>1, <2>3, <3>1 DEF Fits, Apart
  <2>4. CASE k \in 1 .. Len(a) /\ l \in n .. Len(z)
    BY <1>1, <1>2, <2>1, <2>4 DEF Under
  <2>5. CASE k \in n .. Len(z) /\ l \in 1 .. Len(a)
    BY <1>1, <1>2, <2>1, <2>5 DEF Under
  <2>. QED
    BY <1>3, <2>2, <2>3, <2>4, <2>5
<1>. QED
  BY <1>5, <1>6, <1>7 DEF Fits

\* Which group a record is about when the first record is used up.
LEMMA UnderTail ==
    ASSUME NEW s \in Seq(Records), s # <<>>,
           NEW k \in 1 .. Len(Tail(s)), NEW j \in 0 .. Len(Tail(s)), Under(Tail(s), j, k)
    PROVE  /\ k + 1 \in 1 .. Len(s) /\ s[k + 1] = Tail(s)[k] /\ j + 1 \in 1 .. Len(s)
           /\ j # 0 => Under(s, j + 1, k + 1) /\ s[j + 1] = Tail(s)[j]
           /\ j = 0 /\ s[1].kind = "Group" => Under(s, 1, k + 1)
           /\ j = 0 /\ s[1].kind # "Group" => Under(s, 0, k + 1)
<1>1. PICK z : z = Tail(s)
  OBVIOUS
<1>2. /\ Len(s) = Len(z) + 1 /\ Len(z) \in Nat
      /\ \A i \in 1 .. Len(z) : z[i] = s[i + 1]
  BY <1>1
<1>3. k \in 1 .. Len(z) /\ j \in 0 .. Len(z) /\ Under(z, j, k)
  BY <1>1
<1>4. k + 1 \in 1 .. Len(s) /\ s[k + 1] = z[k] /\ j + 1 \in 1 .. Len(s)
  BY <1>2, <1>3
<1>5. ASSUME NEW l \in j + 2 .. k
      PROVE  s[l].kind # "Group"
  <2>1. l - 1 \in j + 1 .. k - 1 /\ l - 1 \in 1 .. Len(z) /\ (l - 1) + 1 = l
    BY <1>2, <1>3
  <2>. QED
    BY <1>2, <1>3, <2>1 DEF Under
<1>6. CASE j # 0
  <2>1. j \in 1 .. Len(z) /\ s[j + 1] = z[j] /\ z[j].kind = "Group"
    BY <1>2, <1>3, <1>6 DEF Under
  <2>2. Under(s, j + 1, k + 1)
    BY <1>2, <1>3, <1>5, <2>1 DEF Under
  <2>. QED
    BY <1>1, <1>4, <1>6, <2>1, <2>2
<1>7. CASE j = 0 /\ s[1].kind = "Group"
  <2>1. Under(s, 1, k + 1)
    BY <1>2, <1>3, <1>5, <1>7 DEF Under
  <2>. QED
    BY <1>1, <1>4, <1>7, <2>1
<1>8. CASE j = 0 /\ s[1].kind # "Group"
  <2>1. \A l \in 1 .. k : s[l].kind # "Group"
    BY <1>3, <1>5, <1>8
  <2>2. Under(s, 0, k + 1)
    BY <1>3, <1>8, <2>1 DEF Under
  <2>. QED
    BY <1>1, <1>4, <1>8, <2>2
<1>. QED
  BY <1>6, <1>7, <1>8

\* The first record is used up; if it is a group, the places that were in it
\* are in the group that was imported last.
LEMMA FitsTail ==
    ASSUME NEW s \in Seq(Records), s # <<>>, NEW c, NEW id, NEW w, Fits(s, c, id, w)
    PROVE  /\ FitsGroups(Tail(s), w) /\ Apart(Tail(s))
           /\ s[1].kind # "Group" => FitsImported(Tail(s), c, id, w)
           /\ \A k \in 1 .. Len(Tail(s)) :
                s[1].kind = "Group" /\ Sets(Tail(s)[k]) /\ Under(Tail(s), 0, k) =>
                    In(s[1].texts, Tail(s)[k].place, w[Tail(s)[k].rev])
           /\ \A k \in 1 .. Len(Tail(s)) :
                Sets(s[1]) /\ Sets(Tail(s)[k]) /\ Under(Tail(s), 0, k) =>
                    Tail(s)[k].place # s[1].place
<1>1. PICK z : z = Tail(s)
  OBVIOUS
<1>2. /\ Len(s) = Len(z) + 1 /\ Len(z) \in Nat /\ 1 \in 1 .. Len(s) /\ 0 \in 0 .. Len(s)
      /\ 0 \in 0 .. Len(z) /\ \A j \in 1 .. Len(z) : j \in 0 .. Len(z)
  BY <1>1
<1>3. ASSUME NEW k \in 1 .. Len(z), NEW j \in 0 .. Len(z), Under(z, j, k)
      PROVE  /\ k + 1 \in 1 .. Len(s) /\ s[k + 1] = z[k] /\ j + 1 \in 1 .. Len(s)
             /\ j # 0 => Under(s, j + 1, k + 1) /\ s[j + 1] = z[j]
             /\ j = 0 /\ s[1].kind = "Group" => Under(s, 1, k + 1)
             /\ j = 0 /\ s[1].kind # "Group" => Under(s, 0, k + 1)
  BY <1>1, <1>3, UnderTail
<1>4. FitsGroups(z, w)
  <2>1. SUFFICES ASSUME NEW j \in 1 .. Len(z), NEW k \in 1 .. Len(z), Sets(z[k]), Under(z, j, k)
                 PROVE  In(z[j].texts, z[k].place, w[z[k].rev])
    BY DEF FitsGroups
  <2>2. /\ k + 1 \in 1 .. Len(s) /\ s[k + 1] = z[k] /\ j + 1 \in 1 .. Len(s)
        /\ Under(s, j + 1, k + 1) /\ s[j + 1] = z[j]
    BY <1>2, <1>3, <2>1
  <2>. QED
    BY <2>1, <2>2 DEF Fits, FitsGroups
<1>5. Apart(z)
  <2>1. SUFFICES ASSUME NEW j \in 0 .. Len(z), NEW k \in 1 .. Len(z), NEW l \in 1 .. Len(z),
                        k # l, Sets(z[k]), Sets(z[l]), Under(z, j, k), Under(z, j, l)
                 PROVE  z[k].place # z[l].place
    BY DEF Apart
  <2>2. /\ k + 1 \in 1 .. Len(s) /\ s[k + 1] = z[k] /\ l + 1 \in 1 .. Len(s) /\ s[l + 1] = z[l]
        /\ k + 1 # l + 1
    BY <1>2, <1>3, <2>1
  <2>3. \E i \in 0 .. Len(s) : Under(s, i, k + 1) /\ Under(s, i, l + 1)
    BY <1>2, <1>3, <2>1
  <2>. QED
    BY <2>1, <2>2, <2>3 DEF Fits, Apart
<1>6. ASSUME s[1].kind # "Group"
      PROVE  FitsImported(z, c, id, w)
  BY <1>2, <1>3, <1>6 DEF Fits, FitsImported
<1>7. ASSUME NEW k \in 1 .. Len(z), s[1].kind = "Group", Sets(z[k]), Under(z, 0, k)
      PROVE  In(s[1].texts, z[k].place, w[z[k].rev])
  BY <1>2, <1>3, <1>7 DEF Fits, FitsGroups
<1>8. ASSUME NEW k \in 1 .. Len(z), Sets(s[1]), Sets(z[k]), Under(z, 0, k)
      PROVE  z[k].place # s[1].place
  <2>1. s[1].kind # "Group"
    BY <1>8 DEF Sets
  <2>2. k + 1 \in 1 .. Len(s) /\ s[k + 1] = z[k] /\ Under(s, 0, k + 1) /\ k + 1 # 1
    BY <1>2, <1>3, <1>8, <2>1
  <2>3. Under(s, 0, 1)
    BY DEF Under
  <2>. QED
    BY <1>2, <1>8, <2>2, <2>3 DEF Fits, Apart
<1>. QED
  BY <1>1, <1>4, <1>5, <1>6, <1>7, <1>8

\* Texts of other revisions do not matter.
LEMMA FitsWanted ==
    ASSUME NEW s \in Seq(Records), NEW c, NEW id, NEW w, NEW v, \A r \in SetIn(s) : v[r] = w[r]
    PROVE  /\ Fits(s, c, id, w) => Fits(s, c, id, v)
           /\ \A texts : Waits(s, texts, w) => Waits(s, texts, v)
<1>1. \A k \in 1 .. Len(s) : Sets(s[k]) => v[s[k].rev] = w[s[k].rev]
  BY MembersOf
<1>. QED
  BY <1>1 DEF Fits, FitsImported, FitsGroups, Waits

\* Records of the parts are records of the whole.
LEMMA PartsIn ==
    ASSUME NEW a \in Seq(Records), NEW b \in Seq(Records)
    PROVE  /\ SetIn(a) \subseteq SetIn(a \o b) /\ SetIn(b) \subseteq SetIn(a \o b)
           /\ a \o b \in Seq(Records)
<1>1. PICK z : z = a \o b
  OBVIOUS
<1>2. /\ z \in Seq(Records) /\ Len(z) = Len(a) + Len(b) /\ Len(a) \in Nat /\ Len(b) \in Nat
      /\ \A k \in 1 .. Len(a) : z[k] = a[k] /\ k \in 1 .. Len(z)
  BY <1>1
<1>3. ASSUME NEW k \in 1 .. Len(b)
      PROVE  k + Len(a) \in 1 .. Len(z) /\ z[k + Len(a)] = b[k]
  BY <1>1, <1>2
<1>4. SetIn(a) \subseteq SetIn(z)
  BY <1>2, MembersOf
<1>5. SetIn(b) \subseteq SetIn(z)
  <2>1. SUFFICES ASSUME NEW r \in SetIn(b)
                 PROVE  r \in SetIn(z)
    OBVIOUS
  <2>2. PICK k \in 1 .. Len(b) : Sets(b[k]) /\ b[k].rev = r
    BY <2>1, MembersOf
  <2>3. k + Len(a) \in 1 .. Len(z) /\ Sets(z[k + Len(a)]) /\ z[k + Len(a)].rev = r
    BY <1>3, <2>2
  <2>. QED
    BY <2>3, MembersOf
<1>. QED
  BY <1>1, <1>2, <1>4, <1>5

\* A sequence of one record.
LEMMA OneRecord == \A x \in Records : <<x>> \in Seq(Records)
OBVIOUS

\* A record that waits comes after all others.
LEMMA Appended ==
    ASSUME NEW a \in Seq(Records), NEW b \in Seq(Records), NEW y \in Records
    PROVE  Append(a \o b, y) = a \o Append(b, y)
OBVIOUS

\* A group that ends, with what waited for it and one more record.
LEMMA EndedIs ==
    ASSUME NEW a \in Seq(Records), NEW b \in Seq(Records), NEW y \in Records,
           NEW d \in Seq(Records), NEW e, e = <<y>>
    PROVE  a \o (d \o b \o e) = Append(a \o d \o b, y)
<1>2. PICK m \in Seq(Records) : m = d \o b
  <2>1. d \o b \in Seq(Records)
    OBVIOUS
  <2>. QED
    BY <2>1
<1>3. (a \o m) \o e = a \o (m \o e)
  OBVIOUS
<1>4. a \o m = (a \o d) \o b
  BY <1>2
<1>5. PICK n \in Seq(Records) : n = a \o m
  <2>1. a \o m \in Seq(Records)
    OBVIOUS
  <2>. QED
    BY <2>1
<1>6. n \o e = Append(n, y)
  BY <1>5
<1>. QED
  BY <1>2, <1>3, <1>4, <1>5, <1>6

\* The same for the last group of the session.
LEMMA EndedBy ==
    ASSUME NEW a \in Seq(Records), NEW b \in Seq(Records), NEW y \in Records,
           NEW d \in Seq(Records), NEW e, e = <<y>>
    PROVE  a \o (d \o b \o <<>>) \o e = Append(a \o d \o b, y)
<1>1. PICK m \in Seq(Records) : m = d \o b
  <2>1. d \o b \in Seq(Records)
    OBVIOUS
  <2>. QED
    BY <2>1
<1>2. a \o m = (a \o d) \o b
  BY <1>1
<1>3. PICK n \in Seq(Records) : n = a \o m
  <2>1. a \o m \in Seq(Records)
    OBVIOUS
  <2>. QED
    BY <2>1
<1>4. n \o e = Append(n, y)
  BY <1>3
<1>5. m \o <<>> = m
  OBVIOUS
<1>. QED
  BY <1>1, <1>2, <1>3, <1>4, <1>5

\* Where a new text goes, and that it comes after those that are there.
LEMMA AddedText ==
    ASSUME IsOpen(adding), NEW t \in Texts, NEW g
    PROVE  LET x == Added(t, g)
           IN  /\ adding.texts \in Seq(Content) /\ Append(adding.texts, t) \in Seq(Content)
               /\ x.loc[2] = Len(adding.texts) + 1
               /\ x.adding # NoGroup => x.adding.texts = Append(adding.texts, t)
               /\ x.adding = NoGroup => x.groups[x.loc[1]] = Append(adding.texts, t)
<1>1. NoGroup.texts = <<>> /\ NoGroup = [id |-> NoGroup.id, texts |-> NoGroup.texts]
  BY DEF NoGroup
<1>2. adding.texts \in Seq(Content) /\ adding = [id |-> adding.id, texts |-> adding.texts]
  <2>1. <<>> \in Seq(Content)
    OBVIOUS
  <2>. QED
    BY <1>1, <2>1 DEF IsOpen
<1>3. Append(adding.texts, t) \in Seq(Content) /\ Append(adding.texts, t) # <<>>
      /\ Len(Append(adding.texts, t)) = Len(adding.texts) + 1
  BY <1>2 DEF Content
<1>4. PICK open : open = IF adding = NoGroup THEN [NoGroup EXCEPT !.id = NewId(g)] ELSE adding
  OBVIOUS
<1>5. open = [id |-> open.id, texts |-> open.texts] /\ open.texts = adding.texts
  BY <1>1, <1>2, <1>4
<1>6. PICK filled : filled = [open EXCEPT !.texts = Append(@, t)]
  OBVIOUS
<1>7. filled = [id |-> open.id, texts |-> Append(adding.texts, t)]
  BY <1>5, <1>6
<1>8. filled # NoGroup
  BY <1>1, <1>3, <1>7
<1>11. filled.id = open.id /\ filled.texts = Append(adding.texts, t)
       /\ Len(filled.texts) = Len(adding.texts) + 1
  BY <1>3, <1>7
<1>9. Added(t, g) = [groups |-> IF IsFull(filled) THEN Stored(g, filled) ELSE g,
                     adding |-> IF IsFull(filled) THEN NoGroup ELSE filled,
                     loc    |-> <<open.id, Len(filled.texts)>>]
  BY <1>4, <1>6 DEF Added
<1>10. Stored(g, filled)[open.id] = Append(adding.texts, t)
  BY <1>7, <1>8 DEF Stored, Extend
<1>. QED
  <2>1. CASE IsFull(filled)
    BY <1>2, <1>3, <1>9, <1>10, <1>11, <2>1
  <2>2. CASE ~ IsFull(filled)
    BY <1>2, <1>3, <1>8, <1>9, <1>11, <2>2
  <2>. QED
    BY <2>1, <2>2

\* A record for it waits behind the others.
LEMMA WaitsSet ==
    ASSUME NEW q \in Seq(Records), NEW texts \in Seq(Content), NEW w, Waits(q, texts, w),
           NEW r \in Revisions, NEW t \in Texts, w[r] = t
    PROVE  Waits(Append(q, SetText(r, Len(texts) + 1)), Append(texts, t), w)
<1>1. PICK c : c = SetText(r, Len(texts) + 1)
  OBVIOUS
<1>2. c.rev = r /\ c.place = Len(texts) + 1 /\ Sets(c) /\ About(c)
  BY <1>1 DEF SetText, Record, Sets, About
<1>3. PICK z : z = Append(q, c)
  OBVIOUS
<1>4. /\ Len(z) = Len(q) + 1 /\ z[Len(q) + 1] = c /\ Len(q) \in Nat
      /\ \A k \in 1 .. Len(q) : z[k] = q[k]
  BY <1>3
<1>5. /\ Len(texts) \in Nat /\ In(Append(texts, t), Len(texts) + 1, t)
      /\ \A i, u : In(texts, i, u) => In(Append(texts, t), i, u) /\ i # Len(texts) + 1
  BY DEF In
<1>6. ASSUME NEW k \in 1 .. Len(z)
      PROVE  k \in 1 .. Len(q) \/ k = Len(q) + 1
  BY <1>4
<1>7. \A k \in 1 .. Len(z) : About(z[k]) /\ (Sets(z[k]) => In(Append(texts, t), z[k].place, w[z[k].rev]))
  BY <1>2, <1>4, <1>5, <1>6 DEF Waits
<1>8. \A k \in 1 .. Len(q) : Sets(q[k]) => q[k].place # c.place
  BY <1>2, <1>5 DEF Waits
<1>9. \A k, l \in 1 .. Len(z) : k # l /\ Sets(z[k]) /\ Sets(z[l]) => z[k].place # z[l].place
  BY <1>4, <1>6, <1>8 DEF Waits
<1>. QED
  BY <1>1, <1>3, <1>7, <1>9 DEF Waits

\* The group ends: it comes after the records in the diff dump, and what waited
\* for it after the group.
LEMMA FitsEnded ==
    ASSUME NEW a \in Seq(Records), NEW q \in Seq(Records), NEW texts \in Seq(Content),
           NEW c, NEW id, NEW w, Fits(a, c, id, w), Waits(q, texts, w)
    PROVE  Fits(a \o <<Group(texts)>> \o q, c, id, w)
<1>1. PICK x : x = Group(texts)
  OBVIOUS
<1>2. x \in Records /\ x.kind = "Group" /\ x.texts = texts
  BY <1>1 DEF Group, Record, Records, Kinds
<1>3. PICK z, n : z = a \o <<x>> \o q /\ n = Len(a) + 1
  OBVIOUS
<1>4. /\ z \in Seq(Records) /\ Len(a) <= Len(z) /\ n \in Nat /\ Len(a) \in Nat /\ Len(q) \in Nat
      /\ Len(z) = Len(a) + 1 + Len(q)
      /\ \A k \in 1 .. Len(a) : z[k] = a[k]
      /\ z[n] = x
  BY <1>2, <1>3
<1>5. ASSUME NEW k \in n + 1 .. Len(z)
      PROVE  k - n \in 1 .. Len(q) /\ z[k] = q[k - n]
  BY <1>2, <1>3, <1>4
<1>6. ASSUME NEW k \in n .. Len(z), Sets(z[k])
      PROVE  k \in n + 1 .. Len(z)
  BY <1>2, <1>4, <1>6 DEF Sets
<1>7. \A k \in n .. Len(z) : Sets(z[k]) =>
            z[n].kind = "Group" /\ In(z[n].texts, z[k].place, w[z[k].rev])
  BY <1>2, <1>4, <1>5, <1>6 DEF Waits
<1>8. \A k \in n + 1 .. Len(z) : z[k].kind # "Group"
  BY <1>5, KindsDiffer DEF Waits
<1>9. \A k, l \in n .. Len(z) : k # l /\ Sets(z[k]) /\ Sets(z[l]) => z[k].place # z[l].place
  <2>1. SUFFICES ASSUME NEW k \in n .. Len(z), NEW l \in n .. Len(z), k # l, Sets(z[k]), Sets(z[l])
                 PROVE  z[k].place # z[l].place
    OBVIOUS
  <2>2. /\ k - n \in 1 .. Len(q) /\ z[k] = q[k - n] /\ l - n \in 1 .. Len(q) /\ z[l] = q[l - n]
        /\ k - n # l - n
    BY <1>4, <1>5, <1>6, <2>1
  <2>. QED
    BY <2>1, <2>2 DEF Waits
<1>. QED
  <2>1. n = Len(a) + 1
    BY <1>3
  <2>2. Fits(z, c, id, w)
    BY <1>4, <1>7, <1>8, <1>9, <2>1, FitsLonger
  <2>. QED
    BY <1>1, <1>3, <2>2

\* Records that are not of texts need no group.
LEMMA FitsOthers ==
    ASSUME NEW a \in Seq(Records), NEW b \in Seq(Records),
           NEW c, NEW id, NEW w, Fits(a, c, id, w),
           \A k \in 1 .. Len(b) : ~ Sets(b[k]) /\ b[k].kind # "Group"
    PROVE  Fits(a \o b, c, id, w)
<1>1. PICK z, n : z = a \o b /\ n = Len(a) + 1
  OBVIOUS
<1>2. /\ z \in Seq(Records) /\ Len(a) <= Len(z) /\ n \in Nat /\ Len(a) \in Nat /\ Len(b) \in Nat
      /\ Len(z) = Len(a) + Len(b)
      /\ \A k \in 1 .. Len(a) : z[k] = a[k]
  BY <1>1
<1>3. ASSUME NEW k \in n .. Len(z)
      PROVE  ~ Sets(z[k]) /\ z[k].kind # "Group"
  <2>1. k - Len(a) \in 1 .. Len(b) /\ z[k] = b[k - Len(a)]
    BY <1>1, <1>2
  <2>. QED
    BY <2>1
<1>4. \A k \in n + 1 .. Len(z) : z[k].kind # "Group"
  BY <1>2, <1>3
<1>5. /\ \A k \in n .. Len(z) : Sets(z[k]) =>
            z[n].kind = "Group" /\ In(z[n].texts, z[k].place, w[z[k].rev])
      /\ \A k, l \in n .. Len(z) :
            k # l /\ Sets(z[k]) /\ Sets(z[l]) => z[k].place # z[l].place
  BY <1>3
<1>6. n = Len(a) + 1
  BY <1>1
<1>7. Fits(z, c, id, w)
  BY <1>2, <1>4, <1>5, <1>6, FitsLonger
<1>. QED
  BY <1>1, <1>7

------------------------------------------------------------------------------
(* The steps of the update. *)

\* What the record of a text is.
LEMMA TextRecord ==
    ASSUME NEW r \in Revisions, NEW place \in Nat
    PROVE  LET c == SetText(r, place)
           IN  c \in Records /\ c.rev = r /\ c.place = place /\ Sets(c) /\ ~ Removes(c)
<1>1. <<>> \in Seq(Content)
  OBVIOUS
<1>. QED
  BY <1>1 DEF SetText, Record, Records, Kinds, Sets, Removes

\* What the record of a group is.
LEMMA GroupRecord ==
    ASSUME NEW texts \in Seq(Content)
    PROVE  Group(texts) \in Records /\ ~ About(Group(texts))
<1>1. 0 \in Nat
  OBVIOUS
<1>. QED
  BY <1>1 DEF Group, Record, Records, Kinds, Sets, Removes, About

\* What the records of a revision or a text that is deleted are.
LEMMA RemovalsAre ==
    ASSUME NEW r \in Revisions, NEW c \in {Hide(r), Delete(r)}
    PROVE  /\ c \in Records /\ c.rev = r
           /\ Removes(c) /\ ~ Sets(c) /\ About(c) /\ c.kind # "Group"
<1>1. <<>> \in Seq(Content) /\ 0 \in Nat
  OBVIOUS
<1>2. PICK kind \in {"Hide", "Delete"} : c = [kind |-> kind, rev |-> r, place |-> 0, texts |-> <<>>]
  BY DEF Hide, Delete, Record
<1>. QED
  BY <1>1, <1>2 DEF Records, Kinds, Sets, Removes, About

\* A revision gets a text: its record waits for the group, or the group ends.
LEMMA SetStep ==
    ASSUME DInv, IInv', NEW r \in Revisions, NEW t \in Texts, NEW g,
           session = "open", session' = session, r \notin SetIn(diff \o queue),
           groups' = Added(t, g).groups, adding' = Added(t, g).adding,
           wanted' = Extend(wanted, r, t), fresh' = fresh \cup {r},
           ProcessText(r, Added(t, g).loc), UNCHANGED copyVars
    PROVE  DInv'
<1>1. PICK x : x = Added(t, g)
  OBVIOUS
<1>2. /\ CopyIs(copy) /\ Streams /\ Ordered(diff \o queue) /\ Tracks(diff \o queue, copy, wanted)
      /\ Fits(diff, copy, imported, wanted) /\ Waits(queue, adding.texts, wanted)
      /\ IsOpen(adding) /\ diff \in Seq(Records) /\ queue \in Seq(Records)
      /\ copy' = copy /\ imported' = imported
  BY DEF DInv, IInv, GroupsAre, IsFilling, Streams, copyVars
<1>3. PICK texts \in Seq(Content), old \in Seq(Content) :
        /\ old = adding.texts /\ texts = Append(old, t) /\ x.loc[2] = Len(old) + 1
        /\ x.adding # NoGroup => x.adding.texts = texts
        /\ x.adding = NoGroup => x.groups[x.loc[1]] = texts
  BY <1>1, <1>2, AddedText
<1>4. PICK c : c = SetText(r, Len(old) + 1)
  OBVIOUS
<1>5. c \in Records /\ c.rev = r /\ Sets(c) /\ ~ Removes(c)
  BY <1>3, <1>4, TextRecord
<1>6. /\ DOMAIN wanted' = DOMAIN wanted \cup {r} /\ wanted'[r] = t
      /\ \A q \in DOMAIN wanted : q # r => wanted'[q] = wanted[q]
  BY DEF Extend
<1>7. PICK s : s = diff \o queue
  OBVIOUS
<1>8. /\ s \in Seq(Records) /\ SetIn(diff) \subseteq SetIn(s) /\ SetIn(queue) \subseteq SetIn(s)
      /\ r \notin SetIn(s) /\ Ordered(s) /\ Tracks(s, copy, wanted) /\ SetIn(s) \subseteq fresh
  BY <1>2, <1>7, PartsIn DEF Streams
<1>9. \A q \in SetIn(s) : wanted'[q] = wanted[q]
  BY <1>6, <1>8 DEF Tracks
<1>10. Fits(diff, copy, imported, wanted') /\ Waits(queue, old, wanted')
  <2>1. PICK w : w = wanted'
    OBVIOUS
  <2>2. diff \in Seq(Records) /\ queue \in Seq(Records)
    BY <1>2
  <2>3. \A p \in SetIn(diff) : w[p] = wanted[p]
    BY <1>8, <1>9, <2>1
  <2>4. \A p \in SetIn(queue) : w[p] = wanted[p]
    BY <1>8, <1>9, <2>1
  <2>5. Fits(diff, copy, imported, wanted) /\ Waits(queue, old, wanted)
    BY <1>2, <1>3
  <2>6. Fits(diff, copy, imported, w)
    BY <2>2, <2>3, <2>5, FitsWanted
  <2>7. Waits(queue, old, w)
    BY <2>2, <2>4, <2>5, FitsWanted
  <2>. QED
    BY <2>1, <2>6, <2>7
<1>11. PICK q \in Seq(Records) : q = Append(queue, c)
  <2>1. queue \in Seq(Records) /\ c \in Records
    BY <1>2, <1>5
  <2>2. Append(queue, c) \in Seq(Records)
    BY <2>1, AppendKeeps
  <2>. QED
    BY <2>2
<1>12. Waits(q, texts, wanted')
  <2>1. PICK w : w = wanted'
    OBVIOUS
  <2>2. Waits(queue, old, w) /\ w[r] = t
    BY <1>6, <1>10, <2>1
  <2>3. Waits(Append(queue, SetText(r, Len(old) + 1)), Append(old, t), w)
    BY <1>2, <2>2, WaitsSet
  <2>. QED
    BY <1>3, <1>4, <1>11, <2>1, <2>3
<1>13. PICK z \in Seq(Records) :
        /\ diff' \o queue' = Append(z, c) /\ diff' \in Seq(Records) /\ queue' \in Seq(Records)
        /\ SetIn(z) = SetIn(s) /\ RemovedIn(z) = RemovedIn(s) /\ Ordered(z)
        /\ Fits(diff', copy, imported, wanted') /\ Waits(queue', adding'.texts, wanted')
  <2>1. CASE adding' # NoGroup
    <3>1. diff' = diff /\ queue' = q /\ adding'.texts = texts
      BY <1>1, <1>3, <1>4, <1>11, <2>1 DEF ProcessText, Process
    <3>2. diff \o q = Append(s, c)
      BY <1>2, <1>5, <1>7, <1>11, Appended
    <3>. QED
      BY <1>2, <1>8, <1>10, <1>12, <3>1, <3>2
  <2>2. CASE adding' = NoGroup
    <3>1. PICK y : y = Group(texts)
      OBVIOUS
    <3>2. y \in Records /\ ~ About(y)
      BY <3>1, GroupRecord
    <3>3. diff' = diff \o (<<y>> \o queue \o <<c>>) /\ queue' = <<>>
      BY <1>1, <1>3, <1>4, <2>2, <3>1 DEF ProcessText, GroupEnded
    <3>4. PICK m : m = diff \o <<y>> \o queue
      OBVIOUS
    <3>5. m \in Seq(Records) /\ SetIn(m) = SetIn(s) /\ RemovedIn(m) = RemovedIn(s) /\ Ordered(m)
      BY <1>2, <1>7, <1>8, <3>2, <3>4, InsertKeeps
    <3>6. diff' = Append(m, c)
      <4>1. diff \in Seq(Records) /\ queue \in Seq(Records) /\ y \in Records /\ c \in Records
        BY <1>2, <1>5, <3>2
      <4>2. PICK d, e : d = <<y>> /\ e = <<c>>
        OBVIOUS
      <4>3. diff \o (d \o queue \o e) = Append(diff \o d \o queue, c)
        <5>1. d \in Seq(Records) /\ e \in Seq(Records) /\ d = <<y>> /\ e = <<c>>
          BY <4>1, <4>2, OneRecord
        <5>. QED
          BY <4>1, <5>1, EndedIs, Z3
      <4>. QED
        <5>1. diff' = diff \o (d \o queue \o e)
          BY <3>3, <4>2
        <5>2. m = diff \o d \o queue
          BY <3>4, <4>2
        <5>. QED
          BY <4>3, <5>1, <5>2
    <3>7. diff' = diff \o <<y>> \o q
      <4>1. PICK e \in Seq(Records) : e = diff \o <<y>>
        <5>1. diff \in Seq(Records) /\ <<y>> \in Seq(Records)
          BY <1>2, <3>2, OneRecord
        <5>2. diff \o <<y>> \in Seq(Records)
          BY <5>1, PartsIn
        <5>. QED
          BY <5>2
      <4>2. queue \in Seq(Records) /\ c \in Records
        BY <1>2, <1>5
      <4>3. Append(e \o queue, c) = e \o Append(queue, c)
        BY <4>1, <4>2, Appended
      <4>. QED
        <5>1. m = e \o queue
          BY <3>4, <4>1
        <5>2. diff' = e \o q
          BY <1>11, <3>6, <4>3, <5>1
        <5>. QED
          BY <4>1, <5>2
    <3>8. Fits(diff', copy, imported, wanted')
      <4>1. PICK w : w = wanted'
        OBVIOUS
      <4>2. diff \in Seq(Records) /\ Fits(diff, copy, imported, w) /\ Waits(q, texts, w)
        BY <1>2, <1>10, <1>12, <4>1
      <4>3. Fits(diff \o <<Group(texts)>> \o q, copy, imported, w)
        BY <4>2, FitsEnded
      <4>. QED
        BY <3>1, <3>7, <4>1, <4>3
    <3>9. diff' \in Seq(Records) /\ diff' \o queue' = diff' /\ queue' \in Seq(Records)
      <4>1. m \in Seq(Records) /\ c \in Records /\ queue' = <<>> /\ diff' = Append(m, c)
        BY <1>5, <3>3, <3>5, <3>6
      <4>2. PICK n \in Seq(Records) : n = Append(m, c)
        BY <4>1, AppendKeeps
      <4>3. n \o <<>> = n /\ <<>> \in Seq(Records)
        BY <4>2
      <4>. QED
        BY <4>1, <4>2, <4>3
    <3>10. Waits(queue', adding'.texts, wanted')
      BY <3>3 DEF Waits
    <3>. QED
      BY <3>5, <3>6, <3>8, <3>9, <3>10
  <2>. QED
    BY <2>1, <2>2
<1>14. PICK u : u = diff' \o queue'
  OBVIOUS
<1>15. SetIn(u) = SetIn(s) \cup {r} /\ RemovedIn(u) = RemovedIn(s) /\ Ordered(u)
  <2>1. /\ SetIn(Append(z, c)) = SetIn(z) \cup {r} /\ RemovedIn(Append(z, c)) = RemovedIn(z)
        /\ Ordered(Append(z, c))
    BY <1>5, <1>8, <1>13, AppendKeeps
  <2>. QED
    BY <1>13, <1>14, <2>1
<1>16. Tracks(u, copy, wanted')
  BY <1>6, <1>8, <1>15 DEF Tracks
<1>17. Streams'
  BY <1>2, <1>8, <1>13, <1>14, <1>15 DEF Streams
<1>. QED
  BY <1>2, <1>13, <1>14, <1>15, <1>16, <1>17 DEF DInv

\* A revision, or its text, is deleted: its record waits.
LEMMA RemoveStep ==
    ASSUME DInv, IInv', NEW r \in DOMAIN wanted \ fresh, r \in Revisions, NEW c \in {Hide(r), Delete(r)},
           session = "open", session' = session, adding' = adding,
           wanted' = Drop(wanted, r), fresh' = fresh, Process(c), UNCHANGED copyVars
    PROVE  DInv'
<1>1. /\ CopyIs(copy) /\ Streams /\ Ordered(diff \o queue) /\ Tracks(diff \o queue, copy, wanted)
      /\ Fits(diff, copy, imported, wanted) /\ Waits(queue, adding.texts, wanted)
      /\ diff \in Seq(Records) /\ queue \in Seq(Records)
      /\ copy' = copy /\ imported' = imported
      /\ queue' = Append(queue, c) /\ diff' = diff
  BY DEF DInv, Streams, copyVars, Process
<1>2. /\ c \in Records /\ c.rev = r /\ Removes(c) /\ ~ Sets(c) /\ About(c)
  BY RemovalsAre
<1>3. PICK s, u : s = diff \o queue /\ u = diff' \o queue'
  OBVIOUS
<1>4. /\ s \in Seq(Records) /\ SetIn(diff) \subseteq SetIn(s) /\ SetIn(queue) \subseteq SetIn(s)
      /\ Ordered(s) /\ Tracks(s, copy, wanted) /\ SetIn(s) \subseteq fresh
  BY <1>1, <1>3, PartsIn DEF Streams
<1>5. r \notin SetIn(s) /\ r \notin RemovedIn(s) /\ r \in DOMAIN copy.location
  BY <1>4 DEF Tracks
<1>6. u = Append(s, c) /\ queue' \in Seq(Records)
  BY <1>1, <1>2, <1>3, Appended
<1>7. SetIn(u) = SetIn(s) /\ RemovedIn(u) = RemovedIn(s) \cup {r} /\ Ordered(u)
  BY <1>2, <1>4, <1>5, <1>6, AppendKeeps
<1>8. DOMAIN wanted' = DOMAIN wanted \ {r} /\ \A q \in DOMAIN wanted' : wanted'[q] = wanted[q]
  BY DEF Drop, Restrict
<1>9. \A q \in SetIn(s) : wanted'[q] = wanted[q] /\ q \in DOMAIN wanted'
  BY <1>4, <1>5, <1>8 DEF Tracks
<1>10. Fits(diff, copy, imported, wanted') /\ Waits(queue, adding.texts, wanted')
  BY <1>1, <1>4, <1>9, FitsWanted
<1>11. Waits(queue', adding'.texts, wanted')
  <2>1. /\ Len(queue') = Len(queue) + 1 /\ queue'[Len(queue) + 1] = c /\ Len(queue) \in Nat
        /\ \A k \in 1 .. Len(queue) : queue'[k] = queue[k]
    BY <1>1
  <2>2. \A k \in 1 .. Len(queue') : k \in 1 .. Len(queue) \/ k = Len(queue) + 1
    BY <2>1
  <2>3. \A k \in 1 .. Len(queue') :
            /\ About(queue'[k])
            /\ Sets(queue'[k]) => In(adding.texts, queue'[k].place, wanted'[queue'[k].rev])
    BY <1>2, <1>10, <2>1, <2>2 DEF Waits
  <2>4. \A k, l \in 1 .. Len(queue') :
            k # l /\ Sets(queue'[k]) /\ Sets(queue'[l]) => queue'[k].place # queue'[l].place
    BY <1>2, <1>10, <2>1, <2>2 DEF Waits
  <2>. QED
    BY <2>3, <2>4 DEF Waits
<1>12. Tracks(u, copy, wanted')
  BY <1>4, <1>5, <1>7, <1>8, <1>9 DEF Tracks
<1>13. Streams'
  BY <1>1, <1>3, <1>4, <1>6, <1>7 DEF Streams
<1>. QED
  BY <1>1, <1>3, <1>7, <1>10, <1>11, <1>12, <1>13 DEF DInv

\* The session ends: so does the group, and the diff dump.
LEMMA DiffCompleteStep ==
    ASSUME DInv, IInv', CompleteBoth
    PROVE  DInv'
<1>1. /\ CopyIs(copy) /\ Streams /\ Ordered(diff \o queue) /\ Tracks(diff \o queue, copy, wanted)
      /\ Fits(diff, copy, imported, wanted) /\ Waits(queue, adding.texts, wanted)
      /\ IsOpen(adding) /\ diff \in Seq(Records) /\ queue \in Seq(Records)
      /\ copy' = copy /\ imported' = imported /\ wanted' = wanted /\ adding' = NoGroup
      /\ session = "open" /\ session' = "completed" /\ queue' = <<>>
      /\ diff' = diff \o (IF adding = NoGroup THEN queue ELSE GroupEnded(adding.texts, <<>>))
                    \o <<End>>
  BY DEF DInv, IInv, GroupsAre, IsFilling, Streams, copyVars, CompleteBoth, Complete
<1>2. End \in Records /\ End.kind = "End" /\ ~ About(End) /\ ~ Sets(End) /\ ~ Removes(End)
  BY DEF End, Record, Records, Kinds, Sets, Removes, About
<1>3. PICK s : s = diff \o queue
  OBVIOUS
<1>4. /\ s \in Seq(Records) /\ Ordered(s) /\ Tracks(s, copy, wanted)
  BY <1>1, <1>3, PartsIn
<1>5. PICK m \in Seq(Records) :
        /\ diff' = Append(m, End) /\ Fits(m, copy, imported, wanted)
        /\ SetIn(m) = SetIn(s) /\ RemovedIn(m) = RemovedIn(s) /\ Ordered(m)
  <2>1. CASE adding = NoGroup
    <3>1. \A k \in 1 .. Len(queue) : ~ Sets(queue[k]) /\ queue[k].kind # "Group"
      <4>1. \A i, t : ~ In(adding.texts, i, t)
        BY <2>1 DEF In, NoGroup
      <4>. QED
        BY <1>1, <4>1, KindsDiffer DEF Waits
    <3>2. Fits(diff \o queue, copy, imported, wanted)
      BY <1>1, <3>1, FitsOthers
    <3>3. diff' = s \o <<End>>
      BY <1>1, <1>3, <2>1
    <3>4. s \o <<End>> = Append(s, End)
      <4>1. s \in Seq(Records) /\ End \in Records
        BY <1>2, <1>4
      <4>. QED
        BY <4>1
    <3>5. diff' = Append(s, End) /\ Fits(s, copy, imported, wanted)
      BY <1>3, <3>2, <3>3, <3>4
    <3>. QED
      BY <1>4, <3>5
  <2>2. CASE adding # NoGroup
    <3>1. PICK texts \in Seq(Content) : texts = adding.texts
      BY <1>1, <2>2 DEF IsOpen
    <3>2. PICK x \in Records : x = Group(texts) /\ ~ About(x)
      BY GroupRecord
    <3>3. PICK d \in Seq(Records) : d = <<x>>
      BY OneRecord
    <3>4. PICK e : e = <<End>>
      OBVIOUS
    <3>5. diff' = diff \o (d \o queue \o <<>>) \o e
      BY <1>1, <2>2, <3>1, <3>2, <3>3, <3>4 DEF GroupEnded
    <3>6. diff \o (d \o queue \o <<>>) \o e = Append(diff \o d \o queue, End)
      <4>1. diff \in Seq(Records) /\ queue \in Seq(Records) /\ End \in Records
        BY <1>1, <1>2
      <4>. QED
        BY <3>3, <3>4, <4>1, EndedBy, Z3
    <3>7. PICK m : m = diff \o <<x>> \o queue
      OBVIOUS
    <3>8. m \in Seq(Records) /\ SetIn(m) = SetIn(s) /\ RemovedIn(m) = RemovedIn(s) /\ Ordered(m)
      BY <1>1, <1>3, <1>4, <3>2, <3>7, InsertKeeps
    <3>9. diff' = Append(m, End)
      BY <3>3, <3>5, <3>6, <3>7
    <3>10. Fits(m, copy, imported, wanted)
      <4>1. Fits(diff \o <<Group(texts)>> \o queue, copy, imported, wanted)
        BY <1>1, <3>1, FitsEnded
      <4>. QED
        BY <3>2, <3>7, <4>1
    <3>. QED
      BY <3>8, <3>9, <3>10
  <2>. QED
    BY <2>1, <2>2
<1>6. PICK z \in Seq(Records) : z = Append(m, End)
  BY <1>2, AppendKeeps
<1>7. SetIn(z) = SetIn(s) /\ RemovedIn(z) = RemovedIn(s) /\ Ordered(z)
  <2>1. /\ SetIn(Append(m, End)) = SetIn(m) /\ RemovedIn(Append(m, End)) = RemovedIn(m)
        /\ Ordered(Append(m, End))
    BY <1>2, <1>5, AppendKeeps
  <2>. QED
    BY <1>5, <1>6, <2>1
<1>8. Fits(z, copy, imported, wanted)
  <2>1. PICK e \in Seq(Records) : e = <<End>>
    BY <1>2, OneRecord
  <2>2. \A k \in 1 .. Len(e) : ~ Sets(e[k]) /\ e[k].kind # "Group"
    BY <1>2, <2>1
  <2>3. Fits(m \o e, copy, imported, wanted)
    BY <1>5, <2>2, FitsOthers
  <2>4. m \o e = Append(m, End)
    BY <1>2, <2>1
  <2>. QED
    BY <1>6, <2>3, <2>4
<1>9. z # <<>> /\ z[Len(z)] = End /\ z \o <<>> = z
  BY <1>6
<1>10. diff' = z /\ queue' = <<>> /\ diff' \o queue' = z
  BY <1>1, <1>5, <1>6, <1>9
<1>11. Tracks(z, copy, wanted)
  BY <1>4, <1>7 DEF Tracks
<1>12. Waits(queue', adding'.texts, wanted')
  BY <1>10 DEF Waits
<1>13. Streams'
  <2>1. diff' \in Seq(Records) /\ queue' \in Seq(Records) /\ diff' # <<>>
    BY <1>9, <1>10
  <2>2. diff'[Len(diff')].kind = "End"
    BY <1>2, <1>9, <1>10
  <2>3. copy'.emptying = NoGroup
    BY <1>1 DEF Streams
  <2>. QED
    BY <1>1, <2>1, <2>2, <2>3 DEF Streams
<1>. QED
  BY <1>1, <1>7, <1>8, <1>10, <1>11, <1>12, <1>13 DEF DInv

\* A new session starts when the diff dump has been applied.
LEMMA DiffOpenStep ==
    ASSUME DInv, IInv', OpenBoth
    PROVE  DInv'
<1>1. /\ CopyIs(copy) /\ Streams /\ Tracks(diff \o queue, copy, wanted)
      /\ queue = <<>> /\ diff = <<>> /\ adding' = adding
      /\ copy' = copy /\ wanted' = wanted /\ session' = "open" /\ queue' = queue /\ diff' = diff
  BY DEF DInv, Streams, OpenBoth, Open
<1>2. diff \o queue = <<>> /\ Len(<<>>) = 0 /\ SetIn(<<>>) = {} /\ <<>> \in Seq(Records)
  BY <1>1 DEF SetIn
<1>3. Ordered(diff' \o queue') /\ Fits(diff', copy', imported', wanted')
      /\ Waits(queue', adding'.texts, wanted')
  BY <1>1, <1>2 DEF Ordered, Fits, FitsImported, FitsGroups, Apart, Waits
<1>4. Streams'
  BY <1>1, <1>2 DEF Streams
<1>. QED
  BY <1>1, <1>3, <1>4 DEF DInv

------------------------------------------------------------------------------
(* The steps of the copy. *)

\* TextGroups of the copy, with the operators of the dump.
LEMMA EmptiedThere ==
    \A loc : Copy!Emptied(loc) = EmptiedIn(copy.groups, copy.emptying, loc)
<1>1. Copy!NoGroup = NoGroup
  BY DEF Copy!NoGroup, NoGroup
<1>2. \A g, a : Copy!Stored(g, a) = Stored(g, a)
  BY <1>1 DEF Copy!Stored, Stored, Copy!Extend, Extend
<1>3. \A id : Copy!LoadGroup(id) = Loaded(copy.groups, id)
  BY DEF Copy!LoadGroup, Loaded
<1>4. \A a : Copy!IsEmpty(a) <=> IsEmpty(a)
  BY DEF Copy!IsEmpty, IsEmpty
<1>5. \A f, S : Copy!Restrict(f, S) = Restrict(f, S)
  BY DEF Copy!Restrict, Restrict
<1>6. SUFFICES ASSUME NEW loc
               PROVE  Copy!Emptied(loc) = EmptiedIn(copy.groups, copy.emptying, loc)
  OBVIOUS
<1>7. PICK group, file :
        /\ group = IF copy.emptying.id # loc[1] THEN Loaded(copy.groups, loc[1]) ELSE copy.emptying
        /\ file = IF copy.emptying.id # loc[1] THEN Stored(copy.groups, copy.emptying)
                  ELSE copy.groups
  OBVIOUS
<1>8. PICK after : after = [group EXCEPT !.texts[loc[2]] = Deleted]
  OBVIOUS
<1>9. EmptiedIn(copy.groups, copy.emptying, loc) =
        IF loc[2] \notin DOMAIN group.texts
          THEN [fails |-> TRUE, groups |-> copy.groups, emptying |-> copy.emptying]
        ELSE IF IsEmpty(after)
          THEN [fails |-> FALSE, groups |-> Restrict(file, DOMAIN file \ {loc[1]}),
                emptying |-> NoGroup]
        ELSE [fails |-> FALSE, groups |-> file, emptying |-> after]
  BY <1>7, <1>8 DEF EmptiedIn
<1>10. Copy!Emptied(loc) =
        IF loc[2] \notin DOMAIN group.texts
          THEN [fails |-> TRUE, groups |-> copy.groups, emptying |-> copy.emptying]
        ELSE IF Copy!IsEmpty(after)
          THEN [fails |-> FALSE, groups |-> Copy!Restrict(file, DOMAIN file \ {loc[1]}),
                emptying |-> Copy!NoGroup]
        ELSE [fails |-> FALSE, groups |-> file, emptying |-> after]
  BY <1>2, <1>3, <1>7, <1>8 DEF Copy!Emptied
<1>11. Copy!Restrict(file, DOMAIN file \ {loc[1]}) = Restrict(file, DOMAIN file \ {loc[1]})
  BY <1>5
<1>12. CASE loc[2] \notin DOMAIN group.texts
  BY <1>9, <1>10, <1>12
<1>13. CASE loc[2] \in DOMAIN group.texts /\ IsEmpty(after)
  <2>1. Copy!IsEmpty(after)
    BY <1>4, <1>13
  <2>. QED
    BY <1>1, <1>9, <1>10, <1>11, <1>13, <2>1
<1>14. CASE loc[2] \in DOMAIN group.texts /\ ~ IsEmpty(after)
  <2>1. ~ Copy!IsEmpty(after)
    BY <1>4, <1>14
  <2>. QED
    BY <1>9, <1>10, <1>14, <2>1
<1>. QED
  BY <1>12, <1>13, <1>14

\* What is known when a record is used up.
LEMMA ApplyFacts ==
    ASSUME DInv, session = "completed", diff # <<>>, Done, session' = session, ~ ReplaceAnywhere
    PROVE  LET h == Head(diff)
               z == Tail(diff)
           IN  /\ h = diff[1] /\ h \in Records /\ z \in Seq(Records)
               /\ Ordered(diff) /\ Tracks(diff, copy, wanted) /\ Fits(diff, copy, imported, wanted)
               /\ CopyIs(copy)
               /\ DOMAIN wanted \subseteq Revisions /\ \A r \in DOMAIN wanted : wanted[r] \in Texts
               /\ h.kind # "End" => z # <<>>
               /\ SetIn(diff) = SetIn(z) \cup (IF Sets(h) THEN {h.rev} ELSE {})
               /\ RemovedIn(diff) = RemovedIn(z) \cup (IF Removes(h) THEN {h.rev} ELSE {})
               /\ Sets(h) => h.rev \notin SetIn(z) \cup RemovedIn(z)
               /\ Removes(h) => h.rev \notin RemovedIn(z)
               /\ /\ CopyIs(copy') /\ Tracks(z, copy', wanted)
                  /\ FitsImported(z, copy', imported', wanted)
                  /\ z = <<>> => copy'.emptying = NoGroup
                  => DInv'
<1>1. PICK h, z : h = Head(diff) /\ z = Tail(diff)
  OBVIOUS
<1>2. /\ IInv /\ Streams /\ queue = <<>> /\ diff \in Seq(Records)
      /\ Ordered(diff \o queue) /\ Tracks(diff \o queue, copy, wanted) /\ CopyIs(copy)
      /\ Fits(diff, copy, imported, wanted) /\ diff[Len(diff)].kind = "End"
      /\ diff' = z /\ queue' = <<>> /\ wanted' = wanted /\ adding' = adding
  BY <1>1 DEF DInv, Streams, Done
<1>3. diff \o queue = diff
  BY <1>2
<1>4. /\ z \in Seq(Records) /\ h \in Records /\ h = diff[1]
      /\ Len(diff) = Len(z) + 1 /\ Len(z) \in Nat
      /\ \A k \in 1 .. Len(z) : z[k] = diff[k + 1]
  BY <1>1, <1>2
<1>5. Ordered(z)
  BY <1>1, <1>2, <1>3, TailKeeps
<1>12. /\ SetIn(diff) = SetIn(z) \cup (IF Sets(h) THEN {h.rev} ELSE {})
       /\ RemovedIn(diff) = RemovedIn(z) \cup (IF Removes(h) THEN {h.rev} ELSE {})
       /\ Sets(h) => h.rev \notin SetIn(z) \cup RemovedIn(z)
       /\ Removes(h) => h.rev \notin RemovedIn(z)
  BY <1>1, <1>2, <1>3, TailKeeps
<1>6. h.kind # "End" => z # <<>>
  <2>1. Len(z) = 0 => h.kind = "End"
    BY <1>2, <1>4
  <2>. QED
    BY <1>4, <2>1
<1>7. z # <<>> => z[Len(z)].kind = "End"
  <2>1. SUFFICES ASSUME z # <<>>
                 PROVE  z[Len(z)].kind = "End"
    OBVIOUS
  <2>2. Len(z) \in 1 .. Len(z)
    BY <1>4, <2>1
  <2>. QED
    BY <1>2, <1>4, <2>2
<1>8. IInv'
  <2>1. UNCHANGED vars
    BY DEF Done, vars
  <2>. QED
    BY <1>2, <2>1, NextKeeps
<1>9. FitsGroups(z, wanted) /\ Apart(z)
  BY <1>1, <1>2, FitsTail
<1>10. DOMAIN wanted \subseteq Revisions /\ \A r \in DOMAIN wanted : wanted[r] \in Texts
  BY <1>2 DEF IInv, Placed
<1>11. ASSUME CopyIs(copy'), Tracks(z, copy', wanted), FitsImported(z, copy', imported', wanted),
              z = <<>> => copy'.emptying = NoGroup
       PROVE  DInv'
  <2>1. diff' \o queue' = z
    BY <1>2, <1>4
  <2>2. Waits(queue', adding'.texts, wanted')
    BY <1>2 DEF Waits
  <2>3. Fits(diff', copy', imported', wanted')
    BY <1>2, <1>9, <1>11 DEF Fits
  <2>4. Streams'
    <3>1. diff' \in Seq(Records) /\ queue' \in Seq(Records)
      BY <1>2, <1>4
    <3>. QED
      BY <1>2, <1>7, <1>11, <3>1 DEF Streams
  <2>. QED
    BY <1>2, <1>5, <1>8, <1>11, <2>1, <2>2, <2>3, <2>4 DEF DInv
<1>. QED
  BY <1>1, <1>2, <1>3, <1>4, <1>6, <1>10, <1>11, <1>12

\* The copy imports a group under an id of its own.
LEMMA ApplyGroupStep ==
    ASSUME DInv, ApplyGroup, ~ ReplaceAnywhere
    PROVE  DInv'
<1>1. PICK h, z, id : h = Head(diff) /\ z = Tail(diff) /\ id = NewId(copy.groups)
  OBVIOUS
<1>2. /\ session = "completed" /\ diff # <<>> /\ h.kind = "Group" /\ Done /\ session' = session
      /\ copy' = [copy EXCEPT !.groups = Extend(@, id, h.texts)] /\ imported' = id
  BY <1>1 DEF ApplyGroup, Next1
<1>3. /\ h = diff[1] /\ h \in Records /\ z \in Seq(Records)
      /\ Tracks(diff, copy, wanted) /\ Fits(diff, copy, imported, wanted) /\ CopyIs(copy)
      /\ z # <<>>
      /\ SetIn(diff) = SetIn(z) \cup (IF Sets(h) THEN {h.rev} ELSE {})
      /\ RemovedIn(diff) = RemovedIn(z) \cup (IF Removes(h) THEN {h.rev} ELSE {})
      /\ /\ CopyIs(copy') /\ Tracks(z, copy', wanted)
         /\ FitsImported(z, copy', imported', wanted)
         /\ z = <<>> => copy'.emptying = NoGroup
         => DInv'
  BY <1>1, <1>2, ApplyFacts
<1>4. diff \in Seq(Records)
  BY DEF DInv, Streams
<1>5. PICK n \in Nat : DOMAIN copy.groups \subseteq 1 .. n
  BY <1>3 DEF CopyIs
<1>6. id \in 1 .. n + 1 /\ \A i \in DOMAIN copy.groups : i < id
  BY <1>1, <1>5, NewIds
<1>7. id \in Nat \ {0} /\ id \notin DOMAIN copy.groups /\ copy.emptying.id # id
  <2>1. id \in Nat \ {0} /\ id \notin DOMAIN copy.groups
    BY <1>5, <1>6
  <2>. QED
    BY <1>3, <2>1 DEF CopyIs, Shelf, NoGroup
<1>8. h.texts \in Seq(Content)
  BY <1>3 DEF Records
<1>9. PICK g : g = Extend(copy.groups, id, h.texts)
  OBVIOUS
<1>10. /\ DOMAIN g = DOMAIN copy.groups \cup {id} /\ g[id] = h.texts
       /\ \A i \in DOMAIN copy.groups : g[i] = copy.groups[i]
       /\ g = [i \in DOMAIN g |-> g[i]]
  BY <1>7, <1>9 DEF Extend
<1>11. /\ copy' = [groups |-> g, emptying |-> copy.emptying, location |-> copy.location]
       /\ copy'.groups = g /\ copy'.emptying = copy.emptying /\ copy'.location = copy.location
  BY <1>2, <1>3, <1>9 DEF CopyIs
<1>12. Shelf(g, copy.emptying)
  BY <1>3, <1>7, <1>8, <1>10 DEF Shelf, CopyIs
<1>13. /\ \A i, j, u : HasIn(copy, i, j, u) => HasIn(copy', i, j, u) /\ i # id
       /\ \A j, u : In(h.texts, j, u) => HasIn(copy', id, j, u)
  BY <1>7, <1>10, <1>11 DEF HasIn, Has
<1>14. CopyIs(copy')
  <2>1. DOMAIN g \subseteq 1 .. n + 1 /\ n + 1 \in Nat
    BY <1>5, <1>6, <1>10
  <2>2. ASSUME NEW r \in DOMAIN copy.location
        PROVE  /\ copy.location[r] = <<copy.location[r][1], copy.location[r][2]>>
               /\ \E t \in Texts : HasIn(copy', copy.location[r][1], copy.location[r][2], t)
    BY <1>3, <1>13 DEF CopyIs
  <2>. QED
    BY <1>3, <1>11, <1>12, <2>1, <2>2 DEF CopyIs
<1>15. SetIn(z) = SetIn(diff) /\ RemovedIn(z) = RemovedIn(diff)
  <2>1. ~ Sets(h) /\ ~ Removes(h)
    BY <1>2 DEF Sets, Removes
  <2>. QED
    BY <1>3, <2>1
<1>16. Tracks(z, copy', wanted)
  BY <1>3, <1>11, <1>13, <1>15 DEF Tracks
<1>17. FitsImported(z, copy', imported', wanted)
  <2>1. SUFFICES ASSUME NEW k \in 1 .. Len(z), Sets(z[k]), Under(z, 0, k)
                 PROVE  /\ HasIn(copy', id, z[k].place, wanted[z[k].rev])
                        /\ \A r \in DOMAIN copy'.location : copy'.location[r] # <<id, z[k].place>>
    BY <1>2 DEF FitsImported
  <2>2. In(h.texts, z[k].place, wanted[z[k].rev])
    BY <1>1, <1>2, <1>3, <1>4, <2>1, FitsTail
  <2>3. \A r \in DOMAIN copy.location : copy.location[r] # <<id, z[k].place>>
    BY <1>3, <1>13 DEF CopyIs
  <2>. QED
    BY <1>11, <1>13, <2>2, <2>3
<1>. QED
  BY <1>3, <1>14, <1>16, <1>17

\* A revision of the copy gets the text at its place in that group.
LEMMA ApplySetTextStep ==
    ASSUME DInv, ApplySetText, ~ ReplaceAnywhere
    PROVE  DInv'
<1>1. PICK h, z, r, place : h = Head(diff) /\ z = Tail(diff) /\ r = h.rev /\ place = h.place
  OBVIOUS
<1>2. /\ session = "completed" /\ diff # <<>> /\ h.kind = "SetText" /\ Done /\ session' = session
      /\ copy' = [copy EXCEPT !.location = Extend(@, r, <<imported, place>>)]
      /\ imported' = imported
  BY <1>1 DEF ApplySetText, Next1
<1>3. /\ h = diff[1] /\ h \in Records /\ z \in Seq(Records)
      /\ Tracks(diff, copy, wanted) /\ Fits(diff, copy, imported, wanted) /\ CopyIs(copy)
      /\ DOMAIN wanted \subseteq Revisions /\ \A q \in DOMAIN wanted : wanted[q] \in Texts
      /\ z # <<>>
      /\ SetIn(diff) = SetIn(z) \cup (IF Sets(h) THEN {h.rev} ELSE {})
      /\ RemovedIn(diff) = RemovedIn(z) \cup (IF Removes(h) THEN {h.rev} ELSE {})
      /\ Sets(h) => h.rev \notin SetIn(z) \cup RemovedIn(z)
      /\ /\ CopyIs(copy') /\ Tracks(z, copy', wanted)
         /\ FitsImported(z, copy', imported', wanted)
         /\ z = <<>> => copy'.emptying = NoGroup
         => DInv'
  BY <1>1, <1>2, ApplyFacts
<1>4. diff \in Seq(Records)
  BY DEF DInv, Streams
<1>5. /\ SetIn(diff) = SetIn(z) \cup {r} /\ RemovedIn(diff) = RemovedIn(z)
      /\ r \notin SetIn(z) \cup RemovedIn(z)
      /\ r \in DOMAIN wanted /\ r \in Revisions /\ wanted[r] \in Texts
  <2>1. Sets(h) /\ ~ Removes(h)
    BY <1>2 DEF Sets, Removes
  <2>. QED
    BY <1>1, <1>3, <2>1 DEF Tracks
<1>6. /\ HasIn(copy, imported, place, wanted[r])
      /\ \A q \in DOMAIN copy.location : copy.location[q] # <<imported, place>>
  <2>1. 1 \in 1 .. Len(diff) /\ Under(diff, 0, 1) /\ Sets(diff[1])
    BY <1>2, <1>3, <1>4 DEF Under, Sets
  <2>. QED
    BY <1>1, <1>3, <2>1 DEF Fits, FitsImported
<1>7. PICK loc : loc = Extend(copy.location, r, <<imported, place>>)
  OBVIOUS
<1>8. /\ DOMAIN loc = DOMAIN copy.location \cup {r} /\ loc[r] = <<imported, place>>
      /\ \A q \in DOMAIN copy.location : q # r => loc[q] = copy.location[q]
      /\ loc = [q \in DOMAIN loc |-> loc[q]]
  BY <1>7 DEF Extend
<1>9. /\ copy' = [groups |-> copy.groups, emptying |-> copy.emptying, location |-> loc]
      /\ copy'.groups = copy.groups /\ copy'.emptying = copy.emptying /\ copy'.location = loc
  BY <1>2, <1>3, <1>7 DEF CopyIs
<1>10. \A i, j, u : HasIn(copy', i, j, u) <=> HasIn(copy, i, j, u)
  BY <1>9 DEF HasIn
<1>11. ASSUME NEW q \in DOMAIN loc
       PROVE  /\ loc[q] = <<loc[q][1], loc[q][2]>>
              /\ \E t \in Texts : HasIn(copy, loc[q][1], loc[q][2], t)
  <2>1. CASE q = r
    BY <1>5, <1>6, <1>8, <2>1
  <2>2. CASE q # r
    BY <1>3, <1>8, <2>2 DEF CopyIs
  <2>. QED
    BY <2>1, <2>2
<1>12. ASSUME NEW p \in DOMAIN loc, NEW q \in DOMAIN loc, loc[p] = loc[q]
       PROVE  p = q
  <2>1. \A s \in DOMAIN loc : s # r => loc[s] = copy.location[s] /\ loc[s] # loc[r]
                                                /\ s \in DOMAIN copy.location
    BY <1>6, <1>8
  <2>. QED
    BY <1>3, <1>12, <2>1 DEF CopyIs
<1>13. CopyIs(copy')
  <2>1. Shelf(copy.groups, copy.emptying) /\ \E n \in Nat : DOMAIN copy.groups \subseteq 1 .. n
    BY <1>3 DEF CopyIs
  <2>2. DOMAIN loc \subseteq Revisions
    BY <1>3, <1>5, <1>8 DEF CopyIs
  <2>. QED
    BY <1>8, <1>9, <1>10, <1>11, <1>12, <2>1, <2>2 DEF CopyIs
<1>14. Tracks(z, copy', wanted)
  <2>1. SetIn(z) \subseteq DOMAIN wanted /\ RemovedIn(z) \subseteq DOMAIN loc
    BY <1>3, <1>5, <1>8 DEF Tracks
  <2>2. \A q \in RemovedIn(z) \ SetIn(z) : q \notin DOMAIN wanted
    BY <1>3, <1>5 DEF Tracks
  <2>3. ASSUME NEW q \in Revisions \ (SetIn(z) \cup RemovedIn(z))
        PROVE  /\ q \in DOMAIN wanted <=> q \in DOMAIN loc
               /\ q \in DOMAIN wanted => HasIn(copy, loc[q][1], loc[q][2], wanted[q])
    <3>1. CASE q = r
      BY <1>5, <1>6, <1>8, <3>1
    <3>2. CASE q # r
      BY <1>3, <1>5, <1>8, <3>2 DEF Tracks
    <3>. QED
      BY <3>1, <3>2
  <2>. QED
    BY <1>9, <1>10, <2>1, <2>2, <2>3 DEF Tracks
<1>15. FitsImported(z, copy', imported', wanted)
  <2>1. SUFFICES ASSUME NEW k \in 1 .. Len(z), Sets(z[k]), Under(z, 0, k)
                 PROVE  /\ HasIn(copy, imported, z[k].place, wanted[z[k].rev])
                        /\ \A q \in DOMAIN loc : loc[q] # <<imported, z[k].place>>
    BY <1>2, <1>9, <1>10 DEF FitsImported
  <2>2. FitsImported(z, copy, imported, wanted)
    BY <1>1, <1>2, <1>3, <1>4, FitsTail
  <2>3. z[k].place # place
    <3>1. Sets(diff[1])
      BY <1>2, <1>3 DEF Sets
    <3>. QED
      BY <1>1, <1>2, <1>3, <1>4, <2>1, <3>1, FitsTail
  <2>. QED
    BY <1>8, <2>1, <2>2, <2>3 DEF FitsImported
<1>. QED
  BY <1>3, <1>13, <1>14, <1>15

\* The copy no longer has a text of a revision, and all its other texts.
LEMMA RemovedThere ==
    ASSUME DInv, session = "completed", diff # <<>>, Done, session' = session, ~ ReplaceAnywhere,
           NEW r, r = Head(diff).rev, Removes(Head(diff)),
           NEW g, NEW e, Shelf(g, e), DOMAIN g \subseteq DOMAIN copy.groups,
           \A i, j : \A t \in Texts :
                HasIn(copy, i, j, t) /\ <<i, j>> # copy.location[r] => Has(g, e, i, j, t),
           copy' = [groups |-> g, emptying |-> e, location |-> Drop(copy.location, r)],
           imported' = imported
    PROVE  DInv'
<1>1. PICK h, z : h = Head(diff) /\ z = Tail(diff)
  OBVIOUS
<1>2. /\ z \in Seq(Records) /\ h = diff[1]
      /\ Tracks(diff, copy, wanted) /\ Fits(diff, copy, imported, wanted) /\ CopyIs(copy)
      /\ \A q \in DOMAIN wanted : wanted[q] \in Texts
      /\ h.kind # "End" => z # <<>>
      /\ SetIn(diff) = SetIn(z) \cup (IF Sets(h) THEN {h.rev} ELSE {})
      /\ RemovedIn(diff) = RemovedIn(z) \cup (IF Removes(h) THEN {h.rev} ELSE {})
      /\ Removes(h) => h.rev \notin RemovedIn(z)
      /\ /\ CopyIs(copy') /\ Tracks(z, copy', wanted)
         /\ FitsImported(z, copy', imported', wanted)
         /\ z = <<>> => copy'.emptying = NoGroup
         => DInv'
  BY <1>1, ApplyFacts
<1>3. diff \in Seq(Records)
  BY DEF DInv, Streams
<1>4. Removes(h) /\ ~ Sets(h) /\ h.kind # "End" /\ h.kind # "Group" /\ h.rev = r
  BY <1>1 DEF Removes, Sets
<1>5. /\ SetIn(diff) = SetIn(z) /\ RemovedIn(diff) = RemovedIn(z) \cup {r} /\ r \notin RemovedIn(z)
      /\ r \in DOMAIN copy.location /\ r \in Revisions
  BY <1>2, <1>4 DEF Tracks, CopyIs
<1>6. PICK loc : loc = Drop(copy.location, r)
  OBVIOUS
<1>7. /\ DOMAIN loc = DOMAIN copy.location \ {r}
      /\ \A q \in DOMAIN loc : loc[q] = copy.location[q]
      /\ loc = [q \in DOMAIN loc |-> loc[q]]
  BY <1>6 DEF Drop, Restrict
<1>8. /\ copy' = [groups |-> g, emptying |-> e, location |-> loc]
      /\ copy'.groups = g /\ copy'.emptying = e /\ copy'.location = loc
  BY <1>6
<1>9. \A i, j : \A t \in Texts :
        HasIn(copy, i, j, t) /\ <<i, j>> # copy.location[r] => HasIn(copy', i, j, t)
  BY <1>8 DEF HasIn
<1>10. ASSUME NEW q \in DOMAIN loc
       PROVE  /\ loc[q] = <<loc[q][1], loc[q][2]>> /\ loc[q] # copy.location[r]
              /\ \A t \in Texts : HasIn(copy, loc[q][1], loc[q][2], t)
                                        => HasIn(copy', loc[q][1], loc[q][2], t)
              /\ \E t \in Texts : HasIn(copy, loc[q][1], loc[q][2], t)
  <2>1. loc[q] = <<loc[q][1], loc[q][2]>> /\ loc[q] # copy.location[r]
    BY <1>2, <1>5, <1>7 DEF CopyIs
  <2>2. \E t \in Texts : HasIn(copy, loc[q][1], loc[q][2], t)
    BY <1>2, <1>5, <1>7 DEF CopyIs
  <2>. QED
    BY <1>9, <2>1, <2>2
<1>11. CopyIs(copy')
  <2>1. \E n \in Nat : DOMAIN g \subseteq 1 .. n
    BY <1>2 DEF CopyIs
  <2>2. DOMAIN loc \subseteq Revisions
    BY <1>2, <1>7 DEF CopyIs
  <2>3. \A p, q \in DOMAIN loc : loc[p] = loc[q] => p = q
    BY <1>2, <1>7 DEF CopyIs
  <2>. QED
    BY <1>7, <1>8, <1>10, <2>1, <2>2, <2>3 DEF CopyIs
<1>12. Tracks(z, copy', wanted)
  <2>1. SetIn(z) \subseteq DOMAIN wanted /\ RemovedIn(z) \subseteq DOMAIN loc
    BY <1>2, <1>5, <1>7 DEF Tracks
  <2>2. \A q \in RemovedIn(z) \ SetIn(z) : q \notin DOMAIN wanted
    BY <1>2, <1>5 DEF Tracks
  <2>3. ASSUME NEW q \in Revisions \ (SetIn(z) \cup RemovedIn(z))
        PROVE  /\ q \in DOMAIN wanted <=> q \in DOMAIN loc
               /\ q \in DOMAIN wanted => HasIn(copy', loc[q][1], loc[q][2], wanted[q])
    <3>1. CASE q = r
      BY <1>2, <1>5, <1>7, <3>1 DEF Tracks
    <3>2. CASE q # r
      <4>1. /\ q \in DOMAIN wanted <=> q \in DOMAIN loc
            /\ q \in DOMAIN wanted => HasIn(copy, copy.location[q][1], copy.location[q][2], wanted[q])
        BY <1>2, <1>5, <1>7, <3>2 DEF Tracks
      <4>. QED
        BY <1>2, <1>7, <1>10, <4>1
    <3>. QED
      BY <3>1, <3>2
  <2>. QED
    BY <1>8, <2>1, <2>2, <2>3 DEF Tracks
<1>13. FitsImported(z, copy', imported', wanted)
  <2>1. SUFFICES ASSUME NEW k \in 1 .. Len(z), Sets(z[k]), Under(z, 0, k)
                 PROVE  /\ HasIn(copy', imported, z[k].place, wanted[z[k].rev])
                        /\ \A q \in DOMAIN loc : loc[q] # <<imported, z[k].place>>
    BY <1>8 DEF FitsImported
  <2>2. FitsImported(z, copy, imported, wanted)
    BY <1>1, <1>2, <1>3, <1>4, FitsTail
  <2>3. wanted[z[k].rev] \in Texts
    BY <1>2, <1>5, <2>1, MembersOf DEF Tracks
  <2>4. /\ HasIn(copy, imported, z[k].place, wanted[z[k].rev])
        /\ \A q \in DOMAIN copy.location : copy.location[q] # <<imported, z[k].place>>
    BY <2>1, <2>2 DEF FitsImported
  <2>. QED
    BY <1>5, <1>7, <1>9, <2>3, <2>4
<1>. QED
  BY <1>2, <1>4, <1>11, <1>12, <1>13

\* A text of the copy is hidden, and stays in its group.
LEMMA ApplyHideStep ==
    ASSUME DInv, ApplyHide, ~ ReplaceAnywhere
    PROVE  DInv'
<1>1. PICK r : r = Head(diff).rev
  OBVIOUS
<1>2. /\ session = "completed" /\ diff # <<>> /\ Head(diff).kind = "Hide" /\ Done
      /\ session' = session /\ imported' = imported
      /\ copy' = [copy EXCEPT !.location = Drop(@, r)]
  BY <1>1 DEF ApplyHide, Next1
<1>3. Removes(Head(diff))
  BY <1>2 DEF Removes
<1>4. CopyIs(copy)
  BY DEF DInv
<1>5. /\ copy' = [groups |-> copy.groups, emptying |-> copy.emptying,
                  location |-> Drop(copy.location, r)]
      /\ Shelf(copy.groups, copy.emptying)
  BY <1>2, <1>4 DEF CopyIs
<1>6. \A i, j : \A t \in Texts :
        HasIn(copy, i, j, t) /\ <<i, j>> # copy.location[r]
            => Has(copy.groups, copy.emptying, i, j, t)
  BY DEF HasIn
<1>. QED
  BY <1>1, <1>2, <1>3, <1>5, <1>6, RemovedThere

\* The text that the copy deletes is where its record says.
LEMMA DeleteSucceeds ==
    ASSUME DInv, session = "completed", diff # <<>>, Head(diff).kind = "Delete"
    PROVE  LET r == Head(diff).rev
               x == Copy!Emptied(copy.location[r])
           IN  /\ r \in DOMAIN copy.location /\ ~ x.fails
               /\ Shelf(x.groups, x.emptying) /\ DOMAIN x.groups \subseteq DOMAIN copy.groups
               /\ \A i, j : \A t \in Texts :
                    HasIn(copy, i, j, t) /\ <<i, j>> # copy.location[r]
                        => Has(x.groups, x.emptying, i, j, t)
<1>1. PICK h, r : h = Head(diff) /\ r = h.rev
  OBVIOUS
<1>2. /\ diff \in Seq(Records) /\ CopyIs(copy) /\ Tracks(diff \o queue, copy, wanted) /\ queue = <<>>
  BY DEF DInv, Streams
<1>3. r \in DOMAIN copy.location
  <2>1. diff \o queue = diff
    BY <1>2
  <2>2. Removes(h)
    BY <1>1 DEF Removes
  <2>3. r \in RemovedIn(diff)
    BY <1>1, <1>2, <2>2, TailKeeps
  <2>. QED
    BY <1>2, <2>1, <2>3 DEF Tracks
<1>4. PICK i, j : copy.location[r] = <<i, j>> /\ \E t \in Texts : HasIn(copy, i, j, t)
  BY <1>2, <1>3 DEF CopyIs
<1>5. PICK t \in Texts : Has(copy.groups, copy.emptying, i, j, t)
  BY <1>4 DEF HasIn
<1>6. PICK x : x = EmptiedIn(copy.groups, copy.emptying, <<i, j>>)
  OBVIOUS
<1>7. /\ ~ x.fails /\ Shelf(x.groups, x.emptying) /\ DOMAIN x.groups \subseteq DOMAIN copy.groups
      /\ \A a, b : \A u \in Texts :
            Has(x.groups, x.emptying, a, b, u)
                <=> Has(copy.groups, copy.emptying, a, b, u) /\ <<a, b>> # <<i, j>>
  <2>1. Shelf(copy.groups, copy.emptying)
    BY <1>2 DEF CopyIs
  <2>. QED
    BY <1>5, <1>6, <2>1, EmptiedKeeps
<1>8. Copy!Emptied(copy.location[r]) = x
  BY <1>4, <1>6, EmptiedThere
<1>. QED
  BY <1>1, <1>3, <1>4, <1>7, <1>8 DEF HasIn

\* A text of the copy is deleted.
LEMMA ApplyDeleteStep ==
    ASSUME DInv, ApplyDelete, ~ ReplaceAnywhere
    PROVE  DInv'
<1>1. PICK r, x : r = Head(diff).rev /\ x = Copy!Emptied(copy.location[r])
  OBVIOUS
<1>2. /\ session = "completed" /\ diff # <<>> /\ Head(diff).kind = "Delete" /\ Done
      /\ imported' = imported
      /\ IF r \in DOMAIN copy.location /\ ~ x.fails
           THEN /\ copy' = [groups |-> x.groups, emptying |-> x.emptying,
                            location |-> Drop(copy.location, r)]
                /\ UNCHANGED session
           ELSE session' = "failed" /\ UNCHANGED copy
  BY <1>1 DEF ApplyDelete, Next1
<1>3. /\ r \in DOMAIN copy.location /\ ~ x.fails
      /\ Shelf(x.groups, x.emptying) /\ DOMAIN x.groups \subseteq DOMAIN copy.groups
      /\ \A i, j : \A t \in Texts :
            HasIn(copy, i, j, t) /\ <<i, j>> # copy.location[r]
                => Has(x.groups, x.emptying, i, j, t)
  BY <1>1, <1>2, DeleteSucceeds
<1>4. Removes(Head(diff))
  BY <1>2 DEF Removes
<1>5. PICK g, e : g = x.groups /\ e = x.emptying
  OBVIOUS
<1>6. /\ Shelf(g, e) /\ DOMAIN g \subseteq DOMAIN copy.groups /\ session' = session
      /\ \A i, j : \A t \in Texts :
            HasIn(copy, i, j, t) /\ <<i, j>> # copy.location[r] => Has(g, e, i, j, t)
      /\ copy' = [groups |-> g, emptying |-> e, location |-> Drop(copy.location, r)]
  BY <1>2, <1>3, <1>5
<1>. QED
  BY <1>1, <1>2, <1>4, <1>6, RemovedThere

\* The group that is being emptied is written at the end.
LEMMA ApplyEndStep ==
    ASSUME DInv, ApplyEnd, ~ ReplaceAnywhere
    PROVE  DInv'
<1>1. PICK h, z, g : h = Head(diff) /\ z = Tail(diff) /\ g = Stored(copy.groups, copy.emptying)
  OBVIOUS
<1>2. /\ session = "completed" /\ diff # <<>> /\ h.kind = "End" /\ Done
      /\ session' = session /\ imported' = imported
      /\ copy' = [copy EXCEPT !.groups = Stored(@, copy.emptying), !.emptying = NoGroup]
  BY <1>1 DEF ApplyEnd, Next1
<1>3. /\ z \in Seq(Records) /\ h = diff[1]
      /\ Tracks(diff, copy, wanted) /\ Fits(diff, copy, imported, wanted) /\ CopyIs(copy)
      /\ \A q \in DOMAIN wanted : wanted[q] \in Texts
      /\ SetIn(diff) = SetIn(z) \cup (IF Sets(h) THEN {h.rev} ELSE {})
      /\ RemovedIn(diff) = RemovedIn(z) \cup (IF Removes(h) THEN {h.rev} ELSE {})
      /\ /\ CopyIs(copy') /\ Tracks(z, copy', wanted)
         /\ FitsImported(z, copy', imported', wanted)
         /\ z = <<>> => copy'.emptying = NoGroup
         => DInv'
  BY <1>1, <1>2, ApplyFacts
<1>4. diff \in Seq(Records)
  BY DEF DInv, Streams
<1>5. ~ Sets(h) /\ ~ Removes(h) /\ h.kind # "Group"
  BY <1>2 DEF Sets, Removes
<1>6. SetIn(diff) = SetIn(z) /\ RemovedIn(diff) = RemovedIn(z)
  BY <1>3, <1>5
<1>7. /\ copy' = [groups |-> g, emptying |-> NoGroup, location |-> copy.location]
      /\ copy'.groups = g /\ copy'.emptying = NoGroup /\ copy'.location = copy.location
  BY <1>1, <1>2, <1>3 DEF CopyIs
<1>8. /\ Shelf(g, NoGroup) /\ DOMAIN g = DOMAIN copy.groups
      /\ \A i, j : \A t \in Texts : HasIn(copy', i, j, t) <=> HasIn(copy, i, j, t)
  <2>1. Shelf(copy.groups, copy.emptying)
    BY <1>3 DEF CopyIs
  <2>2. /\ Shelf(g, NoGroup) /\ DOMAIN g = DOMAIN copy.groups
        /\ \A i, j : \A t \in Content :
                Has(g, NoGroup, i, j, t) <=> Has(copy.groups, copy.emptying, i, j, t)
    BY <1>1, <2>1, StoreEmptying
  <2>. QED
    BY <1>7, <2>2 DEF HasIn, Content
<1>9. CopyIs(copy')
  BY <1>3, <1>7, <1>8 DEF CopyIs
<1>10. Tracks(z, copy', wanted)
  BY <1>3, <1>6, <1>7, <1>8 DEF Tracks
<1>11. FitsImported(z, copy', imported', wanted)
  <2>1. SUFFICES ASSUME NEW k \in 1 .. Len(z), Sets(z[k]), Under(z, 0, k)
                 PROVE  /\ HasIn(copy', imported, z[k].place, wanted[z[k].rev])
                        /\ \A q \in DOMAIN copy.location : copy.location[q] # <<imported, z[k].place>>
    BY <1>2, <1>7 DEF FitsImported
  <2>2. FitsImported(z, copy, imported, wanted)
    BY <1>1, <1>2, <1>3, <1>4, <1>5, FitsTail
  <2>3. wanted[z[k].rev] \in Texts
    BY <1>3, <1>6, <2>1, MembersOf DEF Tracks
  <2>. QED
    BY <1>8, <2>1, <2>2, <2>3 DEF FitsImported
<1>. QED
  BY <1>3, <1>7, <1>9, <1>10, <1>11

------------------------------------------------------------------------------
(* The results. *)

\* The copy starts with the groups of the dump.
LEMMA DiffInitStep == DiffInit => DInv
<1>. SUFFICES ASSUME DiffInit
              PROVE  DInv
  OBVIOUS
<1>1. IInv
  BY InitStep DEF DiffInit
<1>2. /\ queue = <<>> /\ diff = <<>> /\ adding = NoGroup /\ session = "open"
      /\ DOMAIN wanted = {} /\ DOMAIN groups = {} /\ DOMAIN location = {}
      /\ copy = [groups |-> groups, emptying |-> NoGroup, location |-> location]
      /\ groups = [id \in DOMAIN groups |-> groups[id]]
      /\ location = [r \in DOMAIN location |-> location[r]]
  BY DEF DiffInit, Init
<1>3. diff \o queue = <<>> /\ Len(<<>>) = 0 /\ SetIn(<<>>) = {} /\ RemovedIn(<<>>) = {}
      /\ <<>> \in Seq(Records)
  BY <1>2 DEF SetIn, RemovedIn
<1>4. CopyIs(copy)
  <2>1. Shelf(groups, NoGroup)
    BY <1>2 DEF Shelf, IsOpen
  <2>2. DOMAIN groups \subseteq 1 .. 0 /\ 0 \in Nat
    BY <1>2
  <2>. QED
    BY <1>2, <2>1, <2>2 DEF CopyIs
<1>5. Streams
  BY <1>2, <1>3 DEF Streams
<1>6. Ordered(<<>>) /\ Fits(<<>>, copy, imported, wanted) /\ Waits(<<>>, adding.texts, wanted)
  BY <1>3 DEF Ordered, Fits, FitsImported, FitsGroups, Apart, Waits
<1>7. Tracks(<<>>, copy, wanted)
  BY <1>2, <1>3 DEF Tracks
<1>. QED
  BY <1>1, <1>2, <1>3, <1>4, <1>5, <1>6, <1>7 DEF DInv

\* Every step of the update and of the copy keeps the invariant.
LEMMA DiffNextKeeps ==
    ASSUME DInv, [DiffNext]_diffVars, ~ ReplaceAnywhere
    PROVE  DInv'
<1>1. /\ IInv /\ Streams /\ Tracks(diff \o queue, copy, wanted)
      /\ DOMAIN wanted = DOMAIN location /\ DOMAIN location \subseteq Revisions
  BY DEF DInv, IInv, Placed
<1>2. ASSUME NEW r \in Revisions, NEW t \in Texts, WriteNewRevision(r, t)
      PROVE  DInv'
  <2>1. IInv'
    <3>1. WriteNew(r, t)
      BY <1>2 DEF WriteNewRevision
    <3>. QED
      BY <1>1, <3>1, WriteStep
  <2>2. r \notin SetIn(diff \o queue)
    BY <1>1, <1>2 DEF WriteNewRevision, WriteNew, Tracks
  <2>3. /\ session = "open" /\ session' = session
        /\ groups' = Added(t, groups).groups /\ adding' = Added(t, groups).adding
        /\ wanted' = Extend(wanted, r, t) /\ fresh' = fresh \cup {r}
        /\ ProcessText(r, Added(t, groups).loc) /\ UNCHANGED copyVars
    BY <1>2 DEF WriteNewRevision, WriteNew
  <2>. QED
    BY <2>1, <2>2, <2>3, SetStep
<1>3. ASSUME NEW r \in Revisions, NEW t \in Texts, WriteReplaced(r, t)
      PROVE  DInv'
  <2>1. IInv'
    <3>1. ReplaceText(r, t)
      BY <1>3 DEF WriteReplaced
    <3>. QED
      BY <1>1, <3>1, ReplaceStep
  <2>2. PICK g : g = Emptied(location[r]).groups
    OBVIOUS
  <2>3. /\ session = "open" /\ r \notin fresh
        /\ session' = IF Emptied(location[r]).fails THEN "failed" ELSE session
        /\ groups' = Added(t, g).groups /\ adding' = Added(t, g).adding
        /\ wanted' = Extend(wanted, r, t) /\ fresh' = fresh \cup {r}
        /\ ProcessText(r, Added(t, g).loc) /\ UNCHANGED copyVars
    BY <1>3, <2>2 DEF WriteReplaced, ReplaceText
  <2>4. session' = session
    BY <2>1, <2>3 DEF IInv, Sessions
  <2>5. r \notin SetIn(diff \o queue)
    BY <1>1, <2>3 DEF Streams
  <2>. QED
    BY <2>1, <2>3, <2>4, <2>5, SetStep
<1>4. ASSUME NEW r \in Revisions, WriteDeleted(r)
      PROVE  DInv'
  <2>1. IInv'
    <3>1. DeleteRevision(r)
      BY <1>4 DEF WriteDeleted
    <3>. QED
      BY <1>1, <3>1, DeleteStep
  <2>2. /\ session = "open" /\ r \in DOMAIN wanted \ fresh
        /\ session' = IF Emptied(location[r]).fails THEN "failed" ELSE session
        /\ adding' = adding /\ wanted' = Drop(wanted, r) /\ fresh' = fresh
        /\ Process(Delete(r)) /\ UNCHANGED copyVars
    BY <1>1, <1>4 DEF WriteDeleted, DeleteRevision
  <2>3. session' = session
    BY <2>1, <2>2 DEF IInv, Sessions
  <2>. QED
    BY <2>1, <2>2, <2>3, RemoveStep
<1>5. ASSUME NEW r \in Revisions, WriteHidden(r)
      PROVE  DInv'
  <2>1. IInv'
    <3>1. HideText(r)
      BY <1>5 DEF WriteHidden
    <3>. QED
      BY <1>1, <3>1, HideStep
  <2>2. /\ session = "open" /\ session' = session /\ r \in DOMAIN wanted \ fresh
        /\ adding' = adding /\ wanted' = Drop(wanted, r) /\ fresh' = fresh
        /\ Process(Hide(r)) /\ UNCHANGED copyVars
    BY <1>1, <1>5 DEF WriteHidden, HideText
  <2>. QED
    BY <2>1, <2>2, RemoveStep
<1>6. CASE CompleteBoth
  <2>1. IInv'
    BY <1>1, <1>6, CompleteStep DEF CompleteBoth
  <2>. QED
    BY <1>6, <2>1, DiffCompleteStep
<1>7. CASE OpenBoth
  <2>1. IInv'
    BY <1>1, <1>7, OpenStep DEF OpenBoth
  <2>. QED
    BY <1>7, <2>1, DiffOpenStep
<1>8. CASE UNCHANGED diffVars
  <2>1. UNCHANGED vars /\ UNCHANGED <<queue, diff, copy, imported>>
    BY <1>8 DEF diffVars, copyVars
  <2>2. /\ session' = session /\ wanted' = wanted /\ adding' = adding /\ fresh' = fresh
        /\ queue' = queue /\ diff' = diff /\ copy' = copy /\ imported' = imported
    BY <2>1 DEF vars
  <2>3. IInv'
    BY <1>1, <2>1, NextKeeps
  <2>. QED
    BY <2>2, <2>3 DEF DInv, Streams
<1>9. CASE ApplyGroup
  BY <1>9, ApplyGroupStep
<1>10. CASE ApplySetText
  BY <1>10, ApplySetTextStep
<1>11. CASE ApplyHide
  BY <1>11, ApplyHideStep
<1>12. CASE ApplyDelete
  BY <1>12, ApplyDeleteStep
<1>13. CASE ApplyEnd
  BY <1>13, ApplyEndStep
<1>. QED
  BY <1>2, <1>3, <1>4, <1>5, <1>6, <1>7, <1>8, <1>9, <1>10, <1>11, <1>12, <1>13 DEF DiffNext

\* When no record is left, a reader of the copy finds the texts of the dump.
LEMMA CopyReads == DInv => CopyReadsTexts
<1>. SUFFICES ASSUME DInv, session = "completed", diff = <<>>
              PROVE  /\ DOMAIN copy.location = DOMAIN wanted
                     /\ \A r \in DOMAIN wanted : Copy!TextAt(copy.location[r]) = wanted[r]
  BY DEF CopyReadsTexts
<1>1. /\ CopyIs(copy) /\ Tracks(diff \o queue, copy, wanted) /\ queue = <<>>
      /\ copy.emptying = NoGroup
      /\ DOMAIN wanted \subseteq Revisions /\ \A r \in DOMAIN wanted : wanted[r] \in Texts
  BY DEF DInv, Streams, IInv, Placed
<1>2. diff \o queue = <<>> /\ SetIn(<<>>) = {} /\ RemovedIn(<<>>) = {}
  BY <1>1 DEF SetIn, RemovedIn
<1>3. \A r \in Revisions :
        /\ r \in DOMAIN wanted <=> r \in DOMAIN copy.location
        /\ r \in DOMAIN wanted => HasIn(copy, copy.location[r][1], copy.location[r][2], wanted[r])
  BY <1>1, <1>2 DEF Tracks
<1>4. DOMAIN copy.location = DOMAIN wanted
  BY <1>1, <1>3 DEF CopyIs
<1>5. ASSUME NEW r \in DOMAIN wanted
      PROVE  Copy!TextAt(copy.location[r]) = wanted[r]
  <2>1. PICK id, i, t : id = copy.location[r][1] /\ i = copy.location[r][2] /\ t = wanted[r]
    OBVIOUS
  <2>2. Has(copy.groups, NoGroup, id, i, t) /\ NoGroup.id = 0
    BY <1>1, <1>3, <2>1 DEF HasIn, NoGroup
  <2>3. id \in DOMAIN copy.groups /\ id \in Nat \ {0} /\ copy.groups[id] \in Seq(Content)
    BY <1>1, <2>2 DEF Has, CopyIs, Shelf
  <2>4. i \in 1 .. Len(copy.groups[id]) /\ copy.groups[id][i] = t
    BY <2>2, <2>3 DEF Has, In
  <2>5. Copy!LoadGroup(id).texts = Append(copy.groups[id], Empty)
    BY <2>3 DEF Copy!LoadGroup
  <2>6. i \in DOMAIN Append(copy.groups[id], Empty) /\ Append(copy.groups[id], Empty)[i] = t
    BY <2>3, <2>4
  <2>7. Copy!NoGroup.id # id
    BY <2>3 DEF Copy!NoGroup
  <2>8. NoGroup.id # id
    BY <2>2, <2>3
  <2>. QED
    BY <2>1, <2>5, <2>6, <2>7, <2>8 DEF Copy!TextAt
<1>. QED
  BY <1>4, <1>5

\* The records that are not applied yet, and those that still wait for their
\* group, make the copy what the dump is.
THEOREM DiffInvariance ==
    ASSUME ~ ReplaceAnywhere
    PROVE  DiffSpec => []DInv
<1>1. DiffInit => DInv
  BY DiffInitStep
<1>2. DInv /\ [DiffNext]_diffVars => DInv'
  BY DiffNextKeeps
<1>. QED
  BY <1>1, <1>2, PTL DEF DiffSpec

\* After a diff dump is applied, each revision has the same text in the copy as
\* in the dump.
THEOREM CopiesReadTexts ==
    ASSUME ~ ReplaceAnywhere
    PROVE  DiffSpec => []CopyReadsTexts
BY DiffInvariance, CopyReads, PTL

\* No deletion fails, neither in the dump nor in the copy, and the dump goes on
\* as it does without a copy.
THEOREM DiffsKeepTexts ==
    ASSUME ~ ReplaceAnywhere
    PROVE  DiffSpec => [](TypeOK /\ TextsReadable /\ TextsOwnedOnce /\ NeverFails)
<1>1. DInv => TypeOK /\ TextsReadable /\ TextsOwnedOnce /\ NeverFails
  BY InvImplies DEF DInv
<1>. QED
  BY <1>1, DiffInvariance, PTL

\* Writing and applying diff dumps does nothing to the dump that it could not
\* do without them.
THEOREM DumpGoesOn ==
    ASSUME ~ ReplaceAnywhere
    PROVE  DiffSpec => Spec
<1>1. DiffInit => Init
  BY DEF DiffInit
<1>2. DInv /\ [DiffNext]_diffVars => [Next]_vars
  <2>. SUFFICES ASSUME DInv, [DiffNext]_diffVars
                PROVE  [Next]_vars
    OBVIOUS
  <2>1. ASSUME NEW r \in Revisions, NEW t \in Texts, WriteNewRevision(r, t) \/ WriteReplaced(r, t)
        PROVE  Next
    BY <2>1 DEF WriteNewRevision, WriteReplaced, Next
  <2>2. ASSUME NEW r \in Revisions, WriteDeleted(r) \/ WriteHidden(r)
        PROVE  Next
    BY <2>2 DEF WriteDeleted, WriteHidden, Next
  <2>3. CASE CompleteBoth \/ OpenBoth
    BY <2>3 DEF CompleteBoth, OpenBoth, Next
  <2>4. CASE ApplyGroup \/ ApplySetText \/ ApplyHide \/ ApplyEnd
    BY <2>4 DEF ApplyGroup, ApplySetText, ApplyHide, ApplyEnd, Done, vars
  <2>5. CASE ApplyDelete
    <3>1. session' = session
      BY <2>5, DeleteSucceeds DEF ApplyDelete, Next1
    <3>. QED
      BY <2>5, <3>1 DEF ApplyDelete, Done, vars
  <2>6. CASE UNCHANGED diffVars
    BY <2>6 DEF diffVars
  <2>. QED
    BY <2>1, <2>2, <2>3, <2>4, <2>5, <2>6 DEF DiffNext
<1>. QED
  BY <1>1, <1>2, DiffInvariance, PTL DEF DiffSpec, Spec

==============================================================================
