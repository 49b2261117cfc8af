------------------------- MODULE RevisionFieldsProofs -------------------------
(***************************************************************************)
(* Proofs about RevisionFields, for any contents, models and hashes and    *)
(* any number of ids: a revision reads back as the wiki sent it, the diff  *)
(* dump gives the copy the same fields, and nothing fails without a cause. *)
(***************************************************************************)
EXTENDS RevisionFields, SequenceTheorems, TLAPS, WellFoundedInduction

\* The revision that is written for c, with the length of its text, and its
\* fields on disk.
Rev(c, id) == [Received(c) EXCEPT !.comment = Normalized(@), !.flags = Flagged(@, id)]
Fields(c, id, size) == Written([Rev(c, id) EXCEPT !.size = size], id, c.sha1)

\* What is read back of them.
Back(c, id, size, table) ==
    [flags |-> Flagged(ContentFlags(c), id), user |-> c.user,
     comment |-> Normalized(Received(c).comment),
     sha1 |-> IF c.sha1 = Hidden THEN <<>> ELSE HashBack(c.sha1),
     model |-> IF id = 0 THEN Wikitext ELSE table[id],
     size |-> IF withText \/ c.sha1 = Hidden THEN 0 ELSE size]

\* What a change makes of the fields d, see ApplyChange.
Given(change, d) == IF "ModelFormat" \in change.parts THEN change.id ELSE LoadedId(d)
Words(change, d) == IF "Text" \in change.parts THEN change.text ELSE LoadedText(d)
Final(patched, id) == [patched EXCEPT !.flags = IF id = 0 THEN Flagged(@, 0) ELSE @]
Misread(change, r) == "User" \in change.parts /\ r.user.kind \notin change.rev.flags
Textless(change, r, text) ==
    withText /\ "TextDeleted" \notin r.flags /\ "Text" \notin change.parts /\ text = Hidden
Result(change, d, old, got, r) ==
    [disk |-> IF Same(old, r) THEN d ELSE Written(r, got.id, Words(change, d)),
     isNew |-> got.isNew,
     fails |-> IF Misread(change, r) \/ Textless(change, r, Words(change, d)) THEN 1 ELSE 0]
Outcome(change, d, table) ==
    LET old == ReadBack(d, table)
        patched == Patched(old, change)
        got == IdKept(Given(change, d), patched.flags, table, patched.model)
    IN  Result(change, d, old, got, Final(patched, got.id))

------------------------------------------------------------------------------
(* The invariant. *)

\* Ids are given out in turn, and after the last one comes 0.
TableIs(table) ==
    /\ table = [i \in DOMAIN table |-> table[i]]
    /\ DOMAIN table \subseteq 0 .. IdLimit - 1
    /\ \A i \in DOMAIN table : table[i] \in Models
    /\ 0 \in DOMAIN table => IdLimit - 1 \in DOMAIN table

\* The dump has the fields of what the wiki said last, and the id of the first
\* model for which there was one.
DiskIs(id, size) ==
    /\ sent \in Contents /\ disk = Fields(sent, id, size)
    /\ IF id = 0 THEN kept = Absent /\ (sent.model = Wikitext \/ TableFull)
       ELSE id \in DOMAIN formats /\ kept = formats[id]
    /\ sent.sha1 # Hidden => size = sent.size \/ resized

\* So has d, which may have another length if that changed alone.
HoldsSame(d, id, size) ==
    \E other \in Sizes :
        d = Fields(sent, id, other) /\ (other = size \/ resized \/ sent.sha1 = Hidden)

\* A record that is not applied yet makes the copy what the dump is.
Turns(b, id, size) ==
    \/ b = <<>> /\ HoldsSame(copyDisk, id, size)
    \/ b = <<NewRecord(disk)>> /\ copyDisk = Absent
    \/ \E change :
        /\ b = <<change>> /\ change.kind = "change"
        /\ \E c \in Contents, i \in Nat, s \in Sizes : copyDisk = Fields(c, i, s)
        /\ Outcome(change, copyDisk, formats).fails = 0
        /\ ~ Outcome(change, copyDisk, formats).isNew
        /\ HoldsSame(Outcome(change, copyDisk, formats).disk, id, size)

\* Before it comes the id of a model, if it is new.
Announces(a) ==
    \/ a = <<>> /\ formats = copyFormats
    \/ \E id \in Nat, model \in Models :
        a = <<ModelRecord(id, model)>> /\ formats = Added(copyFormats, id, model)
Carries(b) ==
    IF writesDiff THEN \E a : Announces(a) /\ records = a \o b ELSE records = <<>>

FieldsInv ==
    /\ TableIs(formats) /\ TableIs(copyFormats)
    /\ \/ disk = Absent /\ sent = Absent /\ kept = Absent /\ copyDisk = Absent /\ Carries(<<>>)
       \/ \E id \in Nat, size \in Sizes : \E b :
            DiskIs(id, size) /\ Carries(b) /\ (writesDiff => Turns(b, id, size))

IInv == TypeOK /\ FailsForCause /\ (failed = "no" => FieldsInv)

------------------------------------------------------------------------------
(* Sequences of fields. *)

NameSet == {"Flags", "User", "Comment", "ModelFormatId", "Sha1", "Text", "TextLength"}
Names(s) == [i \in DOMAIN s |-> s[i].name]
Member(s, x) == \E i \in DOMAIN s : s[i] = x

\* A field has a name.
LEMMA FieldIs == \A f \in FieldSet : f.name \in NameSet /\ f = Field(f.name, f.value)
BY DEF FieldSet, Field, NameSet

\* The parts of a sequence of fields.
LEMMA JoinIs ==
    ASSUME NEW s \in Seq(FieldSet), NEW t \in Seq(FieldSet)
    PROVE  /\ s \o t \in Seq(FieldSet)
           /\ Len(s \o t) = Len(s) + Len(t) /\ Len(s) \in Nat /\ Len(t) \in Nat
           /\ \A i \in 1 .. Len(s) : (s \o t)[i] = s[i]
           /\ \A i \in 1 .. Len(t) : (s \o t)[Len(s) + i] = t[i]
OBVIOUS

\* Who is in two sequences, one behind the other.
LEMMA MemberJoin ==
    ASSUME NEW s \in Seq(FieldSet), NEW t \in Seq(FieldSet), NEW x
    PROVE  Member(s \o t, x) <=> Member(s, x) \/ Member(t, x)
<1>1. PICK z : z = s \o t
  OBVIOUS
<1>2. /\ z \in Seq(FieldSet) /\ Len(z) = Len(s) + Len(t) /\ Len(s) \in Nat /\ Len(t) \in Nat
      /\ \A i \in 1 .. Len(s) : z[i] = s[i]
      /\ \A i \in 1 .. Len(t) : z[Len(s) + i] = t[i]
  BY <1>1, JoinIs
<1>3. DOMAIN z = 1 .. Len(z) /\ DOMAIN s = 1 .. Len(s) /\ DOMAIN t = 1 .. Len(t)
  BY <1>2
<1>4. ASSUME NEW i \in 1 .. Len(z), z[i] = x
      PROVE  Member(s, x) \/ Member(t, x)
  <2>1. CASE i <= Len(s)
    BY <1>2, <1>3, <1>4, <2>1 DEF Member
  <2>2. CASE i > Len(s)
    <3>1. i - Len(s) \in 1 .. Len(t) /\ i = Len(s) + (i - Len(s))
      BY <1>2, <2>2
    <3>. QED
      BY <1>2, <1>3, <1>4, <3>1 DEF Member
  <2>. QED
    BY <1>2, <2>1, <2>2
<1>5. ASSUME NEW i \in 1 .. Len(s) PROVE i \in 1 .. Len(z)
  BY <1>2
<1>6. ASSUME NEW i \in 1 .. Len(t) PROVE Len(s) + i \in 1 .. Len(z)
  BY <1>2
<1>7. Member(s, x) \/ Member(t, x) => Member(z, x)
  BY <1>2, <1>3, <1>5, <1>6 DEF Member
<1>. QED
  BY <1>1, <1>3, <1>4, <1>7 DEF Member

\* Their names.
LEMMA NamesJoin ==
    ASSUME NEW s \in Seq(FieldSet), NEW t \in Seq(FieldSet)
    PROVE  Names(s \o t) = Names(s) \o Names(t)
<1>1. PICK z : z = s \o t
  OBVIOUS
<1>2. /\ z \in Seq(FieldSet) /\ Len(z) = Len(s) + Len(t) /\ Len(s) \in Nat /\ Len(t) \in Nat
      /\ \A i \in 1 .. Len(s) : z[i] = s[i]
      /\ \A i \in 1 .. Len(t) : z[Len(s) + i] = t[i]
  BY <1>1, JoinIs
<1>3. DOMAIN z = 1 .. Len(z) /\ DOMAIN s = 1 .. Len(s) /\ DOMAIN t = 1 .. Len(t)
  BY <1>2
<1>4. PICK n, a, b : n = Names(z) /\ a = Names(s) /\ b = Names(t)
  OBVIOUS
<1>5. /\ n = [i \in 1 .. Len(z) |-> z[i].name] /\ a = [i \in 1 .. Len(s) |-> s[i].name]
      /\ b = [i \in 1 .. Len(t) |-> t[i].name]
  BY <1>3, <1>4 DEF Names
<1>6. n \in Seq(NameSet) /\ a \in Seq(NameSet) /\ b \in Seq(NameSet)
  <2>1. \A i \in 1 .. Len(z) : z[i].name \in NameSet
    BY <1>2, FieldIs
  <2>2. \A i \in 1 .. Len(s) : s[i].name \in NameSet
    BY <1>2, FieldIs
  <2>3. \A i \in 1 .. Len(t) : t[i].name \in NameSet
    BY <1>2, FieldIs
  <2>. QED
    BY <1>2, <1>5, <2>1, <2>2, <2>3
<1>7. Len(a) = Len(s) /\ Len(b) = Len(t) /\ Len(n) = Len(a) + Len(b)
  BY <1>2, <1>5
<1>8. PICK m : m = a \o b
  OBVIOUS
<1>9. /\ m \in Seq(NameSet) /\ Len(m) = Len(a) + Len(b)
      /\ \A i \in 1 .. Len(a) : m[i] = a[i]
      /\ \A i \in 1 .. Len(b) : m[Len(a) + i] = b[i]
  BY <1>6, <1>8
<1>10. ASSUME NEW i \in 1 .. Len(n) PROVE n[i] = m[i]
  <2>1. CASE i <= Len(a)
    BY <1>2, <1>5, <1>7, <1>9, <2>1
  <2>2. CASE i > Len(a)
    <3>1. i - Len(a) \in 1 .. Len(b) /\ i = Len(a) + (i - Len(a))
      BY <1>2, <1>7, <2>2
    <3>2. PICK j \in 1 .. Len(b) : i = Len(a) + j
      BY <3>1
    <3>3. m[Len(a) + j] = b[j] /\ z[Len(s) + j] = t[j]
      BY <1>2, <1>7, <1>9, <3>2
    <3>4. b[j] = t[j].name /\ n[i] = z[i].name
      BY <1>2, <1>5, <1>7, <3>2
    <3>. QED
      BY <1>7, <3>2, <3>3, <3>4
  <2>. QED
    BY <1>7, <2>1, <2>2
<1>11. n = m
  BY <1>6, <1>7, <1>9, <1>10
<1>. QED
  BY <1>1, <1>4, <1>8, <1>11

\* No field, one, and two.
LEMMA ShortIs ==
    /\ <<>> \in Seq(FieldSet) /\ Names(<<>>) = <<>>
    /\ \A x : ~ Member(<<>>, x)
    /\ \A f \in FieldSet :
        /\ <<f>> \in Seq(FieldSet) /\ Names(<<f>>) = <<f.name>>
        /\ \A x : Member(<<f>>, x) <=> x = f
    /\ \A f, g \in FieldSet :
        /\ <<f, g>> \in Seq(FieldSet) /\ Names(<<f, g>>) = <<f.name, g.name>>
        /\ \A x : Member(<<f, g>>, x) <=> x = f \/ x = g
<1>1. /\ <<>> \in Seq(FieldSet) /\ Names(<<>>) = <<>>
      /\ \A x : ~ Member(<<>>, x)
  BY DEF Names, Member
<1>2. ASSUME NEW f \in FieldSet
      PROVE  /\ <<f>> \in Seq(FieldSet) /\ Names(<<f>>) = <<f.name>>
             /\ \A x : Member(<<f>>, x) <=> x = f
  BY DEF Names, Member
<1>3. ASSUME NEW f \in FieldSet, NEW g \in FieldSet
      PROVE  /\ <<f, g>> \in Seq(FieldSet) /\ Names(<<f, g>>) = <<f.name, g.name>>
             /\ \A x : Member(<<f, g>>, x) <=> x = f \/ x = g
  <2>1. DOMAIN <<f, g>> = {1, 2}
    OBVIOUS
  <2>2. \A x : Member(<<f, g>>, x) <=> x = f \/ x = g
    BY <2>1 DEF Member
  <2>3. Names(<<f, g>>) = <<f.name, g.name>>
    BY DEF Names
  <2>. QED
    BY <2>2, <2>3
<1>. QED
  BY <1>1, <1>2, <1>3

\* The value of a field, of which there is no other with its name.
LEMMA ValueIs ==
    ASSUME NEW s \in Seq(FieldSet), NEW f \in FieldSet, NEW default, Member(s, f),
           \A x : Member(s, x) /\ x.name = f.name => x = f
    PROVE  ValueOf(s, f.name, default) = f.value
<1>1. PICK i \in DOMAIN s : s[i] = f
  BY DEF Member
<1>2. PICK j : j = CHOOSE k \in DOMAIN s : s[k].name = f.name
  OBVIOUS
<1>3. j \in DOMAIN s /\ s[j].name = f.name
  BY <1>1, <1>2
<1>4. s[j] = f
  BY <1>3 DEF Member
<1>. QED
  BY <1>1, <1>2, <1>4 DEF ValueOf

\* The value of a field that is not there.
LEMMA NoValueIs ==
    ASSUME NEW s \in Seq(FieldSet), NEW name, NEW default,
           \A x : Member(s, x) => x.name # name
    PROVE  ValueOf(s, name, default) = default
BY DEF ValueOf, Member

------------------------------------------------------------------------------
(* What is written and read. *)

\* The revision that is written.
LEMMA RevIs ==
    ASSUME NEW c \in Contents, NEW id
    PROVE  Rev(c, id) =
             [flags |-> Flagged(ContentFlags(c), id), user |-> c.user,
              comment |-> Normalized(Received(c).comment),
              sha1 |-> IF c.sha1 = Hidden THEN <<>> ELSE c.sha1,
              model |-> c.model, size |-> c.size]
<1>1. PICK r : r = Received(c)
  OBVIOUS
<1>2. /\ r = [flags |-> r.flags, user |-> r.user, comment |-> r.comment, sha1 |-> r.sha1,
               model |-> r.model, size |-> r.size]
      /\ r.flags = ContentFlags(c) /\ r.user = c.user /\ r.model = c.model
      /\ r.size = c.size /\ r.sha1 = IF c.sha1 = Hidden THEN <<>> ELSE c.sha1
  BY <1>1 DEF Received
<1>3. Rev(c, id) = [r EXCEPT !.comment = Normalized(r.comment), !.flags = Flagged(r.flags, id)]
  BY <1>1 DEF Rev
<1>. QED
  BY <1>1, <1>2, <1>3

\* The flags tell which fields are not there.
LEMMA FlagsTell ==
    ASSUME NEW c \in Contents, NEW id \in Nat
    PROVE  LET flags == Flagged(ContentFlags(c), id)
           IN  /\ "ContributorDeleted" \in flags <=> c.user = Hidden
               /\ "CommentDeleted" \in flags <=> c.comment = Hidden
               /\ "TextDeleted" \in flags <=> c.sha1 = Hidden
               /\ "WikitextModelFormat" \in flags <=> id = 0
               /\ c.user # Hidden => c.user.kind \in flags
               /\ flags \in Values /\ flags \ {"WikitextModelFormat"} = ContentFlags(c)
<1>1. c \in Content
  BY FieldAssumption
<1>2. c.user \in Users \cup {Hidden}
  BY <1>1 DEF Content
<1>3. c.user # Hidden => c.user.kind \in {"NamedUser", "IpV4User", "IpV6User"}
  BY <1>2, FieldAssumption
<1>4. PICK k : k = IF c.user = Hidden THEN "ContributorDeleted" ELSE c.user.kind
  OBVIOUS
<1>5. PICK flags : flags = Flagged(ContentFlags(c), id)
  OBVIOUS
<1>6. /\ k \in {"ContributorDeleted", "NamedUser", "IpV4User", "IpV6User"}
      /\ k = "ContributorDeleted" <=> c.user = Hidden
      /\ c.user # Hidden => k = c.user.kind
  BY <1>3, <1>4
<1>7. flags = {k} \cup (IF c.comment = Hidden THEN {"CommentDeleted"} ELSE {})
                 \cup (IF c.sha1 = Hidden THEN {"TextDeleted"} ELSE {})
                 \cup (IF id = 0 THEN {"WikitextModelFormat"} ELSE {})
  BY <1>4, <1>5 DEF Flagged, ContentFlags
<1>8. flags \subseteq {"ContributorDeleted", "CommentDeleted", "TextDeleted",
                       "WikitextModelFormat", "NamedUser", "IpV4User", "IpV6User"}
  BY <1>6, <1>7
<1>9. flags \in Values
  BY <1>8 DEF Values
<1>10. flags \ {"WikitextModelFormat"} = ContentFlags(c)
  BY <1>4, <1>6, <1>7 DEF ContentFlags
<1>. QED
  BY <1>5, <1>6, <1>7, <1>9, <1>10

\* What is written has the type of fields.
LEMMA ValuesAre ==
    ASSUME NEW c \in Contents, NEW size \in Sizes
    PROVE  /\ c.user # Hidden => Field("User", c.user) \in FieldSet
           /\ Field("Comment", Normalized(Received(c).comment)) \in FieldSet
           /\ \A id \in Nat : Field("ModelFormatId", id) \in FieldSet
           /\ c.sha1 # Hidden => /\ Field("Sha1", Raw[c.sha1]) \in FieldSet
                                 /\ Field("Text", c.sha1) \in FieldSet
           /\ Field("TextLength", size) \in FieldSet
<1>1. c \in Content
  BY FieldAssumption
<1>2. /\ c.user \in Users \cup {Hidden} /\ c.comment \in Comments \cup {Hidden}
      /\ c.sha1 \in Hashes \cup {<<>>, Hidden}
  BY <1>1 DEF Content
<1>3. PICK m : m = Received(c).comment
  OBVIOUS
<1>4. m \in [len : Nat, tail : {"", "FFFD", "FFFD.."}]
  <2>1. CASE c.comment = Hidden
    BY <1>3, <2>1 DEF Received, Unset
  <2>2. CASE c.comment # Hidden
    <3>1. m \in Comments
      BY <1>2, <1>3, <2>2 DEF Received
    <3>. QED
      BY <3>1, FieldAssumption
  <2>. QED
    BY <2>1, <2>2
<1>5. m.tail = "FFFD" => Erased(m.tail) = 3
  BY DEF Erased
<1>6. m.tail = "FFFD.." => Erased(m.tail) = 1
  BY DEF Erased
<1>7. m.tail = "" => Erased(m.tail) = 0
  BY DEF Erased
<1>8. m.len - Erased(m.tail) \in Int
  <2>1. m.len \in Nat /\ Erased(m.tail) \in {0, 1, 3}
    BY <1>4, <1>5, <1>6, <1>7
  <2>. QED
    BY <2>1
<1>9. Normalized(m) \in [len : Int, tail : {"", "FFFD", "FFFD.."}]
  <2>1. m \in [len : Int, tail : {"", "FFFD", "FFFD.."}]
    <3>1. Nat \subseteq Int
      OBVIOUS
    <3>2. [len : Nat, tail : {"", "FFFD", "FFFD.."}] \subseteq
            [len : Int, tail : {"", "FFFD", "FFFD.."}]
      BY <3>1
    <3>. QED
      BY <1>4, <3>2
  <2>2. [len |-> m.len - Erased(m.tail), tail |-> ""] \in [len : Int, tail : {"", "FFFD", "FFFD.."}]
    BY <1>8
  <2>. QED
    BY <2>1, <2>2 DEF Normalized
<1>10. c.sha1 # Hidden => c.sha1 \in DOMAIN Raw
  BY <1>2 DEF Raw
<1>11. /\ Normalized(m) \in Values
       /\ c.user # Hidden => c.user \in Values
       /\ c.sha1 # Hidden => Raw[c.sha1] \in Values /\ c.sha1 \in Values
       /\ size \in Values /\ \A id \in Nat : id \in Values
  <2>1. Normalized(m) \in Values
    BY <1>9 DEF Values
  <2>2. c.user # Hidden => c.user \in Values
    BY <1>2 DEF Values
  <2>3. c.sha1 # Hidden => Raw[c.sha1] \in Values /\ c.sha1 \in Values
    BY <1>2, <1>10 DEF Values
  <2>4. size \in Values /\ \A id \in Nat : id \in Values
    BY DEF Values
  <2>. QED
    BY <2>1, <2>2, <2>3, <2>4
<1>12. \A name \in NameSet, value \in Values : Field(name, value) \in FieldSet
  BY DEF Field, FieldSet, NameSet
<1>13. {"User", "Comment", "ModelFormatId", "Sha1", "Text", "TextLength"} \subseteq NameSet
  BY DEF NameSet
<1>. QED
  BY <1>3, <1>11, <1>12, <1>13

\* The first of several sequences begins them.
LEMMA FirstIs ==
    ASSUME NEW s \in Seq(FieldSet), NEW t \in Seq(FieldSet), s # <<>>
    PROVE  s \o t # <<>> /\ (s \o t)[1] = s[1]
<1>1. Len(s) \in Nat \ {0}
  OBVIOUS
<1>2. PICK z : z = s \o t
  OBVIOUS
<1>3. Len(z) # 0 /\ z[1] = s[1]
  BY <1>1, <1>2, JoinIs
<1>. QED
  BY <1>2, <1>3

\* What a revision's fields are.
LEMMA FieldsAre ==
    ASSUME NEW c \in Contents, NEW id \in Nat, NEW size \in Sizes
    PROVE  LET f == Fields(c, id, size)
               flags == Flagged(ContentFlags(c), id)
               text == IF withText THEN Field("Text", c.sha1) ELSE Field("TextLength", size)
           IN  /\ f \in Seq(FieldSet) /\ f # <<>>
               /\ f[1] = Field("Flags", flags)
               /\ Names(f) = Expected(flags)
               /\ \A x : Member(f, x) <=>
                    \/ x = Field("Flags", flags)
                    \/ c.user # Hidden /\ x = Field("User", c.user)
                    \/ c.comment # Hidden /\ x = Field("Comment", Normalized(Received(c).comment))
                    \/ id # 0 /\ x = Field("ModelFormatId", id)
                    \/ c.sha1 # Hidden /\ (x = Field("Sha1", Raw[c.sha1]) \/ x = text)
<1>1. PICK flags : flags = Flagged(ContentFlags(c), id)
  OBVIOUS
<1>2. PICK comment : comment = Normalized(Received(c).comment)
  OBVIOUS
<1>3. /\ "ContributorDeleted" \in flags <=> c.user = Hidden
      /\ "CommentDeleted" \in flags <=> c.comment = Hidden
      /\ "TextDeleted" \in flags <=> c.sha1 = Hidden
      /\ "WikitextModelFormat" \in flags <=> id = 0
      /\ flags \in Values
  BY <1>1, FlagsTell
<1>4. PICK g : g = IF withText THEN Field("Text", c.sha1) ELSE Field("TextLength", size)
  OBVIOUS
<1>5. PICK tail : tail = IF c.sha1 = Hidden THEN <<>> ELSE <<Field("Sha1", Raw[c.sha1]), g>>
  OBVIOUS
<1>6. PICK u, m, i :
        /\ u = Opt("ContributorDeleted" \notin flags, Field("User", c.user))
        /\ m = Opt("CommentDeleted" \notin flags, Field("Comment", comment))
        /\ i = Opt(HasId(id), Field("ModelFormatId", id))
  OBVIOUS
<1>7. PICK h : h = <<Field("Flags", flags)>>
  OBVIOUS
<1>8. Fields(c, id, size) = (((h \o u) \o m) \o i) \o tail
  <2>1. PICK r : r = [Rev(c, id) EXCEPT !.size = size]
    OBVIOUS
  <2>2. /\ r.flags = flags /\ r.user = c.user /\ r.comment = comment /\ r.size = size
        /\ r.sha1 = IF c.sha1 = Hidden THEN <<>> ELSE c.sha1
    BY <1>1, <1>2, <2>1, RevIs
  <2>4. tail = IF "TextDeleted" \in r.flags THEN <<>>
               ELSE <<Field("Sha1", Raw[r.sha1]),
                      IF withText THEN Field("Text", c.sha1) ELSE Field("TextLength", r.size)>>
    BY <1>3, <1>4, <1>5, <2>2
  <2>5. Fields(c, id, size) = Written(r, id, c.sha1)
    BY <2>1 DEF Fields
  <2>. QED
    BY <1>6, <1>7, <2>2, <2>4, <2>5 DEF Written
<1>9. /\ h \in Seq(FieldSet) /\ h # <<>> /\ h[1] = Field("Flags", flags)
      /\ \A x : Member(h, x) <=> x = Field("Flags", flags)
      /\ Names(h) = <<"Flags">>
  <2>1. Field("Flags", flags) \in FieldSet /\ Field("Flags", flags).name = "Flags"
    BY <1>3 DEF Field, FieldSet
  <2>. QED
    BY <1>7, <2>1, ShortIs
<1>10. /\ u \in Seq(FieldSet) /\ Names(u) = Opt("ContributorDeleted" \notin flags, "User")
       /\ \A x : Member(u, x) <=> c.user # Hidden /\ x = Field("User", c.user)
  <2>1. PICK f : f = Field("User", c.user)
    OBVIOUS
  <2>2. c.user # Hidden => f \in FieldSet /\ f.name = "User"
    BY <2>1, ValuesAre DEF Field
  <2>3. CASE c.user # Hidden
    BY <1>3, <1>6, <2>1, <2>2, <2>3, ShortIs DEF Opt, HasId
  <2>4. CASE ~ (c.user # Hidden)
    BY <1>3, <1>6, <2>4, ShortIs DEF Opt, HasId
  <2>. QED
    BY <2>3, <2>4
<1>11. /\ m \in Seq(FieldSet) /\ Names(m) = Opt("CommentDeleted" \notin flags, "Comment")
       /\ \A x : Member(m, x) <=> c.comment # Hidden /\ x = Field("Comment", comment)
  <2>1. PICK f : f = Field("Comment", comment)
    OBVIOUS
  <2>2. c.comment # Hidden => f \in FieldSet /\ f.name = "Comment"
    BY <1>2, <2>1, ValuesAre DEF Field
  <2>3. CASE c.comment # Hidden
    BY <1>3, <1>6, <2>1, <2>2, <2>3, ShortIs DEF Opt, HasId
  <2>4. CASE ~ (c.comment # Hidden)
    BY <1>3, <1>6, <2>4, ShortIs DEF Opt, HasId
  <2>. QED
    BY <2>3, <2>4
<1>12. /\ i \in Seq(FieldSet) /\ Names(i) = Opt("WikitextModelFormat" \notin flags, "ModelFormatId")
       /\ \A x : Member(i, x) <=> id # 0 /\ x = Field("ModelFormatId", id)
  <2>1. PICK f : f = Field("ModelFormatId", id)
    OBVIOUS
  <2>2. id # 0 => f \in FieldSet /\ f.name = "ModelFormatId"
    BY <2>1, ValuesAre DEF Field
  <2>3. CASE id # 0
    BY <1>3, <1>6, <2>1, <2>2, <2>3, ShortIs DEF Opt, HasId
  <2>4. CASE ~ (id # 0)
    BY <1>3, <1>6, <2>4, ShortIs DEF Opt, HasId
  <2>. QED
    BY <2>3, <2>4
<1>13. /\ tail \in Seq(FieldSet)
       /\ Names(tail) = IF "TextDeleted" \in flags THEN <<>>
                        ELSE <<"Sha1", IF withText THEN "Text" ELSE "TextLength">>
       /\ \A x : Member(tail, x) <=>
            c.sha1 # Hidden /\ (x = Field("Sha1", Raw[c.sha1]) \/ x = g)
  <2>1. PICK f : f = Field("Sha1", Raw[c.sha1])
    OBVIOUS
  <2>2. c.sha1 # Hidden => f \in FieldSet /\ g \in FieldSet
    BY <1>4, <2>1, ValuesAre
  <2>3. f.name = "Sha1" /\ g.name = IF withText THEN "Text" ELSE "TextLength"
    BY <1>4, <2>1 DEF Field
  <2>4. CASE c.sha1 = Hidden
    BY <1>3, <1>5, <2>4, ShortIs
  <2>5. CASE c.sha1 # Hidden
    BY <1>3, <1>5, <2>1, <2>2, <2>3, <2>5, ShortIs
  <2>. QED
    BY <2>4, <2>5
<1>14. PICK a, b, d :
         a = h \o u /\ b = a \o m /\ d = b \o i
  OBVIOUS
<1>15. PICK f : f = d \o tail
  OBVIOUS
<1>16. /\ a \in Seq(FieldSet) /\ b \in Seq(FieldSet) /\ d \in Seq(FieldSet)
       /\ f \in Seq(FieldSet)
  BY <1>9, <1>10, <1>11, <1>12, <1>13, <1>14, <1>15
<1>17. f # <<>> /\ f[1] = Field("Flags", flags)
  <2>1. a # <<>> /\ a[1] = h[1]
    BY <1>9, <1>10, <1>14, FirstIs
  <2>2. b # <<>> /\ b[1] = h[1]
    BY <1>11, <1>14, <1>16, <2>1, FirstIs
  <2>3. d # <<>> /\ d[1] = h[1]
    BY <1>12, <1>14, <1>16, <2>2, FirstIs
  <2>4. f # <<>> /\ f[1] = h[1]
    BY <1>13, <1>15, <1>16, <2>3, FirstIs
  <2>. QED
    BY <1>9, <2>4
<1>18. Names(f) = Expected(flags)
  <2>1. Names(a) = Names(h) \o Names(u)
    BY <1>9, <1>10, <1>14, NamesJoin
  <2>2. Names(b) = Names(a) \o Names(m)
    BY <1>11, <1>14, <1>16, NamesJoin
  <2>3. Names(d) = Names(b) \o Names(i)
    BY <1>12, <1>14, <1>16, NamesJoin
  <2>4. Names(f) = Names(d) \o Names(tail)
    BY <1>13, <1>15, <1>16, NamesJoin
  <2>. QED
    BY <1>9, <1>10, <1>11, <1>12, <1>13, <2>1, <2>2, <2>3, <2>4 DEF Expected
<1>19. ASSUME NEW x
       PROVE  Member(f, x) <=> \/ Member(h, x) \/ Member(u, x) \/ Member(m, x)
                               \/ Member(i, x) \/ Member(tail, x)
  <2>1. Member(a, x) <=> Member(h, x) \/ Member(u, x)
    BY <1>9, <1>10, <1>14, MemberJoin
  <2>2. Member(b, x) <=> Member(a, x) \/ Member(m, x)
    BY <1>11, <1>14, <1>16, MemberJoin
  <2>3. Member(d, x) <=> Member(b, x) \/ Member(i, x)
    BY <1>12, <1>14, <1>16, MemberJoin
  <2>4. Member(f, x) <=> Member(d, x) \/ Member(tail, x)
    BY <1>13, <1>15, <1>16, MemberJoin
  <2>. QED
    BY <2>1, <2>2, <2>3, <2>4
<1>20. f = Fields(c, id, size)
  BY <1>8, <1>14, <1>15
<1>. QED
  BY <1>1, <1>2, <1>4, <1>9, <1>10, <1>11, <1>12, <1>13, <1>16, <1>17, <1>18, <1>19, <1>20

\* What is read back of what was written.
LEMMA ReadsFields ==
    ASSUME NEW c \in Contents, NEW id \in Nat, NEW size \in Sizes
    PROVE  /\ Readable(Fields(c, id, size)) /\ Fields(c, id, size) # Absent
           /\ LoadedId(Fields(c, id, size)) = id
           /\ LoadedText(Fields(c, id, size)) =
                IF withText /\ c.sha1 # Hidden THEN c.sha1 ELSE Hidden
           /\ \A table : ReadBack(Fields(c, id, size), table) = Back(c, id, size, table)
<1>1. PICK f : f = Fields(c, id, size)
  OBVIOUS
<1>2. PICK flags : flags = Flagged(ContentFlags(c), id)
  OBVIOUS
<1>3. PICK comment : comment = Normalized(Received(c).comment)
  OBVIOUS
<1>4. PICK vFlags, vUser, vComment, vId, vSha1, vText, vSize :
        /\ vFlags = Field("Flags", flags) /\ vUser = Field("User", c.user)
        /\ vComment = Field("Comment", comment) /\ vId = Field("ModelFormatId", id)
        /\ vSha1 = Field("Sha1", Raw[c.sha1]) /\ vText = Field("Text", c.sha1)
        /\ vSize = Field("TextLength", size)
  OBVIOUS
<1>5. /\ f \in Seq(FieldSet) /\ f # <<>> /\ f[1] = vFlags /\ Names(f) = Expected(flags)
      /\ \A x : Member(f, x) <=>
            \/ x = vFlags
            \/ c.user # Hidden /\ x = vUser
            \/ c.comment # Hidden /\ x = vComment
            \/ id # 0 /\ x = vId
            \/ c.sha1 # Hidden /\ (x = vSha1 \/ x = IF withText THEN vText ELSE vSize)
  BY <1>1, <1>2, <1>3, <1>4, FieldsAre
<1>6. /\ vFlags.name = "Flags" /\ vUser.name = "User" /\ vComment.name = "Comment"
      /\ vId.name = "ModelFormatId" /\ vSha1.name = "Sha1" /\ vText.name = "Text"
      /\ vSize.name = "TextLength"
      /\ vFlags.value = flags /\ vUser.value = c.user /\ vComment.value = comment
      /\ vId.value = id /\ vSha1.value = Raw[c.sha1] /\ vText.value = c.sha1
      /\ vSize.value = size
  BY <1>4 DEF Field
<1>7. /\ c.user # Hidden => vUser \in FieldSet
      /\ vComment \in FieldSet /\ vId \in FieldSet
      /\ c.sha1 # Hidden => vSha1 \in FieldSet /\ vText \in FieldSet
      /\ vSize \in FieldSet
  BY <1>3, <1>4, ValuesAre
<1>8. f # Absent
  BY <1>5, FieldsAssumption
<1>9. Readable(f)
  <2>1. [i \in DOMAIN f |-> f[i].name] = Expected(f[1].value)
    BY <1>5, <1>6 DEF Names
  <2>2. ASSUME NEW i \in DOMAIN f, f[i].name = "User"
        PROVE  f[i].value.kind \in f[1].value
    <3>1. Member(f, f[i])
      BY DEF Member
    <3>2. c.user # Hidden /\ f[i] = vUser
      BY <1>5, <1>6, <2>2, <3>1
    <3>3. c.user.kind \in flags
      BY <1>2, <3>2, FlagsTell
    <3>. QED
      BY <1>5, <1>6, <3>2, <3>3
  <2>. QED
    BY <2>1, <2>2 DEF Readable
<1>10. ValueOf(f, "User", Hidden) = c.user
  <2>1. CASE c.user # Hidden
    <3>1. Member(f, vUser) /\ \A x : Member(f, x) /\ x.name = vUser.name => x = vUser
      BY <1>5, <1>6, <2>1
    <3>. QED
      BY <1>5, <1>6, <1>7, <2>1, <3>1, ValueIs
  <2>2. CASE c.user = Hidden
    <3>1. \A x : Member(f, x) => x.name # "User"
      BY <1>5, <1>6, <2>2
    <3>. QED
      BY <1>5, <2>2, <3>1, NoValueIs
  <2>. QED
    BY <2>1, <2>2
<1>11. ValueOf(f, "Comment", Unset) = comment
  <2>1. CASE c.comment # Hidden
    <3>1. Member(f, vComment) /\ \A x : Member(f, x) /\ x.name = vComment.name => x = vComment
      BY <1>5, <1>6, <2>1
    <3>. QED
      BY <1>5, <1>6, <1>7, <3>1, ValueIs
  <2>2. CASE c.comment = Hidden
    <3>1. \A x : Member(f, x) => x.name # "Comment"
      BY <1>5, <1>6, <2>2
    <3>2. comment = Unset
      <4>1. Received(c).comment = Unset
        BY <2>2 DEF Received
      <4>2. ~ IsCut(Unset)
        <5>1. CommentLimit \in Nat /\ Unset.len = 0
          BY FieldAssumption DEF Unset
        <5>. QED
          BY <5>1 DEF IsCut
      <4>. QED
        BY <1>3, <4>1, <4>2 DEF Normalized
    <3>. QED
      BY <1>5, <3>1, <3>2, NoValueIs
  <2>. QED
    BY <2>1, <2>2
<1>12. ValueOf(f, "ModelFormatId", 0) = id
  <2>1. CASE id # 0
    <3>1. Member(f, vId) /\ \A x : Member(f, x) /\ x.name = vId.name => x = vId
      BY <1>5, <1>6, <2>1
    <3>. QED
      BY <1>5, <1>6, <1>7, <3>1, ValueIs
  <2>2. CASE id = 0
    <3>1. \A x : Member(f, x) => x.name # "ModelFormatId"
      BY <1>5, <1>6, <2>2
    <3>. QED
      BY <1>5, <2>2, <3>1, NoValueIs
  <2>. QED
    BY <2>1, <2>2
<1>13. ValueOf(f, "Sha1", Hidden) = IF c.sha1 = Hidden THEN Hidden ELSE Raw[c.sha1]
  <2>1. CASE c.sha1 # Hidden
    <3>1. Member(f, vSha1) /\ \A x : Member(f, x) /\ x.name = vSha1.name => x = vSha1
      BY <1>5, <1>6, <2>1
    <3>. QED
      BY <1>5, <1>6, <1>7, <2>1, <3>1, ValueIs
  <2>2. CASE c.sha1 = Hidden
    <3>1. \A x : Member(f, x) => x.name # "Sha1"
      BY <1>5, <1>6, <2>2
    <3>. QED
      BY <1>5, <2>2, <3>1, NoValueIs
  <2>. QED
    BY <2>1, <2>2
<1>14. ValueOf(f, "Text", Hidden) = IF withText /\ c.sha1 # Hidden THEN c.sha1 ELSE Hidden
  <2>1. CASE withText /\ c.sha1 # Hidden
    <3>1. Member(f, vText) /\ \A x : Member(f, x) /\ x.name = vText.name => x = vText
      BY <1>5, <1>6, <2>1
    <3>. QED
      BY <1>5, <1>6, <1>7, <2>1, <3>1, ValueIs
  <2>2. CASE ~ (withText /\ c.sha1 # Hidden)
    <3>1. \A x : Member(f, x) => x.name # "Text"
      BY <1>5, <1>6, <2>2
    <3>. QED
      BY <1>5, <2>2, <3>1, NoValueIs
  <2>. QED
    BY <2>1, <2>2
<1>15. ValueOf(f, "TextLength", 0) = IF withText \/ c.sha1 = Hidden THEN 0 ELSE size
  <2>1. CASE ~ withText /\ c.sha1 # Hidden
    <3>1. Member(f, vSize) /\ \A x : Member(f, x) /\ x.name = vSize.name => x = vSize
      BY <1>5, <1>6, <2>1
    <3>. QED
      BY <1>5, <1>6, <1>7, <2>1, <3>1, ValueIs
  <2>2. CASE withText \/ c.sha1 = Hidden
    <3>1. \A x : Member(f, x) => x.name # "TextLength"
      BY <1>5, <1>6, <2>2
    <3>. QED
      BY <1>5, <2>2, <3>1, NoValueIs
  <2>. QED
    BY <2>1, <2>2
<1>16. c.sha1 # Hidden => Raw[c.sha1] # Hidden /\ Sha1Of[Raw[c.sha1]] = HashBack(c.sha1)
  <2>. SUFFICES ASSUME c.sha1 # Hidden
                PROVE  Raw[c.sha1] # Hidden /\ Sha1Of[Raw[c.sha1]] = HashBack(c.sha1)
    OBVIOUS
  <2>1. PICK hash : hash = c.sha1
    OBVIOUS
  <2>2. hash \in Hashes \cup {<<>>}
    BY <2>1, FieldAssumption DEF Content
  <2>3. hash \in DOMAIN Raw /\ Raw[hash] = ToRaw(hash)
    BY <2>2 DEF Raw
  <2>4. Sha1Of[Raw[hash]] = FromRaw(ToRaw(hash))
    BY <2>3 DEF Sha1Of
  <2>5. FromRaw(ToRaw(hash)) = HashBack(hash)
    <3>1. CASE hash = <<>>
      BY <3>1, ConversionAssumption DEF HashBack
    <3>2. CASE hash # <<>>
      BY <2>2, <3>2, ConversionAssumption DEF HashBack
    <3>. QED
      BY <3>1, <3>2
  <2>6. ToRaw(hash) # Hidden
    BY <2>3, ConversionAssumption
  <2>. QED
    BY <2>1, <2>3, <2>4, <2>5, <2>6
<1>17. LoadedId(f) = id
  BY <1>8, <1>12 DEF LoadedId
<1>18. LoadedText(f) = IF withText /\ c.sha1 # Hidden THEN c.sha1 ELSE Hidden
  BY <1>8, <1>14 DEF LoadedText
<1>19. ASSUME NEW table PROVE ReadBack(f, table) = Back(c, id, size, table)
  BY <1>2, <1>3, <1>5, <1>6, <1>10, <1>11, <1>12, <1>13, <1>15, <1>16 DEF ReadBack, Back
<1>. QED
  BY <1>1, <1>8, <1>9, <1>17, <1>18, <1>19

\* What is written for a revision that has the fields of c.
LEMMA WritesFields ==
    ASSUME NEW c \in Contents, NEW id \in Nat, NEW size \in Sizes, NEW r, NEW text,
           r.flags = Flagged(ContentFlags(c), id),
           c.user # Hidden => r.user = c.user,
           c.comment # Hidden => r.comment = Normalized(Received(c).comment),
           c.sha1 # Hidden => r.sha1 = c.sha1 /\ IF withText THEN text = c.sha1 ELSE r.size = size
    PROVE  Written(r, id, text) = Fields(c, id, size)
<1>1. PICK q : q = [Rev(c, id) EXCEPT !.size = size]
  OBVIOUS
<1>2. /\ q.flags = r.flags /\ q.user = c.user /\ q.comment = Normalized(Received(c).comment)
      /\ q.size = size /\ q.sha1 = IF c.sha1 = Hidden THEN <<>> ELSE c.sha1
  BY <1>1, RevIs
<1>3. /\ "ContributorDeleted" \in r.flags <=> c.user = Hidden
      /\ "CommentDeleted" \in r.flags <=> c.comment = Hidden
      /\ "TextDeleted" \in r.flags <=> c.sha1 = Hidden
  BY FlagsTell
<1>4. Opt("ContributorDeleted" \notin q.flags, Field("User", q.user)) =
        Opt("ContributorDeleted" \notin r.flags, Field("User", r.user))
  BY <1>2, <1>3 DEF Opt
<1>5. Opt("CommentDeleted" \notin q.flags, Field("Comment", q.comment)) =
        Opt("CommentDeleted" \notin r.flags, Field("Comment", r.comment))
  BY <1>2, <1>3 DEF Opt
<1>6. (IF "TextDeleted" \in q.flags THEN <<>>
       ELSE <<Field("Sha1", Raw[q.sha1]),
              IF withText THEN Field("Text", c.sha1) ELSE Field("TextLength", q.size)>>) =
      (IF "TextDeleted" \in r.flags THEN <<>>
       ELSE <<Field("Sha1", Raw[r.sha1]),
              IF withText THEN Field("Text", text) ELSE Field("TextLength", r.size)>>)
  BY <1>2, <1>3
<1>7. Written(q, id, c.sha1) = Written(r, id, text)
  BY <1>2, <1>4, <1>5, <1>6 DEF Written
<1>. QED
  BY <1>1, <1>7 DEF Fields

\* Two contents with the same fields.
LEMMA SameFields ==
    ASSUME NEW c \in Contents, NEW d \in Contents, NEW id \in Nat, NEW s \in Sizes, NEW t \in Sizes,
           ContentFlags(c) = ContentFlags(d), c.user = d.user, c.sha1 = d.sha1,
           Normalized(Received(c).comment) = Normalized(Received(d).comment),
           s = t \/ withText \/ c.sha1 = Hidden
    PROVE  Fields(c, id, s) = Fields(d, id, t)
<1>1. PICK q : q = [Rev(c, id) EXCEPT !.size = s]
  OBVIOUS
<1>2. /\ q.flags = Flagged(ContentFlags(d), id) /\ q.user = d.user
      /\ q.comment = Normalized(Received(d).comment)
      /\ q.size = s /\ q.sha1 = IF d.sha1 = Hidden THEN <<>> ELSE d.sha1
  BY <1>1, RevIs
<1>3. Written(q, id, c.sha1) = Fields(d, id, t)
  BY <1>2, WritesFields
<1>. QED
  BY <1>1, <1>3 DEF Fields

------------------------------------------------------------------------------
(* Ids of models. *)

\* A bounded set of numbers has a greatest one.
LEMMA GreatestExists ==
    ASSUME NEW n \in Nat, NEW S \in SUBSET (0 .. n), S # {}
    PROVE  Max(S) \in S /\ \A x \in S : x <= Max(S)
<1> DEFINE R == OpToRel(<, Nat)
           D == {n - x : x \in S}
<1>1. ASSUME NEW a \in Nat, NEW b \in Nat, a < b
      PROVE  <<a, b>> \in R
  <2>1. R = {ss \in Nat \X Nat : ss[1] < ss[2]}
    BY DEF OpToRel
  <2>. QED
    BY <1>1, <2>1
<1>2. D \subseteq Nat /\ D # {}
  <2>1. \A x \in S : n - x \in Nat
    OBVIOUS
  <2>. QED
    BY <2>1
<1>3. PICK d \in D : \A c \in D : ~ (<<c, d>> \in R)
  <2>. HIDE DEF R, D
  <2>1. IsWellFoundedOn(R, Nat)
    BY NatLessThanWellFounded DEF R
  <2>. QED
    BY <1>2, <2>1, WFMin
<1>. HIDE DEF R
<1>4. PICK x \in S : d = n - x
  OBVIOUS
<1>5. \A y \in S : y <= x
  <2>. SUFFICES ASSUME NEW y \in S, x < y PROVE FALSE
    OBVIOUS
  <2>1. n - y \in D /\ n - y < d /\ n - y \in Nat /\ d \in Nat
    BY <1>4
  <2>. QED
    BY <1>1, <1>3, <2>1
<1>. QED
  BY <1>5 DEF Max

\* One more than an id, in a byte.
LEMMA NextIs ==
    ASSUME NEW m \in 0 .. IdLimit - 1
    PROVE  (m + 1) % IdLimit = IF m = IdLimit - 1 THEN 0 ELSE m + 1
<1>1. IdLimit \in Nat \ {0, 1}
  BY FieldAssumption
<1>. QED
  BY <1>1

\* The next id.
LEMMA NewIds ==
    ASSUME NEW table, TableIs(table)
    PROVE  /\ NewId(table) \in 0 .. IdLimit - 1
           /\ NewId(table) # 0 => NewId(table) \notin DOMAIN table
           /\ NewId(table) = 0 => IdLimit - 1 \in DOMAIN table
<1>1. IdLimit \in Nat \ {0, 1}
  BY FieldAssumption
<1>2. CASE DOMAIN table = {}
  BY <1>1, <1>2 DEF NewId
<1>3. CASE DOMAIN table # {}
  <2>1. PICK n \in Nat : n = IdLimit - 1
    BY <1>1
  <2>2. DOMAIN table \in SUBSET (0 .. n)
    BY <2>1 DEF TableIs
  <2>3. Max(DOMAIN table) \in DOMAIN table /\ \A x \in DOMAIN table : x <= Max(DOMAIN table)
    BY <1>3, <2>2, GreatestExists
  <2>4. PICK m \in 0 .. IdLimit - 1 : m = Max(DOMAIN table)
    BY <2>1, <2>2, <2>3
  <2>5. NewId(table) = IF m = IdLimit - 1 THEN 0 ELSE m + 1
    BY <1>3, <2>4, NextIs DEF NewId
  <2>6. m + 1 \notin DOMAIN table
    BY <2>3, <2>4
  <2>. QED
    BY <1>1, <2>3, <2>4, <2>5, <2>6
<1>. QED
  BY <1>2, <1>3

\* A new entry.
LEMMA AddedIs ==
    ASSUME NEW table, TableIs(table), NEW model \in Models, NEW id, id = NewId(table)
    PROVE  LET t == Added(table, id, model)
           IN  /\ TableIs(t) /\ id \in DOMAIN t
               /\ \A i \in DOMAIN table : i \in DOMAIN t /\ t[i] = table[i]
               /\ id # 0 => t[id] = model
<1>1. /\ id \in 0 .. IdLimit - 1
      /\ id # 0 => id \notin DOMAIN table
      /\ id = 0 => IdLimit - 1 \in DOMAIN table
  BY NewIds
<1>2. PICK t : t = Added(table, id, model)
  OBVIOUS
<1>3. t = [i \in DOMAIN table \cup {id} |-> IF i \in DOMAIN table THEN table[i] ELSE model]
  BY <1>2 DEF Added
<1>4. DOMAIN t = DOMAIN table \cup {id}
  BY <1>3
<1>5. \A i \in DOMAIN t : t[i] = IF i \in DOMAIN table THEN table[i] ELSE model
  BY <1>3
<1>6. t = [i \in DOMAIN t |-> t[i]]
  BY <1>3
<1>7. TableIs(t)
  BY <1>1, <1>4, <1>5, <1>6 DEF TableIs
<1>. QED
  BY <1>1, <1>2, <1>4, <1>5, <1>7

\* The id of a model.
LEMMA IdForIs ==
    ASSUME NEW table, TableIs(table), NEW model \in Models \cup {Wikitext}
    PROVE  LET got == IdFor(table, model)
           IN  /\ got.id \in Nat /\ got.isNew \in BOOLEAN
               /\ model = Wikitext => got.id = 0 /\ ~ got.isNew
               /\ got.isNew => got.id = NewId(table) /\ model \in Models
               /\ ~ got.isNew /\ got.id # 0 => got.id \in DOMAIN table /\ table[got.id] = model
               /\ got.id = 0 => model = Wikitext \/ IdLimit - 1 \in DOMAIN table
<1>1. CASE model = Wikitext
  BY <1>1 DEF IdFor
<1>2. CASE model # Wikitext /\ IdsOf(table, model) # {}
  <2>1. PICK i : i = CHOOSE j \in IdsOf(table, model) : TRUE
    OBVIOUS
  <2>2. i \in DOMAIN table /\ table[i] = model
    BY <1>2, <2>1 DEF IdsOf
  <2>3. IdFor(table, model) = [id |-> i, isNew |-> FALSE]
    BY <1>2, <2>1 DEF IdFor
  <2>4. i \in Nat
    BY <2>2 DEF TableIs
  <2>. QED
    BY <1>2, <2>2, <2>3, <2>4 DEF TableIs
<1>3. CASE model # Wikitext /\ IdsOf(table, model) = {}
  <2>1. IdFor(table, model) = [id |-> NewId(table), isNew |-> TRUE]
    BY <1>3 DEF IdFor
  <2>. QED
    BY <1>3, <2>1, NewIds
<1>. QED
  BY <1>1, <1>2, <1>3

------------------------------------------------------------------------------
(* What an update writes and records. *)

\* A hash that is read back as another one is that one.
LEMMA HashSame ==
    ASSUME NEW c \in Contents, NEW d \in Contents, c.sha1 # Hidden, d.sha1 # Hidden,
           HashBack(c.sha1) = d.sha1
    PROVE  c.sha1 = d.sha1
<1>1. c.sha1 \in Hashes \cup {<<>>} /\ d.sha1 \in Hashes \cup {<<>>}
  BY FieldAssumption DEF Content
<1>2. Zeros \notin Hashes
  BY ConversionAssumption
<1>. QED
  BY <1>1, <1>2 DEF HashBack

\* When what was read is taken for the same, it has the same fields.
LEMMA SameMeans ==
    ASSUME NEW c \in Contents, NEW d \in Contents, NEW i \in Nat, NEW id \in Nat, NEW s \in Sizes,
           NEW table, NEW user, NEW comment, NEW sha1, NEW model, NEW size,
           Same(Back(c, i, s, table),
                [flags |-> Flagged(ContentFlags(d), id), user |-> user, comment |-> comment,
                 sha1 |-> sha1, model |-> model, size |-> size]),
           d.user # Hidden => user = d.user,
           d.comment # Hidden => comment = Normalized(Received(d).comment),
           d.sha1 # Hidden => sha1 = d.sha1,
           i # 0 => id = i
    PROVE  /\ \A t \in Sizes : Fields(c, i, t) = Fields(d, id, t)
           /\ i = id /\ ContentFlags(c) = ContentFlags(d)
           /\ d.sha1 # Hidden => c.sha1 = d.sha1 /\ HashBack(c.sha1) = d.sha1
           /\ c.sha1 = Hidden <=> d.sha1 = Hidden
<1>1. PICK old, new :
        /\ old = Back(c, i, s, table)
        /\ new = [flags |-> Flagged(ContentFlags(d), id), user |-> user, comment |-> comment,
                  sha1 |-> sha1, model |-> model, size |-> size]
  OBVIOUS
<1>2. /\ old.flags = Flagged(ContentFlags(c), i) /\ old.user = c.user
      /\ old.comment = Normalized(Received(c).comment)
      /\ old.sha1 = IF c.sha1 = Hidden THEN <<>> ELSE HashBack(c.sha1)
  BY <1>1 DEF Back
<1>3. /\ new.flags = Flagged(ContentFlags(d), id) /\ new.user = user
      /\ new.comment = comment /\ new.sha1 = sha1
  BY <1>1
<1>4. old.flags = new.flags /\ old.user = new.user /\ old.comment = new.comment
      /\ old.sha1 = new.sha1
  <2>1. PICK a, b : a = [old EXCEPT !.size = 0] /\ b = [new EXCEPT !.size = 0] /\ a = b
    BY <1>1 DEF Same
  <2>2. a.flags = old.flags /\ a.user = old.user /\ a.comment = old.comment /\ a.sha1 = old.sha1
    BY <1>1, <2>1 DEF Back
  <2>3. b.flags = new.flags /\ b.user = new.user /\ b.comment = new.comment /\ b.sha1 = new.sha1
    BY <1>1, <2>1
  <2>. QED
    BY <2>1, <2>2, <2>3
<1>5. PICK F : F = Flagged(ContentFlags(c), i) /\ F = Flagged(ContentFlags(d), id)
  BY <1>2, <1>3, <1>4
<1>6. /\ "ContributorDeleted" \in F <=> c.user = Hidden
      /\ "CommentDeleted" \in F <=> c.comment = Hidden
      /\ "TextDeleted" \in F <=> c.sha1 = Hidden
      /\ "WikitextModelFormat" \in F <=> i = 0
      /\ F \ {"WikitextModelFormat"} = ContentFlags(c)
  BY <1>5, FlagsTell
<1>7. /\ "ContributorDeleted" \in F <=> d.user = Hidden
      /\ "CommentDeleted" \in F <=> d.comment = Hidden
      /\ "TextDeleted" \in F <=> d.sha1 = Hidden
      /\ "WikitextModelFormat" \in F <=> id = 0
      /\ F \ {"WikitextModelFormat"} = ContentFlags(d)
  BY <1>5, FlagsTell
<1>8. i = id /\ ContentFlags(c) = ContentFlags(d)
  BY <1>6, <1>7
<1>9. c.user = d.user
  BY <1>2, <1>3, <1>4, <1>6, <1>7
<1>10. Normalized(Received(c).comment) = Normalized(Received(d).comment)
  <2>1. CASE d.comment = Hidden
    BY <1>6, <1>7, <2>1 DEF Received
  <2>2. CASE d.comment # Hidden
    BY <1>2, <1>3, <1>4, <2>2
  <2>. QED
    BY <2>1, <2>2
<1>11. d.sha1 # Hidden => c.sha1 # Hidden /\ HashBack(c.sha1) = d.sha1 /\ c.sha1 = d.sha1
  BY <1>2, <1>3, <1>4, <1>6, <1>7, HashSame
<1>12. c.sha1 = d.sha1
  BY <1>6, <1>7, <1>11
<1>13. \A t \in Sizes : Fields(c, i, t) = Fields(d, id, t)
  BY <1>8, <1>9, <1>10, <1>12, SameFields
<1>. QED
  BY <1>6, <1>7, <1>8, <1>11, <1>13

\* The text that is written is the one that was sent.
LEMMA TextIs ==
    ASSUME NEW c \in Contents, NEW d \in Contents, NEW i \in Nat, NEW id \in Nat, NEW s \in Sizes,
           NEW table, d.sha1 # Hidden
    PROVE  TextOf(Back(c, i, s, table), LoadedText(Fields(c, i, s)), Rev(d, id), d) = d.sha1
<1>1. PICK old, r, loaded :
        /\ old = Back(c, i, s, table) /\ r = Rev(d, id)
        /\ loaded = LoadedText(Fields(c, i, s))
  OBVIOUS
<1>2. r.flags = Flagged(ContentFlags(d), id) /\ r.sha1 = d.sha1
  BY <1>1, RevIs
<1>3. "TextDeleted" \notin r.flags
  BY <1>2, FlagsTell
<1>4. loaded = IF withText /\ c.sha1 # Hidden THEN c.sha1 ELSE Hidden
  BY <1>1, ReadsFields
<1>5. old.sha1 = IF c.sha1 = Hidden THEN <<>> ELSE HashBack(c.sha1)
  BY <1>1 DEF Back
<1>6. TextOf(old, loaded, r, d) = IF loaded = Hidden \/ old.sha1 # r.sha1 THEN d.sha1 ELSE loaded
  BY <1>3 DEF TextOf
<1>7. loaded # Hidden /\ old.sha1 = r.sha1 => loaded = d.sha1
  BY <1>2, <1>4, <1>5, HashSame
<1>. QED
  BY <1>1, <1>6, <1>7

\* The first text of a revision.
LEMMA FirstTextIs ==
    ASSUME NEW d \in Contents, NEW id \in Nat, NEW old, d.sha1 # Hidden
    PROVE  TextOf(old, Hidden, Rev(d, id), d) = d.sha1
<1>1. PICK r : r = Rev(d, id)
  OBVIOUS
<1>2. r.flags = Flagged(ContentFlags(d), id)
  BY <1>1, RevIs
<1>3. "TextDeleted" \notin r.flags
  BY <1>2, FlagsTell
<1>. QED
  BY <1>1, <1>3 DEF TextOf

\* What the dump gets.
LEMMA DumpWritten ==
    ASSUME NEW d \in Contents, NEW id \in Nat, NEW text, d.sha1 # Hidden => text = d.sha1,
           d.size \in Sizes
    PROVE  Written(Rev(d, id), id, text) = Fields(d, id, d.size)
<1>1. PICK r : r = Rev(d, id)
  OBVIOUS
<1>2. /\ r.flags = Flagged(ContentFlags(d), id) /\ r.user = d.user
      /\ r.comment = Normalized(Received(d).comment) /\ r.size = d.size
      /\ r.sha1 = IF d.sha1 = Hidden THEN <<>> ELSE d.sha1
  BY <1>1, RevIs
<1>3. Written(r, id, text) = Fields(d, id, d.size)
  BY <1>2, WritesFields
<1>. QED
  BY <1>1, <1>3

\* The record of a change makes the fields that the copy had those that the
\* dump has, but for a length that is not recorded.
LEMMA ChangeWorks ==
    ASSUME NEW c \in Contents, NEW d \in Contents, NEW i \in Nat, NEW id \in Nat,
           NEW s \in Sizes, NEW t \in Sizes, NEW table, NEW table2,
           i # 0 => id = i /\ table2[i] = table[i],
           i = 0 /\ d.model = Wikitext => id = 0,
           NEW change,
           change = ChangeRecord(Back(c, i, s, table), Rev(d, id), id,
                        TextOf(Back(c, i, s, table), LoadedText(Fields(c, i, s)), Rev(d, id), d))
    PROVE  LET o == Outcome(change, Fields(c, i, t), table2)
           IN  /\ o.fails = 0 /\ ~ o.isNew
               /\ o.disk = Fields(d, id, IF "Text" \in change.parts THEN d.size ELSE t)
<1>1. PICK old, r, f :
        old = Back(c, i, s, table) /\ r = Rev(d, id) /\ f = Fields(c, i, t)
  OBVIOUS
<1>2. PICK F, G : F = Flagged(ContentFlags(c), i) /\ G = Flagged(ContentFlags(d), id)
  OBVIOUS
<1>3. /\ "ContributorDeleted" \in F <=> c.user = Hidden
      /\ "CommentDeleted" \in F <=> c.comment = Hidden
      /\ "TextDeleted" \in F <=> c.sha1 = Hidden
      /\ "WikitextModelFormat" \in F <=> i = 0
  BY <1>2, FlagsTell
<1>4. /\ "ContributorDeleted" \in G <=> d.user = Hidden
      /\ "CommentDeleted" \in G <=> d.comment = Hidden
      /\ "TextDeleted" \in G <=> d.sha1 = Hidden
      /\ "WikitextModelFormat" \in G <=> id = 0
      /\ d.user # Hidden => d.user.kind \in G
  BY <1>2, FlagsTell
<1>5. PICK comment : comment = Normalized(Received(d).comment)
  OBVIOUS
<1>6. /\ r.flags = G /\ r.user = d.user /\ r.comment = comment /\ r.model = d.model
      /\ r.size = d.size /\ r.sha1 = IF d.sha1 = Hidden THEN <<>> ELSE d.sha1
  BY <1>1, <1>2, <1>5, RevIs
<1>7. PICK copied : copied = Back(c, i, t, table2)
  OBVIOUS
<1>8. /\ old.flags = F /\ copied.flags = F /\ old.user = c.user /\ copied.user = c.user
      /\ old.comment = copied.comment /\ old.comment = Normalized(Received(c).comment)
      /\ old.sha1 = copied.sha1
      /\ old.sha1 = IF c.sha1 = Hidden THEN <<>> ELSE HashBack(c.sha1)
      /\ old.model = copied.model
      /\ i = 0 => old.model = Wikitext
      /\ copied.size = IF withText \/ c.sha1 = Hidden THEN 0 ELSE t
  BY <1>1, <1>2, <1>7 DEF Back
<1>9. ReadBack(f, table2) = copied /\ LoadedId(f) = i
      /\ LoadedText(f) = IF withText /\ c.sha1 # Hidden THEN c.sha1 ELSE Hidden
  BY <1>1, <1>7, ReadsFields
<1>10. PICK parts : parts = ChangedParts(old, r)
  OBVIOUS
<1>11. PICK text : text = TextOf(old, LoadedText(Fields(c, i, s)), r, d)
  OBVIOUS
<1>12. /\ change.parts = parts /\ change.rev = r /\ change.id = id /\ change.text = text
       /\ change.kind = "change"
  BY <1>1, <1>10, <1>11 DEF ChangeRecord
<1>13. d.sha1 # Hidden => text = d.sha1
  BY <1>1, <1>11, TextIs
<1>14. /\ "Flags" \notin parts => F = G
       /\ "User" \in parts => d.user # Hidden
       /\ d.user # Hidden /\ "User" \notin parts => c.user = d.user
       /\ d.comment # Hidden /\ "Comment" \notin parts => old.comment = comment
       /\ "Text" \in parts => d.sha1 # Hidden
       /\ "Text" \in parts => F # G \/ old.sha1 # r.sha1
       /\ d.sha1 # Hidden /\ "Text" \notin parts => c.sha1 # Hidden /\ old.sha1 = d.sha1
       /\ "ModelFormat" \in parts <=> old.model # d.model
  BY <1>3, <1>4, <1>6, <1>8, <1>10 DEF ChangedParts, ShownAgain
<1>15. PICK patched : patched = Patched(copied, change)
  OBVIOUS
<1>16. PICK user, note, sha1, size :
         /\ user = (IF "User" \in parts THEN d.user ELSE c.user)
         /\ note = (IF "Comment" \in parts THEN comment ELSE old.comment)
         /\ sha1 = (IF "Text" \in parts THEN r.sha1 ELSE old.sha1)
         /\ size = (IF "Text" \in parts /\ ~ withText THEN d.size ELSE copied.size)
  OBVIOUS
<1>17. patched = [flags |-> G, user |-> user, comment |-> note, sha1 |-> sha1,
                  model |-> copied.model, size |-> size]
  BY <1>6, <1>8, <1>12, <1>14, <1>15, <1>16 DEF Patched
<1>18. /\ d.user # Hidden => user = d.user
       /\ d.comment # Hidden => note = comment
       /\ d.sha1 # Hidden => sha1 = d.sha1
  BY <1>6, <1>14, <1>16
<1>19. PICK given, got :
         /\ given = Given(change, f)
         /\ got = IdKept(given, patched.flags, table2, patched.model)
  OBVIOUS
<1>20. got = [id |-> id, isNew |-> FALSE]
  <2>1. given = id
    <3>1. given = IF "ModelFormat" \in parts THEN id ELSE i
      BY <1>9, <1>12, <1>19 DEF Given
    <3>2. "ModelFormat" \notin parts /\ i = 0 => d.model = Wikitext
      BY <1>8, <1>14
    <3>. QED
      BY <3>1, <3>2
  <2>2. id = 0 => "WikitextModelFormat" \in patched.flags
    BY <1>4, <1>17
  <2>. QED
    BY <1>19, <2>1, <2>2 DEF IdKept
<1>21. PICK final : final = Final(patched, got.id)
  OBVIOUS
<1>22. final = patched
  <2>1. id = 0 => Flagged(G, 0) = G
    BY <1>4 DEF Flagged
  <2>. QED
    BY <1>17, <1>20, <1>21, <2>1 DEF Final
<1>23. PICK words : words = Words(change, f)
  OBVIOUS
<1>24. d.sha1 # Hidden /\ "Text" \notin parts => c.sha1 = d.sha1
  BY <1>8, <1>14, HashSame
<1>25. d.sha1 # Hidden /\ withText => words = d.sha1
  BY <1>9, <1>12, <1>13, <1>14, <1>23, <1>24 DEF Words
<1>26. ~ Misread(change, final)
  <2>1. "User" \in parts => final.user = d.user /\ d.user # Hidden
    BY <1>14, <1>16, <1>17, <1>22
  <2>. QED
    BY <1>4, <1>6, <1>12, <2>1 DEF Misread
<1>27. ~ Textless(change, final, words)
  BY <1>4, <1>17, <1>22, <1>25 DEF Textless
<1>28. d.size \in Sizes
  BY FieldAssumption DEF Content
<1>29. PICK length \in Sizes : length = IF "Text" \in change.parts THEN d.size ELSE t
  BY <1>28
<1>30. /\ Outcome(change, f, table2).fails = 0 /\ ~ Outcome(change, f, table2).isNew
      /\ Outcome(change, f, table2).disk =
           IF Same(copied, final) THEN f ELSE Written(final, id, words)
  <2>1. PICK o : o = Outcome(change, f, table2)
    OBVIOUS
  <2>2. o = Result(change, f, copied, got, final)
    BY <1>9, <1>15, <1>19, <1>21, <2>1 DEF Outcome
  <2>3. o = [disk |-> IF Same(copied, final) THEN f ELSE Written(final, got.id, words),
             isNew |-> got.isNew, fails |-> 0]
    BY <1>23, <1>26, <1>27, <2>2 DEF Result
  <2>. QED
    BY <1>20, <2>1, <2>3
<1>31. CASE Same(copied, final)
  <2>1. /\ Fields(c, i, t) = Fields(d, id, t) /\ i = id /\ ContentFlags(c) = ContentFlags(d)
        /\ d.sha1 # Hidden => c.sha1 = d.sha1 /\ HashBack(c.sha1) = d.sha1
        /\ c.sha1 = Hidden <=> d.sha1 = Hidden
    <3>1. Same(Back(c, i, t, table2),
               [flags |-> Flagged(ContentFlags(d), id), user |-> user, comment |-> note,
                sha1 |-> sha1, model |-> copied.model, size |-> size])
      BY <1>2, <1>7, <1>17, <1>22, <1>31
    <3>2. d.comment # Hidden => note = Normalized(Received(d).comment)
      BY <1>5, <1>18
    <3>. QED
      BY <1>18, <3>1, <3>2, SameMeans
  <2>2. F = G
    BY <1>2, <2>1
  <2>3. "Text" \notin parts
    BY <1>6, <1>8, <1>14, <2>1, <2>2
  <2>. QED
    BY <1>1, <1>12, <1>31, <1>30, <2>1, <2>3
<1>32. CASE ~ Same(copied, final)
  <2>1. /\ final.flags = Flagged(ContentFlags(d), id)
        /\ d.user # Hidden => final.user = d.user
        /\ d.comment # Hidden => final.comment = Normalized(Received(d).comment)
        /\ d.sha1 # Hidden => final.sha1 = d.sha1
    BY <1>2, <1>5, <1>17, <1>18, <1>22
  <2>2. d.sha1 # Hidden => IF withText THEN words = d.sha1 ELSE final.size = length
    BY <1>8, <1>12, <1>14, <1>16, <1>17, <1>22, <1>25, <1>29
  <2>3. Written(final, id, words) = Fields(d, id, length)
    BY <2>1, <2>2, WritesFields
  <2>. QED
    BY <1>1, <1>29, <1>32, <1>30, <2>3
<1>. QED
  BY <1>31, <1>32

\* When the record of a change holds the text.
LEMMA TextChanges ==
    ASSUME NEW c \in Contents, NEW d \in Contents, NEW i \in Nat, NEW id \in Nat, NEW s, NEW table
    PROVE  "Text" \in ChangedParts(Back(c, i, s, table), Rev(d, id)) <=>
             /\ d.sha1 # Hidden
             /\ c.sha1 = Hidden \/ HashBack(c.sha1) # d.sha1
<1>1. PICK old, r : old = Back(c, i, s, table) /\ r = Rev(d, id)
  OBVIOUS
<1>2. /\ old.flags = Flagged(ContentFlags(c), i)
      /\ old.sha1 = IF c.sha1 = Hidden THEN <<>> ELSE HashBack(c.sha1)
  BY <1>1 DEF Back
<1>3. /\ r.flags = Flagged(ContentFlags(d), id)
      /\ r.sha1 = IF d.sha1 = Hidden THEN <<>> ELSE d.sha1
  BY <1>1, RevIs
<1>4. /\ "TextDeleted" \in old.flags <=> c.sha1 = Hidden
      /\ "TextDeleted" \in r.flags <=> d.sha1 = Hidden
  BY <1>2, <1>3, FlagsTell
<1>5. "Text" \in ChangedParts(old, r) <=>
        /\ "TextDeleted" \notin r.flags
        /\ ShownAgain(old, r, "TextDeleted") \/ old.sha1 # r.sha1
  BY DEF ChangedParts
<1>. QED
  BY <1>1, <1>2, <1>3, <1>4, <1>5 DEF ShownAgain

------------------------------------------------------------------------------
(* The steps. *)

\* What AddRevision is going to write.
LEMMA ComingIs ==
    ASSUME TableIs(formats), LoadedId(disk) \in Nat, NEW c \in Contents
    PROVE  LET coming == Coming(c)
           IN  /\ coming.rev = Rev(c, coming.id) /\ coming.id \in Nat /\ coming.isNew \in BOOLEAN
               /\ LoadedId(disk) # 0 => coming.id = LoadedId(disk) /\ ~ coming.isNew
               /\ LoadedId(disk) = 0 /\ c.model = Wikitext => coming.id = 0 /\ ~ coming.isNew
               /\ coming.isNew => coming.id = NewId(formats) /\ c.model \in Models
               /\ LoadedId(disk) = 0 /\ ~ coming.isNew /\ coming.id # 0 =>
                    coming.id \in DOMAIN formats /\ formats[coming.id] = c.model
               /\ LoadedId(disk) = 0 /\ coming.id = 0 =>
                    c.model = Wikitext \/ IdLimit - 1 \in DOMAIN formats
<1>1. PICK r, got : r = Received(c) /\ got = IdKept(LoadedId(disk), r.flags, formats, c.model)
  OBVIOUS
<1>2. r.flags = ContentFlags(c)
  BY <1>1 DEF Received
<1>3. "WikitextModelFormat" \notin ContentFlags(c)
  BY FieldAssumption DEF ContentFlags, Content
<1>4. got = IF LoadedId(disk) # 0 THEN [id |-> LoadedId(disk), isNew |-> FALSE]
            ELSE IdFor(formats, c.model)
  BY <1>1, <1>2, <1>3 DEF IdKept
<1>5. c.model \in Models \cup {Wikitext}
  BY FieldAssumption DEF Content
<1>6. PICK found : found = IdFor(formats, c.model)
  OBVIOUS
<1>7. /\ found.id \in Nat /\ found.isNew \in BOOLEAN
      /\ c.model = Wikitext => found.id = 0 /\ ~ found.isNew
      /\ found.isNew => found.id = NewId(formats) /\ c.model \in Models
      /\ ~ found.isNew /\ found.id # 0 => found.id \in DOMAIN formats /\ formats[found.id] = c.model
      /\ found.id = 0 => c.model = Wikitext \/ IdLimit - 1 \in DOMAIN formats
  BY <1>5, <1>6, IdForIs
<1>8. PICK coming : coming = Coming(c)
  OBVIOUS
<1>9. coming.id = got.id /\ coming.isNew = got.isNew /\ coming.rev = Rev(c, got.id)
  BY <1>1, <1>8 DEF Coming, Rev
<1>10. CASE LoadedId(disk) # 0
  BY <1>4, <1>8, <1>9, <1>10
<1>11. CASE LoadedId(disk) = 0
  BY <1>4, <1>6, <1>7, <1>8, <1>9, <1>11
<1>. QED
  BY <1>10, <1>11

\* What is carried when nothing is.
LEMMA CarriesNothing ==
    ASSUME NEW b, b = <<>> \/ \E x : b = <<x>>, Carries(b), records = <<>>, writesDiff
    PROVE  b = <<>> /\ formats = copyFormats
<1>1. PICK a : Announces(a) /\ records = a \o b
  BY DEF Carries
<1>2. a = <<>> \/ \E x : a = <<x>>
  BY <1>1 DEF Announces
<1>3. a = <<>> /\ b = <<>>
  BY <1>1, <1>2
<1>. QED
  BY <1>1, <1>3 DEF Announces

\* A waiting record is alone.
LEMMA TurnsShort ==
    ASSUME NEW b, NEW id, NEW size, Turns(b, id, size)
    PROVE  b = <<>> \/ \E x : b = <<x>>
BY DEF Turns

\* Ids keep their meaning when the table grows.
LEMMA GrownDisk ==
    ASSUME NEW id, NEW size, DiskIs(id, size),
           sent' = sent, disk' = disk, kept' = kept, resized' = resized, withText' = withText,
           \A i \in DOMAIN formats : i \in DOMAIN formats' /\ formats'[i] = formats[i]
    PROVE  DiskIs(id, size)'
<1>1. Fields(sent, id, size)' = Fields(sent, id, size)
  BY DEF Fields, Rev, Written
<1>. QED
  BY <1>1 DEF DiskIs, TableFull

\* Where the fields of a revision are, they are its own.
LEMMA FieldsKept ==
    ASSUME withText' = withText
    PROVE  /\ \A c, id, size : Fields(c, id, size)' = Fields(c, id, size)
           /\ \A change, d, table : Outcome(change, d, table)' = Outcome(change, d, table)
<1>1. \A r, id, text : Written(r, id, text)' = Written(r, id, text)
  BY DEF Written
<1>2. ASSUME NEW c, NEW id, NEW size
      PROVE  Fields(c, id, size)' = Fields(c, id, size)
  BY <1>1 DEF Fields, Rev
<1>. QED
  <2>1. ASSUME NEW change, NEW d, NEW table
        PROVE  Outcome(change, d, table)' = Outcome(change, d, table)
    BY DEF Outcome, Result, Patched, Textless, Written
  <2>. QED
    BY <1>2, <2>1

\* AddRevision gives the revision the fields of what is sent, and leaves the
\* record that gives them to the copy.
LEMMA AddRevisionKeeps ==
    ASSUME IInv, NEW c \in Contents, NEW forced \in BOOLEAN, AddRevision(c, forced)
    PROVE  IInv'
<1>1. PICK coming, r, old, text, parts :
        /\ coming = Coming(c) /\ r = coming.rev
        /\ old = IF disk = Absent THEN r ELSE ReadBack(disk, formats)
        /\ text = TextOf(old, LoadedText(disk), r, c)
        /\ parts = ChangedParts(old, r)
  OBVIOUS
<1>2. PICK announced, record :
        /\ announced = IF coming.isNew THEN <<ModelRecord(coming.id, c.model)>> ELSE <<>>
        /\ record = IF disk = Absent THEN <<NewRecord(Written(r, coming.id, text))>>
                    ELSE IF disk # Absent /\ Same(old, r) /\ ~ forced THEN <<>>
                    ELSE <<ChangeRecord(old, r, coming.id, text)>>
  OBVIOUS
<1>3. /\ failed = "no" /\ records = <<>> /\ ~ Refused(c)
      /\ formats' = IF coming.isNew THEN Added(formats, coming.id, c.model) ELSE formats
      /\ disk' = IF disk # Absent /\ Same(old, r) THEN disk ELSE Written(r, coming.id, text)
      /\ records' = IF writesDiff THEN announced \o record ELSE <<>>
      /\ sent' = c
      /\ kept' = IF kept = Absent /\ coming.id # 0 THEN c.model ELSE kept
      /\ resized' = (/\ sent # Absent
                     /\ "Text" \notin parts
                     /\ resized \/ c.size # sent.size)
      /\ withText' = withText /\ writesDiff' = writesDiff /\ failed' = failed
      /\ copyDisk' = copyDisk /\ copyFormats' = copyFormats
  BY <1>1, <1>2 DEF AddRevision, modeVars, copyVars
<1>4. FieldsInv /\ TableIs(formats) /\ TableIs(copyFormats)
  BY <1>3 DEF IInv, FieldsInv
<1>5. /\ Absent \notin Contents /\ Absent \notin Models /\ c.size \in Sizes
      /\ c.model \in Models \cup {Wikitext}
  BY FieldAssumption DEF Content
<1>6. ASSUME NEW id \in Nat, NEW size \in Sizes, DiskIs(id, size)
      PROVE  disk # Absent /\ LoadedId(disk) = id
  <2>1. sent \in Contents /\ disk = Fields(sent, id, size)
    BY <1>6 DEF DiskIs
  <2>. QED
    BY <1>6, <2>1, ReadsFields
<1>7. LoadedId(disk) \in Nat
  BY <1>4, <1>6 DEF FieldsInv, LoadedId
<1>8. /\ r = Rev(c, coming.id) /\ coming.id \in Nat /\ coming.isNew \in BOOLEAN
      /\ LoadedId(disk) # 0 => coming.id = LoadedId(disk) /\ ~ coming.isNew
      /\ LoadedId(disk) = 0 /\ c.model = Wikitext => coming.id = 0 /\ ~ coming.isNew
      /\ coming.isNew => coming.id = NewId(formats) /\ c.model \in Models
      /\ LoadedId(disk) = 0 /\ ~ coming.isNew /\ coming.id # 0 =>
           coming.id \in DOMAIN formats /\ formats[coming.id] = c.model
      /\ LoadedId(disk) = 0 /\ coming.id = 0 => c.model = Wikitext \/ TableFull
  BY <1>1, <1>4, <1>7, ComingIs DEF TableFull
<1>9. PICK id \in Nat : id = coming.id
  BY <1>8
<1>10. /\ TableIs(formats')
       /\ \A i \in DOMAIN formats : i \in DOMAIN formats' /\ formats'[i] = formats[i]
       /\ coming.isNew /\ id # 0 => id \in DOMAIN formats' /\ formats'[id] = c.model
       /\ TableFull => TableFull'
  <2>1. CASE coming.isNew
    <3>1. PICK t : t = Added(formats, id, c.model)
      OBVIOUS
    <3>2. /\ TableIs(t) /\ id \in DOMAIN t
          /\ \A i \in DOMAIN formats : i \in DOMAIN t /\ t[i] = formats[i]
          /\ id # 0 => t[id] = c.model
      BY <1>4, <1>8, <1>9, <2>1, <3>1, AddedIs
    <3>. QED
      BY <1>3, <1>9, <2>1, <3>1, <3>2 DEF TableFull
  <2>2. CASE ~ coming.isNew
    BY <1>3, <1>4, <2>2 DEF TableFull
  <2>. QED
    BY <1>8, <2>1, <2>2
<1>11. writesDiff /\ formats = copyFormats => Announces(announced)'
  BY <1>2, <1>3, <1>8 DEF Announces
<1>12. Len(records') <= 2
  BY <1>2, <1>3
<1>13. ASSUME NEW size \in Sizes, disk' = Fields(c, id, size),
              IF id = 0 THEN kept' = Absent /\ (c.model = Wikitext \/ TableFull')
              ELSE id \in DOMAIN formats' /\ kept' = formats'[id],
              c.sha1 # Hidden => size = c.size \/ resized',
              writesDiff => formats = copyFormats /\ Turns(record, id, size)'
       PROVE  IInv'
  <2>1. PICK f : f = Fields(c, id, size)
    OBVIOUS
  <2>2. Fields(c, id, size)' = Fields(c, id, size)
    BY <1>3, FieldsKept
  <2>3. DiskIs(id, size)'
    BY <1>3, <1>13, <2>2 DEF DiskIs
  <2>4. \E b : Carries(b)' /\ (writesDiff' => Turns(b, id, size)')
    <3>1. CASE writesDiff
      BY <1>3, <1>11, <1>13, <3>1 DEF Carries
    <3>2. CASE ~ writesDiff
      BY <1>3, <3>2 DEF Carries
    <3>. QED
      BY <3>1, <3>2
  <2>5. FieldsInv'
    BY <1>3, <1>4, <1>10, <2>3, <2>4 DEF FieldsInv
  <2>6. kept' \in Models \cup {Absent}
    BY <1>10, <1>13 DEF TableIs
  <2>7. TypeOK'
    BY <1>3, <1>4, <1>10, <1>12, <2>6 DEF TypeOK, TableIs
  <2>. QED
    BY <1>3, <2>5, <2>7 DEF IInv, FailsForCause
<1>14. CASE disk = Absent
  <2>1. sent = Absent /\ kept = Absent /\ copyDisk = Absent /\ Carries(<<>>)
    BY <1>4, <1>6, <1>14 DEF FieldsInv
  <2>2. writesDiff => formats = copyFormats
    BY <1>3, <2>1, CarriesNothing
  <2>3. LoadedId(disk) = 0 /\ LoadedText(disk) = Hidden
    BY <1>14 DEF LoadedId, LoadedText
  <2>4. c.sha1 # Hidden => text = c.sha1
    BY <1>1, <1>8, <1>9, <2>3, FirstTextIs
  <2>5. Written(r, id, text) = Fields(c, id, c.size)
    BY <1>5, <1>8, <1>9, <2>4, DumpWritten
  <2>6. disk' = Fields(c, id, c.size) /\ record = <<NewRecord(disk')>>
    BY <1>2, <1>3, <1>9, <1>14, <2>5
  <2>7. Turns(record, id, c.size)'
    BY <1>2, <1>3, <2>1, <2>6 DEF Turns
  <2>8. IF id = 0 THEN kept' = Absent /\ (c.model = Wikitext \/ TableFull')
        ELSE id \in DOMAIN formats' /\ kept' = formats'[id]
    BY <1>3, <1>8, <1>9, <1>10, <2>1, <2>3
  <2>. QED
    BY <1>5, <1>13, <2>2, <2>6, <2>7, <2>8
<1>15. CASE disk # Absent
  <2>0. PICK was \in Nat, size \in Sizes : \E b :
          DiskIs(was, size) /\ Carries(b) /\ (writesDiff => Turns(b, was, size))
    BY <1>4, <1>15 DEF FieldsInv
  <2>1. PICK b : DiskIs(was, size) /\ Carries(b) /\ (writesDiff => Turns(b, was, size))
    BY <2>0
  <2>2. /\ sent \in Contents /\ disk = Fields(sent, was, size) /\ LoadedId(disk) = was
        /\ IF was = 0 THEN kept = Absent /\ (sent.model = Wikitext \/ TableFull)
           ELSE was \in DOMAIN formats /\ kept = formats[was]
        /\ sent.sha1 # Hidden => size = sent.size \/ resized
    BY <1>6, <2>1 DEF DiskIs
  <2>3. old = Back(sent, was, size, formats)
    BY <1>1, <1>15, <2>2, ReadsFields
  <2>4. text = TextOf(Back(sent, was, size, formats), LoadedText(Fields(sent, was, size)),
                      Rev(c, id), c)
    BY <1>1, <1>8, <1>9, <2>2, <2>3
  <2>5. c.sha1 # Hidden => text = c.sha1
    BY <2>2, <2>4, TextIs
  <2>6. was # 0 => id = was /\ formats'[was] = formats[was]
    BY <1>8, <1>9, <1>10, <2>2
  <2>7. was = 0 /\ c.model = Wikitext => id = 0
    BY <1>8, <1>9, <2>2
  <2>8. "Text" \in parts <=> c.sha1 # Hidden /\ (sent.sha1 = Hidden \/ HashBack(sent.sha1) # c.sha1)
    BY <1>1, <1>8, <1>9, <2>2, <2>3, TextChanges
  <2>9. PICK now \in Sizes :
          now = IF Same(old, r) THEN size ELSE c.size
    BY <1>5
  <2>10. Same(old, r) =>
           /\ \A s \in Sizes : Fields(sent, was, s) = Fields(c, id, s)
           /\ was = id
           /\ c.sha1 # Hidden => sent.sha1 = c.sha1 /\ HashBack(sent.sha1) = c.sha1
           /\ sent.sha1 = Hidden <=> c.sha1 = Hidden
    <3>1. PICK comment, sha1 :
            /\ comment = Normalized(Received(c).comment)
            /\ sha1 = IF c.sha1 = Hidden THEN <<>> ELSE c.sha1
      OBVIOUS
    <3>2. r = [flags |-> Flagged(ContentFlags(c), id), user |-> c.user, comment |-> comment,
               sha1 |-> sha1, model |-> c.model, size |-> c.size]
      BY <1>8, <1>9, <3>1, RevIs
    <3>3. ASSUME Same(old, r)
          PROVE  Same(Back(sent, was, size, formats),
                      [flags |-> Flagged(ContentFlags(c), id), user |-> c.user,
                       comment |-> comment, sha1 |-> sha1, model |-> c.model,
                       size |-> c.size])
      BY <2>3, <3>2, <3>3
    <3>. QED
      BY <2>2, <2>6, <3>1, <3>3, SameMeans
  <2>11. disk' = Fields(c, id, now)
    <3>1. CASE Same(old, r)
      BY <1>3, <1>15, <2>2, <2>9, <2>10, <3>1
    <3>2. CASE ~ Same(old, r)
      BY <1>3, <1>5, <1>8, <1>9, <2>5, <2>9, <3>2, DumpWritten
    <3>. QED
      BY <3>1, <3>2
  <2>12. IF id = 0 THEN kept' = Absent /\ (c.model = Wikitext \/ TableFull')
         ELSE id \in DOMAIN formats' /\ kept' = formats'[id]
    <3>1. CASE was = 0
      BY <1>3, <1>8, <1>9, <1>10, <2>2, <3>1
    <3>2. CASE was # 0
      <4>1. kept \in Models
        BY <1>4, <2>2, <3>2 DEF TableIs
      <4>. QED
        BY <1>3, <1>5, <1>9, <1>10, <2>2, <2>6, <3>2, <4>1
    <3>. QED
      BY <3>1, <3>2
  <2>13. c.sha1 # Hidden /\ "Text" \notin parts =>
           sent.sha1 # Hidden /\ (resized' <=> resized \/ c.size # sent.size)
    BY <1>3, <1>5, <2>2, <2>8
  <2>14. Same(old, r) => "Text" \notin parts
    BY <2>8, <2>10
  <2>15. c.sha1 # Hidden => now = c.size \/ resized'
    BY <2>2, <2>9, <2>13, <2>14
  <2>16. ASSUME writesDiff
         PROVE  formats = copyFormats /\ Turns(record, id, now)'
    <3>1. b = <<>> /\ formats = copyFormats
      BY <1>3, <2>1, <2>16, CarriesNothing, TurnsShort
    <3>2. HoldsSame(copyDisk, was, size)
      BY <2>1, <2>16, <3>1 DEF Turns, NewRecord
    <3>3. PICK other \in Sizes :
            /\ copyDisk = Fields(sent, was, other)
            /\ other = size \/ resized \/ sent.sha1 = Hidden
      BY <3>2 DEF HoldsSame
    <3>4. PICK length \in Sizes : length = IF "Text" \in parts THEN c.size ELSE other
      BY <1>5, <3>3
    <3>5. c.sha1 # Hidden => length = now \/ resized'
      BY <2>2, <2>9, <2>13, <2>14, <3>3, <3>4
    <3>6. ASSUME NEW d, d = Fields(c, id, length)
          PROVE  HoldsSame(d, id, now)'
      <4>1. Fields(c, id, length)' = Fields(c, id, length)
        BY <1>3, FieldsKept
      <4>. QED
        BY <1>3, <3>4, <3>5, <3>6, <4>1 DEF HoldsSame
    <3>7. CASE Same(old, r) /\ ~ forced
      <4>1. record = <<>> /\ length = other /\ copyDisk' = Fields(c, id, length)
        BY <1>2, <1>3, <1>15, <2>10, <2>14, <3>3, <3>4, <3>7
      <4>. QED
        BY <3>1, <3>6, <4>1 DEF Turns
    <3>8. CASE ~ (Same(old, r) /\ ~ forced)
      <4>1. PICK change : change = ChangeRecord(old, r, id, text)
        OBVIOUS
      <4>2. record = <<change>> /\ change.kind = "change" /\ change.parts = parts
        BY <1>1, <1>2, <1>9, <1>15, <3>8, <4>1 DEF ChangeRecord
      <4>3. change = ChangeRecord(Back(sent, was, size, formats), Rev(c, id), id,
                       TextOf(Back(sent, was, size, formats),
                              LoadedText(Fields(sent, was, size)), Rev(c, id), c))
        BY <1>8, <1>9, <2>3, <2>4, <4>1
      <4>4. PICK table : table = formats'
        OBVIOUS
      <4>5. PICK o : o = Outcome(change, Fields(sent, was, other), table)
        OBVIOUS
      <4>6. was # 0 => id = was /\ table[was] = formats[was]
        BY <2>6, <4>4
      <4>7. /\ o.fails = 0 /\ ~ o.isNew
            /\ o.disk = Fields(c, id, IF "Text" \in change.parts THEN c.size ELSE other)
        BY <2>2, <2>7, <3>3, <4>3, <4>5, <4>6, ChangeWorks
      <4>8. o.disk = Fields(c, id, length)
        BY <3>4, <4>2, <4>7
      <4>9. Outcome(change, copyDisk, formats)' = o
        <5>1. PICK d : d = copyDisk
          OBVIOUS
        <5>2. Outcome(change, d, table)' = Outcome(change, d, table)
          BY <1>3, FieldsKept
        <5>. QED
          BY <1>3, <3>3, <4>4, <4>5, <5>1, <5>2
      <4>10. \E e \in Contents : copyDisk' = Fields(e, was, other)'
        <5>1. PICK e : e = sent
          OBVIOUS
        <5>2. Fields(e, was, other)' = Fields(e, was, other)
          BY <1>3, FieldsKept
        <5>. QED
          BY <1>3, <2>2, <3>3, <5>1, <5>2
      <4>11. HoldsSame(o.disk, id, now)'
        BY <3>6, <4>8
      <4>12. \E e \in Contents, i \in Nat, l \in Sizes : copyDisk' = Fields(e, i, l)'
        BY <3>3, <4>10
      <4>13. HoldsSame(Outcome(change, copyDisk, formats).disk, id, now)'
        BY <4>9, <4>11
      <4>14. /\ (Outcome(change, copyDisk, formats).fails = 0)'
             /\ (~ Outcome(change, copyDisk, formats).isNew)'
        BY <4>7, <4>9
      <4>. QED
        BY <3>1, <4>2, <4>12, <4>13, <4>14 DEF Turns
    <3>. QED
      BY <3>1, <3>7, <3>8
  <2>. QED
    BY <1>13, <2>11, <2>12, <2>15, <2>16
<1>. QED
  BY <1>14, <1>15

\* A revision on disk has an id.
LEMMA LoadedIdIs ==
    ASSUME FieldsInv
    PROVE  LoadedId(disk) \in Nat
<1>1. CASE disk = Absent
  BY <1>1 DEF LoadedId
<1>2. CASE disk # Absent
  <2>1. PICK id \in Nat, size \in Sizes : DiskIs(id, size)
    BY <1>2 DEF FieldsInv
  <2>2. sent \in Contents /\ disk = Fields(sent, id, size)
    BY <2>1 DEF DiskIs
  <2>. QED
    BY <2>2, ReadsFields
<1>. QED
  BY <1>1, <1>2

\* What AddRevision refuses has a comment that is too long, or no id is left.
LEMMA ThrowsForCause ==
    ASSUME IInv, NEW c \in Contents, AddRevisionThrows(c)
    PROVE  IInv'
<1>1. /\ failed = "no" /\ Refused(c) /\ failed' = "update" /\ sent' = c
      /\ kept' = kept /\ formats' = formats /\ records' = records
      /\ copyFormats' = copyFormats /\ writesDiff' = writesDiff
  BY DEF AddRevisionThrows, modeVars, dumpVars, copyVars
<1>2. FieldsInv /\ TypeOK
  BY <1>1 DEF IInv
<1>3. TypeOK'
  BY <1>1, <1>2 DEF TypeOK
<1>4. CASE ~ CommentFits(Received(c).comment)
  <2>1. PICK comment : comment = Received(c).comment /\ ~ CommentFits(comment)
    BY <1>4
  <2>2. comment = IF c.comment = Hidden THEN Unset ELSE c.comment
    BY <2>1 DEF Received
  <2>3. CommentLimit \in Nat
    BY FieldAssumption
  <2>4. c.comment # Hidden
    <3>1. SUFFICES ASSUME c.comment = Hidden
                   PROVE  FALSE
      OBVIOUS
    <3>2. comment.len = 0
      BY <2>2, <3>1 DEF Unset
    <3>3. ~ IsCut(comment)
      BY <2>3, <3>2 DEF IsCut
    <3>4. Normalized(comment) = comment
      BY <3>3 DEF Normalized
    <3>5. comment.len <= CommentLimit
      BY <2>3, <3>2
    <3>. QED
      BY <2>1, <3>3, <3>4, <3>5 DEF CommentFits
  <2>5. comment = c.comment /\ comment \in [len : Nat, tail : {"", "FFFD", "FFFD.."}]
    BY <2>2, <2>4, FieldAssumption DEF Content
  <2>6. comment.len - Erased(comment.tail) > CommentLimit
    <3>0. comment.len \in Nat
      BY <2>5
    <3>1. CASE IsCut(comment) /\ comment.tail = ""
      <4>1. Erased(comment.tail) = 0
        BY <3>1 DEF Erased
      <4>2. comment.len > CommentLimit
        BY <3>1 DEF IsCut
      <4>. QED
        BY <2>3, <3>0, <4>1, <4>2
    <3>2. CASE IsCut(comment) /\ comment.tail # ""
      <4>1. Erased(comment.tail) \in Nat
        <5>1. comment.tail \in {"", "FFFD", "FFFD.."}
          BY <2>5
        <5>. QED
          BY <5>1 DEF Erased
      <4>2. ~ (Normalized(comment).len <= CommentLimit)
        BY <2>1, <3>2 DEF CommentFits
      <4>3. Normalized(comment).len = comment.len - Erased(comment.tail)
        BY <3>2 DEF Normalized
      <4>4. PICK n \in Int : n = comment.len - Erased(comment.tail)
        BY <3>0, <4>1
      <4>5. ~ (n <= CommentLimit)
        BY <4>2, <4>3, <4>4
      <4>. QED
        BY <2>3, <4>4, <4>5
    <3>3. CASE ~ IsCut(comment)
      <4>1. comment.len \in Nat /\ ~ (comment.len > CommentLimit)
        BY <2>5, <3>3 DEF IsCut
      <4>2. ~ (comment.len <= CommentLimit)
        BY <2>1, <3>3 DEF CommentFits, Normalized
      <4>. QED
        BY <2>3, <4>1, <4>2
    <3>. QED
      BY <3>1, <3>2, <3>3
  <2>7. c # Absent
    BY FieldAssumption
  <2>. QED
    BY <1>1, <1>3, <2>4, <2>5, <2>6, <2>7 DEF IInv, FailsForCause
<1>5. CASE writesDiff /\ Coming(c).isNew /\ Coming(c).id = 0
  <2>1. TableIs(formats) /\ LoadedId(disk) \in Nat
    BY <1>2, LoadedIdIs DEF FieldsInv
  <2>2. PICK coming : coming = Coming(c)
    OBVIOUS
  <2>3. coming.isNew => coming.id = NewId(formats)
    BY <2>1, <2>2, ComingIs
  <2>4. TableFull
    BY <1>5, <2>1, <2>2, <2>3, NewIds DEF TableFull
  <2>. QED
    BY <1>1, <1>3, <1>5, <2>4 DEF IInv, FailsForCause, TableFull
<1>. QED
  BY <1>1, <1>4, <1>5 DEF Refused

\* Nothing is lost of a revision while the table grows.
LEMMA GrownIs ==
    ASSUME FieldsInv, records = <<>>, TableIs(formats)', copyFormats' = copyFormats,
           \A i \in DOMAIN formats : i \in DOMAIN formats' /\ formats'[i] = formats[i],
           sent' = sent, disk' = disk, kept' = kept, resized' = resized, withText' = withText,
           copyDisk' = copyDisk, writesDiff' = writesDiff,
           ASSUME writesDiff, formats = copyFormats
           PROVE  Carries(<<>>)',
           ~ writesDiff => records' = <<>>
    PROVE  FieldsInv'
<1>1. TableIs(copyFormats)'
  BY DEF FieldsInv, TableIs
<1>2. ASSUME NEW b, b = <<>> \/ \E x : b = <<x>>, Carries(b)
      PROVE  /\ Carries(<<>>)'
             /\ writesDiff => b = <<>>
  <2>1. CASE writesDiff
    BY <1>2, <2>1, CarriesNothing
  <2>2. CASE ~ writesDiff
    BY <2>2 DEF Carries
  <2>. QED
    BY <2>1, <2>2
<1>3. CASE disk = Absent /\ sent = Absent /\ kept = Absent /\ copyDisk = Absent /\ Carries(<<>>)
  BY <1>1, <1>2, <1>3 DEF FieldsInv
<1>4. ASSUME NEW id \in Nat, NEW size \in Sizes, NEW b,
             DiskIs(id, size) /\ Carries(b) /\ (writesDiff => Turns(b, id, size))
      PROVE  FieldsInv'
  <2>1. DiskIs(id, size)'
    BY <1>4, GrownDisk
  <2>2. Carries(<<>>)'
    BY <1>2, <1>4, TurnsShort DEF Carries
  <2>3. ASSUME writesDiff
        PROVE  Turns(<<>>, id, size)'
    <3>1. b = <<>>
      BY <1>2, <1>4, <2>3, TurnsShort
    <3>2. HoldsSame(copyDisk, id, size)
      BY <1>4, <2>3, <3>1 DEF Turns
    <3>3. \A c, i, s : Fields(c, i, s)' = Fields(c, i, s)
      BY FieldsKept
    <3>4. HoldsSame(copyDisk, id, size)'
      <4>1. PICK other \in Sizes :
              copyDisk = Fields(sent, id, other) /\ (other = size \/ resized \/ sent.sha1 = Hidden)
        BY <3>2 DEF HoldsSame
      <4>2. PICK c : c = sent
        OBVIOUS
      <4>3. Fields(c, id, other)' = Fields(c, id, other)
        BY <3>3
      <4>. QED
        BY <4>1, <4>2, <4>3 DEF HoldsSame
    <3>. QED
      BY <3>4 DEF Turns
  <2>. QED
    BY <1>1, <2>1, <2>2, <2>3 DEF FieldsInv
<1>. QED
  BY <1>3, <1>4 DEF FieldsInv

\* Another revision brings its model into the table.
LEMMA AddOtherKeeps ==
    ASSUME IInv, NEW model \in Models, AddOther(model)
    PROVE  IInv'
<1>1. PICK got : got = IdFor(formats, model)
  OBVIOUS
<1>2. /\ failed = "no" /\ records = <<>> /\ got.isNew
      /\ sent' = sent /\ kept' = kept /\ resized' = resized /\ disk' = disk
      /\ withText' = withText /\ writesDiff' = writesDiff
      /\ copyDisk' = copyDisk /\ copyFormats' = copyFormats
      /\ IF writesDiff /\ got.id = 0
           THEN failed' = "update" /\ formats' = formats /\ records' = records
           ELSE /\ formats' = Added(formats, got.id, model)
                /\ records' = IF writesDiff THEN <<ModelRecord(got.id, model)>> ELSE <<>>
                /\ failed' = failed
  BY <1>1 DEF AddOther, modeVars, copyVars
<1>3. FieldsInv /\ TypeOK /\ TableIs(formats)
  BY <1>2 DEF IInv, FieldsInv
<1>4. got.id \in Nat /\ got.id = NewId(formats)
  BY <1>1, <1>2, <1>3, IdForIs
<1>5. CASE writesDiff /\ got.id = 0
  <2>1. TableFull
    BY <1>3, <1>4, <1>5, NewIds DEF TableFull
  <2>. QED
    BY <1>2, <1>3, <1>5, <2>1 DEF IInv, TypeOK, FailsForCause, TableFull
<1>6. CASE ~ (writesDiff /\ got.id = 0)
  <2>1. PICK id \in Nat : id = got.id
    BY <1>4
  <2>2. PICK t : t = Added(formats, id, model)
    OBVIOUS
  <2>3. TableIs(t) /\ \A i \in DOMAIN formats : i \in DOMAIN t /\ t[i] = formats[i]
    BY <1>3, <1>4, <2>1, <2>2, AddedIs
  <2>4. formats' = t
    BY <1>2, <1>6, <2>1, <2>2
  <2>5. TableIs(formats)'
    BY <2>3, <2>4 DEF TableIs
  <2>6. ASSUME writesDiff, formats = copyFormats
        PROVE  Carries(<<>>)'
    <3>1. PICK a : a = <<ModelRecord(id, model)>>
      OBVIOUS
    <3>2. records' = a \o <<>>
      BY <1>2, <1>6, <2>1, <2>6, <3>1
    <3>3. Announces(a)'
      BY <1>2, <2>2, <2>4, <2>6, <3>1 DEF Announces
    <3>. QED
      BY <1>2, <2>6, <3>2, <3>3 DEF Carries
  <2>7. ~ writesDiff => records' = <<>>
    BY <1>2
  <2>8. FieldsInv'
    BY <1>2, <1>3, <2>3, <2>4, <2>5, <2>6, <2>7, GrownIs
  <2>9. Len(records') <= 2
    <3>1. PICK m : m = ModelRecord(got.id, model)
      OBVIOUS
    <3>2. records' = <<m>> \/ records' = <<>>
      BY <1>2, <1>6, <3>1
    <3>. QED
      BY <3>2
  <2>. QED
    BY <1>2, <1>3, <1>6, <2>5, <2>8, <2>9 DEF IInv, TypeOK, FailsForCause, TableIs
<1>. QED
  BY <1>5, <1>6

\* One record, and two.
LEMMA RecordsShort ==
    /\ <<>> \o <<>> = <<>>
    /\ \A x : /\ Head(<<x>>) = x /\ Tail(<<x>>) = <<>> /\ Len(<<x>>) = 1
              /\ <<x>> \o <<>> = <<x>> /\ <<>> \o <<x>> = <<x>>
    /\ \A x, y : /\ Head(<<x>> \o <<y>>) = x /\ Tail(<<x>> \o <<y>>) = <<y>>
<1>1. <<>> \o <<>> = <<>>
  OBVIOUS
<1>2. ASSUME NEW x
      PROVE  /\ Head(<<x>>) = x /\ Tail(<<x>>) = <<>> /\ Len(<<x>>) = 1
             /\ <<x>> \o <<>> = <<x>> /\ <<>> \o <<x>> = <<x>>
  OBVIOUS
<1>3. ASSUME NEW x, NEW y
      PROVE  Head(<<x>> \o <<y>>) = x /\ Tail(<<x>> \o <<y>>) = <<y>>
  <2>1. PICK S : S = {x, y}
    OBVIOUS
  <2>2. PICK s, t : s = <<x>> /\ t = <<y>>
    OBVIOUS
  <2>3. PICK z : z = s \o t
    OBVIOUS
  <2>4. s \in Seq(S) /\ t \in Seq(S) /\ Len(s) = 1 /\ Len(t) = 1 /\ s[1] = x /\ t[1] = y
    <3>1. x \in S /\ y \in S
      BY <2>1
    <3>. QED
      BY <2>2, <3>1
  <2>5. z \in Seq(S) /\ Len(z) = 2 /\ z[1] = x /\ z[2] = y
    <3>1. /\ z \in Seq(S) /\ Len(z) = Len(s) + Len(t)
          /\ \A i \in 1 .. Len(s) + Len(t) : z[i] = IF i <= Len(s) THEN s[i] ELSE t[i - Len(s)]
      BY <2>3, <2>4, ConcatProperties
    <3>. QED
      BY <2>4, <3>1
  <2>6. PICK rest : rest = Tail(z)
    OBVIOUS
  <2>7. rest \in Seq(S) /\ Len(rest) = 1 /\ rest[1] = y
    <3>1. z # <<>>
      BY <2>5
    <3>2. /\ rest \in Seq(S) /\ Len(rest) = Len(z) - 1
          /\ \A i \in 1 .. Len(rest) : rest[i] = z[i + 1]
      BY <2>5, <2>6, <3>1, HeadTailProperties
    <3>. QED
      BY <2>5, <3>2
  <2>8. rest = t
    <3>1. Len(rest) = Len(t) /\ \A i \in 1 .. Len(rest) : rest[i] = t[i]
      BY <2>4, <2>7
    <3>. QED
      BY <2>4, <2>7, <3>1, SeqEqual
  <2>9. Head(z) = x
    BY <2>5
  <2>. QED
    BY <2>2, <2>3, <2>6, <2>8, <2>9
<1>. QED
  BY <1>1, <1>2, <1>3

\* The first record that waits.
LEMMA HeadIs ==
    ASSUME NEW kind, Applying(kind), FieldsInv
    PROVE  /\ writesDiff
           /\ \/ /\ kind = "model"
                 /\ \E id \in Nat, model \in Models : \E b :
                      /\ b = <<>> \/ \E x : b = <<x>>
                      /\ Head(records) = ModelRecord(id, model) /\ Tail(records) = b
                      /\ formats = Added(copyFormats, id, model)
                      /\ \/ disk = Absent /\ sent = Absent /\ kept = Absent /\ copyDisk = Absent
                            /\ b = <<>>
                         \/ \E i \in Nat, size \in Sizes : DiskIs(i, size) /\ Turns(b, i, size)
              \/ /\ kind # "model" /\ formats = copyFormats /\ Tail(records) = <<>>
                 /\ \E i \in Nat, size \in Sizes :
                      DiskIs(i, size) /\ Turns(<<Head(records)>>, i, size)
<1>1. records # <<>> /\ Head(records).kind = kind
  BY DEF Applying
<1>2. ASSUME NEW b, Carries(b), b = <<>> \/ \E x : b = <<x>>
      PROVE  /\ writesDiff
             /\ \/ \E id \in Nat, model \in Models :
                     /\ Head(records) = ModelRecord(id, model) /\ Tail(records) = b
                     /\ formats = Added(copyFormats, id, model)
                \/ formats = copyFormats /\ Tail(records) = <<>> /\ b = <<Head(records)>>
  <2>1. writesDiff
    BY <1>1, <1>2 DEF Carries
  <2>2. PICK a : Announces(a) /\ records = a \o b
    BY <1>2, <2>1 DEF Carries
  <2>3. CASE a = <<>> /\ formats = copyFormats
    <3>1. CASE b = <<>>
      BY <1>1, <2>2, <2>3, <3>1, RecordsShort
    <3>2. ASSUME NEW x, b = <<x>>
          PROVE  records = <<x>> /\ Head(records) = x /\ Tail(records) = <<>>
      BY <2>2, <2>3, <3>2, RecordsShort
    <3>. QED
      BY <1>2, <2>1, <2>3, <3>1, <3>2
  <2>4. CASE \E id \in Nat, model \in Models :
               a = <<ModelRecord(id, model)>> /\ formats = Added(copyFormats, id, model)
    <3>1. PICK id \in Nat, model \in Models :
            a = <<ModelRecord(id, model)>> /\ formats = Added(copyFormats, id, model)
      BY <2>4
    <3>2. PICK m : m = ModelRecord(id, model)
      OBVIOUS
    <3>3. Head(records) = m /\ Tail(records) = b
      BY <1>2, <2>2, <3>1, <3>2, RecordsShort
    <3>. QED
      BY <2>1, <3>1, <3>2, <3>3
  <2>. QED
    BY <2>2, <2>3, <2>4 DEF Announces
<1>3. \A id, model : ModelRecord(id, model).kind = "model"
  BY DEF ModelRecord
<1>4. ASSUME NEW i, NEW size, NEW x, Turns(<<x>>, i, size)
      PROVE  x.kind # "model"
  BY <1>4 DEF Turns, NewRecord
<1>5. CASE disk = Absent /\ sent = Absent /\ kept = Absent /\ copyDisk = Absent /\ Carries(<<>>)
  <2>1. PICK b : b = <<>>
    OBVIOUS
  <2>2. writesDiff
    BY <1>1, <1>5 DEF Carries
  <2>3. \E id \in Nat, model \in Models :
          /\ Head(records) = ModelRecord(id, model) /\ Tail(records) = b
          /\ formats = Added(copyFormats, id, model)
    BY <1>2, <1>5, <2>1
  <2>4. kind = "model"
    BY <1>1, <1>3, <2>3
  <2>. QED
    BY <1>5, <2>1, <2>2, <2>3, <2>4
<1>6. ASSUME NEW i \in Nat, NEW size \in Sizes, NEW b,
             DiskIs(i, size), Carries(b), writesDiff => Turns(b, i, size)
      PROVE  /\ writesDiff
             /\ \/ /\ kind = "model"
                   /\ \E id \in Nat, model \in Models :
                        /\ Head(records) = ModelRecord(id, model) /\ Tail(records) = b
                        /\ formats = Added(copyFormats, id, model)
                        /\ b = <<>> \/ \E x : b = <<x>>
                        /\ Turns(b, i, size)
                \/ /\ kind # "model" /\ formats = copyFormats /\ Tail(records) = <<>>
                   /\ Turns(<<Head(records)>>, i, size)
  <2>1. b = <<>> \/ \E x : b = <<x>>
    <3>1. CASE writesDiff
      BY <1>6, <3>1, TurnsShort
    <3>2. CASE ~ writesDiff
      BY <1>1, <1>6, <3>2 DEF Carries
    <3>. QED
      BY <3>1, <3>2
  <2>. QED
    BY <1>1, <1>2, <1>3, <1>4, <1>6, <2>1
<1>. QED
  BY <1>5, <1>6, <1>1, <1>2, <1>3 DEF FieldsInv

\* What waits still turns the copy when only the copy's table changes.
LEMMA TurnsKept ==
    ASSUME NEW b, NEW id, NEW size, Turns(b, id, size), withText' = withText,
           sent' = sent, disk' = disk, resized' = resized, copyDisk' = copyDisk,
           formats' = formats
    PROVE  Turns(b, id, size)'
<1>1. /\ \A c, i, s : Fields(c, i, s)' = Fields(c, i, s)
      /\ \A change, d, table : Outcome(change, d, table)' = Outcome(change, d, table)
  BY FieldsKept
<1>2. ASSUME NEW d, HoldsSame(d, id, size)
      PROVE  HoldsSame(d, id, size)'
  <2>1. PICK other \in Sizes :
          d = Fields(sent, id, other) /\ (other = size \/ resized \/ sent.sha1 = Hidden)
    BY <1>2 DEF HoldsSame
  <2>2. PICK c : c = sent
    OBVIOUS
  <2>3. Fields(c, id, other)' = Fields(c, id, other)
    BY <1>1
  <2>. QED
    BY <2>1, <2>2, <2>3 DEF HoldsSame
<1>3. PICK d, table : d = copyDisk /\ table = formats
  OBVIOUS
<1>4. CASE b = <<>> /\ HoldsSame(copyDisk, id, size)
  BY <1>2, <1>3, <1>4 DEF Turns
<1>5. CASE b = <<NewRecord(disk)>> /\ copyDisk = Absent
  BY <1>5 DEF Turns
<1>6. ASSUME NEW change, b = <<change>>, change.kind = "change",
             \E c \in Contents, i \in Nat, s \in Sizes : copyDisk = Fields(c, i, s),
             Outcome(change, copyDisk, formats).fails = 0,
             ~ Outcome(change, copyDisk, formats).isNew,
             HoldsSame(Outcome(change, copyDisk, formats).disk, id, size)
      PROVE  Turns(b, id, size)'
  <2>1. PICK o : o = Outcome(change, d, table)
    OBVIOUS
  <2>2. Outcome(change, copyDisk, formats)' = o
    <3>1. Outcome(change, d, table)' = Outcome(change, d, table)
      BY <1>1
    <3>. QED
      BY <1>3, <2>1, <3>1
  <2>3. HoldsSame(o.disk, id, size)'
    BY <1>2, <1>3, <1>6, <2>1
  <2>4. HoldsSame(Outcome(change, copyDisk, formats).disk, id, size)'
    BY <2>2, <2>3
  <2>5. \E c \in Contents, i \in Nat, s \in Sizes : copyDisk' = Fields(c, i, s)'
    BY <1>1, <1>6
  <2>6. /\ (Outcome(change, copyDisk, formats).fails = 0)'
        /\ (~ Outcome(change, copyDisk, formats).isNew)'
    BY <1>3, <1>6, <2>1, <2>2
  <2>. QED
    BY <1>6, <2>4, <2>5, <2>6 DEF Turns
<1>. QED
  BY <1>4, <1>5, <1>6 DEF Turns

\* Once the id of a model is applied, the copy has the table of the dump.
LEMMA ApplyModelKeeps ==
    ASSUME IInv, ApplyModel
    PROVE  IInv'
<1>1. /\ Applying("model") /\ failed = "no" /\ failed' = failed
      /\ copyFormats' = Added(copyFormats, Head(records).id, Head(records).model)
      /\ records' = Tail(records)
      /\ sent' = sent /\ kept' = kept /\ resized' = resized /\ disk' = disk
      /\ formats' = formats /\ copyDisk' = copyDisk
      /\ withText' = withText /\ writesDiff' = writesDiff
  BY DEF ApplyModel, Applying, modeVars, dumpVars
<1>2. FieldsInv /\ TypeOK
  BY <1>1 DEF IInv
<1>3. PICK id \in Nat, model \in Models : \E b :
        /\ b = <<>> \/ \E x : b = <<x>>
        /\ Head(records) = ModelRecord(id, model) /\ Tail(records) = b
        /\ formats = Added(copyFormats, id, model)
        /\ \/ disk = Absent /\ sent = Absent /\ kept = Absent /\ copyDisk = Absent /\ b = <<>>
           \/ \E i \in Nat, size \in Sizes : DiskIs(i, size) /\ Turns(b, i, size)
  BY <1>1, <1>2, HeadIs
<1>4. PICK b :
        /\ b = <<>> \/ \E x : b = <<x>>
        /\ Head(records) = ModelRecord(id, model) /\ Tail(records) = b
        /\ formats = Added(copyFormats, id, model)
        /\ \/ disk = Absent /\ sent = Absent /\ kept = Absent /\ copyDisk = Absent /\ b = <<>>
           \/ \E i \in Nat, size \in Sizes : DiskIs(i, size) /\ Turns(b, i, size)
  BY <1>3
<1>5. copyFormats' = formats'
  <2>1. Head(records).id = id /\ Head(records).model = model
    BY <1>4 DEF ModelRecord
  <2>. QED
    BY <1>1, <1>4, <2>1
<1>6. Carries(b)'
  <2>1. <<>> \o b = b
    BY <1>4, RecordsShort
  <2>2. Announces(<<>>)'
    BY <1>5 DEF Announces
  <2>. QED
    BY <1>1, <1>2, <1>4, <2>1, <2>2, HeadIs DEF Carries
<1>7. TableIs(formats)' /\ TableIs(copyFormats)'
  BY <1>1, <1>2, <1>5 DEF FieldsInv, TableIs
<1>8. FieldsInv'
  <2>1. CASE disk = Absent /\ sent = Absent /\ kept = Absent /\ copyDisk = Absent /\ b = <<>>
    BY <1>1, <1>6, <1>7, <2>1 DEF FieldsInv
  <2>2. ASSUME NEW i \in Nat, NEW size \in Sizes, DiskIs(i, size), Turns(b, i, size)
        PROVE  FieldsInv'
    <3>1. DiskIs(i, size)'
      BY <1>1, <2>2, GrownDisk
    <3>2. Turns(b, i, size)'
      BY <1>1, <2>2, TurnsKept
    <3>. QED
      BY <1>6, <1>7, <3>1, <3>2 DEF FieldsInv
  <2>. QED
    BY <1>4, <2>1, <2>2
<1>9. TypeOK'
  <2>1. Len(records') <= 2
    <3>1. records' = <<>> \/ \E x : records' = <<x>>
      BY <1>1, <1>4
    <3>. QED
      BY <3>1
  <2>. QED
    BY <1>1, <1>2, <1>7, <2>1 DEF TypeOK, TableIs
<1>. QED
  BY <1>1, <1>8, <1>9 DEF IInv, FailsForCause

\* The step that leaves nothing to apply.
LEMMA LastApplied ==
    ASSUME IInv, failed = "no", failed' = failed, writesDiff, formats = copyFormats,
           NEW id \in Nat, NEW size \in Sizes, DiskIs(id, size),
           records' = <<>>, copyFormats' = copyFormats, formats' = formats,
           sent' = sent, kept' = kept, resized' = resized, disk' = disk,
           withText' = withText, writesDiff' = writesDiff,
           HoldsSame(copyDisk', id, size)
    PROVE  IInv'
<1>1. FieldsInv /\ TypeOK
  BY DEF IInv
<1>2. DiskIs(id, size)'
  BY GrownDisk
<1>3. HoldsSame(copyDisk, id, size)'
  <2>1. PICK other \in Sizes :
          copyDisk' = Fields(sent, id, other) /\ (other = size \/ resized \/ sent.sha1 = Hidden)
    BY DEF HoldsSame
  <2>2. PICK c : c = sent
    OBVIOUS
  <2>3. Fields(c, id, other)' = Fields(c, id, other)
    BY FieldsKept
  <2>. QED
    BY <2>1, <2>2, <2>3 DEF HoldsSame
<1>4. Turns(<<>>, id, size)'
  BY <1>3 DEF Turns
<1>5. Carries(<<>>)'
  <2>1. Announces(<<>>)'
    BY DEF Announces
  <2>. QED
    BY <2>1, RecordsShort DEF Carries
<1>6. TableIs(formats)' /\ TableIs(copyFormats)'
  BY <1>1 DEF FieldsInv, TableIs
<1>7. FieldsInv'
  BY <1>2, <1>4, <1>5, <1>6 DEF FieldsInv
<1>8. TypeOK'
  BY <1>1, <1>6 DEF TypeOK, TableIs
<1>. QED
  BY <1>7, <1>8 DEF IInv, FailsForCause

\* A revision that is new to the copy gets the fields of the record.
LEMMA ApplyNewKeeps ==
    ASSUME IInv, ApplyNew
    PROVE  IInv'
<1>1. PICK change : change = Head(records)
  OBVIOUS
<1>2. /\ Applying("new") /\ failed = "no" /\ change.kind = "new"
      /\ IF Readable(change.fields)
           THEN copyDisk' = change.fields /\ failed' = failed
           ELSE failed' = "apply" /\ copyDisk' = copyDisk
      /\ records' = Tail(records) /\ copyFormats' = copyFormats /\ formats' = formats
      /\ sent' = sent /\ kept' = kept /\ resized' = resized /\ disk' = disk
      /\ withText' = withText /\ writesDiff' = writesDiff
  BY <1>1 DEF ApplyNew, Applying, modeVars, dumpVars
<1>3. FieldsInv
  BY <1>2 DEF IInv
<1>4. /\ writesDiff /\ formats = copyFormats /\ Tail(records) = <<>>
      /\ \E i \in Nat, size \in Sizes : DiskIs(i, size) /\ Turns(<<change>>, i, size)
  BY <1>1, <1>2, <1>3, HeadIs
<1>5. PICK id \in Nat, size \in Sizes : DiskIs(id, size) /\ Turns(<<change>>, id, size)
  BY <1>4
<1>6. sent \in Contents /\ disk = Fields(sent, id, size)
  BY <1>5 DEF DiskIs
<1>7. change = NewRecord(disk)
  <2>1. \/ <<change>> = <<>>
        \/ <<change>> = <<NewRecord(disk)>>
        \/ \E other : <<change>> = <<other>> /\ other.kind = "change"
    BY <1>5 DEF Turns
  <2>. QED
    BY <1>2, <2>1
<1>8. Readable(disk)
  BY <1>6, ReadsFields
<1>9. copyDisk' = disk /\ failed' = failed
  BY <1>2, <1>7, <1>8 DEF NewRecord
<1>10. HoldsSame(copyDisk', id, size)
  BY <1>6, <1>9 DEF HoldsSame
<1>. QED
  BY <1>2, <1>4, <1>5, <1>9, <1>10, LastApplied

\* A revision of the copy becomes that of the dump.
LEMMA ApplyChangeKeeps ==
    ASSUME IInv, ApplyChange
    PROVE  IInv'
<1>1. PICK change, old, patched, got, r, text :
        /\ change = Head(records)
        /\ old = ReadBack(copyDisk, copyFormats)
        /\ patched = Patched(old, change)
        /\ got = IdKept(IdOfChange(change), patched.flags, copyFormats, patched.model)
        /\ r = [patched EXCEPT !.flags = IF got.id = 0 THEN Flagged(@, 0) ELSE @]
        /\ text = IF "Text" \in change.parts THEN change.text ELSE LoadedText(copyDisk)
  OBVIOUS
<1>2. /\ Applying("change") /\ failed = "no" /\ change.kind = "change"
      /\ records' = Tail(records) /\ formats' = formats
      /\ sent' = sent /\ kept' = kept /\ resized' = resized /\ disk' = disk
      /\ withText' = withText /\ writesDiff' = writesDiff
      /\ IF \/ "User" \in change.parts /\ r.user.kind \notin change.rev.flags
            \/ /\ withText /\ "TextDeleted" \notin r.flags
               /\ "Text" \notin change.parts /\ text = Hidden
           THEN failed' = "apply" /\ copyDisk' = copyDisk /\ copyFormats' = copyFormats
           ELSE /\ copyDisk' = IF Same(old, r) THEN copyDisk ELSE Written(r, got.id, text)
                /\ copyFormats' = IF got.isNew THEN Added(copyFormats, got.id, r.model)
                                  ELSE copyFormats
                /\ failed' = failed
  BY <1>1 DEF ApplyChange, Applying, modeVars, dumpVars, copyVars
<1>3. FieldsInv
  BY <1>2 DEF IInv
<1>4. /\ writesDiff /\ formats = copyFormats /\ Tail(records) = <<>>
      /\ \E i \in Nat, size \in Sizes : DiskIs(i, size) /\ Turns(<<change>>, i, size)
  BY <1>1, <1>2, <1>3, HeadIs
<1>5. PICK id \in Nat, size \in Sizes : DiskIs(id, size) /\ Turns(<<change>>, id, size)
  BY <1>4
<1>6. PICK o : o = Outcome(change, copyDisk, formats)
  OBVIOUS
<1>7. o.fails = 0 /\ ~ o.isNew /\ HoldsSame(o.disk, id, size)
  <2>1. \/ <<change>> = <<>>
        \/ \E d : <<change>> = <<NewRecord(d)>>
        \/ \E other :
             /\ <<change>> = <<other>>
             /\ Outcome(other, copyDisk, formats).fails = 0
             /\ ~ Outcome(other, copyDisk, formats).isNew
             /\ HoldsSame(Outcome(other, copyDisk, formats).disk, id, size)
    BY <1>5 DEF Turns
  <2>2. \A d : NewRecord(d).kind = "new"
    BY DEF NewRecord
  <2>3. \A other : <<change>> = <<other>> => change = other
    OBVIOUS
  <2>. QED
    BY <1>2, <1>6, <2>1, <2>2, <2>3
<1>8. r = Final(patched, got.id) /\ text = Words(change, copyDisk)
  BY <1>1 DEF Final, Words
<1>9. got = IdKept(Given(change, copyDisk), patched.flags, formats, patched.model)
  BY <1>1, <1>4 DEF IdOfChange, Given
<1>10. o = Result(change, copyDisk, old, got, r)
  BY <1>1, <1>4, <1>6, <1>8, <1>9 DEF Outcome
<1>11. /\ o.disk = IF Same(old, r) THEN copyDisk ELSE Written(r, got.id, text)
       /\ o.isNew = got.isNew
       /\ o.fails = IF Misread(change, r) \/ Textless(change, r, text) THEN 1 ELSE 0
  BY <1>8, <1>10 DEF Result
<1>12. ~ Misread(change, r) /\ ~ Textless(change, r, text) /\ ~ got.isNew
  BY <1>7, <1>11
<1>13. failed' = failed /\ copyFormats' = copyFormats /\ copyDisk' = o.disk
  BY <1>2, <1>11, <1>12 DEF Misread, Textless
<1>. QED
  BY <1>2, <1>4, <1>5, <1>7, <1>13, LastApplied

------------------------------------------------------------------------------
(* What holds in every state. *)

\* Before the first update there is neither a revision nor a model.
LEMMA InitIs ==
    ASSUME Init
    PROVE  IInv
<1>1. PICK empty : empty = [i \in {} |-> Wikitext]
  OBVIOUS
<1>2. /\ sent = Absent /\ kept = Absent /\ resized = FALSE /\ disk = Absent /\ formats = empty
      /\ records = <<>> /\ copyDisk = Absent /\ copyFormats = formats /\ failed = "no"
  BY <1>1 DEF Init
<1>3. DOMAIN empty = {} /\ empty = [i \in DOMAIN empty |-> empty[i]]
  BY <1>1
<1>4. TableIs(formats) /\ TableIs(copyFormats)
  BY <1>2, <1>3 DEF TableIs
<1>5. Carries(<<>>)
  <2>1. Announces(<<>>)
    BY <1>2 DEF Announces
  <2>. QED
    BY <1>2, <2>1, RecordsShort DEF Carries
<1>6. TypeOK
  BY <1>2, <1>3 DEF TypeOK
<1>. QED
  BY <1>2, <1>4, <1>5, <1>6 DEF IInv, FieldsInv, FailsForCause

\* A step in which nothing happens.
LEMMA StutterIs ==
    ASSUME IInv, UNCHANGED vars
    PROVE  IInv'
<1>1. /\ withText' = withText /\ writesDiff' = writesDiff /\ sent' = sent /\ kept' = kept
      /\ resized' = resized /\ disk' = disk /\ formats' = formats /\ records' = records
      /\ copyDisk' = copyDisk /\ copyFormats' = copyFormats /\ failed' = failed
  BY DEF vars, modeVars, dumpVars, copyVars
<1>2. TypeOK' /\ FailsForCause'
  BY <1>1 DEF IInv, TypeOK, FailsForCause, TableFull
<1>3. ASSUME failed = "no"
      PROVE  FieldsInv'
  <2>1. FieldsInv
    BY <1>3 DEF IInv
  <2>2. ASSUME NEW b, Carries(b)
        PROVE  Carries(b)'
    BY <1>1, <2>2 DEF Carries, Announces
  <2>3. TableIs(formats)' /\ TableIs(copyFormats)'
    BY <1>1, <2>1 DEF FieldsInv, TableIs
  <2>4. CASE /\ disk = Absent /\ sent = Absent /\ kept = Absent /\ copyDisk = Absent
             /\ Carries(<<>>)
    BY <1>1, <2>2, <2>3, <2>4 DEF FieldsInv
  <2>5. ASSUME NEW id \in Nat, NEW size \in Sizes, NEW b,
               DiskIs(id, size) /\ Carries(b) /\ (writesDiff => Turns(b, id, size))
        PROVE  FieldsInv'
    <3>1. DiskIs(id, size)'
      BY <1>1, <2>5, GrownDisk
    <3>2. writesDiff' => Turns(b, id, size)'
      BY <1>1, <2>5, TurnsKept
    <3>. QED
      BY <2>2, <2>3, <2>5, <3>1, <3>2 DEF FieldsInv
  <2>. QED
    BY <2>1, <2>4, <2>5 DEF FieldsInv
<1>. QED
  BY <1>1, <1>2, <1>3 DEF IInv

\* The inductive invariant: the dump has the fields of what was sent, and the
\* records that wait give them to the copy.
THEOREM FieldsInvariance == Spec => []IInv
<1>1. Init => IInv
  BY InitIs
<1>2. IInv /\ [Next]_vars => IInv'
  <2>1. SUFFICES ASSUME IInv, [Next]_vars
                 PROVE  IInv'
    OBVIOUS
  <2>2. ASSUME NEW c \in Contents, NEW forced \in BOOLEAN, AddRevision(c, forced)
        PROVE  IInv'
    BY <2>1, <2>2, AddRevisionKeeps
  <2>3. ASSUME NEW c \in Contents, AddRevisionThrows(c)
        PROVE  IInv'
    BY <2>1, <2>3, ThrowsForCause
  <2>4. ASSUME NEW model \in Models, AddOther(model)
        PROVE  IInv'
    BY <2>1, <2>4, AddOtherKeeps
  <2>5. CASE ApplyModel
    BY <2>1, <2>5, ApplyModelKeeps
  <2>6. CASE ApplyNew
    BY <2>1, <2>6, ApplyNewKeeps
  <2>7. CASE ApplyChange
    BY <2>1, <2>7, ApplyChangeKeeps
  <2>8. CASE UNCHANGED vars
    BY <2>1, <2>8, StutterIs
  <2>. QED
    BY <2>1, <2>2, <2>3, <2>4, <2>5, <2>6, <2>7, <2>8 DEF Next
<1>. QED
  BY <1>1, <1>2, PTL DEF Spec

\* TypeOK holds in every reachable state; an id fits in the byte it is stored
\* in.
THEOREM TypeCorrect == Spec => []TypeOK
<1>1. IInv => TypeOK
  BY DEF IInv
<1>. QED
  BY <1>1, FieldsInvariance, PTL

\* FailsForCause holds in every reachable state: applying the records of an
\* update never throws, and an update only for the two reasons.
THEOREM FailuresHaveCause == Spec => []FailsForCause
<1>1. IInv => FailsForCause
  BY DEF IInv
<1>. QED
  BY <1>1, FieldsInvariance, PTL

\* ReadsWhatWasSent holds in every reachable state: DumpRevision::Read gets
\* what AddRevision was given.
THEOREM SentIsRead == Spec => []ReadsWhatWasSent
<1>1. ASSUME IInv, disk # Absent, failed = "no"
      PROVE  LET r == ReadBack(disk, formats)
                 wanted == Received(sent)
             IN  /\ Readable(disk)
                 /\ r.flags \ {"WikitextModelFormat"} = wanted.flags
                 /\ r.user = wanted.user
                 /\ r.comment = Normalized(wanted.comment)
                 /\ sent.sha1 # Hidden => r.sha1 = HashBack(sent.sha1)
                 /\ \/ r.model = IF kept = Absent THEN sent.model ELSE kept
                    \/ r.model = Wikitext /\ TableFull
                 /\ withText /\ sent.sha1 # Hidden =>
                     ValueOf(disk, "Text", Hidden) = sent.sha1
                 /\ ~ withText /\ sent.sha1 # Hidden => r.size = sent.size \/ resized
  <2>1. PICK id \in Nat, size \in Sizes : DiskIs(id, size)
    BY <1>1 DEF IInv, FieldsInv
  <2>2. /\ sent \in Contents /\ disk = Fields(sent, id, size)
        /\ IF id = 0 THEN kept = Absent /\ (sent.model = Wikitext \/ TableFull)
           ELSE id \in DOMAIN formats /\ kept = formats[id]
        /\ sent.sha1 # Hidden => size = sent.size \/ resized
    BY <2>1 DEF DiskIs
  <2>3. PICK r : r = ReadBack(disk, formats)
    OBVIOUS
  <2>4. PICK wanted : wanted = Received(sent)
    OBVIOUS
  <2>5. /\ Readable(disk) /\ r = Back(sent, id, size, formats)
        /\ LoadedText(disk) = IF withText /\ sent.sha1 # Hidden THEN sent.sha1 ELSE Hidden
    BY <2>2, <2>3, ReadsFields
  <2>6. /\ r.flags = Flagged(ContentFlags(sent), id) /\ r.user = sent.user
        /\ r.comment = Normalized(Received(sent).comment)
        /\ r.sha1 = IF sent.sha1 = Hidden THEN <<>> ELSE HashBack(sent.sha1)
        /\ r.model = IF id = 0 THEN Wikitext ELSE formats[id]
        /\ r.size = IF withText \/ sent.sha1 = Hidden THEN 0 ELSE size
    BY <2>5 DEF Back
  <2>7. wanted.flags = ContentFlags(sent) /\ wanted.user = sent.user
    BY <2>4 DEF Received
  <2>8. r.flags \ {"WikitextModelFormat"} = wanted.flags
    BY <2>2, <2>6, <2>7, FlagsTell
  <2>9. \/ r.model = IF kept = Absent THEN sent.model ELSE kept
        \/ r.model = Wikitext /\ TableFull
    <3>1. id # 0 => kept # Absent
      BY <1>1, <2>2, FieldAssumption DEF IInv, FieldsInv, TableIs
    <3>. QED
      BY <2>2, <2>6, <3>1
  <2>10. withText /\ sent.sha1 # Hidden => ValueOf(disk, "Text", Hidden) = sent.sha1
    BY <1>1, <2>5 DEF LoadedText
  <2>. QED
    BY <2>2, <2>3, <2>4, <2>5, <2>6, <2>7, <2>8, <2>9, <2>10
<1>2. IInv => ReadsWhatWasSent
  BY <1>1 DEF ReadsWhatWasSent
<1>. QED
  BY <1>2, FieldsInvariance, PTL

\* Fields that differ in the length of the text alone.
LEMMA SizeApart ==
    ASSUME NEW c \in Contents, NEW id \in Nat, NEW s \in Sizes, NEW t \in Sizes
    PROVE  WithoutSize(Fields(c, id, s)) = WithoutSize(Fields(c, id, t))
<1>1. PICK f, g : f = Fields(c, id, s) /\ g = Fields(c, id, t)
  OBVIOUS
<1>2. PICK flags, comment, textF, textG :
        /\ flags = Flagged(ContentFlags(c), id)
        /\ comment = Normalized(Received(c).comment)
        /\ textF = IF withText THEN Field("Text", c.sha1) ELSE Field("TextLength", s)
        /\ textG = IF withText THEN Field("Text", c.sha1) ELSE Field("TextLength", t)
  OBVIOUS
<1>3. /\ Names(f) = Expected(flags)
      /\ \A x : Member(f, x) <=>
           \/ x = Field("Flags", flags)
           \/ c.user # Hidden /\ x = Field("User", c.user)
           \/ c.comment # Hidden /\ x = Field("Comment", comment)
           \/ id # 0 /\ x = Field("ModelFormatId", id)
           \/ c.sha1 # Hidden /\ (x = Field("Sha1", Raw[c.sha1]) \/ x = textF)
  BY <1>1, <1>2, FieldsAre
<1>4. /\ Names(g) = Expected(flags)
      /\ \A x : Member(g, x) <=>
           \/ x = Field("Flags", flags)
           \/ c.user # Hidden /\ x = Field("User", c.user)
           \/ c.comment # Hidden /\ x = Field("Comment", comment)
           \/ id # 0 /\ x = Field("ModelFormatId", id)
           \/ c.sha1 # Hidden /\ (x = Field("Sha1", Raw[c.sha1]) \/ x = textG)
  BY <1>1, <1>2, FieldsAre
<1>5. PICK n : n = Names(f) /\ n = Names(g)
  BY <1>3, <1>4
<1>6. /\ DOMAIN f = DOMAIN n /\ DOMAIN g = DOMAIN n
      /\ \A i \in DOMAIN n : f[i].name = g[i].name
  BY <1>5 DEF Names
<1>7. \A name, value : Field(name, value).name = name
  BY DEF Field
<1>8. ASSUME NEW x, NEW y, Member(f, x), Member(g, y), x.name = y.name
      PROVE  x = y \/ (x.name = "TextLength" /\ y.name = "TextLength")
  <2>1. \/ x = Field("Flags", flags) \/ x = Field("User", c.user)
        \/ x = Field("Comment", comment) \/ x = Field("ModelFormatId", id)
        \/ x = Field("Sha1", Raw[c.sha1]) \/ x = Field("Text", c.sha1)
        \/ x = Field("TextLength", s)
    BY <1>2, <1>3, <1>8
  <2>2. \/ y = Field("Flags", flags) \/ y = Field("User", c.user)
        \/ y = Field("Comment", comment) \/ y = Field("ModelFormatId", id)
        \/ y = Field("Sha1", Raw[c.sha1]) \/ y = Field("Text", c.sha1)
        \/ y = Field("TextLength", t)
    BY <1>2, <1>4, <1>8
  <2>. QED
    BY <1>7, <1>8, <2>1, <2>2
<1>9. ASSUME NEW i \in DOMAIN n
      PROVE  f[i] = g[i] \/ (f[i].name = "TextLength" /\ g[i].name = "TextLength")
  <2>1. Member(f, f[i]) /\ Member(g, g[i])
    BY <1>6, <1>9 DEF Member
  <2>. QED
    BY <1>6, <1>8, <1>9, <2>1
<1>10. PICK F, G : F = WithoutSize(f) /\ G = WithoutSize(g)
  OBVIOUS
<1>11. /\ F = [i \in DOMAIN n |-> IF f[i].name = "TextLength" THEN "TextLength" ELSE f[i]]
       /\ G = [i \in DOMAIN n |-> IF g[i].name = "TextLength" THEN "TextLength" ELSE g[i]]
  BY <1>6, <1>10 DEF WithoutSize
<1>12. F = G
  BY <1>9, <1>11
<1>. QED
  BY <1>1, <1>10, <1>12

\* CopyHoldsSame holds in every reachable state: once an update is applied,
\* the copy's revision has the fields that the dump's has.
THEOREM CopyKeepsSame == Spec => []CopyHoldsSame
<1>1. ASSUME IInv, writesDiff, records = <<>>, failed = "no", disk # Absent
      PROVE  /\ copyFormats = formats
             /\ copyDisk # Absent
             /\ WithoutSize(copyDisk) = WithoutSize(disk)
             /\ copyDisk = disk \/ resized
  <2>1. PICK id \in Nat, size \in Sizes : \E b :
          DiskIs(id, size) /\ Carries(b) /\ (writesDiff => Turns(b, id, size))
    BY <1>1 DEF IInv, FieldsInv
  <2>2. PICK b : DiskIs(id, size) /\ Carries(b) /\ Turns(b, id, size)
    BY <1>1, <2>1
  <2>3. b = <<>> /\ formats = copyFormats
    BY <1>1, <2>2, TurnsShort, CarriesNothing
  <2>4. sent \in Contents /\ disk = Fields(sent, id, size)
    BY <2>2 DEF DiskIs
  <2>5. HoldsSame(copyDisk, id, size)
    BY <2>2, <2>3 DEF Turns
  <2>6. PICK other \in Sizes :
          /\ copyDisk = Fields(sent, id, other)
          /\ other = size \/ resized \/ sent.sha1 = Hidden
    BY <2>5 DEF HoldsSame
  <2>7. copyDisk # Absent
    BY <2>4, <2>6, ReadsFields
  <2>8. WithoutSize(copyDisk) = WithoutSize(disk)
    BY <2>4, <2>6, SizeApart
  <2>9. copyDisk = disk \/ resized
    BY <2>4, <2>6, SameFields
  <2>. QED
    BY <2>3, <2>7, <2>8, <2>9
<1>2. IInv => CopyHoldsSame
  BY <1>1 DEF CopyHoldsSame
<1>. QED
  BY <1>2, FieldsInvariance, PTL

\* RepetitionIsSilent holds of every step: AddRevision writes nothing for a
\* revision the dump has as it is sent.
THEOREM SilentRepetition == Spec => RepetitionIsSilent
<1>1. ASSUME IInv, NEW c \in Contents, NEW forced \in BOOLEAN, AddRevision(c, forced),
             sent' = sent, disk # Absent, sent.sha1 # <<>>,
             ReadBack(disk, formats).model = sent.model
      PROVE  disk' = disk /\ \A i \in DOMAIN records' :
                records'[i].kind = "change" => records'[i].parts = {}
  <2>1. PICK coming, r, old, text :
          /\ coming = Coming(c) /\ r = coming.rev
          /\ old = ReadBack(disk, formats)
          /\ text = TextOf(old, LoadedText(disk), r, c)
    OBVIOUS
  <2>2. PICK announced, record :
          /\ announced = IF coming.isNew THEN <<ModelRecord(coming.id, c.model)>> ELSE <<>>
          /\ record = IF Same(old, r) /\ ~ forced THEN <<>>
                      ELSE <<ChangeRecord(old, r, coming.id, text)>>
    OBVIOUS
  <2>3. /\ failed = "no" /\ sent' = c
        /\ disk' = IF Same(old, r) THEN disk ELSE Written(r, coming.id, text)
        /\ records' = IF writesDiff THEN announced \o record ELSE <<>>
    BY <1>1, <2>1, <2>2 DEF AddRevision
  <2>4. FieldsInv /\ TableIs(formats) /\ LoadedId(disk) \in Nat
    BY <1>1, <2>3, LoadedIdIs DEF IInv, FieldsInv
  <2>5. PICK was \in Nat, size \in Sizes : DiskIs(was, size)
    BY <1>1, <2>4 DEF FieldsInv
  <2>6. disk = Fields(c, was, size)
    BY <1>1, <2>3, <2>5 DEF DiskIs
  <2>7. LoadedId(disk) = was /\ old = Back(c, was, size, formats)
    BY <2>1, <2>6, ReadsFields
  <2>8. /\ r = Rev(c, coming.id)
        /\ was # 0 => coming.id = was /\ ~ coming.isNew
        /\ was = 0 /\ c.model = Wikitext => coming.id = 0 /\ ~ coming.isNew
    BY <2>1, <2>4, <2>7, ComingIs
  <2>9. /\ old.flags = Flagged(ContentFlags(c), was) /\ old.user = c.user
        /\ old.comment = Normalized(Received(c).comment)
        /\ old.sha1 = IF c.sha1 = Hidden THEN <<>> ELSE HashBack(c.sha1)
        /\ old.model = IF was = 0 THEN Wikitext ELSE formats[was]
    BY <2>7 DEF Back
  <2>10. old.model = c.model
    BY <1>1, <2>1, <2>3
  <2>11. coming.id = was /\ ~ coming.isNew
    BY <2>8, <2>9, <2>10
  <2>12. PICK comment, sha1 :
           /\ comment = Normalized(Received(c).comment)
           /\ sha1 = IF c.sha1 = Hidden THEN <<>> ELSE c.sha1
    OBVIOUS
  <2>13. r = [flags |-> Flagged(ContentFlags(c), was), user |-> c.user, comment |-> comment,
              sha1 |-> sha1, model |-> c.model, size |-> c.size]
    BY <2>8, <2>11, <2>12, RevIs
  <2>14. old.sha1 = sha1
    BY <1>1, <2>3, <2>9, <2>12 DEF HashBack
  <2>15. PICK flags, length :
           /\ flags = Flagged(ContentFlags(c), was)
           /\ length = IF withText \/ c.sha1 = Hidden THEN 0 ELSE size
    OBVIOUS
  <2>16. /\ old = [flags |-> flags, user |-> c.user, comment |-> comment, sha1 |-> sha1,
                   model |-> c.model, size |-> length]
         /\ r = [flags |-> flags, user |-> c.user, comment |-> comment, sha1 |-> sha1,
                 model |-> c.model, size |-> c.size]
    BY <2>7, <2>9, <2>10, <2>12, <2>13, <2>14, <2>15 DEF Back
  <2>17. Same(old, r)
    BY <2>16 DEF Same
  <2>18. PICK change : change = ChangeRecord(old, r, coming.id, text)
    OBVIOUS
  <2>19. change.parts = {}
    <3>1. /\ old.flags = r.flags /\ old.user = r.user /\ old.comment = r.comment
          /\ old.sha1 = r.sha1 /\ old.model = r.model
      BY <2>16
    <3>2. \A flag : ~ ShownAgain(old, r, flag)
      BY <3>1 DEF ShownAgain
    <3>3. ChangedParts(old, r) = {}
      BY <3>1, <3>2 DEF ChangedParts
    <3>. QED
      BY <2>18, <3>3 DEF ChangeRecord
  <2>20. records' = <<>> \/ records' = <<change>>
    BY <2>2, <2>3, <2>11, <2>18, RecordsShort
  <2>21. \A i \in DOMAIN records' : records'[i] = change
    BY <2>20
  <2>. QED
    BY <2>3, <2>17, <2>19, <2>21
<1>2. ASSUME NEW model \in Models, AddOther(model)
      PROVE  disk' = disk /\ \A i \in DOMAIN records' :
                records = <<>> => records'[i].kind # "change"
  <2>1. PICK record : record = ModelRecord(IdFor(formats, model).id, model)
    OBVIOUS
  <2>2. record.kind = "model"
    BY <2>1 DEF ModelRecord
  <2>3. disk' = disk /\ records = <<>> /\ (records' = <<record>> \/ records' = <<>>)
    BY <1>2, <2>1 DEF AddOther
  <2>4. \A i \in DOMAIN records' : records'[i] = record
    BY <2>3
  <2>. QED
    BY <2>2, <2>3, <2>4
<1>3. IInv /\ [Next]_vars =>
        (sent' = sent /\ disk # Absent /\ records = <<>> /\ failed' = "no" =>
           \/ disk' = disk /\ \A i \in DOMAIN records' :
                   records'[i].kind = "change" => records'[i].parts = {}
           \/ sent.sha1 = <<>>
           \/ ReadBack(disk, formats).model # sent.model)
  <2>1. SUFFICES ASSUME IInv, [Next]_vars, sent' = sent, disk # Absent, records = <<>>,
                        failed' = "no", sent.sha1 # <<>>,
                        ReadBack(disk, formats).model = sent.model
                 PROVE  disk' = disk /\ \A i \in DOMAIN records' :
                           records'[i].kind = "change" => records'[i].parts = {}
    OBVIOUS
  <2>2. ASSUME NEW c \in Contents, NEW forced \in BOOLEAN, AddRevision(c, forced)
        PROVE  disk' = disk /\ \A i \in DOMAIN records' :
                  records'[i].kind = "change" => records'[i].parts = {}
    BY <1>1, <2>1, <2>2
  <2>3. ASSUME NEW c \in Contents, AddRevisionThrows(c)
        PROVE  FALSE
    BY <2>1, <2>3 DEF AddRevisionThrows
  <2>4. ASSUME NEW model \in Models, AddOther(model)
        PROVE  disk' = disk /\ \A i \in DOMAIN records' :
                  records'[i].kind = "change" => records'[i].parts = {}
    BY <1>2, <2>1, <2>4
  <2>5. ~ ApplyModel /\ ~ ApplyNew /\ ~ ApplyChange
    BY <2>1 DEF ApplyModel, ApplyNew, ApplyChange, Applying
  <2>6. CASE UNCHANGED vars
    BY <2>1, <2>6 DEF vars, dumpVars
  <2>. QED
    BY <2>1, <2>2, <2>3, <2>4, <2>5, <2>6 DEF Next
<1>4. Spec => [][IInv /\ [Next]_vars]_vars
  BY FieldsInvariance, PTL DEF Spec
<1>. QED
  BY <1>3, <1>4, FieldsInvariance, PTL DEF Spec, RepetitionIsSilent
==============================================================================
