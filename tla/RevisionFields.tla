--------------------------- MODULE RevisionFields ----------------------------
(***************************************************************************)
(* The fields of one revision on their way from the wiki into the dump and *)
(* through the diff dump into a copy: which fields are written at all, how *)
(* they are read back, what an update records of them and what the record  *)
(* does to the copy.  With them the table of content models and formats,   *)
(* whose ids are one byte.  Where the revision lies in the file is the     *)
(* subject of DumpStore, where its text lies that of TextGroups.           *)
(*                                                                         *)
(* On disk a revision is a sequence of named fields; the reader knows from *)
(* the flags alone which fields to expect.                                 *)
(***************************************************************************)
EXTENDS BaseConvert, FiniteSets, FiniteSetsExt

CONSTANTS
    Contents,       \* what the wiki may say of the revision, see Content
    Models,         \* pairs of model and format other than wikitext
    Users,          \* records [kind, name]
    Comments,       \* records [len, tail]
    Hashes,         \* SHA-1s of texts, as the wiki sends them
    Sizes,          \* text lengths ("bytes" of a stub)
    Wikitext,       \* the pair Dump::WikitextModel, Dump::WikitextFormat
    Hidden, Absent, \* a deleted field; a revision the dump does not have
    IdLimit,        \* 256: ids of models are one byte
    CommentLimit    \* 255: lengths of strings are one byte

\* What XmlRevisionProcessor can read: every field may be deleted, the user's
\* kind is among the flags, and the SHA-1 is empty if the text is deleted or
\* the wiki has not computed it.
Content == [user : Users \cup {Hidden}, comment : Comments \cup {Hidden},
            sha1 : Hashes \cup {<<>>, Hidden}, model : Models \cup {Wikitext},
            size : Sizes]

ASSUME FieldAssumption ==
    /\ Contents \subseteq Content
    /\ Wikitext \notin Models
    /\ \A h \in Hashes : h \in Seq(0 .. TextBase - 1) /\ Len(h) = TextLength /\ Fits(h)
    /\ \A u \in Users : u.kind \in {"NamedUser", "IpV4User", "IpV6User"}
    /\ Comments \subseteq [len : Nat, tail : {"", "FFFD", "FFFD.."}]
    /\ Hidden \notin Users /\ Hidden \notin Comments /\ Hidden \notin Hashes /\ Hidden # <<>>
    /\ Absent \notin Contents /\ Absent \notin Models
    /\ IdLimit \in Nat \ {0, 1} /\ CommentLimit \in Nat

VARIABLES
    withText,       \* IsPages(fileHeader.Kind): the dump has texts, not lengths
    writesDiff,     \* the updates have a diff writer
    sent,           \* what the wiki last said of the revision
    kept,           \* history: the first model for which the revision got an id
    resized,        \* history: a length changed while the SHA-1 stayed
    disk,           \* the revision in the dump: fields, or Absent
    formats,        \* modelFormatIndex of the dump: id -> pair
    records,        \* changes in the diff dump that are not applied yet
    copyDisk,       \* the same in the copy
    copyFormats,
    failed          \* "no", "update" or "apply": an exception

dumpVars == <<disk, formats>>
copyVars == <<copyDisk, copyFormats>>
modeVars == <<withText, writesDiff>>
vars == <<modeVars, sent, kept, resized, dumpVars, records, copyVars, failed>>

------------------------------------------------------------------------------
(* Revisions in memory *)

ContentFlags(c) ==
    (IF c.user = Hidden THEN {"ContributorDeleted"} ELSE {c.user.kind})
    \cup (IF c.comment = Hidden THEN {"CommentDeleted"} ELSE {})
    \cup (IF c.sha1 = Hidden THEN {"TextDeleted"} ELSE {})

\* A Revision object; fields that are not set have the value of its
\* constructor (which leaves TextLength uninitialized where it is not read).
Unset == [len |-> 0, tail |-> ""]
Received(c) ==
    [flags |-> ContentFlags(c), user |-> c.user,
     comment |-> IF c.comment = Hidden THEN Unset ELSE c.comment,
     sha1 |-> IF c.sha1 = Hidden THEN <<>> ELSE c.sha1,
     model |-> c.model, size |-> c.size]

\* NormalizeComment: a character that the wiki put in the place of a cut one
\* may take a comment over the limit.
IsCut(comment) == comment.len > CommentLimit
Erased(tail) == CASE tail = "FFFD" -> 3 [] tail = "FFFD.." -> 1 [] OTHER -> 0

\* Mutant: the same is erased from both.
NormalizedShort(comment) ==
    IF IsCut(comment) THEN [len |-> comment.len - 1, tail |-> ""] ELSE comment

Normalized(comment) ==
    IF ~ IsCut(comment) THEN comment
    ELSE [len |-> comment.len - Erased(comment.tail), tail |-> ""]

\* It throws if the end is anything else, and writing the string throws if it
\* is still too long.
CommentFits(comment) ==
    /\ IsCut(comment) => comment.tail # ""
    /\ Normalized(comment).len <= CommentLimit

(* Revisions on disk *)

\* The SHA-1s that occur, as bytes and back: an empty one comes back as zeros.
Zeros == [i \in 1 .. TextLength |-> 0]
Raw == [hash \in Hashes \cup {<<>>, Zeros} |-> ToRaw(hash)]
Sha1Of == [bytes \in {Raw[hash] : hash \in DOMAIN Raw} |-> FromRaw(bytes)]

\* A hash comes back as it was, and none is all zeros.
ASSUME ConversionAssumption ==
    /\ \A hash \in Hashes : FromRaw(ToRaw(hash)) = hash
    /\ \A hash \in {<<>>, Zeros} : FromRaw(ToRaw(hash)) = Zeros
    /\ \A hash \in DOMAIN Raw : ToRaw(hash) # Hidden
    /\ Zeros \notin Hashes

Field(name, value) == [name |-> name, value |-> value]
Opt(condition, field) == IF condition THEN <<field>> ELSE <<>>

\* Mutant: the id is always written.
HasIdAlways(id) == TRUE

HasId(id) == id # 0

\* WriteCore, and the place of the text, given by the text that is there.
Written(r, id, text) ==
    <<Field("Flags", r.flags)>>
    \o Opt("ContributorDeleted" \notin r.flags, Field("User", r.user))
    \o Opt("CommentDeleted" \notin r.flags, Field("Comment", r.comment))
    \o Opt(HasId(id), Field("ModelFormatId", id))
    \o IF "TextDeleted" \in r.flags THEN <<>>
       ELSE <<Field("Sha1", Raw[r.sha1]),
              IF withText THEN Field("Text", text) ELSE Field("TextLength", r.size)>>

\* The fields that ReadCore and Read expect after these flags.
Expected(flags) ==
    <<"Flags">>
    \o Opt("ContributorDeleted" \notin flags, "User")
    \o Opt("CommentDeleted" \notin flags, "Comment")
    \o Opt("WikitextModelFormat" \notin flags, "ModelFormatId")
    \o IF "TextDeleted" \in flags THEN <<>>
       ELSE <<"Sha1", IF withText THEN "Text" ELSE "TextLength">>

\* The fields are where they are looked for, and the user is of the kind the
\* flags say.
Readable(fields) ==
    LET flags == fields[1].value
    IN  /\ [i \in DOMAIN fields |-> fields[i].name] = Expected(flags)
        /\ \A i \in DOMAIN fields :
            fields[i].name = "User" => fields[i].value.kind \in flags

ValueOf(fields, name, default) ==
    IF \E i \in DOMAIN fields : fields[i].name = name
      THEN fields[CHOOSE i \in DOMAIN fields : fields[i].name = name].value
      ELSE default

\* DumpRevision::Read, for fields that are readable.
ReadBack(fields, table) ==
    LET flags == fields[1].value
        id == ValueOf(fields, "ModelFormatId", 0)
        raw == ValueOf(fields, "Sha1", Hidden)
    IN  [flags |-> flags,
         user |-> ValueOf(fields, "User", Hidden),
         comment |-> ValueOf(fields, "Comment", Unset),
         sha1 |-> IF raw = Hidden THEN <<>> ELSE Sha1Of[raw],
         model |-> IF id = 0 THEN Wikitext ELSE table[id],
         size |-> ValueOf(fields, "TextLength", 0)]

\* The operator == of Revision: neither the length nor the text counts.
Same(r, s) == [r EXCEPT !.size = 0] = [s EXCEPT !.size = 0]

(* Ids of models *)

IdsOf(table, model) == {id \in DOMAIN table : table[id] = model}

\* Mutant: the id is not cut to a byte.
NewIdWide(table) == IF DOMAIN table = {} THEN 1 ELSE Max(DOMAIN table) + 1

\* getNewId: one more than the greatest, in a byte.
NewId(table) == IF DOMAIN table = {} THEN 1 ELSE (Max(DOMAIN table) + 1) % IdLimit

\* modelFormatIndex->Add keeps an entry that exists.
Added(table, id, model) ==
    [i \in DOMAIN table \cup {id} |-> IF i \in DOMAIN table THEN table[i] ELSE model]

\* GetIdForModelFormat: no id for wikitext, the one the pair has, or a new one.
IdFor(table, model) ==
    IF model = Wikitext THEN [id |-> 0, isNew |-> FALSE]
    ELSE IF IdsOf(table, model) # {}
      THEN [id |-> CHOOSE i \in IdsOf(table, model) : TRUE, isNew |-> FALSE]
      ELSE [id |-> NewId(table), isNew |-> TRUE]

\* GetModelFormatId: a revision that was loaded with an id keeps it, whatever
\* its model is now; so does one that is flagged as wikitext.
IdKept(loaded, flags, table, model) ==
    IF loaded # 0 \/ "WikitextModelFormat" \in flags
      THEN [id |-> loaded, isNew |-> FALSE] ELSE IdFor(table, model)

\* "if (modelFormatId == 0) revision.Flags |= WikitextModelFormat".
Flagged(flags, id) == IF id = 0 THEN flags \cup {"WikitextModelFormat"} ELSE flags

LoadedId(fields) == IF fields = Absent THEN 0 ELSE ValueOf(fields, "ModelFormatId", 0)
LoadedText(fields) == IF fields = Absent THEN Hidden ELSE ValueOf(fields, "Text", Hidden)

Values ==
    (SUBSET {"ContributorDeleted", "CommentDeleted", "TextDeleted", "WikitextModelFormat",
             "NamedUser", "IpV4User", "IpV6User"})
    \cup Users \cup [len : Int, tail : {"", "FFFD", "FFFD.."}] \cup Nat \cup Sizes
    \cup Hashes \cup {<<>>} \cup {Raw[hash] : hash \in DOMAIN Raw}

FieldSet ==
    [name : {"Flags", "User", "Comment", "ModelFormatId", "Sha1", "Text", "TextLength"},
     value : Values]

\* No revision on disk is Absent.
ASSUME FieldsAssumption == Absent \notin Seq(FieldSet)

------------------------------------------------------------------------------
Init ==
    /\ withText \in BOOLEAN /\ writesDiff \in BOOLEAN
    /\ sent = Absent /\ kept = Absent /\ resized = FALSE
    /\ disk = Absent /\ formats = [i \in {} |-> Wikitext]
    /\ records = <<>>
    /\ copyDisk = Absent /\ copyFormats = formats
    /\ failed = "no"

\* Mutant: what is shown is recorded whether it was hidden before or not.
ShownAgainAlways(old, r, flag) == flag \notin r.flags

\* flagChangedToUnset.
ShownAgain(old, r, flag) == flag \in old.flags /\ flag \notin r.flags

\* The constructor of RevisionChange: the parts a record has.
ChangedParts(old, r) ==
    LET user == "ContributorDeleted" \notin r.flags
                /\ (ShownAgain(old, r, "ContributorDeleted") \/ old.user # r.user)
    IN  (IF old.flags # r.flags \/ user THEN {"Flags"} ELSE {})
        \cup (IF user THEN {"User"} ELSE {})
        \cup (IF /\ "CommentDeleted" \notin r.flags
                 /\ ShownAgain(old, r, "CommentDeleted") \/ old.comment # r.comment
                THEN {"Comment"} ELSE {})
        \cup (IF /\ "TextDeleted" \notin r.flags
                 /\ ShownAgain(old, r, "TextDeleted") \/ old.sha1 # r.sha1
                THEN {"Text"} ELSE {})
        \cup (IF old.model # r.model THEN {"ModelFormat"} ELSE {})

\* WriteInternal adds the text when there is none yet or the SHA-1 differs.
TextOf(old, loaded, r, c) ==
    IF "TextDeleted" \in r.flags THEN Hidden
    ELSE IF loaded = Hidden \/ old.sha1 # r.sha1 THEN c.sha1 ELSE loaded

ChangeRecord(old, r, id, text) ==
    [kind |-> "change", parts |-> ChangedParts(old, r), rev |-> r, id |-> id, text |-> text]
NewRecord(fields) == [kind |-> "new", fields |-> fields]
ModelRecord(id, model) == [kind |-> "model", id |-> id, model |-> model]

\* The revision and the id that AddRevision is going to write.
Coming(c) ==
    LET r == Received(c)
        got == IdKept(LoadedId(disk), r.flags, formats, c.model)
    IN  [rev |-> [r EXCEPT !.comment = Normalized(@), !.flags = Flagged(@, got.id)],
         id |-> got.id, isNew |-> got.isNew]

\* NormalizeComment or the writing of the comment throws, or NewModelFormat
\* does: it refuses the id 0.
Refused(c) ==
    \/ ~ CommentFits(Received(c).comment)
    \/ writesDiff /\ Coming(c).isNew /\ Coming(c).id = 0

\* DumpWriter::AddRevision and DumpRevision::Write.  forced: the revision is
\* new to its page although the dump has it.
AddRevision(c, forced) ==
    LET coming == Coming(c)
        r == coming.rev
        old == IF disk = Absent THEN r ELSE ReadBack(disk, formats)
        text == TextOf(old, LoadedText(disk), r, c)
        unchanged == disk # Absent /\ Same(old, r)
        announced == IF coming.isNew THEN <<ModelRecord(coming.id, c.model)>> ELSE <<>>
        record == IF disk = Absent THEN <<NewRecord(Written(r, coming.id, text))>>
                  ELSE IF unchanged /\ ~ forced THEN <<>>
                  ELSE <<ChangeRecord(old, r, coming.id, text)>>
    IN  /\ failed = "no" /\ records = <<>>
        /\ ~ Refused(c)
        /\ disk # Absent => Readable(disk)
        /\ formats' = IF coming.isNew THEN Added(formats, coming.id, c.model) ELSE formats
        /\ disk' = IF unchanged THEN disk ELSE Written(r, coming.id, text)
        /\ records' = IF writesDiff THEN announced \o record ELSE <<>>
        /\ sent' = c
        /\ kept' = IF kept = Absent /\ coming.id # 0 THEN c.model ELSE kept
        /\ resized' = /\ sent # Absent
                      /\ "Text" \notin ChangedParts(old, r)
                      /\ resized \/ c.size # sent.size
        /\ UNCHANGED <<modeVars, copyVars, failed>>

AddRevisionThrows(c) ==
    /\ failed = "no" /\ records = <<>>
    /\ Refused(c)
    /\ failed' = "update"
    /\ sent' = c
    /\ UNCHANGED <<modeVars, kept, resized, dumpVars, records, copyVars>>

\* Another revision, new to the dump, of which only the model matters here.
AddOther(model) ==
    LET got == IdFor(formats, model)
    IN  /\ failed = "no" /\ records = <<>>
        /\ got.isNew
        /\ IF writesDiff /\ got.id = 0
             THEN failed' = "update" /\ UNCHANGED <<formats, records>>
             ELSE /\ formats' = Added(formats, got.id, model)
                  /\ records' = IF writesDiff THEN <<ModelRecord(got.id, model)>> ELSE <<>>
                  /\ UNCHANGED failed
        /\ UNCHANGED <<modeVars, sent, kept, resized, disk, copyVars>>

------------------------------------------------------------------------------
(* ChangeProcessor *)

Applying(kind) == failed = "no" /\ records # <<>> /\ Head(records).kind = kind

ApplyModel ==
    LET change == Head(records)
    IN  /\ Applying("model")
        /\ copyFormats' = Added(copyFormats, change.id, change.model)
        /\ records' = Tail(records)
        /\ UNCHANGED <<modeVars, sent, kept, resized, dumpVars, copyDisk, failed>>

\* Process(NewRevisionChange): the fields are read from the record and written
\* to the copy, the text is the one that was imported.
ApplyNew ==
    LET change == Head(records)
    IN  /\ Applying("new")
        /\ IF Readable(change.fields)
             THEN copyDisk' = change.fields /\ UNCHANGED failed
             ELSE failed' = "apply" /\ UNCHANGED copyDisk
        /\ records' = Tail(records)
        /\ UNCHANGED <<modeVars, sent, kept, resized, dumpVars, copyFormats>>

\* Mutant: the id of the model is not taken over.
IdOfChangeLoaded(change) == LoadedId(copyDisk)

IdOfChange(change) ==
    IF "ModelFormat" \in change.parts THEN change.id ELSE LoadedId(copyDisk)

\* The revision of the copy with the parts of the record.  Its model is not
\* among them: only the id is.
Patched(old, change) ==
    LET new == change.rev
        Has(part) == part \in change.parts
    IN  [flags |-> IF Has("Flags") THEN new.flags ELSE old.flags,
         user |-> IF Has("User") THEN new.user ELSE old.user,
         comment |-> IF Has("Comment") THEN new.comment ELSE old.comment,
         sha1 |-> IF Has("Text") THEN new.sha1 ELSE old.sha1,
         model |-> old.model,
         size |-> IF Has("Text") /\ ~ withText THEN new.size ELSE old.size]

\* Process(RevisionChange).  The user in the record is read according to the
\* flags in it; a text that is neither in the copy nor in the record cannot
\* be written.
ApplyChange ==
    LET change == Head(records)
        old == ReadBack(copyDisk, copyFormats)
        patched == Patched(old, change)
        got == IdKept(IdOfChange(change), patched.flags, copyFormats, patched.model)
        r == [patched EXCEPT !.flags = IF got.id = 0 THEN Flagged(@, 0) ELSE @]
        text == IF "Text" \in change.parts THEN change.text ELSE LoadedText(copyDisk)
        misread == "User" \in change.parts /\ r.user.kind \notin change.rev.flags
        textless == /\ withText /\ "TextDeleted" \notin r.flags
                    /\ "Text" \notin change.parts /\ text = Hidden
    IN  /\ Applying("change")
        /\ Readable(copyDisk)
        /\ IF misread \/ textless THEN failed' = "apply" /\ UNCHANGED copyVars
           ELSE /\ copyDisk' = IF Same(old, r) THEN copyDisk ELSE Written(r, got.id, text)
                /\ copyFormats' = IF got.isNew THEN Added(copyFormats, got.id, r.model)
                                  ELSE copyFormats
                /\ UNCHANGED failed
        /\ records' = Tail(records)
        /\ UNCHANGED <<modeVars, sent, kept, resized, dumpVars>>

Next ==
    \/ \E c \in Contents :
        \/ \E forced \in BOOLEAN : AddRevision(c, forced)
        \/ AddRevisionThrows(c)
    \/ \E model \in Models : AddOther(model)
    \/ ApplyModel
    \/ ApplyNew
    \/ ApplyChange

Spec == Init /\ [][Next]_vars

------------------------------------------------------------------------------
TypeOK ==
    /\ sent \in Contents \cup {Absent}
    /\ kept \in Models \cup {Absent}
    /\ DOMAIN formats \subseteq 0 .. IdLimit - 1
    /\ DOMAIN copyFormats \subseteq 0 .. IdLimit - 1
    /\ Len(records) <= 2
    /\ failed \in {"no", "update", "apply"}

\* The SHA-1 as it comes back.
HashBack(hash) == IF hash = <<>> THEN Zeros ELSE hash

\* The table of models has no id left: the greatest id is followed by 0.
TableFull == IdLimit - 1 \in DOMAIN formats

\* What a reader of the dump gets is what the wiki said last, however the
\* fields of the revision were hidden, shown and changed before: every field
\* is found where the flags say, and has its value.  Except that a revision
\* keeps the id of the first model other than wikitext it had in the dump,
\* that a model for which no id is left is read as wikitext, and that the
\* length of a text is renewed only together with another field.
ReadsWhatWasSent ==
    disk # Absent /\ failed = "no" =>
        LET r == ReadBack(disk, formats)
            wanted == Received(sent)
        IN  /\ Readable(disk)
            /\ r.flags \ {"WikitextModelFormat"} = wanted.flags
            /\ r.user = wanted.user
            /\ r.comment = Normalized(wanted.comment)
            /\ sent.sha1 # Hidden => r.sha1 = HashBack(sent.sha1)
            /\ \/ r.model = IF kept = Absent THEN sent.model ELSE kept
               \/ r.model = Wikitext /\ TableFull
            /\ withText /\ sent.sha1 # Hidden =>
                ValueOf(disk, "Text", Hidden) = sent.sha1
            /\ ~ withText /\ sent.sha1 # Hidden => r.size = sent.size \/ resized

\* Once the records are applied, the copy holds the very fields of the dump
\* and gives every id the same meaning; only a length that changed without
\* the SHA-1 may be another.
WithoutSize(fields) ==
    [i \in DOMAIN fields |-> IF fields[i].name = "TextLength" THEN "TextLength" ELSE fields[i]]
CopyHoldsSame ==
    writesDiff /\ records = <<>> /\ failed = "no" /\ disk # Absent =>
        /\ copyFormats = formats
        /\ copyDisk # Absent
        /\ WithoutSize(copyDisk) = WithoutSize(disk)
        /\ copyDisk = disk \/ resized

\* Saying the same again changes nothing and records nothing, unless the
\* revision is new to its page, its SHA-1 is unknown or its model is not the
\* one in the dump.
RepetitionIsSilent ==
    [][sent' = sent /\ disk # Absent /\ records = <<>> /\ failed' = "no" =>
        \/ disk' = disk /\ \A i \in DOMAIN records' :
                records'[i].kind = "change" => records'[i].parts = {}
        \/ sent.sha1 = <<>>
        \/ ReadBack(disk, formats).model # sent.model]_vars

\* An update fails only because of a comment that is too long even without
\* the character that the wiki put in, or, if it writes a diff dump, because
\* there is no id left; applying its records never fails.
FailsForCause ==
    /\ failed # "apply"
    /\ failed = "update" =>
        \/ /\ sent # Absent /\ sent.comment # Hidden
           /\ sent.comment.len - Erased(sent.comment.tail) > CommentLimit
        \/ writesDiff /\ TableFull
==============================================================================
