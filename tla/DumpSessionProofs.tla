--------------------------- MODULE DumpSessionProofs ---------------------------
(***************************************************************************)
(* Proofs about DumpSession, for any number of dumps, diff dumps, wikis,   *)
(* kinds, moments and files of one command: a dump that nothing has made   *)
(* doubtful holds what it says, and a command that is refused changes no   *)
(* dump.                                                                   *)
(***************************************************************************)
EXTENDS DumpSession, TLAPS

Contents == [name : Names \cup {None}, time : Nat, kind : Kinds \cup {None}]
                \cup {None, Broken}
FileType == [name : Names \cup {None}, time : Nat, kind : Kinds \cup {None}, contents : Contents]
DiffType == [name : Names \cup {None}, from : Nat, to : Nat, kind : Kinds \cup {None},
             base : Contents, result : Contents, complete : BOOLEAN, sound : BOOLEAN]
SpecType == [file : Files, kind : Kinds \cup {None}, diff : Diffs \cup {None}]

\* A dump without a timestamp has never been written; any other holds what it
\* says.
Good(file) ==
    IF file.time = 0
      THEN file = NoFile \/ (file.name = None /\ file.contents = Nothing)
      ELSE /\ file.name \in Names
           /\ file.contents = Holds(file.name, file.time, file.kind)

\* A diff dump of a dump that was not doubtful leads from one complete dump
\* of its wiki to another.
GoodDiff(d) ==
    d.sound =>
        /\ d.complete /\ d.name \in Names /\ d.to # 0
        /\ d.result = Holds(d.name, d.to, d.kind)
        /\ d.from # 0 => d.base = Holds(d.name, d.from, d.kind)

Positions == 1 .. Len(command.specs)
FileAt(j) == command.specs[j].file
Before(j) == command.before[FileAt(j)]

\* How far the command has come with its j-th file.
Ahead(j) == command.step = "create" /\ j >= command.i
Under(j) == \/ command.step = "siteinfo" /\ j < command.i
            \/ command.step = "pages"
            \/ command.step = "complete" /\ j >= command.i
Behind(j) == command.step = "complete" /\ j < command.i

\* The dump is as it was; one that did not exist is new and empty.
KeptAs(file, before) ==
    IF before # NoFile THEN file = before
    ELSE \E kind \in Kinds : file = DumpFile(None, 0, kind, Nothing)
Kept(j) == KeptAs(files[FileAt(j)], Before(j))

\* The dump has its new name and timestamp, and the diff dump its header.
Started(j) ==
    LET file == files[FileAt(j)]
        d    == diffs[command.specs[j].diff]
        sure == FileAt(j) \notin doubtful /\ Before(j).time # 0
    IN  /\ file.name = command.name /\ file.time = now
        /\ sure => file.kind = Before(j).kind /\ Before(j).name = command.name
        /\ command.specs[j].diff # None =>
            /\ d.name = command.name /\ d.from = Before(j).time /\ d.to = now
            /\ d.kind = file.kind
            /\ sure => d.base = Before(j).contents

IsCommand ==
    /\ command = [op |-> command.op, name |-> command.name, specs |-> command.specs,
                  step |-> command.step, i |-> command.i, fresh |-> command.fresh,
                  before |-> command.before]
    /\ command.op \in {"update", "apply"}
    /\ command.specs \in Seq(SpecType) /\ command.i \in Positions
    /\ command.before \in [Files -> FileType]
    /\ \A f \in Files \ {FileAt(j) : j \in Positions} : files[f] = command.before[f]
    /\ \A f \in Files \ doubtful : Good(command.before[f])

IsUpdate ==
    /\ command.step \in {"create", "kind", "siteinfo", "pages", "complete"}
    /\ command.name \in Names
    /\ \A j \in Positions : command.specs[j].kind \in Kinds
    /\ \A j, k \in Positions : j # k =>
        /\ FileAt(j) # FileAt(k)
        /\ command.specs[j].diff # None => command.specs[j].diff # command.specs[k].diff
    /\ \A j \in Positions : FileAt(j) \in command.fresh => Before(j) = NoFile
    /\ \A j \in Positions :
        /\ Ahead(j) => files[FileAt(j)] = Before(j)
        /\ ~ Ahead(j) /\ ~ Under(j) /\ ~ Behind(j) =>
            Kept(j) /\ files[FileAt(j)].name \in {command.name, None}
        /\ Under(j) => Started(j)
        /\ Behind(j) /\ FileAt(j) \notin doubtful => Good(files[FileAt(j)])

IsApply ==
    LET f    == FileAt(1)
        file == files[f]
        d    == diffs[command.specs[1].diff]
    IN  /\ Len(command.specs) = 1 /\ command.specs[1].diff \in Diffs
        /\ command.step \in {"create", "siteinfo", "pages", "complete"}
        /\ command.step = "create" => file = Before(1)
        /\ command.step = "siteinfo" => Kept(1)
        /\ command.step \in {"pages", "complete"} /\ f \notin doubtful =>
            /\ d.sound
            /\ file.name = d.name /\ file.time = d.to /\ file.kind = d.kind
            /\ Before(1).name = d.name /\ Before(1).time = d.from /\ Before(1).kind = d.kind

Types ==
    /\ files \in [Files -> FileType]
    /\ diffs \in [Diffs -> DiffType]
    /\ now \in Nat \ {0}

IInv ==
    /\ Types
    /\ \A d \in Diffs : GoodDiff(diffs[d])
    /\ Idle => \A f \in Files \ doubtful : Good(files[f])
    /\ ~ Idle => /\ IsCommand
                 /\ command.op = "update" => IsUpdate
                 /\ command.op = "apply" => IsApply

------------------------------------------------------------------------------
(* Commands. *)

\* The next file of a command, or its next step.
LEMMA AdvancedFacts ==
    ASSUME IsCommand, NEW step, step # "ended"
    PROVE  LET e == Advanced(step)
           IN  /\ e = [op |-> command.op, name |-> command.name, specs |-> command.specs,
                       step |-> e.step, i |-> e.i, fresh |-> command.fresh,
                       before |-> command.before]
               /\ e.i \in Positions
               /\ \/ command.i < Len(command.specs) /\ e.i = command.i + 1
                        /\ e.step = command.step
                  \/ command.i = Len(command.specs) /\ e.i = 1 /\ e.step = step
<1>1. /\ Len(command.specs) \in Nat /\ command.i \in 1 .. Len(command.specs)
      /\ command = [op |-> command.op, name |-> command.name, specs |-> command.specs,
                    step |-> command.step, i |-> command.i, fresh |-> command.fresh,
                    before |-> command.before]
  BY DEF IsCommand, Positions
<1>2. CASE command.i < Len(command.specs)
  <2>1. Advanced(step)
          = [op |-> command.op, name |-> command.name, specs |-> command.specs,
             step |-> command.step, i |-> command.i + 1, fresh |-> command.fresh,
             before |-> command.before]
    BY <1>1, <1>2 DEF Advanced
  <2>. QED
    BY <1>1, <1>2, <2>1 DEF Positions
<1>3. CASE ~ (command.i < Len(command.specs))
  <2>1. Advanced(step)
          = [op |-> command.op, name |-> command.name, specs |-> command.specs,
             step |-> step, i |-> 1, fresh |-> command.fresh,
             before |-> command.before]
    BY <1>1, <1>3 DEF Advanced
  <2>. QED
    BY <1>1, <1>3, <2>1 DEF Positions
<1>. QED
  BY <1>2, <1>3

\* The last file has had the last step.
LEMMA EndedFacts ==
    ASSUME IsCommand
    PROVE  \/ /\ command.i = Len(command.specs) /\ Advanced("ended") = NoCommand
           \/ /\ command.i < Len(command.specs)
              /\ Advanced("ended")
                    = [op |-> command.op, name |-> command.name, specs |-> command.specs,
                       step |-> command.step, i |-> command.i + 1, fresh |-> command.fresh,
                       before |-> command.before]
              /\ command.i + 1 \in Positions
<1>1. /\ Len(command.specs) \in Nat /\ command.i \in 1 .. Len(command.specs)
      /\ command = [op |-> command.op, name |-> command.name, specs |-> command.specs,
                    step |-> command.step, i |-> command.i, fresh |-> command.fresh,
                    before |-> command.before]
  BY DEF IsCommand, Positions
<1>. QED
  BY <1>1 DEF Advanced, Positions

\* Between commands there is none.
LEMMA IdleFacts ==
    /\ NoCommand.op = None /\ Refused.op = None /\ Refused # NoCommand
    /\ None # "update" /\ None # "apply"
BY SessionAssumption DEF NoCommand, Refused

\* The file that a command is at.
LEMMA HereFacts ==
    ASSUME Types, IsCommand
    PROVE  /\ command.i \in Positions /\ Spec1 = command.specs[command.i]
           /\ Spec1 \in SpecType
           /\ \A j \in Positions : /\ j \in Nat /\ command.specs[j] \in SpecType
                                   /\ FileAt(j) \in Files /\ Before(j) \in FileType
           /\ FileAt(command.i) = Spec1.file /\ Before(command.i) = Was
<1>1. /\ command.specs \in Seq(SpecType) /\ Len(command.specs) \in Nat
      /\ command.i \in 1 .. Len(command.specs)
  BY DEF IsCommand, Positions
<1>2. \A j \in Positions : command.specs[j] \in SpecType
  BY <1>1 DEF Positions
<1>. QED
  BY <1>1, <1>2 DEF IsCommand, Spec1, Was, FileAt, Before, Positions, SpecType

\* A dump that is as it was is as good as it was.
LEMMA KeptIsGood ==
    ASSUME NEW file, NEW before, KeptAs(file, before), Good(before)
    PROVE  Good(file)
<1>1. CASE before # NoFile
  BY <1>1 DEF KeptAs
<1>2. CASE before = NoFile
  BY <1>2 DEF KeptAs, Good, DumpFile
<1>. QED
  BY <1>1, <1>2

\* When a command has ended, the dumps it had nothing to do with are as good
\* as they were.
LEMMA OthersAreGood ==
    ASSUME IsCommand, NEW fs, NEW S, doubtful \subseteq S,
           \A f \in Files : f \notin {FileAt(j) : j \in Positions} => fs[f] = files[f],
           \A j \in Positions : FileAt(j) \notin S => Good(fs[FileAt(j)])
    PROVE  \A f \in Files \ S : Good(fs[f])
<1>. SUFFICES ASSUME NEW f \in Files \ S
              PROVE  Good(fs[f])
  OBVIOUS
<1>1. CASE f \in {FileAt(j) : j \in Positions}
  BY <1>1
<1>2. CASE f \notin {FileAt(j) : j \in Positions}
  <2>1. fs[f] = command.before[f]
    BY <1>2 DEF IsCommand
  <2>. QED
    BY <2>1 DEF IsCommand
<1>. QED
  BY <1>1, <1>2

\* What goes on with the same command keeps its shape.
LEMMA StillCommand ==
    ASSUME Types, IsCommand, doubtful \subseteq doubtful',
           command' = [op |-> command.op, name |-> command.name, specs |-> command.specs,
                       step |-> command'.step, i |-> command'.i, fresh |-> command'.fresh,
                       before |-> command.before],
           command'.i \in Positions,
           \A f \in Files : f # Spec1.file => files'[f] = files[f]
    PROVE  /\ IsCommand' /\ Positions' = Positions
           /\ \A j : FileAt(j)' = FileAt(j) /\ Before(j)' = Before(j)
           /\ command'.op = command.op /\ command'.name = command.name
           /\ command'.specs = command.specs /\ command'.before = command.before
<1>1. /\ command'.op = command.op /\ command'.name = command.name
      /\ command'.specs = command.specs /\ command'.before = command.before
  OBVIOUS
<1>2. Positions' = Positions /\ \A j : FileAt(j)' = FileAt(j) /\ Before(j)' = Before(j)
  BY <1>1 DEF Positions, FileAt, Before
<1>3. \A f \in Files \ {FileAt(j) : j \in Positions} : files'[f] = command'.before[f]
  BY <1>1, HereFacts DEF IsCommand
<1>4. {FileAt(j) : j \in Positions}' = {FileAt(j) : j \in Positions}
  BY <1>2
<1>5. IsCommand'
  <2>1. command' = [op |-> command'.op, name |-> command'.name, specs |-> command'.specs,
                    step |-> command'.step, i |-> command'.i, fresh |-> command'.fresh,
                    before |-> command'.before]
    BY <1>1
  <2>. QED
    BY <1>1, <1>2, <1>3, <1>4, <2>1 DEF IsCommand
<1>. QED
  BY <1>1, <1>2, <1>5

\* The lists of files that a command can be given.
LEMMA SpecsAre ==
    ASSUME NEW specs \in Specs
    PROVE  /\ specs \in Seq(SpecType) /\ Len(specs) \in Nat \ {0}
           /\ \A j \in 1 .. Len(specs) : specs[j].kind \in Kinds
           /\ \A j, k \in 1 .. Len(specs) : j # k =>
                /\ specs[j].file # specs[k].file
                /\ specs[j].diff # None => specs[j].diff # specs[k].diff
<1> DEFINE spec == [file : Files, kind : Kinds, diff : Diffs \cup {None}]
<1>1. specs \in UNION {[1 .. n -> spec] : n \in 1 .. MaxWriters}
  BY DEF Specs
<1>2. PICK n \in 1 .. MaxWriters : specs \in [1 .. n -> spec]
  BY <1>1
<1>3. n \in Nat \ {0}
  BY SessionAssumption
<1>4. specs \in Seq(spec) /\ Len(specs) = n
  <2>. HIDE DEF spec
  <2>. QED
    BY <1>2, <1>3
<1>5. \A j \in 1 .. n : specs[j] \in spec
  BY <1>2
<1>6. DOMAIN specs = 1 .. n
  BY <1>2
<1>7. \A j, k \in 1 .. n : j # k =>
        specs[j].file # specs[k].file /\ (specs[j].diff = None \/ specs[j].diff # specs[k].diff)
  BY <1>6 DEF Specs
<1>8. specs \in Seq(SpecType)
  <2>1. specs \in [1 .. n -> SpecType]
    BY <1>2, <1>5 DEF SpecType
  <2>. HIDE DEF spec
  <2>. QED
    BY <1>3, <2>1
<1>. QED
  BY <1>3, <1>4, <1>5, <1>7, <1>8

\* A dump that is opened is kept as it was.
LEMMA OpenedFacts ==
    ASSUME Types, NEW f \in Files, NEW kind \in Kinds
    PROVE  /\ Opened(f, kind) \in FileType /\ KeptAs(Opened(f, kind), files[f])
           /\ files[f] # NoFile => Opened(f, kind) = files[f]
BY DEF Types, Opened, KeptAs, FileType, DumpFile, Contents, Nothing, Holds

\* What is Types when one dump changes.
LEMMA FilesType ==
    ASSUME Types, NEW f \in Files, NEW x \in FileType, files' = [files EXCEPT ![f] = x]
    PROVE  /\ files' \in [Files -> FileType] /\ files'[f] = x
           /\ \A g \in Files : g # f => files'[g] = files[g]
BY DEF Types

------------------------------------------------------------------------------
(* The steps of an update. *)

\* Nothing exists.
LEMMA InitStep == Init => IInv
<1>. SUFFICES ASSUME Init PROVE IInv
  OBVIOUS
<1>1. NoFile \in FileType /\ Good(NoFile)
  BY DEF NoFile, DumpFile, FileType, Contents, Good
<1>2. NoDiff \in DiffType /\ ~ NoDiff.sound
  BY DEF NoDiff, DiffType, Contents
<1>3. Types
  BY <1>1, <1>2 DEF Init, Types
<1>4. Idle
  BY IdleFacts DEF Init, Idle
<1>. QED
  BY <1>1, <1>2, <1>3, <1>4 DEF Init, IInv, GoodDiff

\* All files are ahead of a command that begins.
LEMMA StartUpdateStep ==
    ASSUME IInv, NEW name \in Names, NEW specs \in Specs, StartUpdate(name, specs)
    PROVE  IInv'
<1>1. /\ Idle /\ files' = files /\ diffs' = diffs /\ now' = now /\ doubtful' = doubtful
      /\ command' = [op |-> "update", name |-> name, specs |-> specs, step |-> "create",
                     i |-> 1, fresh |-> {}, before |-> files]
  BY DEF StartUpdate, Command
<1>2. /\ specs \in Seq(SpecType) /\ Len(specs) \in Nat \ {0}
      /\ \A j \in 1 .. Len(specs) : specs[j].kind \in Kinds
      /\ \A j, k \in 1 .. Len(specs) : j # k =>
            /\ specs[j].file # specs[k].file
            /\ specs[j].diff # None => specs[j].diff # specs[k].diff
  BY SpecsAre
<1>3. ~ Idle' /\ command'.op = "update"
  BY <1>1, IdleFacts DEF Idle
<1>4. /\ Positions' = 1 .. Len(specs)
      /\ \A j : FileAt(j)' = specs[j].file /\ Before(j)' = files[specs[j].file]
  BY <1>1 DEF Positions, FileAt, Before
<1>5. \A j \in Positions' : Ahead(j)' /\ ~ Under(j)' /\ ~ Behind(j)'
  BY <1>1, <1>4 DEF Ahead, Under, Behind
<1>6. IsCommand'
  <2>1. command'.specs \in Seq(SpecType) /\ command'.i \in Positions'
    BY <1>1, <1>2, <1>4
  <2>. QED
    BY <1>1, <2>1 DEF IsCommand, IInv, Types
<1>7. IsUpdate'
  BY <1>1, <1>2, <1>4, <1>5 DEF IsUpdate
<1>. QED
  BY <1>1, <1>3, <1>6, <1>7 DEF IInv, Types

\* A dump is opened and found to be of the wiki.
LEMMA CreateStep ==
    ASSUME IInv, NEW kind \in Kinds, CreateWriter(kind)
    PROVE  IInv'
<1> DEFINE f        == Spec1.file
           opened   == Opened(f, kind)
           accepted == CheckName(opened, command.name, TRUE) /\ CheckTimestamp(opened, now, TRUE)
           fresh    == command.fresh \cup (IF files[f] = NoFile THEN {f} ELSE {})
<1>1. /\ command.op = "update" /\ command.step = "create"
      /\ files' = [files EXCEPT ![f] = opened]
      /\ diffs' = IF accepted /\ Spec1.diff # None
                    THEN [diffs EXCEPT ![Spec1.diff] = NoDiff] ELSE diffs
      /\ command' = IF ~ accepted THEN Refused
                    ELSE [Advanced("kind") EXCEPT !.fresh =
                             @ \cup (IF files[f] = NoFile THEN {f} ELSE {})]
      /\ now' = now /\ doubtful' = doubtful
  BY DEF CreateWriter, At
<1>2. ~ Idle /\ Types /\ IsCommand /\ IsUpdate
  BY <1>1, IdleFacts DEF Idle, IInv
<1>3. /\ command.i \in Positions /\ f \in Files /\ Spec1.diff \in Diffs \cup {None}
      /\ FileAt(command.i) = f
      /\ \A j \in Positions : j \in Nat /\ FileAt(j) \in Files
  BY <1>2, HereFacts DEF SpecType
<1>4. files[f] = Before(command.i)
  BY <1>1, <1>2, <1>3 DEF IsUpdate, Ahead
<1>5. opened \in FileType /\ KeptAs(opened, files[f])
  BY <1>2, <1>3, OpenedFacts
<1>. HIDE DEF opened
<1>6. /\ files' \in [Files -> FileType] /\ files'[f] = opened
      /\ \A g \in Files : g # f => files'[g] = files[g]
  BY <1>1, <1>2, <1>3, <1>5, FilesType
<1>7. NoDiff \in DiffType /\ ~ NoDiff.sound
  BY DEF NoDiff, DiffType, Contents
<1>8. Types' /\ \A d \in Diffs : GoodDiff(diffs'[d])
  BY <1>1, <1>2, <1>3, <1>6, <1>7 DEF Types, IInv, GoodDiff
<1>9. \A j \in Positions : j # command.i => FileAt(j) # f
  BY <1>2, <1>3 DEF IsUpdate
<1>10. \A j \in Positions : ~ Under(j) /\ ~ Behind(j)
  BY <1>1 DEF Under, Behind
<1>11. ASSUME NEW j \in Positions
       PROVE  /\ Ahead(j) /\ j # command.i => files'[FileAt(j)] = Before(j)
              /\ ~ Ahead(j) \/ j = command.i => KeptAs(files'[FileAt(j)], Before(j))
              /\ ~ Ahead(j) => files'[FileAt(j)].name \in {command.name, None}
  <2>1. CASE j = command.i
    <3>1. Ahead(j)
      BY <1>1, <1>3, <2>1 DEF Ahead
    <3>. QED
      BY <1>3, <1>4, <1>5, <1>6, <2>1, <3>1
  <2>2. CASE j # command.i
    BY <1>2, <1>3, <1>6, <1>9, <1>10, <2>2 DEF IsUpdate, Kept
  <2>. QED
    BY <2>1, <2>2
<1>12. CASE accepted
  <2>1. PICK e : /\ e = Advanced("kind")
                 /\ e = [op |-> command.op, name |-> command.name, specs |-> command.specs,
                         step |-> e.step, i |-> e.i, fresh |-> command.fresh,
                         before |-> command.before]
                 /\ e.i \in Positions
                 /\ \/ e.i = command.i + 1 /\ e.step = "create"
                    \/ /\ e.i = 1 /\ e.step = "kind"
                       /\ \A j \in Positions : j <= command.i
    BY <1>1, <1>2, AdvancedFacts DEF Positions
  <2>2. /\ command' = [op |-> command.op, name |-> command.name, specs |-> command.specs,
                       step |-> e.step, i |-> e.i, fresh |-> fresh,
                       before |-> command.before]
    <3>1. command' = [e EXCEPT !.fresh = e.fresh \cup (IF files[f] = NoFile THEN {f} ELSE {})]
      BY <1>1, <1>12, <2>1
    <3>2. e.fresh = command.fresh
      BY <2>1
    <3>3. command' = [e EXCEPT !.fresh = fresh]
      BY <3>1, <3>2
    <3>. HIDE DEF fresh
    <3>. QED
      BY <2>1, <3>3
  <2>3. command'.step = e.step /\ command'.i = e.i /\ command'.fresh = fresh
    BY <2>2
  <2>4. /\ IsCommand' /\ Positions' = Positions
        /\ \A j : FileAt(j)' = FileAt(j) /\ Before(j)' = Before(j)
        /\ command'.op = command.op /\ command'.name = command.name
        /\ command'.specs = command.specs /\ command'.before = command.before
    BY <1>1, <1>2, <1>6, <2>1, <2>2, <2>3, StillCommand
  <2>5. \A j \in Positions : /\ ~ Under(j)' /\ ~ Behind(j)'
                             /\ Ahead(j)' => Ahead(j) /\ j # command.i
                             /\ ~ Ahead(j)' => ~ Ahead(j) \/ j = command.i
    <3>1. /\ command.i \in Nat /\ \A j \in Positions : j \in Nat
          /\ command.step = "create"
      BY <1>1, <1>3
    <3>2. CASE e.i = command.i + 1 /\ e.step = "create"
      BY <2>3, <3>1, <3>2 DEF Ahead, Under, Behind
    <3>3. CASE e.i = 1 /\ e.step = "kind" /\ \A j \in Positions : j <= command.i
      BY <2>3, <3>1, <3>3 DEF Ahead, Under, Behind
    <3>. QED
      BY <2>1, <3>2, <3>3
  <2>6. opened.name \in {command.name, None}
    BY <1>12 DEF CheckName
  <2>7. IsUpdate'
    <3>1. \A j \in Positions : FileAt(j) \in fresh => Before(j) = NoFile
      BY <1>2, <1>3, <1>4, <1>9 DEF IsUpdate
    <3>2. ASSUME NEW j \in Positions
          PROVE  /\ Ahead(j)' => files'[FileAt(j)] = Before(j)
                 /\ ~ Ahead(j)' => /\ KeptAs(files'[FileAt(j)], Before(j))
                                   /\ files'[FileAt(j)].name \in {command.name, None}
      BY <1>3, <1>6, <1>11, <2>5, <2>6
    <3>. QED
      BY <1>2, <2>1, <2>3, <2>4, <2>5, <3>1, <3>2 DEF IsUpdate, Kept
  <2>8. ~ Idle' /\ command'.op = "update"
    BY <1>1, <2>4, IdleFacts DEF Idle
  <2>. QED
    BY <1>8, <2>4, <2>7, <2>8 DEF IInv
<1>13. CASE ~ accepted
  <2>1. ASSUME NEW j \in Positions, FileAt(j) \notin doubtful
        PROVE  Good(files'[FileAt(j)])
    <3>1. Good(Before(j))
      BY <1>2, <1>3, <2>1 DEF IsCommand, Before
    <3>. QED
      BY <1>11, <3>1, KeptIsGood
  <2>2. \A g \in Files \ doubtful : Good(files'[g])
    BY <1>2, <1>3, <1>6, <2>1, OthersAreGood
  <2>3. Idle'
    BY <1>1, <1>13, IdleFacts DEF Idle
  <2>. QED
    BY <1>1, <1>8, <2>2, <2>3 DEF IInv
<1>. QED
  BY <1>12, <1>13

\* A command goes on to its next file, or with a next step.
LEMMA GoesOn ==
    ASSUME Types, IsCommand, doubtful \subseteq doubtful', NEW step, step # "ended",
           command' = Advanced(step),
           \A f \in Files : f # Spec1.file => files'[f] = files[f]
    PROVE  /\ IsCommand' /\ Positions' = Positions
           /\ \A j : FileAt(j)' = FileAt(j) /\ Before(j)' = Before(j)
           /\ command'.op = command.op /\ command'.name = command.name
           /\ command'.specs = command.specs /\ command'.fresh = command.fresh
           /\ \A j \in Positions : j \in Nat
           /\ \/ command'.i = command.i + 1 /\ command'.step = command.step
              \/ /\ command'.i = 1 /\ command'.step = step
                 /\ \A j \in Positions : 1 <= j /\ j <= command.i
<1>1. PICK e : /\ e = Advanced(step)
               /\ e = [op |-> command.op, name |-> command.name, specs |-> command.specs,
                       step |-> e.step, i |-> e.i, fresh |-> command.fresh,
                       before |-> command.before]
               /\ e.i \in Positions
               /\ \/ e.i = command.i + 1 /\ e.step = command.step
                  \/ command.i = Len(command.specs) /\ e.i = 1 /\ e.step = step
  BY AdvancedFacts
<1>2. command'.fresh = command.fresh
  BY <1>1
<1>3. /\ IsCommand' /\ Positions' = Positions
      /\ \A j : FileAt(j)' = FileAt(j) /\ Before(j)' = Before(j)
      /\ command'.op = command.op /\ command'.name = command.name
      /\ command'.specs = command.specs
  BY <1>1, <1>2, StillCommand
<1>4. \A j \in Positions : j \in Nat /\ 1 <= j /\ j <= Len(command.specs)
  BY DEF Positions, IsCommand
<1>. QED
  BY <1>1, <1>2, <1>3, <1>4

\* The kind of a new dump is set; that of an old one is checked.
LEMMA KindStep ==
    ASSUME IInv, SetDumpKind
    PROVE  IInv'
<1> DEFINE f == Spec1.file
<1>1. /\ command.op = "update" /\ command.step = "kind"
      /\ \/ /\ f \in command.fresh
            /\ files' = [files EXCEPT ![f].kind = Spec1.kind]
            /\ command' = Advanced("siteinfo")
         \/ /\ f \notin command.fresh
            /\ command' = IF files[f].kind = Spec1.kind THEN Advanced("siteinfo") ELSE Refused
            /\ files' = files
      /\ diffs' = diffs /\ now' = now /\ doubtful' = doubtful
  BY DEF SetDumpKind, At
<1>2. ~ Idle /\ Types /\ IsCommand /\ IsUpdate
  BY <1>1, IdleFacts DEF Idle, IInv
<1>3. /\ command.i \in Positions /\ f \in Files /\ FileAt(command.i) = f
      /\ Spec1 = command.specs[command.i] /\ Spec1.kind \in Kinds
      /\ \A j \in Positions : j \in Nat /\ FileAt(j) \in Files
  BY <1>2, HereFacts DEF SpecType, IsUpdate
<1>4. \A j \in Positions : j # command.i => FileAt(j) # f
  BY <1>2, <1>3 DEF IsUpdate
<1>5. \A j \in Positions : /\ KeptAs(files[FileAt(j)], Before(j))
                           /\ files[FileAt(j)].name \in {command.name, None}
  BY <1>1, <1>2, <1>3 DEF IsUpdate, Ahead, Under, Behind, Kept
<1>6. /\ files' \in [Files -> FileType]
      /\ \A g \in Files : g # f => files'[g] = files[g]
      /\ KeptAs(files'[f], Before(command.i)) /\ files'[f].name \in {command.name, None}
  <2>1. CASE f \in command.fresh
    <3>1. Before(command.i) = NoFile
      BY <1>2, <1>3, <2>1 DEF IsUpdate
    <3>2. PICK kind \in Kinds : files[f] = DumpFile(None, 0, kind, Nothing)
      BY <1>3, <1>5, <3>1 DEF KeptAs
    <3>3. files'[f] = DumpFile(None, 0, Spec1.kind, Nothing)
      BY <1>1, <1>2, <1>3, <2>1, <3>2 DEF DumpFile, Types
    <3>4. files'[f] \in FileType
      BY <1>3, <3>3 DEF FileType, DumpFile, Contents, Nothing, Holds
    <3>5. files' \in [Files -> FileType] /\ \A g \in Files : g # f => files'[g] = files[g]
      BY <1>1, <1>2, <1>3, <2>1, <3>4 DEF Types
    <3>6. KeptAs(files'[f], Before(command.i)) /\ files'[f].name \in {command.name, None}
      BY <1>3, <3>1, <3>3 DEF KeptAs, DumpFile
    <3>. QED
      BY <3>5, <3>6
  <2>2. CASE f \notin command.fresh
    BY <1>1, <1>2, <1>3, <1>5, <2>2 DEF Types
  <2>. QED
    BY <2>1, <2>2
<1>7. \A j \in Positions : /\ KeptAs(files'[FileAt(j)], Before(j))
                           /\ files'[FileAt(j)].name \in {command.name, None}
  BY <1>3, <1>4, <1>5, <1>6
<1>8. Types' /\ \A d \in Diffs : GoodDiff(diffs'[d])
  BY <1>1, <1>2, <1>6 DEF Types, IInv
<1>9. CASE command' = Advanced("siteinfo")
  <2>1. /\ IsCommand' /\ Positions' = Positions
        /\ \A j : FileAt(j)' = FileAt(j) /\ Before(j)' = Before(j)
        /\ command'.op = command.op /\ command'.name = command.name
        /\ command'.specs = command.specs /\ command'.fresh = command.fresh
        /\ \/ command'.i = command.i + 1 /\ command'.step = "kind"
           \/ command'.i = 1 /\ command'.step = "siteinfo"
    BY <1>1, <1>2, <1>6, <1>9, GoesOn
  <2>2. \A j \in Positions : 1 <= j
    BY DEF Positions
  <2>3. \A j \in Positions : ~ Ahead(j)' /\ ~ Under(j)' /\ ~ Behind(j)'
    BY <1>3, <2>1, <2>2 DEF Ahead, Under, Behind
  <2>4. IsUpdate'
    BY <1>2, <1>7, <2>1, <2>3 DEF IsUpdate, Kept
  <2>5. ~ Idle' /\ command'.op = "update"
    BY <1>1, <2>1, IdleFacts DEF Idle
  <2>. QED
    BY <1>8, <2>1, <2>4, <2>5 DEF IInv
<1>10. CASE command' = Refused
  <2>1. ASSUME NEW j \in Positions, FileAt(j) \notin doubtful
        PROVE  Good(files'[FileAt(j)])
    <3>1. Good(Before(j))
      BY <1>2, <1>3, <2>1 DEF IsCommand, Before
    <3>. QED
      BY <1>7, <3>1, KeptIsGood
  <2>2. \A g \in Files \ doubtful : Good(files'[g])
    BY <1>2, <1>3, <1>6, <2>1, OthersAreGood
  <2>3. Idle'
    BY <1>10, IdleFacts DEF Idle
  <2>. QED
    BY <1>1, <1>8, <2>2, <2>3 DEF IInv
<1>. QED
  BY <1>1, <1>9, <1>10

\* The dump gets its new name and timestamp, and the diff dump says from
\* which dump it leads.
LEMMA SiteInfoStep ==
    ASSUME IInv, SetSiteInfo
    PROVE  IInv'
<1> DEFINE f == Spec1.file
           header == [NoDiff EXCEPT !.name = command.name, !.from = Was.time, !.to = now,
                                    !.kind = files[f].kind, !.base = files[f].contents]
<1>1. /\ command.op = "update" /\ command.step = "siteinfo"
      /\ files' = [files EXCEPT ![f].name = command.name, ![f].time = now]
      /\ diffs' = IF Spec1.diff = None THEN diffs ELSE [diffs EXCEPT ![Spec1.diff] = header]
      /\ command' = Advanced("pages")
      /\ now' = now /\ doubtful' = doubtful
  BY DEF SetSiteInfo, At
<1>2. ~ Idle /\ Types /\ IsCommand /\ IsUpdate
  BY <1>1, IdleFacts DEF Idle, IInv
<1>3. /\ command.i \in Positions /\ f \in Files /\ FileAt(command.i) = f
      /\ Spec1 = command.specs[command.i] /\ Spec1.diff \in Diffs \cup {None}
      /\ Was = Before(command.i)
      /\ \A j \in Positions : /\ j \in Nat /\ FileAt(j) \in Files /\ Before(j) \in FileType
                              /\ command.specs[j].diff \in Diffs \cup {None}
  BY <1>2, HereFacts DEF SpecType
<1>4. \A j \in Positions : j # command.i =>
        /\ FileAt(j) # f
        /\ command.specs[j].diff # None => command.specs[j].diff # Spec1.diff
  BY <1>2, <1>3 DEF IsUpdate
<1>5. files[f] \in FileType /\ command.name \in Names /\ now \in Nat \ {0}
  BY <1>2, <1>3 DEF Types, IsUpdate
<1>6. /\ files'[f] = [files[f] EXCEPT !.name = command.name, !.time = now]
      /\ \A g \in Files : g # f => files'[g] = files[g]
  BY <1>1, <1>2, <1>3 DEF Types
<1>7. /\ files'[f].name = command.name /\ files'[f].time = now
      /\ files'[f].kind = files[f].kind /\ files'[f].contents = files[f].contents
      /\ files'[f] \in FileType
  BY <1>5, <1>6 DEF FileType
<1>8. files' \in [Files -> FileType]
  BY <1>1, <1>2, <1>3, <1>7 DEF Types
<1>9. /\ header.name = command.name /\ header.from = Was.time /\ header.to = now
      /\ header.kind = files[f].kind /\ header.base = files[f].contents
      /\ ~ header.sound /\ header \in DiffType
  BY <1>3, <1>5 DEF NoDiff, DiffType, FileType, Contents
<1>. HIDE DEF header
<1>10. Types' /\ \A d \in Diffs : GoodDiff(diffs'[d])
  BY <1>1, <1>2, <1>3, <1>8, <1>9 DEF Types, IInv, GoodDiff
<1>11. /\ KeptAs(files[f], Was) /\ files[f].name \in {command.name, None}
  BY <1>1, <1>2, <1>3 DEF IsUpdate, Ahead, Under, Behind, Kept
<1>12. f \notin doubtful /\ Was.time # 0 =>
            /\ files[f] = Was /\ Was.name = command.name
  <2>. SUFFICES ASSUME f \notin doubtful, Was.time # 0
                PROVE  files[f] = Was /\ Was.name = command.name
    OBVIOUS
  <2>1. files[f] = Was
    BY <1>11 DEF KeptAs, NoFile, DumpFile
  <2>2. Was.name \in Names
    BY <1>2, <1>3 DEF IsCommand, Before, Good
  <2>. QED
    BY <1>11, <2>1, <2>2, SessionAssumption
<1>13. /\ IsCommand' /\ Positions' = Positions
       /\ \A j : FileAt(j)' = FileAt(j) /\ Before(j)' = Before(j)
       /\ command'.op = command.op /\ command'.name = command.name
       /\ command'.specs = command.specs /\ command'.fresh = command.fresh
       /\ \/ command'.i = command.i + 1 /\ command'.step = "siteinfo"
          \/ /\ command'.i = 1 /\ command'.step = "pages"
             /\ \A j \in Positions : 1 <= j /\ j <= command.i
  BY <1>1, <1>2, <1>6, GoesOn
<1>14. \A j \in Positions :
            /\ ~ Ahead(j)' /\ ~ Behind(j)'
            /\ Under(j)' => Under(j) \/ j = command.i
            /\ ~ Under(j)' => ~ Ahead(j) /\ ~ Under(j) /\ ~ Behind(j) /\ j # command.i
  BY <1>1, <1>3, <1>13 DEF Ahead, Under, Behind
<1>15. ASSUME NEW j \in Positions, Under(j)'
       PROVE  Started(j)'
  <2>1. CASE j = command.i
    <3>1. Spec1.diff # None => diffs'[Spec1.diff] = header
      BY <1>1, <1>2, <1>3 DEF Types
    <3>. QED
      BY <1>1, <1>3, <1>7, <1>9, <1>12, <1>13, <2>1, <3>1 DEF Started
  <2>2. CASE j # command.i
    <3>1. Started(j)
      BY <1>2, <1>14, <1>15, <2>2 DEF IsUpdate
    <3>2. files'[FileAt(j)] = files[FileAt(j)]
      BY <1>3, <1>4, <1>6, <2>2
    <3>3. command.specs[j].diff # None =>
            diffs'[command.specs[j].diff] = diffs[command.specs[j].diff]
      BY <1>1, <1>2, <1>3, <1>4, <2>2 DEF Types
    <3>. QED
      BY <1>1, <1>13, <3>1, <3>2, <3>3 DEF Started
  <2>. QED
    BY <2>1, <2>2
<1>16. ASSUME NEW j \in Positions, ~ Under(j)'
       PROVE  Kept(j)' /\ files'[FileAt(j)].name \in {command.name, None}
  BY <1>2, <1>3, <1>4, <1>6, <1>13, <1>14, <1>16 DEF IsUpdate, Kept
<1>17. IsUpdate'
  BY <1>2, <1>13, <1>14, <1>15, <1>16 DEF IsUpdate
<1>18. ~ Idle' /\ command'.op = "update"
  BY <1>1, <1>13, IdleFacts DEF Idle
<1>. QED
  BY <1>10, <1>13, <1>17, <1>18 DEF IInv

\* Whatever is done to its contents, a file that has been started stays so.
LEMMA PagesStep ==
    ASSUME IInv, WritePages
    PROVE  IInv'
<1> DEFINE f == Spec1.file
<1>1. PICK contents \in {files[f].contents, Broken} :
        files' = [files EXCEPT ![f].contents = contents]
  BY DEF WritePages
<1>2. /\ command.op = "update" /\ command.step = "pages" /\ command' = Advanced("complete")
      /\ diffs' = diffs /\ now' = now /\ doubtful' = doubtful
  BY DEF WritePages, At
<1>3. ~ Idle /\ Types /\ IsCommand /\ IsUpdate
  BY <1>2, IdleFacts DEF Idle, IInv
<1>4. f \in Files /\ \A j \in Positions : j \in Nat /\ 1 <= j /\ FileAt(j) \in Files
  BY <1>3, HereFacts DEF SpecType, Positions
<1>5. /\ files[f] \in FileType
      /\ files'[f] = [files[f] EXCEPT !.contents = contents]
      /\ \A g \in Files : g # f => files'[g] = files[g]
  BY <1>1, <1>3, <1>4 DEF Types
<1>6. /\ files'[f].name = files[f].name /\ files'[f].time = files[f].time
      /\ files'[f].kind = files[f].kind /\ files'[f] \in FileType
  BY <1>5 DEF FileType, Contents
<1>7. Types' /\ \A d \in Diffs : GoodDiff(diffs'[d])
  BY <1>1, <1>2, <1>3, <1>4, <1>6 DEF Types, IInv
<1>8. /\ IsCommand' /\ Positions' = Positions
      /\ \A j : FileAt(j)' = FileAt(j) /\ Before(j)' = Before(j)
      /\ command'.op = command.op /\ command'.name = command.name
      /\ command'.specs = command.specs /\ command'.fresh = command.fresh
      /\ \/ command'.i = command.i + 1 /\ command'.step = "pages"
         \/ command'.i = 1 /\ command'.step = "complete"
  BY <1>2, <1>3, <1>5, GoesOn
<1>9. \A j \in Positions : Under(j) /\ Under(j)' /\ ~ Ahead(j)' /\ ~ Behind(j)'
  BY <1>2, <1>4, <1>8 DEF Ahead, Under, Behind
<1>10. ASSUME NEW j \in Positions
       PROVE  Started(j)'
  <2>1. Started(j)
    BY <1>3, <1>9 DEF IsUpdate
  <2>2. /\ files'[FileAt(j)].name = files[FileAt(j)].name
        /\ files'[FileAt(j)].time = files[FileAt(j)].time
        /\ files'[FileAt(j)].kind = files[FileAt(j)].kind
    BY <1>4, <1>5, <1>6
  <2>. QED
    BY <1>2, <1>8, <2>1, <2>2 DEF Started
<1>11. IsUpdate'
  BY <1>3, <1>8, <1>9, <1>10 DEF IsUpdate
<1>12. ~ Idle' /\ command'.op = "update"
  BY <1>2, <1>8, IdleFacts DEF Idle
<1>. QED
  BY <1>7, <1>8, <1>11, <1>12 DEF IInv

\* A dump that was not doubtful is complete, and its diff dump is sound.
LEMMA CompleteStep ==
    ASSUME IInv, CompleteUpdate
    PROVE  IInv'
<1> DEFINE f == Spec1.file
           whole == Holds(command.name, now, files[f].kind)
           had == IF Was = NoFile THEN Nothing ELSE Was.contents
<1>1. PICK contents \in {whole} \cup ({had} \cap {Broken}) :
        /\ files' = [files EXCEPT ![f].contents = contents]
        /\ diffs' = IF Spec1.diff = None THEN diffs
                    ELSE [diffs EXCEPT ![Spec1.diff].result = contents,
                                       ![Spec1.diff].complete = TRUE,
                                       ![Spec1.diff].sound = f \notin doubtful]
  BY DEF CompleteUpdate
<1>2. /\ command.op = "update" /\ command.step = "complete"
      /\ command' = Advanced("ended") /\ now' = now /\ doubtful' = doubtful
  BY DEF CompleteUpdate, At
<1>3. ~ Idle /\ Types /\ IsCommand /\ IsUpdate
  BY <1>2, IdleFacts DEF Idle, IInv
<1>4. /\ command.i \in Positions /\ f \in Files /\ FileAt(command.i) = f
      /\ Spec1 = command.specs[command.i] /\ Spec1.diff \in Diffs \cup {None}
      /\ Was = Before(command.i) /\ Was \in FileType
      /\ \A j \in Positions : /\ j \in Nat /\ FileAt(j) \in Files /\ Before(j) \in FileType
                              /\ command.specs[j].diff \in Diffs \cup {None}
  BY <1>3, HereFacts DEF SpecType
<1>5. \A j \in Positions : j # command.i =>
        /\ FileAt(j) # f
        /\ command.specs[j].diff # None => command.specs[j].diff # Spec1.diff
  BY <1>3, <1>4 DEF IsUpdate
<1>6. Started(command.i)
  BY <1>2, <1>3, <1>4 DEF IsUpdate, Under
<1>7. /\ files[f] \in FileType /\ files[f].name = command.name /\ files[f].time = now
      /\ command.name \in Names /\ now \in Nat \ {0}
  BY <1>3, <1>4, <1>6 DEF Types, IsUpdate, Started
<1>8. whole \in Contents
  BY <1>7 DEF Contents, Holds, FileType
<1>9. contents \in Contents
  BY <1>1, <1>8 DEF Contents
<1>10. /\ files'[f] = [files[f] EXCEPT !.contents = contents]
       /\ \A g \in Files : g # f => files'[g] = files[g]
  BY <1>1, <1>3, <1>4 DEF Types
<1>11. /\ files'[f].name = command.name /\ files'[f].time = now
       /\ files'[f].kind = files[f].kind /\ files'[f].contents = contents
       /\ files'[f] \in FileType
  BY <1>7, <1>9, <1>10 DEF FileType
<1>12. f \notin doubtful => Good(Was)
  BY <1>3, <1>4 DEF IsCommand, Before
<1>13. f \notin doubtful => contents = whole
  <2>. SUFFICES ASSUME f \notin doubtful, had = Broken PROVE FALSE
    BY <1>1
  <2>1. Nothing # Broken
    BY SessionAssumption DEF Nothing, Holds
  <2>2. CASE Was.time = 0
    BY <1>12, <2>1, <2>2 DEF Good
  <2>3. CASE Was.time # 0
    <3>1. Was # NoFile
      BY <2>3 DEF NoFile, DumpFile
    <3>2. Was.contents = Holds(Was.name, Was.time, Was.kind)
      BY <1>12, <2>3 DEF Good
    <3>3. Holds(Was.name, Was.time, Was.kind) # Broken
      BY <1>4, SessionAssumption DEF Holds, FileType
    <3>. QED
      BY <3>1, <3>2, <3>3
  <2>. QED
    BY <2>2, <2>3
<1>14. f \notin doubtful => Good(files'[f])
  BY <1>7, <1>11, <1>13 DEF Good
<1>15. ASSUME Spec1.diff # None
       PROVE  diffs'[Spec1.diff] \in DiffType /\ GoodDiff(diffs'[Spec1.diff])
  <2> DEFINE d == diffs[Spec1.diff]
             e == diffs'[Spec1.diff]
  <2>1. d \in DiffType
    BY <1>3, <1>4, <1>15 DEF Types
  <2>2. e = [d EXCEPT !.result = contents, !.complete = TRUE, !.sound = f \notin doubtful]
    BY <1>1, <1>3, <1>4, <1>15 DEF Types
  <2>3. /\ d.name = command.name /\ d.from = Was.time /\ d.to = now /\ d.kind = files[f].kind
        /\ f \notin doubtful /\ Was.time # 0 =>
                d.base = Was.contents /\ files[f].kind = Was.kind /\ Was.name = command.name
    BY <1>4, <1>6, <1>15 DEF Started
  <2>4. /\ e \in DiffType
        /\ e.name = d.name /\ e.from = d.from /\ e.to = d.to /\ e.kind = d.kind
        /\ e.base = d.base /\ e.result = contents /\ e.complete /\ (e.sound <=> f \notin doubtful)
    <3>. HIDE DEF d, e
    <3>. QED
      BY <1>9, <2>1, <2>2 DEF DiffType
  <2>5. ASSUME f \notin doubtful, Was.time # 0
        PROVE  d.base = Holds(command.name, Was.time, files[f].kind)
    BY <1>12, <2>3, <2>5 DEF Good
  <2>6. GoodDiff(e)
    <3>. HIDE DEF d, e
    <3>. QED
      BY <1>7, <1>13, <2>3, <2>4, <2>5 DEF GoodDiff
  <2>. QED
    BY <2>4, <2>6
<1>16. Types' /\ \A d \in Diffs : GoodDiff(diffs'[d])
  <2>1. files' \in [Files -> FileType]
    BY <1>1, <1>3, <1>4, <1>11 DEF Types
  <2>2. /\ diffs' \in [Diffs -> DiffType]
        /\ \A d \in Diffs : d # Spec1.diff \/ Spec1.diff = None => diffs'[d] = diffs[d]
    BY <1>1, <1>3, <1>4, <1>15 DEF Types
  <2>3. \A d \in Diffs : GoodDiff(diffs'[d])
    BY <1>15, <2>2 DEF IInv
  <2>. QED
    BY <1>2, <1>3, <2>1, <2>2, <2>3 DEF Types
<1>17. ASSUME NEW j \in Positions, j < command.i, FileAt(j) \notin doubtful
       PROVE  Good(files'[FileAt(j)])
  <2>1. Behind(j) /\ j # command.i
    BY <1>2, <1>4, <1>17 DEF Behind
  <2>. QED
    BY <1>3, <1>4, <1>5, <1>10, <1>17, <2>1 DEF IsUpdate
<1>18. CASE command.i = Len(command.specs) /\ command' = NoCommand
  <2>1. \A j \in Positions : j < command.i \/ j = command.i
    BY <1>4, <1>18 DEF Positions
  <2>2. \A g \in Files \ doubtful : Good(files'[g])
    <3>1. \A j \in Positions : FileAt(j) \notin doubtful => Good(files'[FileAt(j)])
      BY <1>4, <1>14, <1>17, <2>1
    <3>2. \A g \in Files : g \notin {FileAt(j) : j \in Positions} => files'[g] = files[g]
      BY <1>4, <1>10
    <3>. HIDE DEF f
    <3>. QED
      BY <1>3, <3>1, <3>2, OthersAreGood
  <2>3. Idle'
    BY <1>18, IdleFacts DEF Idle
  <2>. QED
    BY <1>2, <1>16, <2>2, <2>3 DEF IInv
<1>19. CASE /\ command' = [op |-> command.op, name |-> command.name, specs |-> command.specs,
                           step |-> command.step, i |-> command.i + 1,
                           fresh |-> command.fresh, before |-> command.before]
            /\ command.i + 1 \in Positions
  <2>1. /\ command'.step = "complete" /\ command'.i = command.i + 1
        /\ command'.fresh = command.fresh
    BY <1>2, <1>19
  <2>2. /\ IsCommand' /\ Positions' = Positions
        /\ \A j : FileAt(j)' = FileAt(j) /\ Before(j)' = Before(j)
        /\ command'.op = command.op /\ command'.name = command.name
        /\ command'.specs = command.specs
    BY <1>2, <1>3, <1>10, <1>19, <2>1, StillCommand
  <2>3. \A j \in Positions : /\ ~ Ahead(j)'
                             /\ Under(j)' => Under(j) /\ j # command.i
                             /\ Behind(j)' => j < command.i \/ j = command.i
                             /\ Under(j)' \/ Behind(j)'
    BY <1>2, <1>4, <2>1 DEF Ahead, Under, Behind
  <2>4. ASSUME NEW j \in Positions, Under(j)'
        PROVE  Started(j)'
    <3>1. Started(j) /\ j # command.i
      BY <1>3, <2>3, <2>4 DEF IsUpdate
    <3>2. files'[FileAt(j)] = files[FileAt(j)]
      BY <1>4, <1>5, <1>10, <3>1
    <3>3. command.specs[j].diff # None =>
            diffs'[command.specs[j].diff] = diffs[command.specs[j].diff]
      BY <1>1, <1>3, <1>4, <1>5, <3>1 DEF Types
    <3>. QED
      BY <1>2, <2>2, <3>1, <3>2, <3>3 DEF Started
  <2>5. ASSUME NEW j \in Positions, Behind(j)', FileAt(j) \notin doubtful
        PROVE  Good(files'[FileAt(j)])
    BY <1>4, <1>14, <1>17, <2>3, <2>5
  <2>6. IsUpdate'
    BY <1>2, <1>3, <2>1, <2>2, <2>3, <2>4, <2>5 DEF IsUpdate
  <2>7. ~ Idle' /\ command'.op = "update"
    BY <1>2, <2>2, IdleFacts DEF Idle
  <2>. QED
    BY <1>16, <2>2, <2>6, <2>7 DEF IInv
<1>. QED
  BY <1>2, <1>3, <1>18, <1>19, EndedFacts

------------------------------------------------------------------------------
(* The steps of the application of a diff dump. *)

\* The application of a diff dump is for one dump.
LEMMA ApplyFacts ==
    ASSUME Types, IsCommand, IsApply
    PROVE  /\ command.i = 1 /\ Positions = {1} /\ Len(command.specs) = 1
           /\ Spec1 = command.specs[1] /\ FileAt(1) = Spec1.file /\ Spec1.file \in Files
           /\ Spec1.diff \in Diffs /\ diffs[Spec1.diff] \in DiffType
           /\ files[Spec1.file] \in FileType
           /\ Was = Before(1) /\ Was \in FileType
<1>1. Len(command.specs) = 1 /\ command.specs[1].diff \in Diffs
  BY DEF IsApply
<1>2. Positions = {1} /\ command.i = 1
  BY <1>1 DEF Positions, IsCommand
<1>. QED
  BY <1>1, <1>2, HereFacts DEF SpecType, Types

\* It goes on with its next step.
LEMMA ApplyGoesOn ==
    ASSUME Types, IsCommand, IsApply, command.op = "apply",
           doubtful \subseteq doubtful', NEW step, step # "ended",
           command' = Advanced(step),
           \A f \in Files : f # Spec1.file => files'[f] = files[f]
    PROVE  /\ ~ Idle' /\ IsCommand' /\ command'.op = "apply"
           /\ Len(command'.specs) = 1 /\ command'.specs[1] = Spec1
           /\ FileAt(1)' = Spec1.file /\ Before(1)' = Was
           /\ command'.step = step
<1>1. /\ IsCommand' /\ Positions' = Positions
      /\ \A j : FileAt(j)' = FileAt(j) /\ Before(j)' = Before(j)
      /\ command'.op = command.op /\ command'.specs = command.specs
      /\ \/ command'.i = command.i + 1
         \/ command'.i = 1 /\ command'.step = step
  BY GoesOn
<1>2. command'.i = 1
  BY <1>1, ApplyFacts DEF IsCommand
<1>. QED
  BY <1>1, <1>2, ApplyFacts, IdleFacts DEF Idle

\* Nothing has been done to the dump.
LEMMA StartApplyStep ==
    ASSUME IInv, NEW f \in Files, NEW d \in Diffs, StartApply(f, d)
    PROVE  IInv'
<1> DEFINE spec == [file |-> f, kind |-> None, diff |-> d]
<1>1. /\ Idle /\ files' = files /\ diffs' = diffs /\ now' = now /\ doubtful' = doubtful
      /\ command' = [op |-> "apply", name |-> None, specs |-> <<spec>>, step |-> "create",
                     i |-> 1, fresh |-> {}, before |-> files]
  BY DEF StartApply, Command
<1>2. spec \in SpecType /\ spec.file = f /\ spec.diff = d
  BY DEF SpecType
<1>. HIDE DEF spec
<1>3. /\ <<spec>> \in Seq(SpecType) /\ Len(<<spec>>) = 1 /\ <<spec>>[1] = spec
  BY <1>2
<1>4. ~ Idle' /\ command'.op = "apply"
  BY <1>1, IdleFacts DEF Idle
<1>5. /\ Positions' = 1 .. 1 /\ FileAt(1)' = f /\ Before(1)' = files[f]
  BY <1>1, <1>2, <1>3 DEF Positions, FileAt, Before
<1>6. IsCommand'
  BY <1>1, <1>3, <1>5 DEF IsCommand, IInv, Types
<1>7. IsApply'
  BY <1>1, <1>2, <1>3, <1>5 DEF IsApply
<1>. QED
  BY <1>1, <1>4, <1>6, <1>7, IdleFacts DEF IInv, Types

\* When the application ends, its dump alone has to be looked at.
LEMMA ApplyEnds ==
    ASSUME Types, IsCommand, IsApply, doubtful \subseteq doubtful', Idle',
           \A f \in Files : f # Spec1.file => files'[f] = files[f],
           Spec1.file \notin doubtful' => Good(files'[Spec1.file])
    PROVE  \A f \in Files \ doubtful' : Good(files'[f])
<1>1. /\ \A f \in Files : f \notin {FileAt(j) : j \in Positions} => files'[f] = files[f]
      /\ \A j \in Positions : FileAt(j) \notin doubtful' => Good(files'[FileAt(j)])
  BY ApplyFacts
<1>. QED
  BY <1>1, OthersAreGood

\* A dump that is opened holds what it held.
LEMMA OpenDiffStep ==
    ASSUME IInv, NEW kind \in Kinds, OpenDiff(kind)
    PROVE  IInv'
<1> DEFINE f == Spec1.file
           opened == Opened(f, kind)
<1>1. /\ command.op = "apply" /\ command.step = "create"
      /\ files' = [files EXCEPT ![f] = opened]
      /\ command' = Refused \/ command' = Advanced("siteinfo")
      /\ diffs' = diffs /\ now' = now /\ doubtful' = doubtful
  BY DEF OpenDiff, At
<1>2. ~ Idle /\ Types /\ IsCommand /\ IsApply
  BY <1>1, IdleFacts DEF Idle, IInv
<1>3. /\ f \in Files /\ FileAt(1) = f /\ Was = Before(1) /\ files[f] = Was
      /\ command.specs[1] = Spec1 /\ Spec1.diff \in Diffs
  BY <1>1, <1>2, ApplyFacts DEF IsApply
<1>4. opened \in FileType /\ KeptAs(opened, Was)
  BY <1>2, <1>3, OpenedFacts
<1>. HIDE DEF opened
<1>5. /\ files' \in [Files -> FileType] /\ files'[f] = opened
      /\ \A g \in Files : g # f => files'[g] = files[g]
  BY <1>1, <1>2, <1>3, <1>4, FilesType
<1>6. Types' /\ \A d \in Diffs : GoodDiff(diffs'[d])
  BY <1>1, <1>2, <1>5 DEF Types, IInv
<1>7. CASE command' = Advanced("siteinfo")
  <2>1. /\ ~ Idle' /\ IsCommand' /\ command'.op = "apply"
        /\ Len(command'.specs) = 1 /\ command'.specs[1] = Spec1
        /\ FileAt(1)' = f /\ Before(1)' = Was
        /\ command'.step = "siteinfo"
    BY <1>1, <1>2, <1>5, <1>7, ApplyGoesOn
  <2>2. IsApply'
    BY <1>3, <1>4, <1>5, <2>1 DEF IsApply, Kept
  <2>. QED
    BY <1>6, <2>1, <2>2 DEF IInv
<1>8. CASE command' = Refused
  <2>1. Idle'
    BY <1>8, IdleFacts DEF Idle
  <2>2. f \notin doubtful' => Good(files'[f])
    <3>1. f \notin doubtful => Good(Was)
      BY <1>2, <1>3 DEF IsCommand, Before
    <3>. QED
      BY <1>1, <1>4, <1>5, <3>1, KeptIsGood
  <2>3. \A g \in Files \ doubtful' : Good(files'[g])
    BY <1>1, <1>2, <1>5, <2>1, <2>2, ApplyEnds
  <2>. QED
    BY <1>6, <2>1, <2>3 DEF IInv
<1>. QED
  BY <1>1, <1>7, <1>8

\* The dump is the one that a sound diff dump leads from, or it is doubtful.
LEMMA ProcessSiteInfoStep ==
    ASSUME IInv, ProcessSiteInfo
    PROVE  IInv'
<1> DEFINE f == Spec1.file
           d == diffs[Spec1.diff]
           accepted == CheckName(files[f], d.name, FALSE) /\ CheckTimestamp(files[f], d.from, FALSE)
<1>1. /\ command.op = "apply" /\ command.step = "siteinfo"
      /\ files' = IF accepted THEN [files EXCEPT ![f].time = d.to] ELSE files
      /\ command' = IF accepted THEN Advanced("pages") ELSE Refused
      /\ doubtful' = IF accepted /\ (d.kind # files[f].kind \/ ~ d.sound)
                       THEN doubtful \cup {f} ELSE doubtful
      /\ diffs' = diffs /\ now' = now
  BY DEF ProcessSiteInfo, At
<1>2. ~ Idle /\ Types /\ IsCommand /\ IsApply
  BY <1>1, IdleFacts DEF Idle, IInv
<1>3. /\ f \in Files /\ FileAt(1) = f /\ Was = Before(1) /\ Was \in FileType
      /\ command.specs[1] = Spec1 /\ Spec1.diff \in Diffs
      /\ d \in DiffType /\ files[f] \in FileType
  BY <1>2, ApplyFacts
<1>4. KeptAs(files[f], Was)
  BY <1>1, <1>2, <1>3 DEF IsApply, Kept
<1>5. doubtful \subseteq doubtful'
  BY <1>1
<1>6. \A g \in Files : g # f => files'[g] = files[g]
  BY <1>1, <1>2 DEF Types
<1>7. CASE accepted
  <2>1. files[f].name = d.name /\ files[f].time = d.from
    BY <1>7 DEF CheckName, CheckTimestamp
  <2>2. files'[f] = [files[f] EXCEPT !.time = d.to]
    BY <1>1, <1>2, <1>3, <1>7 DEF Types
  <2>3. d.to \in Nat
    BY <1>3 DEF DiffType
  <2>4. /\ files'[f] \in FileType /\ files'[f].name = files[f].name /\ files'[f].time = d.to
        /\ files'[f].kind = files[f].kind
    <3>. HIDE DEF d, f
    <3>. QED
      BY <1>3, <2>2, <2>3 DEF FileType
  <2>5. Types' /\ \A e \in Diffs : GoodDiff(diffs'[e])
    BY <1>1, <1>2, <1>3, <1>6, <1>7, <2>4 DEF Types, IInv
  <2>6. command' = Advanced("pages")
    BY <1>1, <1>7
  <2>7. /\ ~ Idle' /\ IsCommand' /\ command'.op = "apply"
        /\ Len(command'.specs) = 1 /\ command'.specs[1] = Spec1
        /\ FileAt(1)' = f /\ Before(1)' = Was
        /\ command'.step = "pages"
    BY <1>1, <1>2, <1>5, <1>6, <2>6, ApplyGoesOn
  <2>8. ASSUME f \notin doubtful'
        PROVE  /\ d.sound /\ d.kind = files[f].kind /\ files[f] = Was
    <3>1. d.sound /\ d.kind = files[f].kind
      BY <1>1, <1>7, <2>8
    <3>2. d.name \in Names
      BY <1>3, <3>1 DEF IInv, GoodDiff
    <3>3. files[f].name # None
      BY <2>1, <3>2, SessionAssumption
    <3>4. files[f] = Was
      <4>1. CASE Was # NoFile
        BY <1>4, <4>1 DEF KeptAs
      <4>2. CASE Was = NoFile
        <5>1. PICK kind \in Kinds : files[f] = DumpFile(None, 0, kind, Nothing)
          BY <1>4, <4>2 DEF KeptAs
        <5>2. DumpFile(None, 0, kind, Nothing).name = None
          BY DEF DumpFile
        <5>. QED
          BY <3>3, <5>1, <5>2
      <4>. QED
        BY <4>1, <4>2
    <3>. QED
      BY <3>1, <3>4
  <2>9. diffs'[command'.specs[1].diff] = d
    BY <1>1, <2>7
  <2>10. f \notin doubtful' =>
            /\ d.sound
            /\ files'[f].name = d.name /\ files'[f].time = d.to /\ files'[f].kind = d.kind
            /\ Was.name = d.name /\ Was.time = d.from /\ Was.kind = d.kind
    <3>. HIDE DEF d, f
    <3>. QED
      BY <2>1, <2>4, <2>8
  <2>11. IsApply'
    <3>. HIDE DEF d, f
    <3>. QED
      BY <1>3, <2>7, <2>9, <2>10 DEF IsApply
  <2>. QED
    BY <2>5, <2>7, <2>11, IdleFacts DEF IInv
<1>8. CASE ~ accepted
  <2>1. command' = Refused /\ files' = files /\ doubtful' = doubtful
    BY <1>1, <1>8
  <2>2. Idle'
    BY <2>1, IdleFacts DEF Idle
  <2>3. f \notin doubtful' => Good(files'[f])
    <3>1. f \notin doubtful => Good(Was)
      BY <1>2, <1>3 DEF IsCommand, Before
    <3>. QED
      BY <1>4, <2>1, <3>1, KeptIsGood
  <2>4. \A g \in Files \ doubtful' : Good(files'[g])
    BY <1>2, <1>5, <1>6, <2>2, <2>3, ApplyEnds
  <2>. QED
    BY <1>1, <1>2, <2>1, <2>2, <2>4 DEF IInv, Types
<1>. QED
  BY <1>7, <1>8

\* Whatever the records do to its contents, the dump says the same.
LEMMA RecordsStep ==
    ASSUME IInv, ProcessRecords
    PROVE  IInv'
<1> DEFINE f == Spec1.file
<1>1. PICK contents \in {files[f].contents, Broken} :
        files' = [files EXCEPT ![f].contents = contents]
  BY DEF ProcessRecords
<1>2. /\ command.op = "apply" /\ command.step = "pages" /\ command' = Advanced("complete")
      /\ diffs' = diffs /\ now' = now /\ doubtful' = doubtful
  BY DEF ProcessRecords, At
<1>3. ~ Idle /\ Types /\ IsCommand /\ IsApply
  BY <1>2, IdleFacts DEF Idle, IInv
<1>4. /\ f \in Files /\ FileAt(1) = f /\ Was = Before(1)
      /\ command.specs[1] = Spec1 /\ Spec1.diff \in Diffs /\ files[f] \in FileType
  BY <1>3, ApplyFacts
<1>5. /\ files'[f] = [files[f] EXCEPT !.contents = contents]
      /\ \A g \in Files : g # f => files'[g] = files[g]
  BY <1>1, <1>3, <1>4 DEF Types
<1>6. /\ files'[f].name = files[f].name /\ files'[f].time = files[f].time
      /\ files'[f].kind = files[f].kind /\ files'[f] \in FileType
  BY <1>4, <1>5 DEF FileType, Contents
<1>7. Types' /\ \A d \in Diffs : GoodDiff(diffs'[d])
  BY <1>1, <1>2, <1>3, <1>4, <1>6 DEF Types, IInv
<1>8. /\ ~ Idle' /\ IsCommand' /\ command'.op = "apply"
      /\ Len(command'.specs) = 1 /\ command'.specs[1] = Spec1
      /\ FileAt(1)' = f /\ Before(1)' = Was
      /\ command'.step = "complete"
  BY <1>2, <1>3, <1>5, ApplyGoesOn
<1>9. IsApply'
  BY <1>2, <1>3, <1>4, <1>6, <1>8 DEF IsApply
<1>. QED
  BY <1>7, <1>8, <1>9, IdleFacts DEF IInv

\* A sound diff dump makes the next complete dump of the one it leads from.
LEMMA CompleteApplyStep ==
    ASSUME IInv, CompleteApply
    PROVE  IInv'
<1> DEFINE f == Spec1.file
           d == diffs[Spec1.diff]
           contents == IF d.complete /\ Was.contents = d.base THEN d.result ELSE Broken
<1>1. /\ command.op = "apply" /\ command.step = "complete" /\ command' = Advanced("ended")
      /\ files' = [files EXCEPT ![f].contents = contents]
      /\ diffs' = diffs /\ now' = now /\ doubtful' = doubtful
  BY DEF CompleteApply, At
<1>2. ~ Idle /\ Types /\ IsCommand /\ IsApply
  BY <1>1, IdleFacts DEF Idle, IInv
<1>3. /\ f \in Files /\ FileAt(1) = f /\ Was = Before(1) /\ Was \in FileType
      /\ command.specs[1] = Spec1 /\ Spec1.diff \in Diffs
      /\ d \in DiffType /\ files[f] \in FileType
      /\ command.i = 1 /\ Len(command.specs) = 1
  BY <1>2, ApplyFacts
<1>4. contents \in Contents
  BY <1>3 DEF DiffType, Contents
<1>5. /\ files'[f] = [files[f] EXCEPT !.contents = contents]
      /\ \A g \in Files : g # f => files'[g] = files[g]
  BY <1>1, <1>2, <1>3 DEF Types
<1>6. /\ files'[f].name = files[f].name /\ files'[f].time = files[f].time
      /\ files'[f].kind = files[f].kind /\ files'[f].contents = contents
      /\ files'[f] \in FileType
  <2>. HIDE DEF contents, f
  <2>. QED
    BY <1>3, <1>4, <1>5 DEF FileType
<1>7. Types' /\ \A e \in Diffs : GoodDiff(diffs'[e])
  BY <1>1, <1>2, <1>3, <1>6 DEF Types, IInv
<1>8. command' = NoCommand /\ Idle'
  BY <1>1, <1>2, <1>3, EndedFacts, IdleFacts DEF Idle
<1>9. ASSUME f \notin doubtful
      PROVE  Good(files'[f])
  <2>1. /\ d.sound
        /\ files[f].name = d.name /\ files[f].time = d.to /\ files[f].kind = d.kind
        /\ Was.name = d.name /\ Was.time = d.from /\ Was.kind = d.kind
    BY <1>1, <1>2, <1>3, <1>9 DEF IsApply
  <2>2. /\ d.complete /\ d.name \in Names /\ d.to # 0
        /\ d.result = Holds(d.name, d.to, d.kind)
        /\ d.from # 0 => d.base = Holds(d.name, d.from, d.kind)
    BY <1>3, <2>1 DEF IInv, GoodDiff
  <2>3. Good(Was)
    BY <1>2, <1>3, <1>9 DEF IsCommand, Before
  <2>4. Was.name # None
    BY <2>1, <2>2, SessionAssumption
  <2>5. Was.time # 0 /\ Was.contents = Holds(Was.name, Was.time, Was.kind)
    BY <2>3, <2>4 DEF Good, NoFile, DumpFile
  <2>6. contents = d.result
    BY <2>1, <2>2, <2>5
  <2>. QED
    BY <1>6, <2>1, <2>2, <2>6 DEF Good
<1>10. \A g \in Files \ doubtful' : Good(files'[g])
  BY <1>1, <1>2, <1>5, <1>8, <1>9, ApplyEnds
<1>. QED
  BY <1>7, <1>8, <1>10 DEF IInv

------------------------------------------------------------------------------
(* What happens around the commands. *)

\* The dumps that an interrupted command was in the middle of are doubtful.
LEMMA InterruptStep ==
    ASSUME IInv, Interrupt
    PROVE  IInv'
<1>1. /\ ~ Idle /\ command' = NoCommand /\ doubtful' = doubtful \cup Unfinished
      /\ files' = files /\ diffs' = diffs /\ now' = now
  BY DEF Interrupt
<1>2. Types /\ IsCommand /\ command.op \in {"update", "apply"} /\ Idle'
  BY <1>1, IdleFacts DEF IInv, IsCommand, Idle
<1>3. \A j \in Positions : FileAt(j) \in Files /\ Before(j) \in FileType
  BY <1>2, HereFacts
<1>4. \A j \in Positions : Under(j) => FileAt(j) \in Unfinished
  BY <1>2 DEF IsCommand, Positions, Under, Unfinished, FileAt
<1>5. ASSUME NEW j \in Positions, FileAt(j) \notin doubtful'
      PROVE  Good(files'[FileAt(j)])
  <2>1. FileAt(j) \notin doubtful /\ ~ Under(j)
    BY <1>1, <1>4, <1>5
  <2>2. Good(Before(j))
    BY <1>2, <1>3, <2>1 DEF IsCommand, Before
  <2>3. KeptAs(files[FileAt(j)], Before(j)) => Good(files[FileAt(j)])
    BY <2>2, KeptIsGood
  <2>4. CASE command.op = "update"
    <3>1. IsUpdate
      BY <1>1, <2>4 DEF IInv
    <3>2. CASE Ahead(j)
      BY <1>1, <2>2, <3>1, <3>2 DEF IsUpdate
    <3>3. CASE Behind(j)
      BY <1>1, <2>1, <3>1, <3>3 DEF IsUpdate
    <3>4. CASE ~ Ahead(j) /\ ~ Behind(j)
      BY <1>1, <2>1, <2>3, <3>1, <3>4 DEF IsUpdate, Kept
    <3>. QED
      BY <3>2, <3>3, <3>4
  <2>5. CASE command.op = "apply"
    <3>1. IsApply /\ Positions = {1} /\ command.i = 1
      BY <1>1, <1>2, <2>5, ApplyFacts DEF IInv
    <3>2. command.step \notin {"pages", "complete"}
      BY <2>1, <3>1 DEF Under
    <3>3. files[FileAt(j)] = Before(j) \/ KeptAs(files[FileAt(j)], Before(j))
      BY <3>1, <3>2 DEF IsApply, Kept
    <3>. QED
      BY <1>1, <2>2, <2>3, <3>3
  <2>. QED
    BY <1>2, <2>4, <2>5
<1>6. \A f \in Files \ doubtful' : Good(files'[f])
  <2>1. doubtful \subseteq doubtful'
    BY <1>1
  <2>2. \A f \in Files : f \notin {FileAt(j) : j \in Positions} => files'[f] = files[f]
    BY <1>1
  <2>. QED
    BY <1>2, <1>5, <2>1, <2>2, OthersAreGood
<1>. QED
  BY <1>1, <1>2, <1>6 DEF IInv, Types

\* A copy is as good as the dump it is of.
LEMMA CopyStep ==
    ASSUME IInv, NEW f \in Files, NEW g \in Files, Copy(f, g)
    PROVE  IInv'
<1>1. /\ Idle /\ files' = [files EXCEPT ![g] = files[f]]
      /\ doubtful' = IF f \in doubtful THEN doubtful \cup {g} ELSE doubtful \ {g}
      /\ diffs' = diffs /\ now' = now /\ command' = command
  BY DEF Copy
<1>2. Types' /\ Idle'
  BY <1>1 DEF IInv, Types, Idle
<1>3. \A h \in Files \ doubtful' : Good(files'[h])
  BY <1>1 DEF IInv, Types
<1>. QED
  BY <1>1, <1>2, <1>3 DEF IInv

\* Time changes no dump.
LEMMA TickStep ==
    ASSUME IInv, Tick
    PROVE  IInv'
<1>1. /\ Idle /\ now' = now + 1 /\ files' = files /\ diffs' = diffs
      /\ command' = command /\ doubtful' = doubtful
  BY DEF Tick
<1>2. Types' /\ Idle'
  BY <1>1 DEF IInv, Types, Idle
<1>. QED
  BY <1>1, <1>2 DEF IInv

\* Nor does nothing.
LEMMA StutterStep ==
    ASSUME IInv, UNCHANGED vars
    PROVE  IInv'
<1>1. /\ files' = files /\ diffs' = diffs /\ now' = now /\ command' = command
      /\ doubtful' = doubtful
  BY DEF vars
<1>2. (Types' <=> Types) /\ (Idle' <=> Idle)
  BY <1>1 DEF Types, Idle
<1>3. /\ Positions' = Positions
      /\ \A j : FileAt(j)' = FileAt(j) /\ Before(j)' = Before(j)
  BY <1>1 DEF Positions, FileAt, Before
<1>4. \A j : /\ Ahead(j)' <=> Ahead(j)
             /\ Under(j)' <=> Under(j)
             /\ Behind(j)' <=> Behind(j)
             /\ Kept(j)' <=> Kept(j)
             /\ Started(j)' <=> Started(j)
  BY <1>1, <1>3 DEF Ahead, Under, Behind, Kept, Started
<1>5. IsCommand => IsCommand'
  BY <1>1, <1>3 DEF IsCommand
<1>6. IsUpdate => IsUpdate'
  BY <1>1, <1>3, <1>4 DEF IsUpdate
<1>7. IsApply => IsApply'
  BY <1>1, <1>3, <1>4 DEF IsApply
<1>. QED
  BY <1>1, <1>2, <1>5, <1>6, <1>7 DEF IInv

\* Every step keeps the invariant.
LEMMA NextKeeps == IInv /\ [Next]_vars => IInv'
<1>. SUFFICES ASSUME IInv, [Next]_vars PROVE IInv'
  OBVIOUS
<1>1. CASE \E name \in Names, specs \in Specs : StartUpdate(name, specs)
  BY <1>1, StartUpdateStep
<1>2. CASE \E kind \in Kinds : CreateWriter(kind)
  BY <1>2, CreateStep
<1>3. CASE \E kind \in Kinds : OpenDiff(kind)
  BY <1>3, OpenDiffStep
<1>4. CASE SetDumpKind
  BY <1>4, KindStep
<1>5. CASE SetSiteInfo
  BY <1>5, SiteInfoStep
<1>6. CASE WritePages
  BY <1>6, PagesStep
<1>7. CASE CompleteUpdate
  BY <1>7, CompleteStep
<1>8. CASE \E f \in Files, d \in Diffs : StartApply(f, d)
  BY <1>8, StartApplyStep
<1>9. CASE ProcessSiteInfo
  BY <1>9, ProcessSiteInfoStep
<1>10. CASE ProcessRecords
  BY <1>10, RecordsStep
<1>11. CASE CompleteApply
  BY <1>11, CompleteApplyStep
<1>12. CASE Interrupt
  BY <1>12, InterruptStep
<1>13. CASE \E f, g \in Files : Copy(f, g)
  BY <1>13, CopyStep
<1>14. CASE Tick
  BY <1>14, TickStep
<1>15. CASE UNCHANGED vars
  BY <1>15, StutterStep
<1>. QED
  BY <1>1, <1>2, <1>3, <1>4, <1>5, <1>6, <1>7, <1>8, <1>9, <1>10, <1>11, <1>12, <1>13,
     <1>14, <1>15 DEF Next

------------------------------------------------------------------------------
(* The results. *)

\* Whatever the commands, the copies and the interruptions: a diff dump of a
\* dump that was not doubtful leads from one complete dump to another, and
\* what a running command has done to its files is known.
THEOREM Invariance == Spec => []IInv
<1>1. Init => IInv
  BY InitStep
<1>2. IInv /\ [Next]_vars => IInv'
  BY NextKeeps
<1>. QED
  BY <1>1, <1>2, PTL DEF Spec

\* Between commands, a dump that is not doubtful is the complete dump of the
\* wiki, the moment and the kind that are in its header.
THEOREM DumpsSayWhatTheyHold == Spec => []SaysWhatItHolds
<1>1. IInv => SaysWhatItHolds
  BY DEF IInv, SaysWhatItHolds, Good
<1>. QED
  BY <1>1, Invariance, PTL

\* What a refused command did to its files until then was to open them.
LEMMA RefusedKeeps ==
    ASSUME IInv, [Next]_vars, ~ Idle, command' = Refused, NEW f \in Files,
           command.before[f] # NoFile
    PROVE  files'[f] = command.before[f]
<1>1. Types /\ IsCommand
  BY DEF IInv
<1>2. Refused.op = None /\ Refused # NoCommand /\ Refused.step = "refused"
  BY IdleFacts DEF Refused, NoCommand
<1>3. command.op = None => FALSE
  BY DEF Idle
<1>4. \A j \in Positions : /\ j \in Nat /\ FileAt(j) \in Files
                           /\ command.specs[j] \in SpecType
  BY <1>1, HereFacts
<1>5. \A step : step # "ended" => Advanced(step) # Refused
  BY <1>1, <1>2, <1>3, AdvancedFacts
<1>6. Advanced("ended") # Refused
  BY <1>1, <1>2, <1>3, EndedFacts
<1>7. ASSUME \/ command.op = "update" /\ command.step \in {"create", "kind"}
             \/ command.op = "apply" /\ command.step \in {"create", "siteinfo"}
      PROVE  files[f] = command.before[f]
  <2>1. CASE f \notin {FileAt(j) : j \in Positions}
    BY <1>1, <2>1 DEF IsCommand
  <2>2. CASE \E j \in Positions : f = FileAt(j)
    <3>1. PICK j \in Positions : f = FileAt(j)
      BY <2>2
    <3>2. Before(j) = command.before[f] /\ Before(j) # NoFile
      BY <3>1 DEF Before
    <3>3. files[f] = Before(j) \/ KeptAs(files[f], Before(j))
      <4>1. CASE command.op = "update"
        <5>1. IsUpdate /\ command.step \in {"create", "kind"}
          BY <1>7, <4>1 DEF IInv, Idle
        <5>2. ~ Under(j) /\ ~ Behind(j)
          BY <5>1 DEF Under, Behind
        <5>. QED
          BY <3>1, <5>1, <5>2 DEF IsUpdate, Kept
      <4>2. CASE command.op = "apply"
        <5>1. IsApply /\ command.step \in {"create", "siteinfo"}
          BY <1>7, <4>2 DEF IInv, Idle
        <5>2. j = 1
          BY <1>1, <5>1, ApplyFacts
        <5>. QED
          BY <3>1, <5>1, <5>2 DEF IsApply, Kept
      <4>. QED
        BY <1>7, <4>1, <4>2
    <3>. QED
      BY <3>2, <3>3 DEF KeptAs
  <2>. QED
    BY <2>1, <2>2
<1>8. ASSUME Spec1.file \in Files, NEW kind \in Kinds, files[f] = command.before[f],
             files' = [files EXCEPT ![Spec1.file] = Opened(Spec1.file, kind)]
      PROVE  files'[f] = command.before[f]
  <2>1. files[f] # NoFile
    BY <1>8
  <2>2. CASE f = Spec1.file
    <3>1. Opened(f, kind) = files[f]
      BY <2>1 DEF Opened
    <3>. QED
      BY <1>1, <1>8, <2>2, <3>1 DEF Types
  <2>3. CASE f # Spec1.file
    BY <1>1, <1>8, <2>3 DEF Types
  <2>. QED
    BY <2>2, <2>3
<1>9. Spec1.file \in Files
  BY <1>1, HereFacts DEF SpecType
<1>10. CASE \E kind \in Kinds : CreateWriter(kind)
  <2>1. PICK kind \in Kinds : CreateWriter(kind)
    BY <1>10
  <2>2. /\ command.op = "update" /\ command.step = "create"
        /\ files' = [files EXCEPT ![Spec1.file] = Opened(Spec1.file, kind)]
    BY <2>1 DEF CreateWriter, At
  <2>. QED
    BY <1>7, <1>8, <1>9, <2>2
<1>11. CASE \E kind \in Kinds : OpenDiff(kind)
  <2>1. PICK kind \in Kinds : OpenDiff(kind)
    BY <1>11
  <2>2. /\ command.op = "apply" /\ command.step = "create"
        /\ files' = [files EXCEPT ![Spec1.file] = Opened(Spec1.file, kind)]
    BY <2>1 DEF OpenDiff, At
  <2>. QED
    BY <1>7, <1>8, <1>9, <2>2
<1>12. CASE SetDumpKind
  <2>1. command.op = "update" /\ command.step = "kind"
    BY <1>12 DEF SetDumpKind, At
  <2>2. files' = files
    BY <1>5, <1>12 DEF SetDumpKind
  <2>. QED
    BY <1>7, <2>1, <2>2
<1>13. CASE ProcessSiteInfo
  <2>1. command.op = "apply" /\ command.step = "siteinfo"
    BY <1>13 DEF ProcessSiteInfo, At
  <2>2. files' = files
    BY <1>5, <1>13 DEF ProcessSiteInfo
  <2>. QED
    BY <1>7, <2>1, <2>2
<1>14. CASE SetSiteInfo \/ WritePages \/ ProcessRecords
  BY <1>5, <1>14 DEF SetSiteInfo, WritePages, ProcessRecords
<1>15. CASE CompleteUpdate \/ CompleteApply
  BY <1>6, <1>15 DEF CompleteUpdate, CompleteApply
<1>16. CASE \/ \E name \in Names, specs \in Specs : StartUpdate(name, specs)
            \/ \E g \in Files, d \in Diffs : StartApply(g, d)
            \/ \E g, h \in Files : Copy(g, h)
            \/ Tick
  BY <1>16 DEF StartUpdate, StartApply, Copy, Tick
<1>17. CASE Interrupt
  BY <1>2, <1>17 DEF Interrupt
<1>18. CASE UNCHANGED vars
  BY <1>2, <1>3, <1>18 DEF vars
<1>. QED
  BY <1>10, <1>11, <1>12, <1>13, <1>14, <1>15, <1>16, <1>17, <1>18 DEF Next

\* A command that is refused leaves every dump that existed before it as it
\* was.
THEOREM RefusedLeavesDumps == Spec => RefusedUntouched
<1>1. IInv /\ [Next]_vars =>
        [(~ Idle /\ command' = Refused) =>
            \A f \in Files : command.before[f] # NoFile => files'[f] = command.before[f]]_vars
  BY RefusedKeeps
<1>. QED
  BY <1>1, Invariance, PTL DEF Spec, RefusedUntouched
==============================================================================
