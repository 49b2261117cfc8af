------------------------------ MODULE DumpSession ------------------------------
(***************************************************************************)
(* Commands on dump files: createDump and updateDump bring some dumps to   *)
(* the state of a wiki and write diff dumps, applyDiff applies a diff dump *)
(* to a dump.  Each checks the name, the timestamp and the kind of a dump, *)
(* at different moments, and may end at any of them, or in the middle of   *)
(* its work.  Here a step is what a command does to one of its files.      *)
(*                                                                         *)
(* What a dump holds is abstracted to the wiki, the moment and the kind it *)
(* is the dump of.  Each moment of a wiki has a timestamp of its own.      *)
(***************************************************************************)
EXTENDS Naturals, Sequences

CONSTANTS
    Files, Diffs,   \* paths of dumps and of diff dumps
    Names,          \* of wikis
    Kinds,          \* DumpKind
    None, Broken,   \* no value; contents that are those of no dump
    MaxTime,        \* bound: timestamps
    MaxWriters,     \* bound: dumps updated by one command
    Interruptible   \* may a command end by an error in the middle?

ASSUME SessionAssumption ==
    /\ None \notin Names \cup Kinds \cup Diffs \cup Files \cup {Broken, "update", "apply"}
    /\ Broken \notin [name : Names \cup {None}, time : Nat, kind : Kinds \cup {None}]
    /\ MaxTime \in Nat /\ MaxWriters \in Nat
    /\ Interruptible \in BOOLEAN

VARIABLES
    files,      \* dump files: FileHeader::Kind, DumpSiteInfo and contents
    diffs,      \* diff dump files
    now,        \* the present moment of the wikis
    command,    \* the running command
    doubtful    \* history: files that need not hold what they say

vars == <<files, diffs, now, command, doubtful>>

\* The contents of a complete dump of a wiki; time 0 is the empty timestamp.
Holds(name, time, kind) == [name |-> name, time |-> time, kind |-> kind]
Nothing == Holds(None, 0, None)

DumpFile(name, time, kind, contents) ==
    [name |-> name, time |-> time, kind |-> kind, contents |-> contents]
NoFile == DumpFile(None, 0, None, None)

\* A diff dump that was opened for writing is empty until SetSiteInfo.
NoDiff == [name |-> None, from |-> 0, to |-> 0, kind |-> None, base |-> None,
           result |-> Broken, complete |-> FALSE, sound |-> FALSE]

\* A running command: what it is, for which wiki, its files, the step it is at
\* and the file in that step, the dumps that are new, and all dump files as
\* they were when it began.
Command(op, name, specs) ==
    [op |-> op, name |-> name, specs |-> specs, step |-> "create", i |-> 1,
     fresh |-> {}, before |-> files]
NoCommand ==
    [op |-> None, name |-> None, specs |-> <<>>, step |-> "ended", i |-> 0,
     fresh |-> {}, before |-> <<>>]
Refused == [NoCommand EXCEPT !.step = "refused"]

Idle == command.op = None
At(op, step) == command.op = op /\ command.step = step
Spec1 == command.specs[command.i]   \* the file the command is at
Was == command.before[Spec1.file]

\* DumpSiteInfo::CheckName and CheckTimestamp.
CheckName(file, name, canBeEmpty) ==
    file.name = name \/ (canBeEmpty /\ file.name = None)
CheckTimestamp(file, time, shouldBeDifferent) ==
    (file.time = time) = ~ shouldBeDifferent

\* The command goes on to its next file, or to the next step.
Advanced(step) ==
    IF command.i < Len(command.specs) THEN [command EXCEPT !.i = @ + 1]
    ELSE IF step = "ended" THEN NoCommand
    ELSE [command EXCEPT !.i = 1, !.step = step]

\* Dump::init of a file that does not exist; the kind is not initialised.
Opened(f, kind) ==
    IF files[f] # NoFile THEN files[f] ELSE DumpFile(None, 0, kind, Nothing)

Init ==
    /\ files = [f \in Files |-> NoFile]
    /\ diffs = [d \in Diffs |-> NoDiff]
    /\ now = 1
    /\ command = NoCommand
    /\ doubtful = {}

------------------------------------------------------------------------------
(* createDump and updateDump. *)

\* Groups of command line parameters, one for each dump.
Specs ==
    LET spec == [file : Files, kind : Kinds, diff : Diffs \cup {None}]
        apart(s, t) == s.file # t.file /\ (s.diff = None \/ s.diff # t.diff)
    IN  {specs \in UNION {[1 .. n -> spec] : n \in 1 .. MaxWriters} :
            \A i, j \in DOMAIN specs : i # j => apart(specs[i], specs[j])}

StartUpdate(name, specs) ==
    /\ Idle
    /\ command' = Command("update", name, specs)
    /\ UNCHANGED <<files, diffs, now, doubtful>>

\* Mutant: the new timestamp is in the file before everything is checked.
CreateWriterEarly(kind) ==
    LET f == Spec1.file
        opened == Opened(f, kind)
        accepted == CheckName(opened, command.name, TRUE) /\ CheckTimestamp(opened, now, TRUE)
    IN  /\ At("update", "create")
        /\ files' = [files EXCEPT ![f] = IF accepted THEN [opened EXCEPT !.time = now]
                                         ELSE opened]
        /\ diffs' = IF accepted /\ Spec1.diff # None
                      THEN [diffs EXCEPT ![Spec1.diff] = NoDiff] ELSE diffs
        /\ command' = IF ~ accepted THEN Refused
                      ELSE [Advanced("kind") EXCEPT
                                !.fresh = @ \cup (IF files[f] = NoFile THEN {f} ELSE {})]
        /\ UNCHANGED <<now, doubtful>>

\* createWriter: Dump::Create, CheckName, CheckTimestamp and the DiffWriter.
CreateWriter(kind) ==
    LET f == Spec1.file
        opened == Opened(f, kind)
        accepted == CheckName(opened, command.name, TRUE) /\ CheckTimestamp(opened, now, TRUE)
    IN  /\ At("update", "create")
        /\ files' = [files EXCEPT ![f] = opened]
        /\ diffs' = IF accepted /\ Spec1.diff # None
                      THEN [diffs EXCEPT ![Spec1.diff] = NoDiff] ELSE diffs
        /\ command' = IF ~ accepted THEN Refused
                      ELSE [Advanced("kind") EXCEPT
                                !.fresh = @ \cup (IF files[f] = NoFile THEN {f} ELSE {})]
        /\ UNCHANGED <<now, doubtful>>

\* DumpWriter::SetDumpKind.
SetDumpKind ==
    LET f == Spec1.file
    IN  /\ At("update", "kind")
        /\ \/ /\ f \in command.fresh
              /\ files' = [files EXCEPT ![f].kind = Spec1.kind]
              /\ command' = Advanced("siteinfo")
           \/ /\ f \notin command.fresh
              /\ command' = IF files[f].kind = Spec1.kind THEN Advanced("siteinfo") ELSE Refused
              /\ UNCHANGED files
        /\ UNCHANGED <<diffs, now, doubtful>>

\* DumpWriter::SetSiteInfo and DiffWriter::SetSiteInfo: the name and the new
\* timestamp reach the dump and the diff dump.
SetSiteInfo ==
    LET f == Spec1.file
        header == [NoDiff EXCEPT !.name = command.name, !.from = Was.time, !.to = now,
                                 !.kind = files[f].kind, !.base = files[f].contents]
    IN  /\ At("update", "siteinfo")
        /\ files' = [files EXCEPT ![f].name = command.name, ![f].time = now]
        /\ diffs' = IF Spec1.diff = None THEN diffs ELSE [diffs EXCEPT ![Spec1.diff] = header]
        /\ command' = Advanced("pages")
        /\ UNCHANGED <<now, doubtful>>

\* While pages are written, the indexes on disk are those of the old dump and
\* what they point at may have been replaced.
WritePages ==
    /\ At("update", "pages")
    /\ \E contents \in {files[Spec1.file].contents, Broken} :
        files' = [files EXCEPT ![Spec1.file].contents = contents]
    /\ command' = Advanced("complete")
    /\ UNCHANGED <<diffs, now, doubtful>>

\* DumpWriter::Complete.  A dump that was broken may stay so.
CompleteUpdate ==
    LET f     == Spec1.file
        whole == Holds(command.name, now, files[f].kind)
        had   == IF Was = NoFile THEN Nothing ELSE Was.contents
    IN  /\ At("update", "complete")
        /\ \E contents \in {whole} \cup ({had} \cap {Broken}) :
            /\ files' = [files EXCEPT ![f].contents = contents]
            /\ diffs' = IF Spec1.diff = None THEN diffs
                        ELSE [diffs EXCEPT ![Spec1.diff].result = contents,
                                           ![Spec1.diff].complete = TRUE,
                                           ![Spec1.diff].sound = f \notin doubtful]
        /\ command' = Advanced("ended")
        /\ UNCHANGED <<now, doubtful>>

------------------------------------------------------------------------------
(* applyDiff. *)

StartApply(f, d) ==
    /\ Idle
    /\ command' = Command("apply", None, <<[file |-> f, kind |-> None, diff |-> d]>>)
    /\ UNCHANGED <<files, diffs, now, doubtful>>

\* Dump::Create and the magic number of the diff dump.
OpenDiff(kind) ==
    /\ At("apply", "create")
    /\ files' = [files EXCEPT ![Spec1.file] = Opened(Spec1.file, kind)]
    /\ command' = IF diffs[Spec1.diff] = NoDiff THEN Refused ELSE Advanced("siteinfo")
    /\ UNCHANGED <<diffs, now, doubtful>>

\* Mutant: the timestamp is not checked.
ProcessSiteInfoAnyTime ==
    LET f == Spec1.file
        d == diffs[Spec1.diff]
        accepted == CheckName(files[f], d.name, FALSE)
    IN  /\ At("apply", "siteinfo")
        /\ files' = IF accepted THEN [files EXCEPT ![f].time = d.to] ELSE files
        /\ command' = IF accepted THEN Advanced("pages") ELSE Refused
        /\ doubtful' = IF accepted /\ (d.kind # files[f].kind \/ ~ d.sound)
                         THEN doubtful \cup {f} ELSE doubtful
        /\ UNCHANGED <<diffs, now>>

\* ChangeProcessor::Process(SiteInfoChange).  The kind in the header of the
\* diff dump is not compared with that of the dump.
ProcessSiteInfo ==
    LET f == Spec1.file
        d == diffs[Spec1.diff]
        accepted == CheckName(files[f], d.name, FALSE) /\ CheckTimestamp(files[f], d.from, FALSE)
    IN  /\ At("apply", "siteinfo")
        /\ files' = IF accepted THEN [files EXCEPT ![f].time = d.to] ELSE files
        /\ command' = IF accepted THEN Advanced("pages") ELSE Refused
        /\ doubtful' = IF accepted /\ (d.kind # files[f].kind \/ ~ d.sound)
                         THEN doubtful \cup {f} ELSE doubtful
        /\ UNCHANGED <<diffs, now>>

ProcessRecords ==
    /\ At("apply", "pages")
    /\ \E contents \in {files[Spec1.file].contents, Broken} :
        files' = [files EXCEPT ![Spec1.file].contents = contents]
    /\ command' = Advanced("complete")
    /\ UNCHANGED <<diffs, now, doubtful>>

\* ChangeProcessor::Complete.  The end of an unfinished diff dump looks like
\* the end of a finished one.
CompleteApply ==
    LET d == diffs[Spec1.diff]
    IN  /\ At("apply", "complete")
        /\ files' = [files EXCEPT ![Spec1.file].contents =
                        IF d.complete /\ Was.contents = d.base THEN d.result ELSE Broken]
        /\ command' = Advanced("ended")
        /\ UNCHANGED <<diffs, now, doubtful>>

------------------------------------------------------------------------------
(* What happens around the commands. *)

\* The dumps that say they are up to date and are not, or not yet.
Unfinished ==
    {command.specs[j].file : j \in {k \in DOMAIN command.specs :
        \/ command.step = "siteinfo" /\ k < command.i
        \/ command.step = "pages"
        \/ command.step = "complete" /\ k >= command.i}}

\* An exception from the input, the wiki or the disk, or the process is killed.
Interrupt ==
    /\ Interruptible
    /\ ~ Idle
    /\ command' = NoCommand
    /\ doubtful' = doubtful \cup Unfinished
    /\ UNCHANGED <<files, diffs, now>>

\* A dump file is downloaded, or copied.
Copy(f, g) ==
    /\ Idle
    /\ files[f] # NoFile
    /\ f # g
    /\ files' = [files EXCEPT ![g] = files[f]]
    /\ doubtful' = IF f \in doubtful THEN doubtful \cup {g} ELSE doubtful \ {g}
    /\ UNCHANGED <<diffs, now, command>>

\* The wikis change.
Tick ==
    /\ Idle
    /\ now < MaxTime
    /\ now' = now + 1
    /\ UNCHANGED <<files, diffs, command, doubtful>>

Next ==
    \/ \E name \in Names, specs \in Specs : StartUpdate(name, specs)
    \/ \E kind \in Kinds : CreateWriter(kind) \/ OpenDiff(kind)
    \/ SetDumpKind
    \/ SetSiteInfo
    \/ WritePages
    \/ CompleteUpdate
    \/ \E f \in Files, d \in Diffs : StartApply(f, d)
    \/ ProcessSiteInfo
    \/ ProcessRecords
    \/ CompleteApply
    \/ Interrupt
    \/ \E f, g \in Files : Copy(f, g)
    \/ Tick

Spec == Init /\ [][Next]_vars

------------------------------------------------------------------------------
\* A dump holds what its name, timestamp and kind say, whatever mixture of
\* updates, diffs, copies and refused or interrupted commands on it and other
\* dumps came before.  Doubtful are: a dump whose own update was interrupted
\* after SetSiteInfo, one that got a diff dump of such an update or one of
\* another kind, and their copies.
SaysWhatItHolds ==
    Idle => \A f \in Files \ doubtful :
        files[f].time # 0 =>
            files[f].contents = Holds(files[f].name, files[f].time, files[f].kind)

\* A command that is refused, for whichever of its files, leaves every dump
\* that existed as it was.
RefusedUntouched ==
    [][(~ Idle /\ command' = Refused) =>
        \A f \in Files : command.before[f] # NoFile => files'[f] = command.before[f]]_vars
==============================================================================
