# Verification of Incremental dumps

This directory holds a TLA+ model of Incremental dumps, the program that keeps a
dump of a MediaWiki wiki in one file, brings that file up to date in place, and
writes *diff dumps* that bring copies of it up to date. The model is checked with
TLC on small instances. The allocator at its centre with its nested calls, the objects
on top of it, the index with its splits, its cache and its iterators, the update of a dump
and what its diff dump does to a copy, the fields of a revision, the texts in their groups
and on their way into a copy, the commands, and the streams between the program and its
child processes are also proved correct, for every value of their parameters, with TLAPS.
Paths below are relative to `src/`.

1. [The system](#1-the-system)
2. [Modules](#2-modules)
3. [Runs](#3-runs)
4. [Fairness and deadlock](#4-fairness-and-deadlock)
5. [Proofs](#5-proofs)
6. [What the runs found](#6-what-the-runs-found)
7. [What is not modelled](#7-what-is-not-modelled)
8. [Plan](#8-plan)

## 1. The system

The program has two faces. The larger one is sequential: one file that is rewritten
in place by components that call each other. Every object and every index node is
a block of that file, found by an offset that somebody else stores. Sequences of
legal calls, stale offsets, calls that re-enter each other, limits of one node or
one byte, and commands that end half-way are the hazards. The smaller one is
concurrent: the XML of the wiki and the texts of revisions come from child
processes, and a second thread moves bytes between their pipes and the program.
There the hazards are interleavings, lost wake-ups, everyone waiting on everyone,
and a child that ends or crashes at any moment.

| component | state | operations | called by / calls | what is hard | what makes it correct |
|---|---|---|---|---|---|
| **Space manager** (`SpaceManager.*`) | `spaceByLength`; the free space index; `FileEnd` in the header | `GetSpace`, `Delete` | every object and index node / its own index | `GetSpace` and `Delete` call each other through the index they keep their free blocks in; the node of that index needs space itself | no byte has two owners, no byte is lost, both views of the free space agree, the list survives a restart |
| **Index** (`Indexes/`) | a B-tree of nodes, cached and on disk; `recentAccesses` | `Get`, `Add`, `AddOrUpdate`, `Remove`, `begin`/`end`, `Write` | every lookup of an object / Space manager | splits at several levels that move nodes on disk; nodes written, dropped and read again; leaves emptied by `Remove` | it is a map; every node fits its block; a changed node reaches the disk |
| **Iterators** (`Indexes/Iterators/`) | a path of positions | `++`, `*`, `==` | Space manager, writers, readers | the cache is cleared under the iterator; empty leaves | visits all keys in order |
| **Dump objects** (`DumpObjects/DumpObject.cpp`, `Dump.cpp`) | `savedOffset`, `savedLength` of each loaded object | `Write` with relocation, `DeletePage`, `DeleteRevision`, `Complete`, `init` | all writers / Index, Space manager | the old block is given back before the new one is taken; an object stays loaded while others are written | what was written is read; the index owns exactly the blocks in use |
| **Dump writer** (`DumpWriters/DumpWriter.cpp`) | `page`, `oldPage`, `unvisitedPageIds`, `newRevisionIds` | `SetDumpKind`, `SetSiteInfo`, `StartPage`, `AddRevision`, `EndPage`, `Complete` | XML input / Dump objects, Diff writer | revisions move between pages that come in any order, or are deleted | afterwards the dump is the wiki |
| **Diff writer** (`Diff/DiffWriter.cpp`, `Diff/Changes/`) | `pageWritten`, a queue of changes | one call for each action of the dump writer | Dump writer | a page is announced only when something about it is recorded | its records say everything that was done |
| **Change processor** (`Diff/ChangeProcessor.cpp`, `DiffReader.cpp`) | `currentPage` | one `Process` for each kind of record, `Complete` | the apply command / Dump objects | the current page is written late | the copy becomes the dump |
| **Text groups** (`TextGroupsManager.cpp`, `DumpObjects/TextGroup.cpp`) | the group being filled, the group whose texts are being deleted | `AddText`, `DeleteText`, `GetTextFromGroup`, `Complete`, `ImportTextGroup` | revisions / Dump objects | ids are given out before the group is stored; deletions are batched; it is called in the middle of writing a record; a text id is one byte | every revision finds its text |
| **Session protocol** (`main.cpp`, `DumpSiteInfo.cpp`, `FileHeader.cpp`, `DiffReader.cpp`) | the header and site info of each file | `createDump`, `updateDump`, `applyDiff`, `readDump` | the user | checks at different moments, on several files; commands that end half-way | a dump holds what it says it holds |
| **Model and format ids** (`Dump.cpp`, `DumpObjects/DumpRevision.cpp`) | a two-way table, ids of one byte | `GetIdForModelFormat`, `GetModelFormat`, `NewModelFormat` records | revisions, diff dumps / Index | ids wrap to 0, which means wikitext; an id is kept when a revision's model changes | a revision reads back its model; dump and copy have the same table |
| **Fields of a revision** (`Objects/`, `DumpObjects/DumpRevision.cpp`, `Diff/Changes/RevisionChange.cpp`) | flags and optional fields | `WriteCore`, `ReadCore`, `Read`; the parts of a change | Dump writer, Change processor | the reader knows from the flags alone which fields to expect; a string is at most 255 bytes | what was sent is read back; the copy gets the same |
| **Writer wrappers** (`DumpWriters/*Wrapper.cpp`, `CompositeWriter.cpp`) | the latest revision of a page; whether the page passes | the calls of `IDumpWriter` | XML input / Dump writers | a page without a revision; a page that enters or leaves the filter | what a filtered dump keeps |
| **Process streams** (`libexecstream/`, POSIX) | three buffers, two sets of event bits, the state of the thread | `start`, `get`, `put`, `close_in`, `close`; the thread's loop | `main.cpp`, `FetchText.cpp` / pipes, a child | waits return a snapshot of the bits; buffers with limits; a child that dies; a thread that is cancelled | nothing is lost or reordered; no wait sleeps through work; the program ends |
| **Child processes and texts** (`main.cpp`, `FetchText.cpp`, `XmlInput/WrapperInputStream.h`) | the request in progress | reading `dumpBackup`, forwarding its errors; `GetText` | XML input, Text groups / Process streams | output is read until there is enough, errors only in between; the state of the stream is not looked at | a text is the one asked for |
| **XML input** (`XmlInput/`) | parser position | one processor for each element | the XML parser / Writer wrappers | the order of the calls | each page is started, gets its revisions and is ended |
| **XML output** (`XmlWriter.cpp`) | – | – | `readDump` | – | – |
| **Value types** (`Objects/`) | – | conversions | – | widths and bases | round trips |
| **Compression, XML parser, format library** | – | – | – | third party | – |

## 2. Modules

Each component has a module, with an abstract specification where it makes a
promise to others:

```
 FreeSpace   <--implements--  SpaceManager  <--implements--  SpaceManagerCalls
                                 ^    ^                           ^
                              EXTENDS +-- EXTENDS --              |
                                 |        SpaceManagerProofs      |
                                 |              ^                 |
 ObjectStore <--implements--  DumpStore         |                 |
                                 ^              |                 |
                                 +-- EXTENDS -- SpaceUseProofs ---+

 IndexMap    <--implements--  BTreeIndex -- EXTENDS --> BTreeNodes
                                 ^
                                 +-- EXTENDS -- BTreeIndexProofs

 DiffTexts   -- EXTENDS --> TextGroups
      ^
      +-- EXTENDS -- DiffTextsProofs (the proofs about TextGroups too)

 RevisionFields -- EXTENDS --> BaseConvert
      ^
      +-- EXTENDS -- RevisionFieldsProofs

 DumpUpdate    DumpSession
      ^             ^
      |             +-- EXTENDS -- DumpSessionProofs
      +-- EXTENDS -- DumpUpdateProofs

 UpdateProcesses -- EXTENDS --> ExecStream
      ^
      +-- EXTENDS -- UpdateProcessesProofs
```

**`FreeSpace`** – the promise of the allocator: a block that is given out lies
behind the header and shares no byte with one in use.

**`SpaceManager`** – `GetSpace` and `Delete` as whole calls, with the free space
index, `FileEnd`, and the end and start of a session. State: `fileEnd` and
`spaceRoot` are the header fields `FileEnd` and `FreeSpaceIndexRoot`;
`spaceIndex`/`spaceByLength` are the two views in memory; `savedIndex` is the
node on disk and `modified` its flag; `live` is what the clients hold. Which
cached leaf `Index` would use is no question here, because that index never has
more than one node: see finding 1. `lower_bound` may return any of several
equally long blocks, so best fit is a choice.

**`SpaceManagerCalls`** – the same calls taken apart at the points where the
allocator and its index call each other, with an explicit stack of frames.
Between client calls (`stable`) it is `SpaceManager`; this is what justifies that
the other modules take a call as one action.

**`DumpStore`** – `DumpObject::Write` in its two halves (give the old block back;
take a new one, write, update the index), loading, deletion, `Dump::Complete` and
`Dump::init`, on top of `SpaceManager`. `bodies` says which byte ranges of the
file still hold which object: writing a range destroys everything that overlaps
it, so a stale offset reads `Garbage`. `CreateIndex` is the first thing a new file
gets: the node of the object index, which is a block like any other. `ObjectStore`
is what this promises: a store that a restart does not change.

**`BTreeNodes`**, **`BTreeIndex`** – the nodes and their splits; the tree with its
cache, its disk blocks, its iterators and reopening. Capacities count entries
instead of bytes. A tree is one record, `Tree(root, mem, dirty, disk)`, and each function
of the C++ classes that changes it is a function from trees to trees: `Put`, `SplitNode`,
`AfterAdd`, `SplitRoot`, `Flushed`, `Cleared`. What recurses from node to child in the code
is a recursive function on nodes here (`Below`, `SplitBelow`), so that the module can be
proved about. `Add` wants room for the splits it may cause (`RoomToSplit`): one block for
each node on the way and one for a new root. `IndexMap` is the promise: `Get`, set and
remove on a function.

**`DumpUpdate`** – one update of a dump by `DumpWriter`, the records it makes
through `DiffWriter`, and `ChangeProcessor` applying those records to a copy. In
front of the writer stand `ArticlesWriterWrapper`, which lets only pages of some
namespaces through, and `CurrentWriterWrapper`, which holds each revision back
until it knows that it is the last of its page; a `Scope` says which of them a
dump has. The update starts from every complete dump and every state of the wiki,
so that one update stands for any number of them. Pages and revisions carry one
value each. This is a dump without texts; `DiffTexts` is about those.

**`BaseConvert`**, **`RevisionFields`** – the fields of one revision on their way from
the wiki into the dump, back, into the diff dump and into a copy, in any number of
updates. On disk a revision is a sequence of named fields; `Expected` is what the
reader looks for given the flags, `Written` what the writer wrote. The table of
models and formats is part of it, with the id that `getNewId` gives out, `IdLimit`
values wide. `NormalizeComment` is `Normalized`, with the replacement characters
that MediaWiki may put at the end of a cut comment as `tail`. `BaseConvert` is the
conversion of SHA-1s between bases, digit by digit as the code does it.

**`TextGroups`** – `TextGroupsManager` with the two groups it has in memory and
those in the file, and the calls revisions make: add, hide, replace and delete.
`split` in `StringHelpers.cpp:10` yields one text more than were joined, and the
model has it: each time a group is read, an `Empty` text is appended (bounded by
`MaxTrailing`, beyond which more of them tell nothing new). One consequence,
which no comment contradicts: that text is never deleted, so a group that has been
read is never found empty and its block is never given back.

**`DiffTexts`** – `TextGroups` of a dump, its diff dumps, and `TextGroups` of a copy
(`Copy`, an instance over the copy's state). A dump with texts makes `DiffWriter`
keep its records in `queue` until the group with their texts is full, so that a
diff dump has the group first and then the records that point into it;
`ChangeProcessor` imports the group under an id of the copy's own. Each session is
one update of the dump, followed by its diff dump applied to the copy. The model
shows something that the code's comments neither promise nor exclude: a revision
whose text is replaced leaves the old text in the copy, because `textSaved` keeps
`DeleteText` from being called (`DumpObjects/DumpRevision.cpp:97`). The copy reads
the same texts but may keep groups that the dump has given up.

**`DumpSession`** – the commands on several dump files and diff dumps, one step for
each thing a command does to one file; an interruption may come at any step.
A dump's contents are abstracted to the wiki, moment and kind they are the dump
of. `OpenDiff` and `CreateWriter` leave the kind of a new file open: `FileHeader`
does not initialise it.

**`ExecStream`** – `exec_stream_t`: the buffers, `m_thread_control` and
`m_thread_responce` as the sets `control` and `response`, the thread as a program
counter `threadAt`, and the calls of the program's own thread. A step is the code
between two points where the other thread can make a difference: a wait, a
`select`, a read or write, a block under the mutex. A wait therefore only stores a
snapshot of the bits (`seen`), and the block that acts on it comes in a later step.
The unit of data is the block of 4096 bytes that the thread reads at once.

**`UpdateProcesses`** – who uses it: `updateDump` reading the output of `dumpBackup` and
forwarding its errors, or `FetchText` sending requests and reading answers; and
the child, which may write, read, end or crash whenever it can. The PHP scripts are
not part of the repository: the model has them do what the code that reads them
expects, and crash at any point. `received` and `written` are histories.

`MC*` modules give constants and symmetry sets. Definitions whose comment says
*Mutant* are not part of any specification: each is a definition changed as a
plausible bug would change it, and the property it is listed with in
`PROJECT.json` fails when it takes the definition's place. They keep the
properties honest.

## 3. Runs

| run | checks | shows | bounds, and why they are enough |
|---|---|---|---|
| `space_calls` | `SearchableIsFree`, `CycleEnteredOnce`, `ImplementsAtomic`, `CallsReturn` | a nested `GetSpace` finds only free blocks although its caller is half done; the cycle of calls is entered once; seen from outside the calls are `SpaceManager`'s; each call returns unless the node overflows | 8 bytes, two entries, five frames: one more than any call that returns needs |
| `space_overflow` | `OversizedIsSplit` | finding 1 | one entry |
| `store` | `StoreTypeOK`, `ViewsAgree`, `EachByteOwnedOnce`, `SavedOnComplete`, `IndexOwnsLiveBlocks`, `HandlesFresh`, `ImplementsFreeSpace`, `ImplementsObjectStore` | write, relocate, delete and reread any object in any order and in several sessions, one loaded while the other is written; below them the allocator keeps every byte with one owner | two objects, three contents of two lengths, 9 bytes, header 1, nodes of 2, two entries in the free space index: an object grows out of its block, shrinks into part of it, and takes the block of another; exact fit, split, growth, first entry, overflow and restart all happen. The theorems of section 5 have no such bounds |
| `btree` | `TypeOK`, `WellFormed`, `VisitsInOrder`, `ImplementsMap` | the index is a map | leaves of one entry and inner nodes of two keys, four keys: leaves, inner nodes and the root split, in trees of one to three levels; the cache is looked at every second access and is too big from three nodes on, so that it is cleared often; eight blocks are more than a tree of four keys has. The theorems about it have no such bounds |
| `btree_begin` | `BeginAtFirst` | finding 2 | two keys |
| `update` | `DumpIsWiki`, `ListedAreStored`, `NoChangeNoRecord`, `ReplicaIsDump`, `FailsForCause` | the dump becomes the part of the wiki it is a dump of, and the copy becomes the dump | dumps of the history: three pages and two revisions with two titles, two pages where contents change too: a page that is new, changed, unchanged or deleted on either side of a move, in each order of pages. Dumps of current revisions, of articles and of both: two pages, in the namespaces of articles, of talk and of users, so that pages enter and leave the filter |
| `moved_revision` | `RecordsAllActions` | finding 3 | two pages |
| `texts` | `TypeOK`, `TextsReadable`, `TextsOwnedOnce`, `NeverFails`, `CopyReadsTexts` | every revision finds its text while groups around it are filled, emptied, stored and read, no place has two owners and no deletion is lost; no record overtakes its group in a diff dump or is left for the next; after a diff dump is applied the copy reads the same texts | groups of two texts (0x100 in the code), three revisions, three groups: one group is full while the next is filled and texts of the first are deleted. A text is replaced only while its group is the one in memory: see finding 4 |
| `text_replaced` | `TextsReadable` | finding 4 | the same, without that restriction |
| `session` | `SaysWhatItHolds`, `RefusedUntouched` | a dump holds what it says unless its own history has one of the events named in `SaysWhatItHolds`; a refused command changes no dump | two files, one diff dump, two wikis, two kinds, three moments, commands on up to two files: a dump and its copy, or two dumps updated at once |
| `fields` | `TypeOK`, `ReadsWhatWasSent`, `CopyHoldsSame`, `FailsForCause`, `RepetitionIsSilent` | a revision reads back as it was sent whatever was hidden, shown and changed before, in the dump and in the copy; an update that says nothing new records nothing; errors have the causes named | models a, b, c and wikitext with ids 0 and 1: the table fills up and wraps. Comments of 10, 256 and 258 bytes with each kind of cut end. Bases 3 and 5 with 3 and 2 digits have the property of 36, 256, 31 and 20 that some numbers of the text form do not fit the raw one. A field takes any value, at most two differ from those of an ordinary revision at a time: each pair of fields meets in each pair of states |
| `streams` | `TypeOK`, `OutputArrives`, `InputArrives`, `BitsFollowBuffers`, `TextsWholeUnlessCrash`, `CallsComeBack`, `Finishes` | no output is lost, repeated or reordered; no wait sleeps through work; texts are whole unless the child crashed; every call comes back and the program ends | pipes of two units, a buffer of two (8192 bytes, two blocks, in the code), five units of output, which fill the buffer and the pipe and leave the child waiting; two units of errors; three requests |

`MaxFileEnd`, `StackLimit`, `MaxNodes`, `MaxGroup`, `MaxTrailing`, `MaxTime`,
`MaxWriters`, `PipeSize`, `MaxOut`, `MaxErr` and `Requests` are bounds of the model;
each is named where it is declared. `LeafCapacity`, `InnerCapacity`, `AccessLimit`,
`NodesLimit`, `GroupSize`, `NodeSize`, `IdLimit`, `OutLimit` and the bases are
constants of the code with small values; `CommentLimit` has its own. The symmetry
sets contain values that no definition compares other than by equality; no run
with symmetry checks a liveness property.

Some properties say what holds *except* in a case that section 6 is about:

- `ReplicaIsDump` and `FailsForCause` of `DumpUpdate` exclude updates in which a
  revision moves to a page that is sent before the page it leaves (`movedBack`);
- `VisitsInOrder` excludes trees with an emptied leaf (`HasEmptyLeaf`);
- `SaysWhatItHolds` excludes dumps that are `doubtful`: interrupted after
  `SetSiteInfo`, or with a diff dump of such an update or of another kind;
- the allocator's runs stop being able to write when the node of the free space
  index overflows;
- in `RevisionFields` a revision keeps the model it first got an id for (`kept`), a
  length that changed alone is not renewed (`resized`), and nothing is promised of
  a model without an id (`TableFull`) or of repeating an empty SHA-1;
- `TextsWholeUnlessCrash` excludes children that crashed;
- `InputArrives` says nothing of input after the thread was cancelled or stopped by an error.

## 4. Fairness and deadlock

`CallsSpec` assumes `WF_callVars(Inside)`: a call that has begun runs on. Nothing in a
call waits, so the next statement is always executed. That is what makes the
counterexample to `OversizedIsSplit` a refutation (the program does not merely stop
before the split), and what `CallsReturn` rests on.

`UpdateProcesses` assumes weak fairness of the main thread, of the stream thread and
of the child, each as a whole: the operating system schedules both threads and the
child, and a child that can go on does. Nothing is assumed of crashes, of errors, of
output to standard error or of the long timeouts. The 100 seconds of a call and of
a waiting thread, and the one second that `close` waits, may pass or not, so that
`CallsComeBack` and `Finishes` hold without them; only the tenth of a second of the
thread's `select` is relied upon, because new input is noticed no other way.

No fairness is assumed of the user, of the wiki or of input, so `SpaceManager`,
`DumpStore`, `BTreeIndex`, `DumpUpdate`, `TextGroups`, `DiffTexts`, `RevisionFields`
and `DumpSession` state safety only.

Deadlock is checked in `session`: there is always a command to give. In the other
runs behaviours really end: the process has died (`session = "dead"` after the stack
overflow), the update is applied or has failed, the program is done, or no bytes or
blocks are left within the bound. That `streams` ends only where it should is
`Finishes`.

## 5. Proofs

### The allocator

`SpaceManagerProofs` proves, for every header length, node size, capacity, set of
lengths and file size that satisfy `SpaceAssumption`:

| theorem | statement |
|---|---|
| `Invariance` | `Spec => []IInv` |
| `TypeCorrect` | `Spec => []TypeOK` |
| `OneOwner` | `Spec => []EachByteOwnedOnce` |
| `ViewsStayEqual` | `Spec => []ViewsAgree` |
| `CompleteSaves` | `Spec => []SavedOnComplete` |
| `KeepsPromise` | `Spec => ImplementsFreeSpace` |

`SpaceAssumption` says only that lengths are positive and offsets are naturals.
The code's 64-bit offsets are not taken to wrap: a file of 2^48 bytes would be
needed to leave the six bytes in which offsets are stored.

**The argument.** No single property is inductive. That `GetSpace` cuts a block
that nobody else owns needs that the inverted view it searches lists exactly the
free blocks (`ViewsAgree`) and that those are disjoint from all others
(`BlocksDisjoint`); that a new session is in the same state needs
`SavedOnComplete`; and that a new block at `FileEnd` is new needs that all blocks
lie below it. `IInv` is the conjunction of all five; the run `store` checks each of
its conjuncts. For the proof `IInv` is restated as `TilingInv` (lemma
`TilingInvIsIInv`): the set of all blocks *tiles* the file from the header to
`FileEnd` — the blocks are disjoint and leave no gap — and the three kinds of
owner are disjoint sets. Each action then does one of three things to a tiling,
each a lemma about sets of blocks:

- `GetSpace` at the end of the file appends a tile (`TiledAppend`, `AppendTiling`);
- `GetSpace` from the free list takes a tile, or cuts one in two (`TiledCut`,
  `ReuseTiling`);
- `Delete`, `Complete` and `Open` leave the tiles and change owners
  (`ReleaseLaterTiling`, `SameBlocksTiling`, `OpenTiling`); the first `Delete` also
  appends the node of the index (`ReleaseFirstTiling`).

`KeepsPromise` maps each step to `Acquire`, `GiveBack` or a stutter of `FreeSpace`
under `IInv`.

### The calls of the allocator

The first half of `SpaceUseProofs` proves of the calls taken apart, under the same assumption and
for every depth of the stack:

| theorem | statement |
|---|---|
| `CallsInvariance` | `CallsSpec => []CallsInv` |
| `CallsAreAtomic` | `CallsSpec => ImplementsAtomic` |
| `SearchesFindFree` | `CallsSpec => []SearchableIsFree` |
| `CycleIsEnteredOnce` | `CallsSpec => []CycleEnteredOnce` |

**The argument.** `stable` is the state before the client's call, and everything about
the call is said relative to it. `CallsInv` has one shape for each point at which a call
can be: a `GetSpace` that has asked (`Asked`), takes the end of the file (`TakesEnd`) or
cuts a block (`Cuts`); a `Delete` that was called (`Called`), has added to the index and
is saving its node (`Adds`), or has outgrown the node (`Overflows`). Each says how far
each variable is from `stable`, and which frames are on the stack. The shapes show why
the recursion is harmless as long as it ends: `Adds` calls `GetSpace` only when the
index has no node yet, and then nothing was ever free, so that the nested call takes
the end of the file and does not touch the index that is being changed. A shape at its
last point is exactly what one step of `SpaceManager` makes of `stable`; `Was` is
`SpaceManagerProofs` over the record `stable`, which lends its lemmas about tilings to
the state before the call. So a step either leaves `stable` as it is or is a step of
`SpaceManager` (`Returned`). An overflow never comes back: `Overflows` only grows, until
`Died`.

### The store

The second half of `SpaceUseProofs` proves, for every set of objects and contents, on top of the
allocator's proofs:

| theorem | statement |
|---|---|
| `StoreInvariance` | `StoreSpec => []SInv` |
| `UsesSpaceManager` | `StoreSpec => Spec` of `SpaceManager` |
| `StoreIsPlain` | `StoreSpec => ImplementsObjectStore` |
| `IndexOwns` | `StoreSpec => []IndexOwnsLiveBlocks` |
| `HandlesStayFresh` | `StoreSpec => []HandlesFresh` |
| `StoreTypeCorrect` | `StoreSpec => []StoreTypeOK` |

`StoreAssumption` adds to `SpaceAssumption` that every contents has a length the
allocator knows, that nodes have one too, and that the names of no object, no contents
and garbage differ from those of real ones.

**The argument.** Whatever the store does is a step of its allocator (`StepOfSpace`):
the lengths it asks for are lengths of objects, and what it gives back is in use. So
`TilingInv` holds in it by the allocator's own lemma (`NextTiling`), and only what the
store adds is left to prove: `StoreInv`. Its heart is that `bodies` never overlap
(`Whole`) and that each object of the index has one of them in a used block of exactly
that length (`Placed`, `Owned`). Neither is inductive alone: between the two halves of
a write the object has an old body whose block is already free, so `Placed` excepts
`pending.id`, and `Pending` keeps that object loaded. `WriteFinish` writes a block that
nobody else has, so that the only body it can destroy is the object's own old one; a
`Release` may write the node of the free space index at the end of the file
(`NodeWritten`), where there is nothing yet; and a write in place has the old body's
length. Which offset is given back is what a loaded object *remembers*, so all of this
needs `Fresh`: that no other write moves a loaded object. Given `SInv`, a reader finds
the body (`ReadsBody`), each step changes what is read of at most one object
(`StoreSteps`), and that is `ObjectStore` (`StepOfStore`).

### The index

`BTreeIndexProofs` proves, for every set of keys and values, every capacity of leaves and
inner nodes, every limit of the cache and of accesses, and every number of blocks:

| theorem | statement |
|---|---|
| `InductiveInvariant` | `Spec => []IInv` |
| `TypeCorrect` | `Spec => []TypeOK` |
| `WellFormedTree` | `Spec => []WellFormed` |
| `ImplementsIndexMap` | `Spec => ImplementsMap` |
| `VisitsAllInOrder` | `Spec => VisitsInOrder` |

`CapacityAssumption` says that a leaf has room for an entry and an inner node for two
keys: an inner node of one key that gets a second could not be split in two, and the
code's nodes of 4096 bytes have room for hundreds. `IndexAssumption` says that keys are
naturals, that `NoValue` is no value, and that `AccessLimit` and `MaxNodes` are not 0.

**The argument.** `WellFormed` says that separators are around the keys *below* a child,
and that is a statement about whole subtrees. It is inductive only once it is made local.
`IInv` therefore says that there are heights `h` and sets of keys `own`, one of each for
every node, with which the nodes are a tree (`IsTree`): the root owns all keys; a child is
one lower than its parent and owns exactly those of its parent's keys that `GetKeyIndex`
leads to it; leaves have height 0 and entries only for keys they own; every node but the root has
one parent. Each condition is about one node and its children. That the keys below a child
lie between its separators, that a search for *k* ends in the one leaf that owns *k*
(`WayIs`, `LeafForIs`), and that no node is its own descendant (`TreeFalls`) follow from it
by induction on the height.

The nodes are those a reader sees (`NodesOf`): the cached one if there is one, else the one
on disk. `Cached` is what makes clearing the cache invisible, that a cached node which is not
marked as modified is the one on disk. It is not enough, because `Write` descends only
through cached nodes: a modified node whose parent is not cached would never be written.
`Rooted` says that a cached node's parent is cached, and `WriteIs` rests on it.

A split takes a node out and puts two in, both in other blocks, and gives the two heights
and key sets of their own (`SplitKeepsTree`); it does so for a child (`ChildAdopts`) and
for a root under a new root (`RootAdopts`) alike. While `AfterAdd` goes back up, one node
may be too big for its block. `FitsBut` names it, and the lemmas about `SplitBelow` say of
each node on the way that what is below it is settled and only it can be too big, by one entry
or key (`NearlyFits`); that is where the halves fit from. That a split finds its blocks follows
from `RoomToSplit`, because the way from a node of height *n* has *n* + 1 nodes
(`WayLengthIs`) and each takes one block more than it gives back.

`ImplementsIndexMap` maps a tree to the entries of all its leaves. `SameEntries` says that
splits, loads, writes and clearings leave the entry of every key as it was, `EntryChanged`
that `Put` changes that of one. As each key is owned by one leaf, `Get` finds what was set.

Iterators need one fact more, `PathInv`: an iterator that is on an entry names a path of
nodes that exist. Nodes may enter and leave the cache under it, but a tree is not changed
while an iterator is open. The keys that a node owns are convex (`PathConvex`) and those of
a later child are greater, so that the next key is the next entry of the leaf, if there is
one, and otherwise the first in the leftmost leaf below the next child of the nearest node
that has one (`NextGoes`, `NextVisits`). That this leaf has a first entry is what
`HasEmptyLeaf` excludes (finding 2).

### The update

`DumpUpdateProofs` proves, for every wiki, every older dump and each of the kinds of
dump:

| theorem | statement |
|---|---|
| `Invariance` | `Spec => []IInv` |
| `DumpBecomesWiki` | `Spec => []DumpIsWiki` |
| `ListedStayStored` | `Spec => []ListedAreStored` |
| `RecordsInvariance` | `Spec => []RInv` |
| `CopyBecomesDump` | `Spec => []ReplicaIsDump` |
| `RecordsApply` | `Spec => []FailsForCause` |
| `NothingRecorded` | `Spec => []NoChangeNoRecord` |

`UpdateAssumption` says that pages and revisions are numbered, that there are finitely
many revisions, that every title is in a namespace, and that `None` is no page,
revision, title or contents.

**The argument.** What can go wrong is a revision that moves: its new page may come
before or after its old one, or the old one may be deleted at the end together with
what it lists. `IInv` therefore follows every revision of the file that is written. It
has been *passed* to its new page (`IsPassed`) or is *left* in an old one that the
writer has not come to (`IsLeft`); both are in the file, and the file has no others
(`RevisionsAre`). That a step which deletes what is left of an old page spares the
revisions that were passed elsewhere needs `NewOnes`: a revision that is passed to a
page which did not have it is in `newRevisionIds`. That nothing else is deleted with it
needs that a revision is in one page of the old dump and of the wiki (`IsDump`, which
lemma `CompleteIsDump` shows of everything that `Init` starts from).
`PagesAre` says of every page whether it is as in the wiki, as in the old dump, or the
current one. A current dump has one more state to follow, the revision that
`CurrentWriterWrapper` holds back until its page ends (`Coming`). At `Complete` no page
is left to visit, so that all revisions are passed and the dump is `Filtered`.
`DeleteUnvisited` takes the smallest page id; that a set of naturals has one
(`LeastExists`) rests on the well-foundedness of `<`.

For the diff dump the question is what the records made *so far* do to the copy, which
is still the old dump. `Applies` says what one record makes of a file and a current page
of `ChangeProcessor`, and `Leads` that a sequence of records gets from one such pair to
another through pairs in between, no record failing. Since `Leads` of one sequence and
of the next is `Leads` of both (`LeadsOn`), each action of the writer only has to
account for the records it adds, and no induction over diff dumps is needed. `RInv` says
that the records so far lead from the copy to a file that `Mirrors` the dump: the same
revisions, the same pages except the current one, and of that one, once something was
recorded about it, the page that `ChangeProcessor` is holding (`Started`). This is where
the order of pages matters. When a page is done, its old revisions that were not sent
are recorded as deleted, and the writer deletes only those that are not new elsewhere;
the two agree if no page so far took a revision from a page that is sent later
(`InOrder`), which is what `movedBack` excludes and finding 3 is about. `Quiet` is the
part about updates that find nothing new. When the copy applies the records, `Leads`
from the copy's state is kept by taking the first record away, and an application that
can go on never fails.

### The commands

`DumpSessionProofs` proves, for any number of dumps, diff dumps, wikis, kinds, moments
and files of one command, with and without interruptions:

| theorem | statement |
|---|---|
| `Invariance` | `Spec => []IInv` |
| `DumpsSayWhatTheyHold` | `Spec => []SaysWhatItHolds` |
| `RefusedLeavesDumps` | `Spec => RefusedUntouched` |

`SessionAssumption` says that the values that stand for nothing and for broken contents
differ from all others.

**The argument.** Between commands every dump that is not doubtful is `Good`, and that
is the property. It has to survive commands that do one step to each file in turn and
may be refused or interrupted at any of them. So `IInv` says how far the running
command is with each of its files: not there yet (`Ahead`), the file is as it was;
started (`Under`), it has the new timestamp and its diff dump the header that leads
from what the file was; finished (`Behind`), it is good; and before `SetSiteInfo` it is
as it was, or new and empty (`Kept`), which is good as well. An interrupted command
makes exactly the files under way doubtful. An update is refused only in the steps
before the first `SetSiteInfo`, where all its files are `Kept`: this is both why a
refused command leaves good dumps and `RefusedLeavesDumps`. For diff dumps `GoodDiff`
is needed: one that was made from a dump that was not doubtful leads from the complete
dump of one moment to that of another. `ProcessSiteInfo` compares only names and
timestamps; that this suffices for the contents to be the base of the diff dump follows
from `Good` of the dump it is applied to.

### The text groups

The first half of `DiffTextsProofs` proves, for any number of revisions, texts and groups
and every size of a group, on the hypothesis that a text is replaced only in the group that is being
emptied (`~ ReplaceAnywhere`):

| theorem | statement |
|---|---|
| `Invariance` | `~ ReplaceAnywhere => (Spec => []IInv)` |
| `TextsStayReadable` | ... `[]TextsReadable` |
| `TextsHaveOneOwner` | ... `[]TextsOwnedOnce` |
| `DeletionsSucceed` | ... `[]NeverFails` |
| `TypeCorrect` | ... `[]TypeOK` |

The hypothesis is not for convenience: without it the code violates `TextsReadable`
(finding 4, run `text_replaced`).

**The argument.** A text may be in the file, in the group that is being filled, or in
the one that is being emptied, which may be the copy in memory of a group in the file.
`Shelf` relates these last two: the one in memory has the texts of the file, of which
some are deleted, and perhaps empty ones behind them. So `Has`, the text of a place
as a reader finds it, does not change when the group is written (`Stored`) or another
is loaded. `Placed` says that the place of every revision has its text, and that no two
revisions have one place. `Accounted` is the converse, that every text in a place has a
revision that knows it or was hidden; it is what makes `Deleted` the only thing left
of a text that nobody owns. That a new group's id is in nobody's record needs that
`NewId` is greater than all ids in use (`NewIds`), also after a group was found empty and
taken out.

### Diff dumps with texts

The second half of `DiffTextsProofs` builds on it, on the same hypothesis:

| theorem | statement |
|---|---|
| `DiffInvariance` | `DiffSpec => []DInv` |
| `CopiesReadTexts` | `DiffSpec => []CopyReadsTexts` |
| `DiffsKeepTexts` | `DiffSpec => [](TypeOK /\ TextsReadable /\ TextsOwnedOnce /\ NeverFails)` |
| `DumpGoesOn` | `DiffSpec => Spec` of `TextGroups` |

**The argument.** Between a dump and its copy there are the records in the diff dump,
those that wait in `queue`, and the group that goes between them. `DInv` treats
`diff \o queue` as one sequence. `Tracks` says that what it does to the copy's revisions
makes them the dump's. It may be read off without looking at the order because of
`Ordered`: of a revision there is at most one removal and then at most one text. `Fits`
and `Waits` say that each text record finds its text in the group that governs it
(`Under`: the last one before it, or the one imported last), and that no other revision
has that place or is about to get it. These survive the moment when a group is full —
the group and the queue go to the diff dump — because the place of a waiting record is
an index into the very group that is written. Applying the first record changes the copy
by the lemmas of the first half, which are stated for the groups of any file.

### The fields of a revision

`RevisionFieldsProofs` proves, for any contents the wiki may send, any models and hashes,
any number of ids and any limit of a comment:

| theorem | statement |
|---|---|
| `FieldsInvariance` | `Spec => []IInv` |
| `SentIsRead` | `Spec => []ReadsWhatWasSent` |
| `CopyKeepsSame` | `Spec => []CopyHoldsSame` |
| `FailuresHaveCause` | `Spec => []FailsForCause` |
| `SilentRepetition` | `Spec => RepetitionIsSilent` |
| `TypeCorrect` | `Spec => []TypeOK` |

Three assumptions. `FieldAssumption` says what `Contents` are and that `Hidden` and
`Absent` are not values of fields, `FieldsAssumption` that `Absent` is not a sequence of
fields. `ConversionAssumption` says that a SHA-1 of a text comes back from its bytes as
it was, and that none is all zeros, which is what an empty one comes back as. The first is
what digit-by-digit `Convert` does with numbers that fit, and TLC evaluates the assumption
for the hashes of `fields`; that it holds of every hash is beyond the proof system. The
second is true of every text that is known.

**The argument.** What a revision is on disk depends only on the contents that were
sent last, the id of its model and a length: `Fields(c, id, size)`. `FieldsAre` lists its
members and the names in order; from this `ReadsFields` shows that the reader finds every
field where the flags say and gets `Back(c, id, size, table)`, and `WritesFields` that
any revision that agrees on what is not hidden is written as the same fields, whatever a
hidden field has in memory. `DiskIs` says that the dump has `Fields` of what was sent
with the id that the revision got first.

For the copy, `Turns` says of the one record that may wait what it will do:
`Outcome(change, copyDisk, formats)` is `ApplyChange` as a function, and must neither
fail nor need an id and give `Fields` of what was sent. That this is so of the
records that `AddRevision` makes is `ChangeWorks`, the longest lemma. A part that is not in
the record is one in which the old revision and the new agree *as read*, and that is
enough because a hidden field is written nowhere. The id it takes over is that of the dump:
a revision that had an id keeps it on both sides, and one that gets its first id had the
model of wikitext before, so that the new model is a part of the record. The record is
applied with the table of the dump: `Announces` says that the copy's table is the dump's or
lacks the one id whose record comes first, so that
what is proved about `formats` is true of `copyFormats` when the change is reached. A text
that is not in the record is one that the copy has (`TextChanges`): shown again or with
another SHA-1, it is in the record; so `ApplyChange` never has to write a text it has not.
The length is what cannot be kept: `HoldsSame` allows another one as soon as one
changed alone (`resized`).

Ids are given out in turn (`TableIs`: if 0 was given out, the last one was), so that
`NewId` is either not in the table or 0 and the table is full; `FailuresHaveCause`
and the exception in `ReadsWhatWasSent` rest on it.

### The streams

`UpdateProcessesProofs` proves, for every size of a pipe, limit of the buffer, amount
of output and number of requests:

| theorem | statement |
|---|---|
| `Invariance` | `Spec => []IInv` |
| `BitsAreRight` | `Spec => []BitsFollowBuffers` |
| `NothingIsLost` | `Spec => []OutputArrives` |
| `GetsAreAnswered` | `Spec => []NeverEmptyHanded` |
| `TypeCorrect` | `Spec => []TypeOK` |
| `InputInvariance` | `Spec => []InputInv` |
| `InputIsWritten` | `Spec => []InputArrives` |
| `TextsAreWhole` | `Spec => []TextsWholeUnlessCrash` |

`PipeAssumption` and `ProcessAssumption` say only that the bounds are naturals and a
pipe holds something.

**The argument.** That no unit is lost (`Arrives`: what main has, the buffer and the
pipe are together what was written) is kept by every step that moves a unit, and needs
nothing else. That main has *all* of it at the end needs the whole invariant. Main
learns of the end from a bit in a snapshot that its wait returned; so `Seen` says that
what a call has seen still holds when it acts, or there is data. The bit means that the
thread has read the end, and `Closed` says that then the child is gone and its pipe is
empty; for this the thread must keep, between `select` and `read`, that an empty pipe it
is about to read belongs to a child that has ended. That a `get` never comes back
empty-handed, which `underflow` would take for the end, needs `BitsFollowBuffers`: a set
bit promises data, the end or the end of the thread. And the last of these is final
only because main tells the thread to stop at the very end (`InOrder`).

`IInv` is five parts: `StreamInv` is true of the streams whoever uses them, `ClientInv`
of main's variables alone, `InOrder`, `Seen` and `Ends` relate the two. Steps of the
streams are proved once each (`GetStream`, `PutStream`, `TakeStream`, `WriteStream`,
`ReadStream`, `TurnStream`, `ChildWritesStream`, ...); the steps of main (`MainActs`)
are then proved to keep each part, and so are those of the thread and of the children
(`OtherActs`), for which `OthersTakeNothingBack` is the fact that makes a snapshot
worth keeping: no bit that main can have seen is taken back by anyone but main, and a
buffer that is not empty stays so.

The other direction, from main to the child, has an invariant of its own on top of
`IInv`. What the child has read, its pipe, the block that the thread is writing and the
buffer are together the units that main put, in order (`Conveyed`); the block is named
`writing` because it is neither in the buffer nor in the pipe while the thread is between
taking it and writing it. That a thread which stops has written all of it needs `Closing`: main
closes its input before it tells the thread to stop, in the same order in which the
thread looks at its snapshot, so that a thread that sees the second has seen the first and has
found the buffer empty since. `TextsAreWhole` follows from `Serves`: `fetchText`
ends only when its input has ended, and main has not closed it while it reads an answer.

### What stays with TLC

- Liveness: `CallsReturn`, `CallsComeBack` and `Finishes`. Liveness under fairness and
  `ENABLED` are beyond the proof system.
- Text groups in which texts are replaced anywhere: there only the counterexample of
  `text_replaced`.
- What `Convert` of `BaseConvert` computes for every number: that would need induction
  over data, which none of the installed provers can do; `fields` checks it on the numbers
  that occur.
- The runs of section 6, which refute what a comment or a name promises.

Every safety property, action property and refinement of the other runs is a theorem.
That includes recursive data: trees have a height, and what is said of paths and positions
follows by well-founded induction over natural numbers, applied to the *set* of heights at
which a statement fails.

## 6. What the runs found

1. **The free space index has room for one node** (`space_overflow`,
   `Indexes/Index.tpp:47`). An index splits its oversized root by first giving the
   old root back. For the free space index that adds an entry to the same root,
   which is still oversized, and so on: the split is never reached. The program
   dies when a dump has more free blocks than one node lists.
2. **`begin()` may stand on nothing** (`btree_begin`,
   `Indexes/Iterators/IndexInnerIterator.tpp:8`). `Remove` leaves empty leaves, `++`
   gets over them, `begin()` does not.
3. **A moved revision is lost in the copy** (`moved_revision`,
   `DumpWriters/DumpWriter.cpp:118`). When a revision moves to a page that is sent
   before the page it leaves, the writer keeps it in the dump and records its
   deletion in the diff dump.
4. **Replacing a text may leave its record with the old place** (`text_replaced`,
   `DumpObjects/DumpRevision.cpp:100`). `DeleteText` may load another group, which
   moves the stream that the half-written record is being written to.

What the models show beyond that, and no line of the repository contradicts:

- a diff dump of another kind is accepted (`Diff/DiffReader.cpp:28`): the kind in its
  header is not compared with that of the dump. `SaysWhatItHolds` has it as a
  reason for doubt;
- a diff dump of an update that ended with an error ends like a finished one and is
  accepted (`Diff/DiffReader.cpp:43`);
- a revision that changes its model keeps the id of the old one
  (`DumpObjects/DumpRevision.cpp:155`): the dump goes on saying the old model, and every
  update finds it changed;
- a length that changes while the SHA-1 does not is not noticed
  (`Objects/Revision.cpp:50`); in the copy it is not renewed either;
- an empty SHA-1 is read back as thirty-one zeros, so that every update writes and
  records the revision again (`DumpObjects/DumpRevision.cpp:337`);
- after 255 models the next id is 0, which means wikitext (`Indexes/Index.h:89`):
  without a diff dump such a revision silently becomes wikitext;
- `GetText` returns a text that is cut short, or of a length and id it never read, after
  the script has crashed (`FetchText.cpp`): it does not look at the stream's state. Only
  a wrong id is an error;
- a page without revisions ends an update of a current dump with a null revision
  (`DumpWriters/CurrentWriterWrapper.cpp:13`).

A difference of wording that no run is about: `Indexes/IndexInnerNode.h:13` says that
the keys *x* of child *i* satisfy `keys[i-1] <= x < keys[i]`; with `GetKeyIndex` and the
splits as they are it is `keys[i-1] < x <= keys[i]`. `Separated` states what the code does.

## 7. What is not modelled

- **Bytes.** Binary forms, endianness, strings; lengths are small numbers and
  capacities count entries. Disk errors inside one write: in `DumpSession` a command
  that ends early leaves the contents of its dump open; which bytes have reached the
  disk is not modelled.
- **Third-party code**: LZMA, the XML parser and the format library, which are nine
  tenths of the repository's lines (about 61,000 of 74,000). The program uses LZMA as a
  pair of functions on strings, the parser as a source of elements and the format
  library for messages; none of them keeps state that the program depends upon, and
  a model of them would say nothing about this program. Of libexecstream, the part
  that is compiled on POSIX is modelled; its Windows variant is not.
- **XML output** and the `readDump` command, which change nothing.
- **The parsing of elements and attributes** in `XmlInput/`, of timestamps and of
  addresses, `RemoveNamespace` of the dump writer: pure translations.
  `Objects/IpV6User.cpp:53` declares a second `success` that hides the first; what
  follows from it for an address that is not one is not modelled.
- **`ProgressWriterWrapper`**, which counts and prints.
- **Errors of system calls** in the stream thread, other than a write to a child that
  has ended.
- **That `GetTextFromGroup` changes the group in memory** while a dump is read.

## 8. Plan

Done: the allocator, its promise, its calls and the proofs of both; objects on top of it
and their proofs; the index, with the proofs that it is a map and that iterators visit all
of it; updates and diffs of every kind of dump, with the proofs that
the dump becomes the wiki and the copy the dump; the fields of a revision and the ids of
models, with their proofs; text groups and their way into a copy, with proofs of both;
commands and their proofs; the streams, the processes behind them and their proofs in both
directions. Left, in order of importance:

1. **Updates with texts**: `DumpUpdate` composed with `DiffTexts`, so that page
   records wait in the same queue and moved revisions have texts.
2. **Conversions** of timestamps and addresses.
