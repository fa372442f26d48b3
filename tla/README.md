# Verification of the ARINC 665 tool suite

This directory holds TLA+ specifications of the ARINC 665 tool suite, the TLC
configurations that check them and TLAPS proofs about them. ARINC 665 media
sets carry the software that is loaded into aircraft equipment. The suite reads
and writes them (library `lib/arinc_665`), and keeps them in a repository, the
*Media Set Manager*, which command line and graphical programs share.

Specified are the repository with the programs on it, the way of a media set
from its description over media to a recipient, the media model it is kept in,
its XML description with the viewer that shows it, and the binary files on the
media. Each is a module with its own runs; they share the media model and meet
where section 2 says.

## 1. The system

| Component | State | Operations | What makes it correct |
|---|---|---|---|
| Media Set Manager (`utils/MediaSetManager`, `implementation/MediaSetManagerImpl`) | media sets and their paths by part number, the defaults, in memory; a JSON configuration file in the repository | create, load, loadOrCreate, register, deregister, save; the destructor saves once more | configuration, memory and the stored files agree; a failure loses at most what it must |
| Copier, filesystem compiler, remover (`implementation/Filesystem*`) | the directories and files of the repository | copy a media set, compile one from an XML description, remove one | never overwrite; nothing half written passes for a media set |
| Command line programs (`lib/arinc_665_commands`) | none beyond a manager | create, list (media sets, loads, batches), import, import XML, remove | each ends; removal keeps the configuration loadable at any kill |
| Graphical manager (`lib/arinc_665_qt/media_set_manager`) | one manager for the whole session | open, import, import XML, remove, settings, close | what the window shows is what is saved and stored |
| Decompiler (`implementation/MediaSetDecompilerImpl`) | list files, loads and batches read so far | rebuild a media set from its media, with or without integrity check | accepts what the compiler writes, never mixes media of two editions |
| Compiler (`implementation/MediaSetCompilerImpl`) | the medium and the file it stands at; what is on the media | write media, loads, batches and list files, by creation policy | every file once, on its medium; headers and lists describe what stands there |
| Programs around them (`app/arinc_665_media_set_*`, `arinc_665_qt/decompile_media_set`, `MediaPathsModel`) | the directories given for media, the source noted for each file | name directories, decompile, save a description | each file is noted with the directory it is in |
| Media model (`lib/arinc_665/media`) | the tree of directories and files, links from loads and batches to files, media, check value types | add, rename, remove, assign media, link | names unique, no dangling link, media inherited along the tree |
| XML descriptions (`implementation/Arinc665Xml*`) | elements not yet visited, loads and batches not yet linked | save, load | loading gives what is written, in any order of elements |
| Viewer (`arinc_665_qt/media_set_viewer`, `arinc_665_qt/media`) | the media set shown, the current item and its page, the watched file | open, reload, decompile, save, browse | what is shown belongs to the present media set and the watched file |
| File codecs (`lib/arinc_665/files`) | one decoded file each | encode, decode | decoding gives what was encoded; damage is noticed; nothing old is kept |
| Medium numbers (`MediumNumber`) | an 8-bit number | increment, compare | never 0; loops over media end |
| Validator, printers, part numbers, remaining wizards | none that lasts | conversions, views, one call of the above each | see "Not modelled" |

Interactions. A program calls `load` (or `create`, `loadOrCreate`), which makes
the manager decompile every configured media set. An import calls copier or
compiler, then `registerMediaSet`, which decompiles the new copy, then
`saveConfiguration`. A removal calls `deregisterMediaSet`, the remover and
`saveConfiguration`: in this order in the graphical program, with the save
before the remover on the command line. At the end the destructor saves.
Programs meet only in the file system; nothing is locked. The decompiler and
the compiler reach files through callbacks that are called synchronously. The
graphical program loads a repository on a worker thread, which answers by a
queued signal; before the answer there is no manager that the user could work
with. Everything else runs in the thread of the window.

The command line compiler loads an XML description, which yields a media set and
the source of each file, and gives both to the compiler, whose handlers write
directories per medium. A recipient gives such directories to the decompiler,
which reads them through its handlers and returns a media set; the program notes
where each file came from and saves a new description. The viewer does both ends
in one window, with a watcher on the file it has opened. All these calls are
synchronous; signals of the item models run inside the call that emits them.

What is hard here: a kill or a full disk between any two steps on the
repository, two programs that overlap, a session that goes on after a failed
operation, leftovers that a later operation meets; media that are exchanged, of
another edition, damaged or given in another order; long sequences of edits
that may leave a link without its target; references that precede what they
refer to; a view whose data is replaced under it; and 16-bit fields at their
limits. `PROJECT.json` lists each hazard at its line, with the properties that
cover it or the reason why none does.

## 2. The modules

| Module | Models | Used by |
|---|---|---|
| `MediaSetStore` | directories and files of media sets; steps of copier, compiler and remover; the verdict of the decompiler | `MediaSetManager` |
| `MediaSetManager` | configuration file, manager objects, the steps every program shares; the mapping to the registry; properties of the repository | the two programs |
| `MediaSetRegistry` | abstract: a durable catalogue that changes by one media set at a time | `ImplementsRegistry` |
| `ManagerCommands` | the command line programs | `MCManagerCommands` |
| `ManagerSession` | the graphical program | `MCManagerSession` |
| `MediumNumbers` | 8-bit medium numbers, the loop over media | `MediaModel` |
| `MediaModel` | queries on one media set: paths, media, check value types, users of files | all below but the codecs |
| `MediaTree` | every operation that changes a media set | `MCMediaTree` |
| `MediaFiles` | what stands in the files on the media | compiler, decompiler |
| `MediaSetCompiler` | the compilation, one handler call a step | `MediaSetTransport` |
| `MediaSetDecompiler` | the decompilation, one medium, load or batch a step | `MediaDirectories` |
| `MediaDirectories` | directories by medium and the sources noted, in command and viewer | `MediaSetTransport` |
| `MediaSetDelivery` | abstract: the recipient gets one edition whole, or none | `DeliversOneEdition`, `AlwaysAnswers` |
| `MediaSetTransport` | compiler, media on their way, decompiler | `MCMediaSetTransport` |
| `MediaSetXml` | saving, editing and loading a description | `MediaSetViewer` |
| `MediaSetItems` | a media set and target hardware as Qt item models | `MediaSetViewer` |
| `MediaSetViewer` | the window of the viewer and its view | `MCMediaSetXml` |
| `Arinc665Files` | encoding and decoding of the five kinds of files, word by word | `MCArinc665Files` |

Theorems stand in modules of their own:

| Module | Proves |
|---|---|
| `MediaSetManagerProofs` | lemmas on the steps all programs share |
| `ManagerCommandsProofs`, `ManagerSessionProofs` | the properties of the programs on the repository, and the refinement of the registry |
| `MediaModelProofs` | lemmas on the queries of a media set: paths and lookup, media, what is inside a directory |
| `MediaTreeProofs` | the properties of a media set under edit |
| `MediaSetTransportProofs` | what the compiler writes and when it succeeds; typing of the decompiler, that editions are not mixed, that what was compiled is accepted, that one edition is delivered or none, and that files are found where they came from |
| `MediaSetViewerProofs` | descriptions, item models and the viewer |
| `Arinc665FilesProofs` | encoding and decoding of the files, damage, and what a used object keeps |

### The repository

State and code:

- `config` is the configuration file: absent, torn (truncated by `write_json`
  and not yet written) or ok with its media sets and defaults. `dir` and `file`
  are the media set directories and each file in them: missing, torn or ok.
- `info`, `paths` and `settings` are `mediaSetsInformationV`, `mediaSetsPathsV`
  and `mediaSetDefaultsV` of a program's manager. They are two maps in the code
  and two variables here, because the guards use the first and the saved text
  comes from the second.
- `op`, `arg`, `check`, `verify` are the operation, its part number, the
  integrity check on loading and the one on importing. `toLoad` and `toWrite`
  are the loops of the constructor and of copier or compiler.
- `pc` stands between two file-system accesses. Everything the code does in
  memory between two accesses is one action with the access it belongs to; what
  another program or a kill could tell apart is a step of its own: the opening
  and the writing of the configuration, every copied or erased file, every
  media set the constructor decompiles.
- An exception is an action that leads to its handler (`Throw`). On the command
  line the handler prints, and the manager is destroyed. In a session the import
  wizards catch everything and the session goes on; the removal catches only
  `Arinc665Exception`, so the `filesystem_error` of the remover ends the
  session, through the destructor.
- The constructor that throws leaves no manager, hence no destructor:
  `ConfigurationUnreadable` and `LoadFails` end the program without a save.
- `Crash` kills a program anywhere and may leave the file being copied torn.
  `DiskErrors` lets each access fail; the compiler does not check the stream of
  a list file, so a truncated one goes unnoticed there (`WriteTruncates`).

Abstractions. A media set is the set of its files, of two kinds: `ListFile`,
which the decompiler always reads, and `DataFile`, which it reads only to check
the integrity. A part number names one content and its directory. Sets in
`Broken` have list files the decompiler rejects, sets in `Damaged` fail only the
integrity check. Two sources with the same part number and different files are
not modelled (ARINC 665 gives a changed media set a new part number), nor are foreign files in the repository or a hand-edited
configuration. Descriptions that are imported are such that loader and compiler
come to an end with them (`LoadsWellFormed` and `CompilesWhatItCan` say which). The order in which the constructor loads is left open, and so is
the order in which directories are copied and erased. The compiler writes list
files after data files.

### Media sets and media

- A media set `ms` is one record over pools of objects, one pool for each class;
  an object without a parent is not in the set. `EffectiveMedium`,
  `EffectiveCheckType`, `Path`, `SubdirectoryAt`, `FileAt`, `HasChildren` and
  `LoadsWithFile` are the queries of `ContainerEntity`, `File`, `Load` and
  `MediaSet`, faults included: `HasChildren` has the missing negation, and
  `LoadsWithFile` ends at the first load that uses the file as data. It is
  documented to return all loads (`MediaSet.hpp:114`); `LinksLive` shows that
  the guard of file removal, which only asks whether there is any, still works.
- `Proper` says what the operations of `MediaTree` make: a tree with unique names
  and live links. `OutsidersBare` says that objects outside of it have no content.
  `MediaTreeProofs` proves both of every media set they make (`MadeProper`), and
  the compiler (`TransportAssumption`) and the descriptions (`XmlAssumption`) are
  given such media sets.
- `MediaTree` has one action per operation. The operations that throw change
  nothing and are no steps. Lists are sets: code that takes "the first one
  found" may take any.
- `phase`, `medium` and `todo` say where the compiler stands, `dirs` and `disk`
  what it has written. It starts in `mediaSet()` of the filesystem compiler, whose
  loop names the directory of each medium (`SetMediaPaths`), before `operator()`
  exports anything. One handler call, that is one directory made or one file
  copied or written, is one step; a handler that throws ends in
  `CompilationFails`. Load headers and the list of files are computed from the
  files that stand on the disk at that step, as the code does.
- `step`, `number`, `toAdd` say where the decompiler stands; `fileList`,
  `loadList`, `batchList` and `loadInfo` are its members, `received` the media
  set it builds. One step reads the three list files of a medium, or one header
  or batch file. Where the code takes an entry of an unordered map or the first
  of several candidates, the action takes any.
- Faults on the way are external steps: `Damage` of one file, `Lose`,
  `Exchange` of two media, `TakeEarlier` (a medium of an edition with the same
  part number and other contents), `Disorder` of the directories named.
- `MediaDirectories` has the two ways in which programs find the source of a
  file: the command takes the medium number as place on the command line, the
  viewer keys directories by the number in their list of files.

Abstractions: the content of a regular file is a value, and the 16-bit CRC of
two values may collide; check values and the 32-bit load CRC are taken as
collision free, so a created header stands for its own CRC. Part number, target
hardware and user defined data stand in the identity of a load or batch. The
check value types a load gives to single files are those of its data and
support lists.

### Descriptions and the viewer

- `document` is the XML file as a set of elements with attributes, each inside
  its parent; the loader takes a parent before its children and otherwise any
  order. `todo` and `deferred` are the elements not yet visited and
  `deferredLoadInfoV` with `deferredBatchInfoV`. The two editions of the XML
  format have the same control and are one model. `status` is "crashed" after
  a null pointer was used, in one of two ways: a load refers into a missing
  directory, or a name is `Reserved`.
- `Reserved` stands for "." and "..". The media set adds nothing under such a name
  and returns a null pointer (`ContainerEntity.cpp:275`, and the same for files),
  which the loader does not look at. What the standard containers and strings do
  with an object at the null address is undefined; the model has what a build can
  do. A file always ends the program, after its number was read. So does a
  directory that has a number or entries, unless a number in it is refused before;
  one that is empty and has none is never written to and may be passed over, as
  it may in builds whose smart pointers do not assert.
- Edits by hand change a name, also to a reserved one, or a medium, delete a file, or shorten the
  references of a load to relative ones.
- `shown`, `current` and `page` are the root of the item models, the current
  item of the tree view and the page of details with its tables of links;
  `watched` and `changed` are the file watcher and its pending signal.
  `MediaSetItems` has `index`, `parent`, `rowCount` and `hasChildren` of the two
  trees row by row.

Abstractions: columns, roles and wording, details kept by hidden pages, and the
content of a media set the viewer decompiles (it is the one described). File and
reader change one after the other: an edit while the file is read is not
modelled.

### Files

A word is two bytes and a byte is below `ByteBase` (256 in the code), so every
field of 16, 32 or 64 bits keeps its range.

- `Contents` are the records that the objects hold, one set for each kind of
  file; an optional part is a sequence of at most one element. `Content` is what
  the setters make of their arguments: user defined data is filled up to words,
  and hardware without positions is not written.
- `Sections` of a file are what its encoder appends, in the order of the code,
  what is left out being empty. `Pointers` names the sections that the header
  points to, field by field: `PointerTo` is 0 for an absent one. `Header`, the
  sections, `CheckValueWords` and the checksum make up `EncodedFile`. There is an
  operator for each kind of entry (`EncodedDataFile`, `EncodedTarget`, ...).
- `EncodableFile` says what the encoders accept: strings, counts, lengths, next
  pointers of load headers and batch files, and the size of the file. Next
  pointers of the lists of a media set, and the number of hardware with positions
  in a load header, are cut to their fields without a check; `CountersFit` says
  that they are not.
- A load header is completed in two more steps, as the compiler does it:
  `StoreLoadCheckValue` puts the check value into the room left for it and
  calculates the file CRC again, `StoreLoadCrc` adds the load CRC.
- `DecodedFile` checks the header (size, format version, CRC, spare) and follows
  the pointers (`DecodedLoadHeader`, ...). A read yields a value and the place
  behind it, or `Failed`. Lists are read by functions over the number of the
  entry, since the next pointers say where to go on.
- `before` is the object that is assigned the file; `Reset` empties some of its
  members before the sections are read, and a section that is absent leaves the
  member as it is.

Abstractions: the CRC and the check values are calculated outside of
`lib/arinc_665`. One external operator stands for all of them, `Checksum`, a sum of
words, of which the properties use that it has the size of a word and tells
words that differ in one place apart, which a CRC does too. Reading behind the
end of a file throws in the `Helper` library, which is not part of the
repository. What a failed decode leaves in the object is not looked at: it throws
and no caller uses it.

## 3. What is checked

| Run | Instance | Result |
|---|---|---|
| `cli` | one command at a time; a good, a damaged and a broken media set; kills and disk errors; 208,996 states | passes |
| `session` | one session at a time; the same media sets and failures; 153,168 states | passes |
| `session_settled` | two media sets, two values of the defaults, kills, no disk error; 14,492 states | passes |
| `session_removal` | one media set, kills | violates `Reopens` |
| `listing` | two commands at once, no failure at all | violates `ListingForgetsNothing` |
| `media` | two directories, a regular file, a load, a batch, two names, one position, two media of which a user assigns the second; any sequence of operations; 344,271 states | passes |
| `media_children` | the same | violates `ChildrenOnMedium` |
| `transport` | every tree of up to two directories, two regular files, a load and a batch, on one or two media or with a directory on the largest number; both supplements, three policies; at most one fault; 152,842 states | passes |
| `transport_batches` | the same with batches in subdirectories, no fault | violates `BatchesArrive` |
| `xml` | eight media sets of two directories, two regular files, a load and a batch, types and source paths present or not; three names, one of which is reserved; at most one edit; 186,254 states | passes |
| `xml_reference` | the same | violates `MissingDirectoryRefused` |
| `codec` | all kinds of files in both supplements, up to three entries, strings and lengths at their limits, one damaged word or none, new and used objects; 76,904 states | passes |

Bounds of the repository. One list file and one data file are enough for a
directory to be empty, in part or fully written, and torn in what the decompiler
reads or in what it does not read. Programs start again and again, so one
process gives any sequence of programs; overlapping programs need two. Three
part numbers are the three verdicts of the decompiler; a fourth would only
repeat one of them, since operations on different part numbers share nothing but
the configuration, which two already exercise. Deadlock is checked: a program can
always be started or go on.

Bounds of media sets. Two directories give nesting and siblings, two regular
files give equal names in different directories, and two media give exchange and
agreement; a third medium is the largest number (`MaxMedium`, 255 in the code),
where the increment stops and the loops over media do not. A user assigns `EditedMedium` and sets check value
types of `EditedScope` only, since these are independent of each other.
`MaxFaults` is one fault, of any kind, at any file or medium; the
proofs of section 4 hold for any number of faults. Deadlock is not
checked in the runs of the transport and in `codec`, which come to an end: a
media set is delivered once, a file decoded once.

Bounds of the viewer. `MaxEdits` is one edit between two saves; only media sets
of `Described` are edited or decompiled (`Fresh`), files are edited while they
are watched and between two loads, and a file is opened while nothing or an item
of `Waiting` is current.

Bounds of files. In `codec` a byte has four values, so the limits of 16-bit fields
are at 15 words, and there are strings, lengths, entries, files and numbers of
hardware on both sides of them. Data files in Supplement 3 have check values of
both sizes (`Checks`); with one of 32 bits their part number is empty, since the
next pointer would not fit otherwise. Used objects (`Before`) hold most of what a
file can hold, `LoadCrcs` and `Deltas` have one value each, and one word is
damaged at most. The proofs hold for any of these sets.

Properties of the repository (`MediaSetManager`):

- `CatalogueStored`: what a readable configuration names is complete and opens.
- `RegisteredFilesUntouched`: no step changes a file of a registered media set,
  although the XML import does not ask whether the media set is known.
- `OrphanNeverAdopted`: what an interrupted operation leaves in a directory is
  never registered later, by any sequence of operations. It also means that this
  media set can only be imported again after someone has removed the directory.
- `ImplementsRegistry`: under `Status`, `Catalogue` and `Stored` the commands
  implement `MediaSetRegistry`. While a manager rewrites the file, its memory
  stands for the catalogue, and a program killed there loses it (`Lose`): the
  specification says exactly which failures cost the catalogue, and that nothing
  is registered or discarded afterwards.

Properties of the command line programs: `ErasesOnlyForgotten` (the save comes
before the first erased file) and `CommandEnds`. Of the sessions:
`CheckedSessionStored` (at no point of any operation does a session opened with
the integrity check offer an incomplete media set), `NothingBrokenRegistered`,
`WaitingIsSaved` (what a waiting session shows is what a restart finds) and
`OperationEnds`.

`WaitingIsSaved` needs a disk that works: if the save of an import fails, the
wizard reports an error while the media set stays registered in memory.

Properties of a media set under edit (`MediaTree`): `NamesUnique`, `LinksLive`
(no weak pointer of a load or batch leads out of the media set, after any
removals), `MediaPartition` (each file belongs to just one of the media the
loops visit, however numbers are inherited) and `PathsLeadBack`.

Properties of the transport:

- `CompilesWhatItCan` says for which media sets the compiler succeeds, and there
  are surprises: regular files of the media set itself need a single medium,
  each directory at the top must have all it has on one medium, no file of the
  media set itself may be named like a list file, and the largest medium number
  may not be used. The last of these is not even refused: `mediaSet()` of the
  filesystem compiler counts up to the last medium with a number that stays at
  255, and never returns. The media set is not begun (`phase` stays "paths");
  all others end in success or failure.
- `MediaAsDescribed`: then the media hold each described file once and on its
  medium, with headers and lists that fit, and nothing else.
- `AcceptsWhatWasCompiled`: the decompiler accepts these media, unless names are
  ambiguous (`NamesTell`) or a header of another edition was taken over.
- `NoMixedEditions`: even without integrity check, media of two editions are
  never combined, unless checksums collide.
- `SourcesLeadToFiles`: in whatever order directories are given, the viewer
  notes the right directory for each file; the command does so in the order of
  the media.
- `DeliversOneEdition`: the whole implements `MediaSetDelivery`. Names,
  directories, media, check value types, links and targets arrive as sent, and
  contents if integrity is checked, or the media set is refused; there is never a
  second answer. If a load header was taken over from an earlier edition, its load has
  the contents that the header was made for: then the decompiler accepts files
  whose 16-bit checksum is that of the other edition. The run leaves out media
  sets whose batches the compiler does not list, because for them it is false
  (`transport_batches`).
- `AlwaysAnswers`: if the media set does not use the largest medium number,
  compilation and decompilation end, so that there is an answer. The condition is
  needed: with that number no program gets behind `mediaSet()`, as
  `CompilesWhatItCan` says.

Properties of descriptions and viewer: `RoundTrip` (saving and loading keeps the
media set; a load type with an empty description is lost), `LoadsWellFormed`
(exactly the documents with unique names that are not reserved, medium numbers in
range and references that lead to files are loaded, in any order; which of the
others may crash the loader), `LoadedAsWritten` (every element has the place,
medium, check value types, load type and source that are written, and every link
leads to the file whose path is written, relative or absolute), `LoadingEnds`,
`ItemsLeadBack` (what Qt demands of item models), `ViewConsistent` (after any
reload, the current item and all links of its page belong to the media set
shown) and `WatchedIsShown` (what a watched file without a pending change says is
shown, in the same detail as in `LoadedAsWritten`). `LoadsWellFormed`,
`LoadedAsWritten` and `WatchedIsShown` leave aside the directories that the loader
may pass over (`Kept`, below).

Properties of files:

- `DecodesWhatWasEncoded`: whatever encoding accepts is decoded as it was, as far
  as its supplement can express it (`Expressible`: Supplement 2 has no flags, load
  types, positions and check values, and rounds the length of a data file up to
  words), if the counters that nobody checks fit (`CountersFit`).
- `DamageDetected`: a file with a damaged word is not decoded, but for the load
  CRC, which only the decompiler of media sets can check.
- `ForgetsFormerContent`: an object that is assigned a second file keeps nothing of
  the first one but what `Leftovers` names: support files, the flags in Supplement
  2 and the user defined data of lists, where the new file has none, and the loads
  of a list of loads, to which the new ones are added.

Type invariants are checked in `cli`, `media`, `transport`, `xml` and `codec`.

### Disagreements with the documentation

1. `session_removal`: the graphical removal erases the files before it saves. A
   program killed in between leaves a configuration that names a media set which
   is gone, and the repository refuses to load from then on. The command line
   program saves first.
2. `listing`: a command described as listing rewrites the configuration in the
   destructor of its manager and so undoes an import that ended meanwhile.
3. `media_children`: `hasChildren` with a medium asks whether all subdirectories
   have children and takes that for all being empty. A directory whose
   subdirectories have files on the medium can be reported empty, and one with an
   empty subdirectory is not.
4. `transport_batches`: the list of batches "(if present)" is written only if a
   batch lies in the media set itself. With all batches in subdirectories they
   arrive as regular files.
5. `xml_reference`: the read-only lookup of a file by path is documented to
   return nothing if the path leads to no directory, and calls a null pointer.
   A description whose load refers into a missing directory ends the program.
   No name is reserved in this counterexample.

Without a run of their own: `addSubdirectory` is documented to return the created
directory or to throw (`ContainerEntity.hpp:155-167`), and returns nothing for the
reserved names, which ends the loader (`LoadsWellFormed` says so); the compiler
does not return for the largest medium number (`CompilesWhatItCan`).
Nothing in the programs depends on two more: `loadsWithFile` returns fewer loads
than documented (above), and the sum of medium numbers, which nobody calls, wraps
to 1 instead of stopping at 255 (`MediumNumber.cpp:34`).

### Fairness

`Fairness` is weak fairness of each program's own steps: a started program is
scheduled until it ends. Each step is a synchronous call, so nothing else can
hold it up. The user who starts programs and chooses operations is not fair, and
neither are kills. The loops end because they consume finite sets; the liveness
properties show that every failure inside them has a way out.

In the transport, compiler, decompiler and the arrival of the media are weakly
fair: each is a program that runs on, and a transport without arrival has
nothing to answer. Faults are not fair. In the viewer only the steps inside one
call of the loader are weakly fair; the user, the watcher and edits are not.

## 4. What is proved

For every choice of the constants that satisfies the assumptions of the modules:
any sets of programs, part numbers, files, directories, loads, batches, names and
values, trees of any depth, any number of media, with and without the faults and
failures the model has. The recursive functions of the model (paths, media along
the tree) are unfolded one level at a time by lemmas of `MediaModelProofs`.

| Theorem | Statement |
|---|---|
| `ManagerCommandsProofs!Typing`, `ManagerSessionProofs!Typing` | `Spec => []TypeOK` |
| `CatalogueIsStored` | `Exclusive => (Spec => []CatalogueStored)` |
| `OnlyForgottenErased` | `Exclusive => (Spec => []ErasesOnlyForgotten)` |
| `RegisteredUntouched` | `Exclusive => (Spec => RegisteredFilesUntouched)` |
| `OrphansStayOut` (commands, sessions) | `Exclusive => (Spec => OrphanNeverAdopted)` |
| `Mirroring`, `RegistryImplemented` | `Exclusive => (Spec => ImplementsRegistry)`, and the relation of file and memory it rests on |
| `BrokenNeverRegistered` | `Spec => []NothingBrokenRegistered` |
| `CheckedSessionsStored` | `Exclusive => (Spec => []CheckedSessionStored)` |
| `MemoryAgrees`, `WaitingSaved` | `Exclusive /\ ~DiskErrors => (Spec => []WaitingIsSaved)`, and the agreement it rests on |
| `MediaTreeProofs!Typing`, `Soundness`, `MadeProper` | type and inductive invariant of a media set under edit; what it gives to its users |
| `NamesStayUnique`, `LinksStayLive`, `MediaShareFiles`, `PathsFound` | `NamesUnique`, `LinksLive`, `MediaPartition`, `PathsLeadBack` |
| `CompilerSoundness`, `CompiledAsDescribed` | the inductive invariant of a compilation; `MediaAsDescribed` |
| `CompilesExactly` | `CompilesWhatItCan` |
| `MediaSetTransportProofs!Typing`, `EditionsNotMixed` | `TypeOK` and `NoMixedEditions` of the transport |
| `CompiledIsAccepted` | `AcceptsWhatWasCompiled` |
| `OneEditionDelivered` | `Spec /\ BatchesListed(Set) => DeliversOneEdition` |
| `SourcesFound` | `SourcesLeadToFiles` |
| `ViewerTyping`, `DocumentsLoaded`, `WhatIsWritten`, `RoundTrips` | `ViewerTypeOK`, `LoadsWellFormed`, `LoadedAsWritten`, `RoundTrip` |
| `WatchedShown`, `ItemsSound`, `ViewsConsistent` | `WatchedIsShown`, `ItemsLeadBack`, `ViewConsistent` |
| `Arinc665FilesProofs!Inductive`, `Typing` | the inductive invariant of a file on its way; `TypeOK` |
| `Decoded`, `Detected`, `Forgotten` | `DecodesWhatWasEncoded`, `DamageDetected`, `ForgetsFormerContent` |

These are all invariants and action properties that the passing runs check, and
the safety of both refinements.

### Assumptions

`StoreAssumption` and `ManagerAssumption`: there is a list file, list and data
files differ, the built-in defaults are defaults, flags are Booleans.
`MediaAssumption`: the classes of objects are disjoint, as classes in the code
are. `MediumAssumption`: the largest medium number is positive.
`EditAssumption`: what a user edits is a medium number or a scope.
`FilesAssumption` of `MediaFiles`: every value has a checksum; two may have the same.
`FilesAssumption` of `Arinc665Files`: a byte has more than two values, the size of
a check value fits the word before it, damage changes a word, and what objects
hold is of the type that their setters take.
`TransportAssumption` and `XmlAssumption`: media sets are `Proper`, and their
outsiders bare, which `MadeProper` proves of all media sets that programs make.
`XmlAssumption` adds that no name in a media set is reserved before it is saved:
additions refuse these names, and renaming, which would not, is called by no program.
A media set that is compiled has finitely many files: the decompiler counts those
it finds for a name.
`OneEditionDelivered` assumes of the media set that was sent that the compiler
lists its batches (`BatchesListed`): it has none, or one of them in the media set
itself. `transport_batches` shows that this is needed.
`ViewerAssumption` adds that a media set has finitely many objects and links,
which rows of an item model need.

`Exclusive` says that there is at most one process, that is, that programs use
the repository one after the other. It is needed: nothing locks the repository,
and with two programs one can erase what the other has just loaded (and
`listing` shows what else happens). `~DiskErrors` is needed for `WaitingSaved`,
as section 3 says.

### Arguments

*Commands.* None of the properties is inductive. `Consistent` adds what connects
the memory to the files: the media sets in memory are stored (`MemorySound`),
those still to be loaded are configured (`LoadsConfigured`), an import in
progress has written all files but those in `toWrite` (`WrittenSoFar`), a removal
has forgotten its media set before it saves (`RemovalForgets`), and while files
are erased the saved configuration is what the memory says (`ErasingSaved`).
`MediaSetManagerProofs` shows once for each shared step that it preserves typing,
and for the steps that fill and empty directories that they leave complete media
sets complete; the step theorems of the two programs cite these lemmas.
`RegisteredUntouched` follows from `Consistent` before the step: the only steps
that change files are a write, which needs a missing file, and an erasure, which
needs a forgotten media set. `OrphansStayOut`: registration needs a directory
that was just filled, and an orphan's directory is never filled because it is
there. `RegistryImplemented` needs `Mirror`: configuration and memory agree but
for the media set of the operation under way, and the file is absent or torn only
between the two steps of a save. Each step then is a step of the registry or
leaves its variables alone.

*Sessions.* `BrokenNeverRegistered` needs that what remains to be loaded comes
from a configuration without broken sets, and holds for any number of sessions,
because registration itself decompiles. `CheckedSessionsStored` rests on
`Offered`: what a checked session offers is stored, an import has written what it
no longer has to write, a removal has forgotten its media set, and a program
that has no manager offers nothing. `WaitingSaved` rests on the agreement of
memory and configuration up to the operation under way, which a working disk
always closes.

*Media set.* The invariant is `Sound`: parents lead to members, no set of
containers hides from the root (`Rooted`), outsiders have no content, names are
unique, and links lead from members to members. "No set of containers hides" is
induction over the tree in a form the prover can use: a property of all
containers is proved by asking for the set of those that fail it. This gives
`PathsFound` and `MediaShareFiles` for any depth. `LinksStayLive` needs that
`LoadsWithFile`, although it ends at the first load it finds, is empty only if no
load uses the file.

*Compiler.* `CompilerSound` says of every state that what stands on the disk is
what policy and source make of it, that headers were written after the data they
describe and lists after all, and how far the loops are; `CompiledAsDescribed`
is its last state. `CompilesExactly` needs the converse as well, why a
compilation fails: `CompilerExact` says what the loops have visited and have
still to visit, what they have refused, and that a directory is exported on just
the media its content asks for (`Exportables`), so a failure means that
`CanBeCompiled` is false. That a media set on the largest number stays in "paths"
is an invariant of its own (`PathsFirst`): the loop goes on as long as the number is not above the
last one, and no number is above the largest.

*Transport.* The number of faults is not bounded in the proofs. `Carried` says
that, unless single files were damaged or lost, what lies at the place of each
medium is some medium of this or of the earlier edition, as a compilation would
write it, perhaps at the wrong place or twice. A list of files names its own
medium, and the decompiler compares this number and the files with those of the
first list (`Agreed`): so accepted media are in place, and since media of
different editions have different lists, they are of one edition.
`EditionsNotMixed` follows without any check of integrity.

`CompiledIsAccepted` starts from the media as `CompiledAsDescribed` and
`CompilesExactly` leave them (`Whole`). `Accepting` says of each step of the
decompiler what it has kept and built: the lists of the first medium (`Kept`), a
number of a medium of the set in the loop, and a file in the media set for every
entry of the list (`Filling`). Under it no step can refuse (`NothingRejected`).
Two points are not plain. The decompiler searches the files of a load by
name, then by directory, then by checksum: `InsideByPath` shows that the files
inside a directory are those whose path begins with its path, so that with
unambiguous names (`NamesTell`) all candidates that may be taken have the content
of the file meant (`OnlyAlike`, `AlikeContent`), also if they are several. And
header and list may record check values of different types for a file; they are
compared only if the types are the same, and then were made of the same content
(`RecordedFits`).

`OneEditionDelivered` holds under faults to single files too, so nothing can be
said of what the media carry but this (`Genuine`): faults move, remove and
replace files and give them other contents, but every list, header or batch file
among them was written by a compilation of one of the two editions. The first
list of files that is read decides which (`ListOf`); further lists must agree
with it (`Lists`). From then on `Delivering` relates what the recipient has to
that edition: each entry of the list is a file of the edition with its class,
which names decide (`RightlyNamed`, `NamesApart`: a list of loads or batches may
come from the other edition, but both have the same names); what was `Added` for
the loads and batches that are `Done` is what the edition has for them; with integrity
checked, every file was `Looked` at, so its checksum is the edition's. A header
that was compared with the list is of the same edition (`HeaderFound`), and its
load CRC then forces the contents it was made for (`HeaderLinks`); without
integrity check it may be of the other one, which has the same links.
`AcceptedIsSent` puts this together member by member, and `DeliveryStep` shows
that a step gives at most one answer.

`SourcesFound` needs of the media only `Genuine`, too, and no assumption on
batches (`DeliverySound`). Lists of files of both editions name the same number of
media, so the viewer takes every directory that has one (`AllTaken`). It counts
the numbers that they name. If there are as many as media, no directory can be
without a list, since directories map onto the numbers: the page is complete
only with a directory for every number (`CompletePage`). After media that were at
most named in another order each directory has its own number (`StraightPaths`),
in whatever order, and each file is on the medium that the list gives for it
(`MembersPlaced`). `Max` in `ViewerPaths` is the loop's last `insert_or_assign`.

*Descriptions.* A document is a tree (`Nesting`), whether written or edited; the
invariant of the loader (`Reading`) says that what is loaded is the document
without the elements in `todo`, the links in `deferred` and the directories that
were passed over. `DocumentsLoaded` follows since each way to refuse is a way not
to be well-formed, in any order. A directory that may be passed over is empty, so
without it every other element keeps its written path and every reference what it
means (`KeptDescription`).
For `RoundTrips`, the lookup of a written path finds its file (`FilesFound`), and
what shortened references mean is where they came from (`Describes`, `Absolute`).

*Viewer.* `ViewerInv` relates file, loader and window (`Written`, `Progress`,
`Watching`). `ItemsSound` counts rows: a finite set of members becomes a list
without repetition, and the index of an element in the list of its parent is the
row it came from. `ViewsConsistent` rests on the stronger fact that the view is a
function of the media set shown, the current item and its page.

*Files.* Encoders and decoders are nested by kind of file, section, entry and
field, and so are the lemmas. Each says: where these words stand in a file,
whatever stands before and behind them, decoding yields this value and this
place. For lists this needs induction over the entries, for the checksum over
the words. The induction theorem of the library takes an operator, which the
provers cannot instantiate, so `Induction` states it for a set of numbers, from
the well-foundedness of their order, and `Recursion` gives the function that the
recursive definition of a list chooses: `DecodedList` and `DecodedMany` read
each entry where the one before it ended. A next pointer that was cut to its
field makes this false, which is why `CountersFit` is a hypothesis there; for
`Typing` it is not needed, as any reading of any words is typed.

A whole file is `Whole(f, tail)`: header, sections and check value (`Covered`),
their checksum, and a tail of any words, which is the load CRC. Each pointer of
the header is the place of its section (`PointerTo`), an absent section has 0 and
no section starts there, and user defined data ends where the check value or the
CRC begins. So decoding a whole file yields `Merged`, the members of the file over
those of the object. `FilesInv` says which words are stored: none, the file that
still lacks its check value, the whole file, or the whole file with a damaged
word. That storing the check value makes the first of a load header the second is
the only step that is more than a case: the room has the size of the check value,
which is where the pointer leads. `Detected` does not look at what was damaged:
the sum over the words before the file CRC has changed, or the CRC itself, but not
both.

### What is only model-checked

- Liveness (`CommandEnds`, `OperationEnds`, `LoadingEnds`, `AlwaysAnswers`), which
  is outside of the prover's reach.
- The disagreements of section 3, which are counterexamples.

## 5. Not modelled

- The validator is a stub that reports "Not implemented"; the checker only calls
  it.
- Printers and the listing tools write text and keep no state.
- Part numbers: a conversion with a check code over characters.
- Graphical compilation is a single call of loader and compiler, the remaining
  wizard pages only gather parameters. One of them, the directory page of the
  decompilation, empties its list when it is shown again.
- Moving entities to another parent, which no program does; `Load::file` and
  `Loads_file`, which only tests call.
- Target hardware, user defined data, comments and part flags in media sets and
  descriptions: copied, without effect on anything else. The codecs do cover
  these fields.
- Malformed attributes of XML elements, such as a missing name or a check value
  type that does not exist: an exception at the element. Names that are taken or
  reserved and numbers out of range are modelled.
- Lists and headers on received media that name a file or directory "." or "..":
  the compiler writes none, and what happens to media on their way does not make
  one.
- Lists read as another kind of list: they share a format version, so only the
  name of a file keeps them apart.
- Layout, columns and wording of windows and item models.

## 6. Plan

1. Done: the repository, media model, compiler, decompiler and their composition,
   descriptions and viewer, file codecs, and the proofs of section 4.
2. Opening another repository in the graphical manager, and the worker thread
   that loads it: requests and answers by queued signals.
