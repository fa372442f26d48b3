-------------------------- MODULE MediaSetCompiler --------------------------
(***************************************************************************)
(* The compilation of a media set onto its media: MediaSetCompiler with    *)
(* the handlers of FilesystemMediaSetCompiler. All programs give the media *)
(* set to the latter, which names the directories of the media, and then   *)
(* call operator(). Each handler call, that is each directory made and     *)
(* each file copied or written, is one step. An exception of a handler     *)
(* ends the compilation and leaves what is there.                          *)
(***************************************************************************)
EXTENDS MediaFiles

VARIABLES
  source,    \* the media set, the contents of its files, what to create
  phase,     \* where the call of mediaSet() or of operator() stands
  medium,    \* the medium number of the present loop
  todo,      \* what the present loop still has to export
  dirs,      \* the directories made: <<medium, path>>
  disk       \* the files written

compilerVars == <<source, phase, medium, todo, dirs, disk>>

Policy == {"None", "NoneExisting", "All"}

(* Files of loads and batches that the caller has in its source directory: *)
(* none, those of this media set, or those of an edition before it.        *)
Original == {"missing", "current", "earlier"}

SourceType ==
  [ms : MediaSetType, version : Version, policy : Policy,
   value : [RegularFile -> Value], earlier : [RegularFile -> Value],
   original : [Load \cup Batch -> Original]]

Set == source.ms
LastMediumNumber == LastMedium(Set, Root)

(* The content of the file that stands in the source directory for f. *)
SourceContent(f) ==
  FileContent(Set, source.version,
              IF f \in RegularFile \/ source.original[f] = "current" THEN source.value
              ELSE source.earlier, f)

CompilerInit ==
  /\ phase = "paths"
  /\ medium = FirstMedium
  /\ todo = {}
  /\ dirs = {}
  /\ disk = NoFiles

(* Mutant: the medium number of the next loop is value initialised.        *)
EnterAtZero(p, entities) ==
  /\ phase' = p
  /\ medium' = 0
  /\ todo' = entities

Enter(p, entities) ==
  /\ phase' = p
  /\ medium' = FirstMedium
  /\ todo' = entities

-----------------------------------------------------------------------------
(* The handlers.                                                           *)

(* Mutant: files that are already there are overwritten.                   *)
CreatableAgain(loc) == <<loc[1], Front(loc[2])>> \in dirs

(* A file can only be made in a directory that is there, and never twice.  *)
Creatable(loc) ==
  /\ <<loc[1], Front(loc[2])>> \in dirs
  /\ loc \notin DOMAIN disk

Readable(f) == Location(Set, f) \in DOMAIN disk

WriteFile(loc, content) == disk' = Extended(disk, [x \in {loc} |-> content])

CreateFile(f) == WriteFile(Location(Set, f), SourceContent(f))

(* By creation policy, a load header or batch file is copied or created.   *)
Copied(f) ==
  \/ source.policy = "None"
  \/ source.policy = "NoneExisting" /\ source.original[f] # "missing"

(* What the export of f needs: a source to copy, or the files of a load to *)
(* compute its header from.                                                *)
Exportable(f) ==
  /\ Creatable(Location(Set, f))
  /\ f \in Load \cup Batch /\ Copied(f) => source.original[f] # "missing"
  /\ f \in Load /\ ~Copied(f) => \A g \in Set.data[f] \cup Set.support[f] : Readable(g)

-----------------------------------------------------------------------------
(* Media, directories and regular files.                                   *)

(* The directory of each medium is named, before anything is exported. For *)
(* the largest medium number this loop has no end.                         *)
SetMediaPaths ==
  /\ phase = "paths"
  /\ IF LoopGoesOn(medium, LastMediumNumber)
     THEN medium' = NextMedium(medium) /\ UNCHANGED <<phase, todo>>
     ELSE Enter("medium", {})
  /\ UNCHANGED <<source, dirs, disk>>

CreateMedium ==
  /\ phase = "medium"
  /\ dirs' = dirs \cup {<<medium, <<>>>>}
  /\ phase' = "export"
  /\ todo' = (AllFiles(Set, Root) \cap RegularFile) \cup Subdirectories(Set, Root, medium)
  /\ UNCHANGED <<source, medium, disk>>

ExportRegularFile(f) ==
  /\ phase = "export" /\ f \in todo
  /\ Exportable(f)
  /\ CreateFile(f)
  /\ todo' = todo \ {f}
  /\ UNCHANGED <<source, phase, medium, dirs>>

(* All regular files and all subdirectories follow, on whatever medium.    *)
ExportDirectory(d) ==
  /\ phase = "export" /\ d \in todo
  /\ todo \cap RegularFile = {}
  /\ <<medium, Front(Path(Set, d))>> \in dirs
  /\ dirs' = dirs \cup {<<medium, Path(Set, d)>>}
  /\ todo' = (todo \ {d}) \cup (AllFiles(Set, d) \cap RegularFile) \cup AllSubdirectories(Set, d)
  /\ UNCHANGED <<source, phase, medium, disk>>

MediumExported ==
  /\ phase = "export" /\ todo = {}
  /\ IF LoopGoesOn(medium, LastMediumNumber)
     THEN phase' = "medium" /\ medium' = NextMedium(medium) /\ UNCHANGED todo
     ELSE Enter("loads", RecursiveLoads(Set))
  /\ UNCHANGED <<source, dirs, disk>>

-----------------------------------------------------------------------------
(* Load headers and batch files.                                           *)

ExportLoad(l) ==
  /\ phase = "loads" /\ l \in todo
  /\ Exportable(l)
  /\ IF Copied(l) THEN CreateFile(l)
     ELSE WriteFile(Location(Set, l), LoadHeader(Set, source.version, l, disk))
  /\ todo' = todo \ {l}
  /\ UNCHANGED <<source, phase, medium, dirs>>

LoadsExported ==
  /\ phase = "loads" /\ todo = {}
  /\ Enter("batches", RecursiveBatches(Set))
  /\ UNCHANGED <<source, dirs, disk>>

ExportBatch(b) ==
  /\ phase = "batches" /\ b \in todo
  /\ Exportable(b)
  /\ IF Copied(b) THEN CreateFile(b) ELSE WriteFile(Location(Set, b), BatchContent(Set, b))
  /\ todo' = todo \ {b}
  /\ UNCHANGED <<source, phase, medium, dirs>>

BatchesExported ==
  /\ phase = "batches" /\ todo = {}
  /\ Enter("loadLists", {})
  /\ UNCHANGED <<source, dirs, disk>>

-----------------------------------------------------------------------------
(* List files. Each is written to all media in a loop of its own, and the  *)
(* list of files is computed from the files that stand on the disk.        *)

WriteList(here, next, path, content) ==
  /\ phase = here
  /\ Creatable(<<medium, path>>)
  /\ WriteFile(<<medium, path>>, content)
  /\ IF LoopGoesOn(medium, LastMediumNumber)
     THEN medium' = NextMedium(medium) /\ UNCHANGED <<phase, todo>>
     ELSE Enter(next, {})
  /\ UNCHANGED <<source, dirs>>

ExportListOfLoads ==
  WriteList("loadLists", IF HasBatchList(Set) THEN "batchLists" ELSE "fileLists",
            ListOfLoads, LoadList(Set, medium))

ExportListOfBatches ==
  WriteList("batchLists", "fileLists", ListOfBatches, BatchList(Set, medium))

(* Mutant: the list made for the first medium goes to all media.           *)
ExportListOfFirstMedium ==
  /\ \A f \in Files(Set) : Readable(f)
  /\ WriteList("fileLists", "compiled", ListOfFiles,
               FileList(Set, source.version, FirstMedium, disk))

ExportListOfFiles ==
  /\ \A f \in Files(Set) : Readable(f)
  /\ WriteList("fileLists", "compiled", ListOfFiles,
               FileList(Set, source.version, medium, disk))

(* The next handler call throws. *)
CompilationFails ==
  /\ \/ phase \in {"export", "loads", "batches"} /\ \E f \in todo \cap File : ~Exportable(f)
     \/ /\ phase = "export" /\ todo \cap RegularFile = {}
        /\ \E d \in todo : <<medium, Front(Path(Set, d))>> \notin dirs
     \/ phase = "loadLists" /\ ~Creatable(<<medium, ListOfLoads>>)
     \/ phase = "batchLists" /\ ~Creatable(<<medium, ListOfBatches>>)
     \/ phase = "fileLists" /\ ~Creatable(<<medium, ListOfFiles>>)
     \/ phase = "fileLists" /\ \E f \in Files(Set) : ~Readable(f)
  /\ phase' = "failed"
  /\ UNCHANGED <<source, medium, todo, dirs, disk>>

Compile ==
  \/ SetMediaPaths
  \/ CreateMedium \/ MediumExported \/ LoadsExported \/ BatchesExported
  \/ \E f \in RegularFile : ExportRegularFile(f)
  \/ \E d \in Directory : ExportDirectory(d)
  \/ \E l \in Load : ExportLoad(l)
  \/ \E b \in Batch : ExportBatch(b)
  \/ ExportListOfLoads \/ ExportListOfBatches \/ ExportListOfFiles
  \/ CompilationFails

-----------------------------------------------------------------------------
CompilerTypeOK ==
  /\ source \in SourceType
  /\ phase \in {"paths", "medium", "export", "loads", "batches", "loadLists", "batchLists",
                "fileLists", "compiled", "failed"}
  /\ medium \in MediumNumber
  /\ todo \subseteq Entity
  /\ \A x \in dirs \cup DOMAIN disk : x[1] \in MediumNumber

ListNames(ms) ==
  {ListOfFiles, ListOfLoads} \cup (IF HasBatchList(ms) THEN {ListOfBatches} ELSE {})

(* The directories at the top whose content goes to a medium. *)
Below(d) == RecursiveFiles(Set, d, NoValue)
ExportedOn(d) == {m \in FirstMedium .. LastMediumNumber : HasChildren(Set, d, m)}

(* The media sets that the compiler can handle, and no others: regular     *)
(* files of the media set itself only on a single medium, and each         *)
(* directory at the top, with everything below it, exported on one medium, *)
(* which is that of its regular files; loads and batches lie where their   *)
(* directory was exported; the loops over media come to their end; and no  *)
(* file of the media set itself is named like a list file.                 *)
CanBeCompiled ==
  /\ LastMediumNumber < MaxMedium
  /\ AllFiles(Set, Root) \cap RegularFile # {} => LastMediumNumber = FirstMedium
  /\ \A d \in AllSubdirectories(Set, Root) :
       /\ Below(d) \cap RegularFile # {} => Cardinality(ExportedOn(d)) = 1
       /\ \A f \in Below(d) : EffectiveMedium(Set, f) \in ExportedOn(d)
  /\ \A f \in Files(Set) \cap (Load \cup Batch) : Copied(f) => source.original[f] # "missing"
  /\ \A f \in AllFiles(Set, Root) : <<Set.name[f]>> \notin ListNames(Set)

(* A compilation reports success exactly for these. It fails for others    *)
(* that it begins; it does not begin with media sets that reach the        *)
(* largest medium number: for them the media paths never come to an end.   *)
CompilesWhatItCan ==
  /\ LastMediumNumber = MaxMedium => phase = "paths"
  /\ phase = "compiled" => CanBeCompiled
  /\ phase = "failed" => ~CanBeCompiled

(* After a successful compilation the media hold the described files, each *)
(* once and on its medium, with the list files that belong to them, and    *)
(* nothing else, if no load header or batch file of another edition was    *)
(* taken over.                                                             *)
MediaAsDescribed ==
  phase = "compiled" /\ (\A f \in Files(Set) \cap (Load \cup Batch) :
                           Copied(f) => source.original[f] = "current")
    => IsImage(disk, Set, source.version, source.value)
=============================================================================
