--------------------------- MODULE MediaSetStore ---------------------------
(***************************************************************************)
(* The media set directories of a Media Set Manager repository, and the    *)
(* file-system steps of the components that fill and empty them: the       *)
(* copier, the filesystem compiler and the remover.                        *)
(*                                                                         *)
(* Every tool names the directory of a media set after its part number, so *)
(* a directory is identified with the part number of the set it holds.     *)
(* The media subdirectories (MEDIUM_001, ...) are not told apart: a media  *)
(* set is the set of its files, on whatever medium they are. A part number *)
(* stands for one content: two sources or descriptions that carry the same *)
(* part number and differ in their files are left out.                     *)
(***************************************************************************)

CONSTANTS
  PartNumber,   \* part numbers of the media sets that may be imported
  ListFile,     \* files the decompiler always reads (*.LUM, *.LUH, *.LUB)
  DataFile,     \* files it only reads to check the integrity of the set
  Damaged,      \* sets with data files that contradict their check values
  Broken        \* sets with list files the decompiler rejects

File == ListFile \cup DataFile

(* A media set has list files (FILES.LUM and LOADS.LUM are mandatory), and *)
(* its other files are of another kind.                                    *)
ASSUME StoreAssumption ==
  /\ ListFile # {}
  /\ ListFile \cap DataFile = {}
  /\ Damaged \subseteq PartNumber
  /\ Broken \subseteq PartNumber

VARIABLES
  dir,    \* the media set directories that exist
  file    \* what each directory holds: every file missing, torn or ok

storeVars == <<dir, file>>

Content == {"missing", "torn", "ok"}

StoreTypeOK ==
  /\ dir \subseteq PartNumber
  /\ file \in [PartNumber -> [File -> Content]]

StoreInit ==
  /\ dir = {}
  /\ file = [p \in PartNumber |-> [f \in File |-> "missing"]]

-----------------------------------------------------------------------------

(* Every file of the media set is there with the content it should have.   *)
Complete(p) == p \in dir /\ \A f \in File : file[p][f] = "ok"

(* Some file stands in the directory, whatever its content.                *)
Occupied(p) == p \in dir /\ \E f \in File : file[p][f] # "missing"

(* The list files can be decoded and agree with each other.                *)
ListFilesDecode(p) ==
  /\ p \notin Broken
  /\ \A f \in ListFile : file[p][f] = "ok"

(* The other files have the check values that the list files say.          *)
FilesIntact(p) ==
  /\ p \notin Damaged
  /\ \A f \in DataFile : file[p][f] = "ok"

(* The decompiler accepts the directory. It opens files that are not list  *)
(* files only when the integrity check is requested.                       *)
Decompiles(p, checkFileIntegrity) ==
  /\ p \in dir
  /\ ListFilesDecode(p)
  /\ checkFileIntegrity => FilesIntact(p)

(* The same check on the undamaged source media of an import.              *)
SourceDecompiles(p, checkFileIntegrity) ==
  /\ p \notin Broken
  /\ checkFileIntegrity => p \notin Damaged

-----------------------------------------------------------------------------

(* The copier insists on creating the directory: create_directories must   *)
(* report that it made it.                                                 *)
CreateNewDirectory(p) ==
  /\ p \notin dir
  /\ dir' = dir \cup {p}
  /\ UNCHANGED file

(* The compiler is content with a directory that exists already.           *)
CreateDirectory(p) ==
  /\ dir' = dir \cup {p}
  /\ UNCHANGED file

(* Mutant: a copy that replaces the file that is there.                    *)
WritableOverExisting(p, f) == p \in dir

(* Copying never overwrites: the destination must not exist, and its       *)
(* directory must.                                                         *)
Writable(p, f) == p \in dir /\ file[p][f] = "missing"

WriteFile(p, f) ==
  /\ Writable(p, f)
  /\ file' = [file EXCEPT ![p][f] = "ok"]
  /\ UNCHANGED dir

(* A copy that stops half way: the file is there, its content is not.      *)
TearFile(p, f) ==
  /\ Writable(p, f)
  /\ file' = [file EXCEPT ![p][f] = "torn"]
  /\ UNCHANGED dir

(* remove_all deletes the files in any order ...                           *)
EraseFile(p, f) ==
  /\ p \in dir
  /\ file[p][f] # "missing"
  /\ file' = [file EXCEPT ![p][f] = "missing"]
  /\ UNCHANGED dir

(* ... and the emptied directory last. A directory that is not there is    *)
(* no error.                                                               *)
EraseDirectory(p) ==
  /\ ~Occupied(p)
  /\ dir' = dir \ {p}
  /\ UNCHANGED file

=============================================================================
