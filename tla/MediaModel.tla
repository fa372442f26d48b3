----------------------------- MODULE MediaModel -----------------------------
(***************************************************************************)
(* Queries on one media set: its tree of directories and files, the files  *)
(* that loads and batches refer to, and the medium numbers and check value *)
(* types inherited along the tree (namespace Arinc665::Media).             *)
(*                                                                         *)
(* A media set is a record ms. Objects are drawn from pools, one per class *)
(* of the code; an object whose parent is NoValue is not in the set. Lists *)
(* are sets: the order in which a container lists its members is left      *)
(* open, so "the first one found" is any one of those found.               *)
(***************************************************************************)
EXTENDS MediumNumbers, FiniteSets, Sequences, SequencesExt

CONSTANTS
  Root,          \* the media set itself, the root container
  Directory,     \* pool of directories
  RegularFile,   \* pool of regular files
  Load,          \* pool of load header files
  Batch,         \* pool of batch files
  Name,          \* names of directories and files ("." and "..": MediaSetXml)
  Position,      \* target hardware id positions of batches
  CheckType,     \* check value types, "NotUsed" among them
  NotUsed,
  NoValue        \* an empty optional, a null pointer

File == RegularFile \cup Load \cup Batch
Container == Directory \cup {Root}
Entity == Directory \cup File

ASSUME MediaAssumption ==
  /\ LET classes == <<Directory, RegularFile, Load, Batch, {Root}, {NoValue}>>
     IN \A i, j \in 1 .. 6 : i # j => classes[i] \cap classes[j] = {}
  /\ Name # {}
  /\ NotUsed \in CheckType
  /\ NoValue \notin CheckType \cup Nat \cup Name

Optional(S) == S \cup {NoValue}

(* What a check value type can be set for: each file, the media set as a   *)
(* whole, all its files, its three list files, and for every load its data *)
(* files, its support files and the load check value.                      *)
Scope ==
  (File \X {"file"})
    \cup ({Root} \X {"mediaSet", "files", "listOfFiles", "listOfLoads", "listOfBatches"})
    \cup (Load \X {"data", "support", "load"})

MediaSetType ==
  [parent : [Entity -> Optional(Container)],
   name : [Entity -> Name],
   medium : [File \cup Container -> Optional(MediumNumber)],
   check : [Scope -> Optional(CheckType)],
   data : [Load -> SUBSET RegularFile],
   support : [Load -> SUBSET RegularFile],
   targets : [Batch -> [Position -> Optional(SUBSET Load)]]]

(* A media set as it is created. *)
EmptyMediaSet ==
  [parent |-> [e \in Entity |-> NoValue],
   name |-> [e \in Entity |-> CHOOSE n \in Name : TRUE],
   medium |-> [x \in File \cup Container |-> IF x = Root THEN FirstMedium ELSE NoValue],
   check |-> [s \in Scope |-> NoValue],
   data |-> [l \in Load |-> {}],
   support |-> [l \in Load |-> {}],
   targets |-> [b \in Batch |-> [p \in Position |-> NoValue]]]

-----------------------------------------------------------------------------
(* The tree.                                                               *)

InSet(ms, e) == ms.parent[e] # NoValue
Containers(ms) == {Root} \cup {d \in Directory : InSet(ms, d)}
Files(ms) == {f \in File : InSet(ms, f)}

AllSubdirectories(ms, c) == {d \in Directory : ms.parent[d] = c}
AllFiles(ms, c) == {f \in File : ms.parent[f] = c}

(* Name lookup within one container. *)
SubdirectoryNamed(ms, c, n) == {d \in AllSubdirectories(ms, c) : ms.name[d] = n}
FileNamed(ms, c, n) == {f \in AllFiles(ms, c) : ms.name[f] = n}

(* Mutant: a new name is compared with the directories only.               *)
NameTakenByDirectory(ms, c, n) == SubdirectoryNamed(ms, c, n) # {}

NameTaken(ms, c, n) == SubdirectoryNamed(ms, c, n) \cup FileNamed(ms, c, n) # {}

(* The path of an entity from the media set down. *)
Path(ms, e) ==
  LET path[x \in Containers(ms) \cup Files(ms)] ==
        IF x = Root THEN <<>> ELSE Append(path[ms.parent[x]], ms.name[x])
  IN path[e]

(* From a container down, by one name of the path after the other. *)
Follow(ms, c, path) ==
  LET at[i \in 0 .. Len(path)] ==
        IF i = 0 THEN {c} ELSE UNION {SubdirectoryNamed(ms, d, path[i]) : d \in at[i - 1]}
  IN at[Len(path)]

(* Mutant: an absolute path is followed from the container it is asked of. *)
SubdirectoryFromHere(ms, c, absolute, path) ==
  IF ~absolute /\ path = <<>> THEN {} ELSE Follow(ms, c, path)

(* subdirectory( path ): an absolute path starts at the media set, and the *)
(* empty relative path leads nowhere.                                      *)
SubdirectoryAt(ms, c, absolute, path) ==
  IF ~absolute /\ path = <<>> THEN {}
  ELSE Follow(ms, IF absolute THEN Root ELSE c, path)

(* file( path ): the file name is looked up in the directory of its path.  *)
FileAt(ms, c, absolute, path) ==
  LET directories == IF Len(path) = 1 /\ ~absolute THEN {c}
                     ELSE SubdirectoryAt(ms, c, absolute, Front(path))
  IN UNION {FileNamed(ms, d, Last(path)) : d \in directories}

FilePerType(ms, c, absolute, path, class) == FileAt(ms, c, absolute, path) \cap class

(* The path of a file leads to no directory. The read-only queries do not  *)
(* ask for that and call the null pointer.                                 *)
DirectoryMissing(ms, c, absolute, path) ==
  /\ absolute \/ Len(path) > 1
  /\ SubdirectoryAt(ms, c, absolute, Front(path)) = {}

-----------------------------------------------------------------------------
(* Media.                                                                  *)

EffectiveDefaultMedium(ms, c) ==
  LET effective[x \in Containers(ms)] ==
        IF ms.medium[x] # NoValue THEN ms.medium[x]
        ELSE IF x = Root THEN FirstMedium ELSE effective[ms.parent[x]]
  IN effective[c]

EffectiveMedium(ms, f) ==
  IF ms.medium[f] # NoValue THEN ms.medium[f]
  ELSE EffectiveDefaultMedium(ms, ms.parent[f])

(* A filter that is NoValue filters nothing. *)
OnMedium(ms, f, m) == m = NoValue \/ EffectiveMedium(ms, f) = m
FilesOn(ms, c, m) == {f \in AllFiles(ms, c) : OnMedium(ms, f, m)}

RecursiveFiles(ms, c, m) ==
  LET below[x \in Container] ==
        FilesOn(ms, x, m) \cup UNION {below[d] : d \in AllSubdirectories(ms, x)}
  IN below[c]

(* Mutant: the files in subdirectories are not asked for their medium.     *)
LastMediumHere(ms, c) ==
  LET media == {FirstMedium} \cup {EffectiveMedium(ms, f) : f \in AllFiles(ms, c)}
  IN CHOOSE m \in media : \A n \in media : n <= m

(* The largest medium number of a file below c, and at least the first.    *)
LastMedium(ms, c) ==
  LET media == {FirstMedium} \cup
                 {EffectiveMedium(ms, f) : f \in RecursiveFiles(ms, c, NoValue)}
  IN CHOOSE m \in media : \A n \in media : n <= m

(* hasChildren( medium ) asks whether all subdirectories have children,    *)
(* and takes that for all of them being empty.                             *)
HasChildren(ms, c, m) ==
  LET has[x \in Container] ==
        LET subdirsEmpty == \A d \in AllSubdirectories(ms, x) : has[d]
            filesEmpty == \A f \in AllFiles(ms, x) : EffectiveMedium(ms, f) # m
        IN ~subdirsEmpty \/ ~filesEmpty
  IN IF m = NoValue
     THEN AllSubdirectories(ms, c) # {} \/ AllFiles(ms, c) # {}
     ELSE has[c]

Subdirectories(ms, c, m) ==
  {d \in AllSubdirectories(ms, c) : m = NoValue \/ HasChildren(ms, d, m)}

-----------------------------------------------------------------------------
(* Loads, batches and check values.                                        *)

RecursiveLoads(ms) == RecursiveFiles(ms, Root, NoValue) \cap Load
RecursiveBatches(ms) == RecursiveFiles(ms, Root, NoValue) \cap Batch

(* Mutant: the support files of the loads are not searched.                *)
LoadsWithDataFile(ms, f) ==
  LET users == {l \in RecursiveLoads(ms) : f \in ms.data[l]}
  IN IF users = {} THEN {{}} ELSE {{l} : l \in users}

(* loadsWithFile: the search ends at the first load with the file among    *)
(* its data files; which one that is depends on the order of the loads.    *)
LoadsWithFile(ms, f) ==
  LET users == {l \in RecursiveLoads(ms) : f \in ms.data[l]}
      supported == {l \in RecursiveLoads(ms) \ users : f \in ms.support[l]}
  IN IF users = {} THEN {supported}
     ELSE {{l} \cup before : l \in users, before \in SUBSET supported}

BatchesWithLoad(ms, l) ==
  {b \in RecursiveBatches(ms) :
     \E p \in Position : ms.targets[b][p] # NoValue /\ l \in ms.targets[b][p]}

(* Where a scope without a type of its own takes it from. *)
CheckParent(s) ==
  IF s[2] \in {"file", "listOfLoads", "listOfBatches"} THEN <<Root, "files">>
  ELSE <<Root, "mediaSet">>

EffectiveCheckType(ms, s) ==
  LET effective[x \in Scope] ==
        IF ms.check[x] # NoValue THEN ms.check[x]
        ELSE IF x = <<Root, "mediaSet">> THEN NotUsed ELSE effective[CheckParent(x)]
  IN effective[s]

-----------------------------------------------------------------------------
(* What holds of the media sets that the operations of MediaTree make      *)
(* (proved in MediaTreeProofs) and the other components may rely on.       *)

(* The containers are all found going down from the media set: a set of    *)
(* containers that has the media set and, with a container, all of its     *)
(* subdirectories, has every container of the media set.                   *)
ClosedBelow(ms, S) ==
  Root \in S /\ \A d \in Directory : ms.parent[d] \in S => d \in S

Rooted(ms) ==
  \A S \in SUBSET Container : ClosedBelow(ms, S) => Containers(ms) \subseteq S

(* Going down from a container ends: a set of containers that has every    *)
(* container all of whose subdirectories it has, has every container of    *)
(* the media set.                                                          *)
ClosedAbove(ms, S) ==
  \A c \in Container : AllSubdirectories(ms, c) \subseteq S => c \in S

Grounded(ms) ==
  \A S \in SUBSET Container : ClosedAbove(ms, S) => Containers(ms) \subseteq S

(* Members are in members. *)
ParentsLive(ms) == \A e \in Entity : InSet(ms, e) => ms.parent[e] \in Containers(ms)

Tree(ms) ==
  /\ ms.parent \in [Entity -> Optional(Container)]
  /\ Rooted(ms) /\ Grounded(ms) /\ ParentsLive(ms)

(* Members of a container differ in name.                                  *)
UniqueNames(ms) ==
  \A x, y \in Entity :
    InSet(ms, x) /\ ms.parent[x] = ms.parent[y] /\ ms.name[x] = ms.name[y] => x = y

(* What a load or batch refers to is in the media set.                     *)
LiveLinks(ms) ==
  /\ \A l \in Load : ms.data[l] \cup ms.support[l] \subseteq Files(ms)
  /\ \A b \in Batch, p \in Position :
       ms.targets[b][p] # NoValue => ms.targets[b][p] \subseteq Files(ms)

Proper(ms) == Tree(ms) /\ UniqueNames(ms) /\ LiveLinks(ms)

(* What is not in the media set has nothing, no links and no values.       *)
Unlinked(ms) ==
  /\ \A l \in Load : ~InSet(ms, l) => ms.data[l] = {} /\ ms.support[l] = {}
  /\ \A b \in Batch : ~InSet(ms, b) => \A p \in Position : ms.targets[b][p] = NoValue

Unmarked(ms) ==
  /\ \A e \in Entity : ~InSet(ms, e) =>
       ms.name[e] = EmptyMediaSet.name[e] /\ ms.medium[e] = NoValue
  /\ \A s \in Scope : s[1] # Root /\ ~InSet(ms, s[1]) => ms.check[s] = NoValue

OutsidersBare(ms) == Unlinked(ms) /\ Unmarked(ms)
=============================================================================
