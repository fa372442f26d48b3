----------------------------- MODULE MediaFiles -----------------------------
(***************************************************************************)
(* What stands in the files of a media set: the contents the compiler      *)
(* gives to load headers, batch files and list files, and what the         *)
(* decompiler later compares.                                              *)
(*                                                                         *)
(* A disk maps locations <<medium, path>> to contents, for all media       *)
(* together. The content of a regular file is a value. The other contents  *)
(* are records of the fields that are compared; part numbers and target    *)
(* hardware ids stand in the identity of a load or batch. The 16-bit CRC   *)
(* of two values may collide; check values and the 32-bit load CRC are     *)
(* taken to be collision free, and so is the CRC of a created file.        *)
(***************************************************************************)
EXTENDS MediaModel, Functions

CONSTANTS
  Value,     \* contents of regular files
  Crc        \* [Value -> ...]: the 16-bit checksum of each

ASSUME FilesAssumption == Value # {} /\ DOMAIN Crc = Value

Version == {"Supplement2", "Supplement345"}

ListOfFiles == <<"FILES.LUM">>
ListOfLoads == <<"LOADS.LUM">>
ListOfBatches == <<"BATCHES.LUM">>

Location(ms, f) == <<EffectiveMedium(ms, f), Path(ms, f)>>

Data(v) == [kind |-> "data", value |-> v]

Checksum(content) == IF content.kind = "data" THEN Crc[content.value] ELSE content

NoCheckValue == [type |-> NotUsed, of |-> NotUsed]
CheckValue(type, content) ==
  IF type = NotUsed THEN NoCheckValue ELSE [type |-> type, of |-> content]

(* Only the files of Supplement 3 and later have room for check values.    *)
Recorded(version, type, content) ==
  IF version = "Supplement2" THEN NoCheckValue ELSE CheckValue(type, content)

-----------------------------------------------------------------------------
(* Loads and batches.                                                      *)

LoadFiles(ms, l, role) == IF role = "data" THEN ms.data[l] ELSE ms.support[l]
Roles == {"data", "support"}

(* loadFileInformation: what the load header says of one of its files.     *)
LoadFileInfo(ms, version, l, role, f, disk) ==
  LET content == disk[Location(ms, f)]
  IN [role |-> role, name |-> ms.name[f], crc |-> Checksum(content),
      check |-> Recorded(version, EffectiveCheckType(ms, <<l, role>>), content)]

(* The load header; sum stands for load CRC and load check value, which    *)
(* run over the header and all files of the load.                          *)
LoadHeader(ms, version, l, disk) ==
  [kind |-> "load",
   load |-> l,
   files |-> {LoadFileInfo(ms, version, l, r[1], r[2], disk) :
                r \in UNION {{x} \X LoadFiles(ms, l, x) : x \in Roles}},
   check |-> IF version = "Supplement2" THEN NotUsed
             ELSE EffectiveCheckType(ms, <<l, "load">>),
   sum |-> [role \in Roles |->
              {<<ms.name[f], disk[Location(ms, f)]>> : f \in LoadFiles(ms, l, role)}]]

BatchContent(ms, b) ==
  [kind |-> "batch",
   batch |-> b,
   targets |-> {[position |-> p,
                 loads |-> {[name |-> ms.name[l], load |-> l] : l \in ms.targets[b][p]}] :
                  p \in {x \in Position : ms.targets[b][x] # NoValue}}]

-----------------------------------------------------------------------------
(* List files, which stand on every medium with its number.                *)

LoadList(ms, m) ==
  [kind |-> "loadList",
   medium |-> m,
   members |-> LastMedium(ms, Root),
   loads |-> {[load |-> l, name |-> ms.name[l], medium |-> EffectiveMedium(ms, l)] :
                l \in RecursiveLoads(ms)}]

BatchList(ms, m) ==
  [kind |-> "batchList",
   medium |-> m,
   members |-> LastMedium(ms, Root),
   batches |-> {[batch |-> b, name |-> ms.name[b], medium |-> EffectiveMedium(ms, b)] :
                  b \in RecursiveBatches(ms)}]

(* The list of batches exists if the media set itself, the root container, *)
(* has batches: numberOfBatches() does not look into subdirectories.       *)
HasBatchList(ms) == AllFiles(ms, Root) \cap Batch # {}

FileInfo(version, name, path, m, type, disk) ==
  LET content == disk[<<m, Append(path, name)>>]
  IN [name |-> name, path |-> path, medium |-> m, crc |-> Checksum(content),
      check |-> Recorded(version, type, content)]

FileList(ms, version, m, disk) ==
  [kind |-> "fileList",
   medium |-> m,
   members |-> LastMedium(ms, Root),
   check |-> IF version = "Supplement2" THEN NotUsed
             ELSE EffectiveCheckType(ms, <<Root, "listOfFiles">>),
   loadList |-> FileInfo(version, ListOfLoads[1], <<>>, m,
                         EffectiveCheckType(ms, <<Root, "listOfLoads">>), disk),
   batchList |-> IF HasBatchList(ms)
                 THEN {FileInfo(version, ListOfBatches[1], <<>>, m,
                                EffectiveCheckType(ms, <<Root, "listOfBatches">>), disk)}
                 ELSE {},
   files |-> {FileInfo(version, ms.name[f], Front(Path(ms, f)), EffectiveMedium(ms, f),
                       EffectiveCheckType(ms, <<f, "file">>), disk) :
                f \in RecursiveFiles(ms, Root, NoValue)}]

-----------------------------------------------------------------------------
(* The disk of a media set that was compiled as described, every load      *)
(* header and batch file created, from regular files with given values.    *)

RegularFilesOf(ms) == Files(ms) \cap RegularFile
FileLocations(ms) == {Location(ms, f) : f \in Files(ms)}

NoFiles == [loc \in {} |-> NoValue]

(* What stands on a disk stays, and the rest of another comes to it.       *)
Extended(disk, more) ==
  [loc \in DOMAIN disk \cup DOMAIN more |-> IF loc \in DOMAIN disk THEN disk[loc] ELSE more[loc]]

DataImage(ms, value) ==
  [loc \in {Location(ms, f) : f \in RegularFilesOf(ms)} |->
     Data(value[CHOOSE f \in RegularFilesOf(ms) : Location(ms, f) = loc])]

FileContent(ms, version, value, f) ==
  IF f \in RegularFile THEN Data(value[f])
  ELSE IF f \in Load THEN LoadHeader(ms, version, f, DataImage(ms, value))
  ELSE BatchContent(ms, f)

Image(ms, version, value) ==
  LET media == FirstMedium .. LastMedium(ms, Root)
      files == [loc \in FileLocations(ms) |->
                  FileContent(ms, version, value, CHOOSE f \in Files(ms) : Location(ms, f) = loc)]
      loadLists == [loc \in media \X {ListOfLoads} |-> LoadList(ms, loc[1])]
      batchLists == [loc \in media \X (IF HasBatchList(ms) THEN {ListOfBatches} ELSE {}) |->
                       BatchList(ms, loc[1])]
      listed == Extended(files, Extended(loadLists, batchLists))
  IN Extended(listed, [loc \in media \X {ListOfFiles} |-> FileList(ms, version, loc[1], listed)])

(* A disk with these files, and headers and lists that fit: it is what it  *)
(* says of itself.                                                         *)
IsImage(disk, ms, version, value) ==
  LET media == FirstMedium .. LastMedium(ms, Root)
      lists == {ListOfFiles, ListOfLoads} \cup (IF HasBatchList(ms) THEN {ListOfBatches} ELSE {})
  IN /\ DOMAIN disk = FileLocations(ms) \cup (media \X lists)
     /\ \A f \in Files(ms) :
          disk[Location(ms, f)] = IF f \in RegularFile THEN Data(value[f])
                                  ELSE IF f \in Load THEN LoadHeader(ms, version, f, disk)
                                  ELSE BatchContent(ms, f)
     /\ \A m \in media :
          /\ disk[<<m, ListOfFiles>>] = FileList(ms, version, m, disk)
          /\ disk[<<m, ListOfLoads>>] = LoadList(ms, m)
          /\ HasBatchList(ms) => disk[<<m, ListOfBatches>>] = BatchList(ms, m)
=============================================================================
