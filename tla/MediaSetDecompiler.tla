------------------------- MODULE MediaSetDecompiler -------------------------
(***************************************************************************)
(* Rebuilding a media set from its media: MediaSetDecompiler with the      *)
(* handlers of FilesystemMediaSetDecompiler. One step reads the list files *)
(* of one medium, or one load header or batch file; an exception rejects   *)
(* the media.                                                              *)
(***************************************************************************)
EXTENDS MediaFiles

VARIABLES
  media,      \* the files the decompiler is given: <<medium, path>> to content
  verify,     \* checkFileIntegrity
  step,       \* where operator() stands
  number,     \* the medium to read next
  fileList,   \* list of files, list of loads and list of batches, as they
  loadList,   \*   stand on the first medium
  batchList,
  loadInfo,   \* entry of the list of loads by load header name
  toAdd,      \* loads and batches that are not yet filled with data
  received    \* the media set built so far

decompilerVars ==
  <<media, verify, step, number, fileList, loadList, batchList, loadInfo, toAdd, received>>

(* members: directory and name of each file, with medium, class, check     *)
(* value type and checksum. links and targets: what loads and batches refer *)
(* to. lists: the check value types of the list files.                     *)
NothingReceived ==
  [members |-> {}, links |-> {}, loadTypes |-> {}, targets |-> {}, lists |-> <<>>]

DecompilerInit ==
  /\ step = "first"
  /\ number = FirstMedium
  /\ fileList = NoValue /\ loadList = NoValue /\ batchList = NoValue
  /\ loadInfo = <<>>
  /\ toAdd = {}
  /\ received = NothingReceived

-----------------------------------------------------------------------------
(* Reading.                                                                *)

(* A file of the wrong kind does not decode.                               *)
CanRead(loc, kind) == loc \in DOMAIN media /\ media[loc].kind = kind

EntryLocation(e) == <<e.medium, Append(e.path, e.name)>>

(* checkFileIntegrity: CRC and check value against the list of files.      *)
Intact(e) ==
  LET loc == EntryLocation(e)
  IN /\ loc \in DOMAIN media
     /\ Checksum(media[loc]) = e.crc
     /\ e.check.type # NotUsed => CheckValue(e.check.type, media[loc]) = e.check

(* checkMediumFiles: only if the caller asked for it. *)
MediumIntact(list, m) == verify => \A e \in list.files : e.medium = m => Intact(e)

EntriesNamed(list, n) == {e \in list.files : e.name = n}

(* An entry of the list of loads or batches must be that of a listed file; *)
(* of several files with the name, an arbitrary one is compared.           *)
MayBeListed(list, infos) ==
  \A i \in infos : \E e \in EntriesNamed(list, i.name) : e.medium = i.medium
MayBeInconsistent(list, infos) ==
  \E i \in infos : \/ EntriesNamed(list, i.name) = {}
                   \/ \E e \in EntriesNamed(list, i.name) : e.medium # i.medium

Reject ==
  /\ step' = "rejected"
  /\ UNCHANGED <<media, verify, number, fileList, loadList, batchList, loadInfo, toAdd, received>>

-----------------------------------------------------------------------------
(* List files.                                                             *)

(* The entry of the list of batches is optional: a set of one or none.     *)
HasBatches(list) == list.batchList # {}

FirstReadable ==
  LET list == media[<<FirstMedium, ListOfFiles>>]
  IN /\ CanRead(<<FirstMedium, ListOfFiles>>, "fileList")
     /\ list.medium = FirstMedium
     /\ MediumIntact(list, FirstMedium)
     /\ CanRead(<<FirstMedium, ListOfLoads>>, "loadList")
     /\ HasBatches(list) => CanRead(<<FirstMedium, ListOfBatches>>, "batchList")

LoadFirstMedium ==
  LET list == media[<<FirstMedium, ListOfFiles>>]
      loads == media[<<FirstMedium, ListOfLoads>>].loads
  IN /\ step = "first"
     /\ FirstReadable
     /\ MayBeListed(list, loads)
     /\ fileList' = list
     /\ loadList' = media[<<FirstMedium, ListOfLoads>>]
     /\ loadInfo' \in {i \in [{l.name : l \in loads} -> loads] : \A n \in DOMAIN i : i[n].name = n}
     /\ IF HasBatches(list)
        THEN /\ batchList' = media[<<FirstMedium, ListOfBatches>>]
             /\ MayBeListed(list, batchList'.batches)
        ELSE UNCHANGED batchList
     /\ received' = [received EXCEPT !.lists =
                       <<list.check, list.loadList.check.type,
                         IF HasBatches(list) THEN (CHOOSE i \in list.batchList : TRUE).check.type
                         ELSE NotUsed>>]
     /\ number' = NextMedium(FirstMedium)
     /\ step' = IF LoopGoesOn(FirstMedium, list.members) THEN "further" ELSE "files"
     /\ UNCHANGED <<media, verify, toAdd>>

FirstMediumRejected ==
  LET list == media[<<FirstMedium, ListOfFiles>>]
  IN /\ step = "first"
     /\ FirstReadable =>
          \/ MayBeInconsistent(list, media[<<FirstMedium, ListOfLoads>>].loads)
          \/ /\ HasBatches(list)
             /\ MayBeInconsistent(list, media[<<FirstMedium, ListOfBatches>>].batches)
     /\ Reject

(* Mutant: the files listed on the media are not compared.                 *)
FurtherMediumOfSize(m) ==
  LET list == media[<<m, ListOfFiles>>]
      loads == media[<<m, ListOfLoads>>]
  IN /\ CanRead(<<m, ListOfFiles>>, "fileList")
     /\ list.members = fileList.members
     /\ list.medium = m
     /\ MediumIntact(fileList, m)
     /\ CanRead(<<m, ListOfLoads>>, "loadList")
     /\ loads.members = loadList.members /\ loads.loads = loadList.loads

(* belongsToSameMediaSet: everything but the entries of list files. *)
FurtherMediumAgrees(m) ==
  LET list == media[<<m, ListOfFiles>>]
      loads == media[<<m, ListOfLoads>>]
      batches == media[<<m, ListOfBatches>>]
  IN /\ CanRead(<<m, ListOfFiles>>, "fileList")
     /\ list.members = fileList.members /\ list.files = fileList.files
     /\ HasBatches(list) <=> HasBatches(fileList)
     /\ list.medium = m
     /\ MediumIntact(fileList, m)
     /\ CanRead(<<m, ListOfLoads>>, "loadList")
     /\ loads.members = loadList.members /\ loads.loads = loadList.loads
     /\ loads.medium = m
     /\ HasBatches(fileList) =>
          /\ CanRead(<<m, ListOfBatches>>, "batchList")
          /\ batches.members = batchList.members /\ batches.batches = batchList.batches
          /\ batches.medium = m

LoadFurtherMedium ==
  /\ step = "further"
  /\ FurtherMediumAgrees(number)
  /\ number' = NextMedium(number)
  /\ step' = IF LoopGoesOn(number, fileList.members) THEN "further" ELSE "files"
  /\ UNCHANGED <<media, verify, fileList, loadList, batchList, loadInfo, toAdd, received>>

FurtherMediumRejected ==
  /\ step = "further"
  /\ ~FurtherMediumAgrees(number)
  /\ Reject

-----------------------------------------------------------------------------
(* files(): every listed file becomes a load, a batch or a regular file,   *)
(* and its name alone decides which.                                       *)

BatchInfos == IF HasBatches(fileList) THEN batchList.batches ELSE {}

Class(n) ==
  IF n \in DOMAIN loadInfo THEN "load"
  ELSE IF \E i \in BatchInfos : i.name = n THEN "batch" ELSE "regular"

AddFiles ==
  /\ step = "files"
  /\ ~\E i \in BatchInfos : i.name \in DOMAIN loadInfo
  /\ received' = [received EXCEPT !.members =
       {[path |-> e.path, name |-> e.name, class |-> Class(e.name), crc |-> e.crc,
         medium |-> IF Class(e.name) = "load" THEN loadInfo[e.name].medium ELSE e.medium,
         check |-> e.check] : e \in fileList.files}]
  /\ toAdd' = {e \in fileList.files : Class(e.name) # "regular"}
  /\ step' = "fill"
  /\ UNCHANGED <<media, verify, number, fileList, loadList, batchList, loadInfo>>

AmbiguousClass ==
  /\ step = "files"
  /\ \E i \in BatchInfos : i.name \in DOMAIN loadInfo
  /\ Reject

-----------------------------------------------------------------------------
(* Loads. A file of a load is searched by name in the whole media set; if  *)
(* there are several, from the directory of the load down; if there still  *)
(* are several, by checksum, and if that does not help, any will do.       *)

Regular == {f \in received.members : f.class = "regular"}

(* Mutant: only names that are unique in the media set are found.          *)
CandidatesIfUnique(path, i) ==
  LET named == {f \in Regular : f.name = i.name}
  IN IF Cardinality(named) = 1 THEN named ELSE {}

Candidates(path, i) ==
  LET named == {f \in Regular : f.name = i.name}
      near == {f \in named : IsPrefix(path, f.path)}
      equal == {f \in near : f.crc = i.crc}
  IN IF Cardinality(named) <= 1 THEN named
     ELSE IF Cardinality(near) <= 1 THEN near
     ELSE IF equal # {} THEN equal ELSE near

(* checkLoadFile: the header against the list of files, and against the    *)
(* file itself if integrity is checked.                                    *)
FileAgrees(i, f) ==
  /\ f.crc = i.crc
  /\ i.check.type = f.check.type => i.check = f.check
  /\ verify => /\ EntryLocation(f) \in DOMAIN media
               /\ i.check.type # NotUsed =>
                    CheckValue(i.check.type, media[EntryLocation(f)]) = i.check

(* Mutant: the load CRC is not computed.                                   *)
LoadAgreesByFiles(header, choice) == \A i \in header.files : FileAgrees(i, choice[i])

LoadAgrees(header, choice) ==
  /\ \A i \in header.files : FileAgrees(i, choice[i])
  /\ verify => header.sum = [role \in Roles |->
                  {<<i.name, media[EntryLocation(choice[i])]>> :
                     i \in {x \in header.files : x.role = role}}]

LoadReadable(e) ==
  /\ CanRead(EntryLocation(e), "load")
  /\ media[EntryLocation(e)].load = loadInfo[e.name].load
  /\ \A i \in media[EntryLocation(e)].files : Candidates(e.path, i) # {}

SearchResults(e) ==
  {c \in [media[EntryLocation(e)].files -> Regular] :
     \A i \in DOMAIN c : c[i] \in Candidates(e.path, i)}

AddLoad(e) ==
  LET header == media[EntryLocation(e)]
  IN /\ step = "fill" /\ e \in toAdd /\ Class(e.name) = "load"
     /\ LoadReadable(e)
     /\ \E choice \in SearchResults(e) :
          /\ LoadAgrees(header, choice)
          /\ received' = [received EXCEPT
               !.links = @ \cup {[load |-> header.load, role |-> i.role, check |-> i.check.type,
                                  file |-> choice[i]] : i \in header.files},
               !.loadTypes = @ \cup {<<header.load, header.check>>}]
     /\ toAdd' = toAdd \ {e}
     /\ UNCHANGED <<media, verify, step, number, fileList, loadList, batchList, loadInfo>>

(* Mutant: the exception for a header that cannot be read is swallowed.    *)
LoadRejectedIfDisagrees(e) ==
  /\ step = "fill" /\ e \in toAdd /\ Class(e.name) = "load"
  /\ LoadReadable(e)
  /\ \E choice \in SearchResults(e) : ~LoadAgrees(media[EntryLocation(e)], choice)
  /\ Reject

LoadRejected(e) ==
  /\ step = "fill" /\ e \in toAdd /\ Class(e.name) = "load"
  /\ LoadReadable(e) =>
       \E choice \in SearchResults(e) : ~LoadAgrees(media[EntryLocation(e)], choice)
  /\ Reject

-----------------------------------------------------------------------------
(* Batches, after all loads: each load must be unique by its name in the   *)
(* media set and have the part number that the batch gives.                *)

LoadsAdded == \A e \in toAdd : Class(e.name) # "load"

BatchReadable(e) ==
  /\ CanRead(EntryLocation(e), "batch")
  /\ \E i \in BatchInfos : i.name = e.name /\ i.batch = media[EntryLocation(e)].batch
  /\ \A t \in media[EntryLocation(e)].targets : \A l \in t.loads :
       /\ Cardinality({f \in received.members : f.class = "load" /\ f.name = l.name}) = 1
       /\ loadInfo[l.name].load = l.load

AddBatch(e) ==
  LET batch == media[EntryLocation(e)]
  IN /\ step = "fill" /\ e \in toAdd /\ Class(e.name) = "batch" /\ LoadsAdded
     /\ BatchReadable(e)
     /\ received' = [received EXCEPT
          !.targets = @ \cup {[batch |-> batch.batch, position |-> t.position,
                               loads |-> {l.load : l \in t.loads}] : t \in batch.targets}]
     /\ toAdd' = toAdd \ {e}
     /\ UNCHANGED <<media, verify, step, number, fileList, loadList, batchList, loadInfo>>

BatchRejected(e) ==
  /\ step = "fill" /\ e \in toAdd /\ Class(e.name) = "batch" /\ LoadsAdded
  /\ ~BatchReadable(e)
  /\ Reject

Accept ==
  /\ step = "fill" /\ toAdd = {}
  /\ step' = "accepted"
  /\ UNCHANGED <<media, verify, number, fileList, loadList, batchList, loadInfo, toAdd, received>>

Decompile ==
  \/ LoadFirstMedium \/ FirstMediumRejected
  \/ LoadFurtherMedium \/ FurtherMediumRejected
  \/ AddFiles \/ AmbiguousClass
  \/ \E e \in toAdd : AddLoad(e) \/ LoadRejected(e) \/ AddBatch(e) \/ BatchRejected(e)
  \/ Accept
=============================================================================
