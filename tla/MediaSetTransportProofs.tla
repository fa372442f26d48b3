---------------------- MODULE MediaSetTransportProofs -----------------------
(***************************************************************************)
(* Theorems about the compilation of a media set, for all pools of objects,*)
(* contents and descriptions of proper media sets: what a compilation that *)
(* reports success has written, and for which media sets it does.  Then    *)
(* theorems about the media set on its way from its description to the     *)
(* recipient, for any number of faults.                                    *)
(***************************************************************************)
EXTENDS MediaSetTransport, MediaModelProofs

-----------------------------------------------------------------------------
(* Files, their media and their locations.                                 *)

Fit(ms) == ms \in MediaSetType /\ Proper(ms)

Media(ms) == FirstMedium .. LastMedium(ms, Root)

(* The recursive queries see the files of the media set, and those are on  *)
(* the media that the loops visit.                                         *)
Surveyed(ms) ==
  /\ LastMedium(ms, Root) \in MediumNumber
  /\ \A f \in Files(ms) : EffectiveMedium(ms, f) \in Media(ms)
  /\ RecursiveFiles(ms, Root, NoValue) = Files(ms)
  /\ RecursiveLoads(ms) = Files(ms) \cap Load
  /\ RecursiveBatches(ms) = Files(ms) \cap Batch

LEMMA Survey ==
  ASSUME NEW ms, Fit(ms)
  PROVE  Surveyed(ms)
<1>1. Tree(ms) /\ ms.medium \in [File \cup Container -> Optional(MediumNumber)]
  BY DEF Fit, Proper, MediaSetType
<1>2. LastMedium(ms, Root) \in MediumNumber
  BY <1>1, LastMediumBounds
<1>3. ASSUME NEW f \in Files(ms)
      PROVE  EffectiveMedium(ms, f) \in Media(ms)
  <2>1. /\ EffectiveMedium(ms, f) \in MediumNumber
        /\ EffectiveMedium(ms, f) <= LastMedium(ms, Root)
    BY <1>1, LastMediumBounds, EffectiveMediumTyping
  <2> HIDE DEF Fit
  <2> QED BY <1>2, <2>1, MediumAssumption DEF Media, MediumNumber, FirstMedium, MediumAssumption
<1>4. RecursiveFiles(ms, Root, NoValue) = Files(ms)
  BY <1>1, RecursiveFilesOfRoot DEF OnMedium
<1> QED BY <1>2, <1>3, <1>4 DEF Surveyed, RecursiveLoads, RecursiveBatches

(* Every path of a file is that of its directory and its name.             *)
LEMMA PathParts ==
  ASSUME NEW ms, Fit(ms), NEW f \in Files(ms)
  PROVE  Append(Front(Path(ms, f)), ms.name[f]) = Path(ms, f)
<1>1. Tree(ms) /\ ms.name \in [Entity -> Name]
  BY DEF Fit, Proper, MediaSetType
<1> QED BY <1>1, PathOfFile

LEMMA LocationsDiffer ==
  ASSUME NEW ms, Fit(ms), NEW f \in Files(ms), NEW g \in Files(ms),
         Location(ms, f) = Location(ms, g)
  PROVE  f = g
<1>1. Tree(ms) /\ UniqueNames(ms) /\ ms.name \in [Entity -> Name]
  BY DEF Fit, Proper, MediaSetType
<1>2. Path(ms, f) = Path(ms, g)
  BY DEF Location
<1> QED BY <1>1, <1>2, PathsDiffer

(* A path of a single name is that of a file of the media set itself.      *)
LEMMA AtTheTop ==
  ASSUME NEW ms, Fit(ms), NEW f \in Files(ms), NEW n, Path(ms, f) = <<n>>
  PROVE  f \in AllFiles(ms, Root)
<1> DEFINE d == ms.parent[f]
<1>1. Tree(ms) /\ UniqueNames(ms) /\ ms.name \in [Entity -> Name]
  BY DEF Fit, Proper, MediaSetType
<1>2. /\ d \in Containers(ms) /\ Path(ms, d) \in Seq(Name) /\ ms.name[f] \in Name
      /\ <<n>> = Append(Path(ms, d), ms.name[f])
  BY <1>1, PathOfFile
<1>3. Path(ms, d) = <<>>
  <2>1. Len(<<n>>) = Len(Path(ms, d)) + 1
    BY <1>2, AppendProperties
  <2>2. Len(Path(ms, d)) = 0
    BY <1>2, <2>1
  <2> QED BY <1>2, <2>2, EmptySeq
<1>4. Follow(ms, Root, <<>>) = {d}
  BY <1>1, <1>2, <1>3, DirectoryFound
<1>5. Follow(ms, Root, <<>>) = {Root}
  BY FollowEmpty DEF Container
<1> QED BY <1>4, <1>5 DEF AllFiles, Files

-----------------------------------------------------------------------------
(* What a header or a list says depends only on some files of the disk.    *)

LEMMA HeaderOfFiles ==
  ASSUME NEW ms, NEW v, NEW l, NEW D, NEW E,
         \A f \in ms.data[l] \cup ms.support[l] : D[Location(ms, f)] = E[Location(ms, f)]
  PROVE  LoadHeader(ms, v, l, D) = LoadHeader(ms, v, l, E)
<1>1. \A role \in Roles : \A f \in LoadFiles(ms, l, role) : D[Location(ms, f)] = E[Location(ms, f)]
  BY DEF Roles, LoadFiles
<1>2. \A r \in UNION {{x} \X LoadFiles(ms, l, x) : x \in Roles} :
        LoadFileInfo(ms, v, l, r[1], r[2], D) = LoadFileInfo(ms, v, l, r[1], r[2], E)
  BY <1>1 DEF LoadFileInfo
<1>3. {LoadFileInfo(ms, v, l, r[1], r[2], D) : r \in UNION {{x} \X LoadFiles(ms, l, x) : x \in Roles}}
        = {LoadFileInfo(ms, v, l, r[1], r[2], E) : r \in UNION {{x} \X LoadFiles(ms, l, x) : x \in Roles}}
  BY <1>2
<1>4. \A role \in Roles :
        {<<ms.name[f], D[Location(ms, f)]>> : f \in LoadFiles(ms, l, role)}
          = {<<ms.name[f], E[Location(ms, f)]>> : f \in LoadFiles(ms, l, role)}
  BY <1>1
<1>5. [role \in Roles |-> {<<ms.name[f], D[Location(ms, f)]>> : f \in LoadFiles(ms, l, role)}]
        = [role \in Roles |-> {<<ms.name[f], E[Location(ms, f)]>> : f \in LoadFiles(ms, l, role)}]
  BY <1>4
<1> QED BY <1>3, <1>5 DEF LoadHeader

LEMMA FileListOfFiles ==
  ASSUME NEW ms, Fit(ms), NEW v, NEW m, NEW D, NEW E,
         \A f \in Files(ms) : D[Location(ms, f)] = E[Location(ms, f)],
         D[<<m, ListOfLoads>>] = E[<<m, ListOfLoads>>],
         HasBatchList(ms) => D[<<m, ListOfBatches>>] = E[<<m, ListOfBatches>>]
  PROVE  FileList(ms, v, m, D) = FileList(ms, v, m, E)
<1> DEFINE Info(f, files) ==
             FileInfo(v, ms.name[f], Front(Path(ms, f)), EffectiveMedium(ms, f),
                      EffectiveCheckType(ms, <<f, "file">>), files)
<1>1. RecursiveFiles(ms, Root, NoValue) = Files(ms)
  BY Survey DEF Surveyed
<1>2. \A f \in Files(ms) : Info(f, D) = Info(f, E)
  BY PathParts DEF FileInfo, Location
<1>3. {Info(f, D) : f \in RecursiveFiles(ms, Root, NoValue)}
        = {Info(f, E) : f \in RecursiveFiles(ms, Root, NoValue)}
  BY <1>1, <1>2
<1>4. \A t : FileInfo(v, ListOfLoads[1], <<>>, m, t, D) = FileInfo(v, ListOfLoads[1], <<>>, m, t, E)
  <2>1. Append(<<>>, ListOfLoads[1]) = ListOfLoads
    BY DEF ListOfLoads
  <2> QED BY <2>1 DEF FileInfo
<1>5. ASSUME HasBatchList(ms), NEW t
      PROVE  FileInfo(v, ListOfBatches[1], <<>>, m, t, D) = FileInfo(v, ListOfBatches[1], <<>>, m, t, E)
  <2>1. Append(<<>>, ListOfBatches[1]) = ListOfBatches
    BY DEF ListOfBatches
  <2> QED BY <1>5, <2>1 DEF FileInfo
<1> QED BY <1>3, <1>4, <1>5 DEF FileList

-----------------------------------------------------------------------------
(* The disk of a compilation: s is its source, D what it has written.      *)

Reads(s, D, f) == Location(s.ms, f) \in DOMAIN D

TakenOver(s, f) ==
  s.policy = "None" \/ (s.policy = "NoneExisting" /\ s.original[f] # "missing")

(* What the file f should contain. *)
Meant(s, D, f) ==
  IF f \in RegularFile THEN Data(s.value[f])
  ELSE IF TakenOver(s, f)
       THEN FileContent(s.ms, s.version,
                        IF s.original[f] = "current" THEN s.value ELSE s.earlier, f)
  ELSE IF f \in Load THEN LoadHeader(s.ms, s.version, f, D)
  ELSE BatchContent(s.ms, f)

(* The files that are there have the right contents, and a header that was *)
(* created has the files that it describes.                                *)
Faithful(s, D) ==
  \A f \in Files(s.ms) : Reads(s, D, f) =>
    /\ D[Location(s.ms, f)] = Meant(s, D, f)
    /\ f \in Load /\ ~TakenOver(s, f) =>
         \A g \in s.ms.data[f] \cup s.ms.support[f] : Reads(s, D, g)

(* Nothing is there but files and list files.                              *)
Tidy(s, D) == DOMAIN D \subseteq FileLocations(s.ms) \cup (Media(s.ms) \X ListNames(s.ms))

ListMeant(s, D, L, m) ==
  IF L = ListOfLoads THEN LoadList(s.ms, m)
  ELSE IF L = ListOfBatches THEN BatchList(s.ms, m)
  ELSE FileList(s.ms, s.version, m, D)

(* The list L stands on the first n media, and no file takes its place. A  *)
(* list of files is made when all that it lists is there.                  *)
ListsDone(s, D, L, n) ==
  \A m \in 1 .. n :
    /\ <<m, L>> \in DOMAIN D /\ <<m, L>> \notin FileLocations(s.ms)
    /\ D[<<m, L>>] = ListMeant(s, D, L, m)
    /\ L = ListOfFiles =>
         /\ \A f \in Files(s.ms) : Reads(s, D, f)
         /\ <<m, ListOfLoads>> \in DOMAIN D
         /\ HasBatchList(s.ms) => <<m, ListOfBatches>> \in DOMAIN D

Grows(D, E) == DOMAIN D \subseteq DOMAIN E /\ \A x \in DOMAIN D : E[x] = D[x]

LEMMA ListNamesDiffer ==
  ListOfFiles # ListOfLoads /\ ListOfFiles # ListOfBatches /\ ListOfLoads # ListOfBatches
BY DEF ListOfFiles, ListOfLoads, ListOfBatches

LEMMA GrowthKeepsMeaning ==
  ASSUME NEW s, Fit(s.ms), NEW D, NEW E, Grows(D, E), Faithful(s, D),
         NEW f \in Files(s.ms), Reads(s, D, f)
  PROVE  Meant(s, D, f) = Meant(s, E, f)
<1>1. CASE f \in Load /\ ~TakenOver(s, f)
  <2>1. \A g \in s.ms.data[f] \cup s.ms.support[f] : D[Location(s.ms, g)] = E[Location(s.ms, g)]
    BY <1>1 DEF Faithful, Reads, Grows
  <2>2. LoadHeader(s.ms, s.version, f, D) = LoadHeader(s.ms, s.version, f, E)
    BY <2>1, HeaderOfFiles
  <2> QED BY <2>2 DEF Meant
<1>2. CASE ~(f \in Load /\ ~TakenOver(s, f))
  BY <1>2 DEF Meant
<1> QED BY <1>1, <1>2

LEMMA GrowthKeepsListMeaning ==
  ASSUME NEW s, Fit(s.ms), NEW D, NEW E, Grows(D, E), NEW m,
         NEW L \in {ListOfFiles, ListOfLoads, ListOfBatches},
         L = ListOfFiles =>
           /\ \A f \in Files(s.ms) : Reads(s, D, f)
           /\ <<m, ListOfLoads>> \in DOMAIN D
           /\ HasBatchList(s.ms) => <<m, ListOfBatches>> \in DOMAIN D
  PROVE  ListMeant(s, D, L, m) = ListMeant(s, E, L, m)
<1>1. CASE L = ListOfFiles
  <2>1. /\ \A f \in Files(s.ms) : D[Location(s.ms, f)] = E[Location(s.ms, f)]
        /\ D[<<m, ListOfLoads>>] = E[<<m, ListOfLoads>>]
        /\ HasBatchList(s.ms) => D[<<m, ListOfBatches>>] = E[<<m, ListOfBatches>>]
    BY <1>1 DEF Grows, Reads
  <2>2. FileList(s.ms, s.version, m, D) = FileList(s.ms, s.version, m, E)
    BY <2>1, FileListOfFiles
  <2> QED BY <1>1, <2>2, ListNamesDiffer DEF ListMeant
<1>2. CASE L # ListOfFiles
  BY <1>2 DEF ListMeant
<1> QED BY <1>1, <1>2

LEMMA GrowthKeepsLists ==
  ASSUME NEW s, Fit(s.ms), NEW D, NEW E, Grows(D, E),
         NEW L \in {ListOfFiles, ListOfLoads, ListOfBatches}, NEW n, ListsDone(s, D, L, n)
  PROVE  ListsDone(s, E, L, n)
<1> SUFFICES ASSUME NEW m \in 1 .. n
             PROVE  /\ <<m, L>> \in DOMAIN E /\ <<m, L>> \notin FileLocations(s.ms)
                    /\ E[<<m, L>>] = ListMeant(s, E, L, m)
                    /\ L = ListOfFiles =>
                         /\ \A f \in Files(s.ms) : Reads(s, E, f)
                         /\ <<m, ListOfLoads>> \in DOMAIN E
                         /\ HasBatchList(s.ms) => <<m, ListOfBatches>> \in DOMAIN E
  BY DEF ListsDone
<1>1. /\ <<m, L>> \in DOMAIN D /\ <<m, L>> \notin FileLocations(s.ms)
      /\ D[<<m, L>>] = ListMeant(s, D, L, m)
      /\ L = ListOfFiles =>
           /\ \A f \in Files(s.ms) : Reads(s, D, f)
           /\ <<m, ListOfLoads>> \in DOMAIN D
           /\ HasBatchList(s.ms) => <<m, ListOfBatches>> \in DOMAIN D
  BY DEF ListsDone
<1>2. ListMeant(s, D, L, m) = ListMeant(s, E, L, m)
  BY <1>1, GrowthKeepsListMeaning
<1> QED BY <1>1, <1>2 DEF Grows, Reads

(* D is extended with a file that was not there.                           *)
Extends(D, E, loc, content) ==
  /\ loc \notin DOMAIN D
  /\ DOMAIN E = DOMAIN D \cup {loc} /\ E[loc] = content
  /\ \A x \in DOMAIN D : E[x] = D[x]

LEMMA WritingExtends ==
  ASSUME NEW loc, loc \notin DOMAIN disk, NEW content, WriteFile(loc, content)
  PROVE  Extends(disk, disk', loc, content)
BY DEF WriteFile, Extended, Extends

LEMMA ExtensionGrows ==
  ASSUME NEW D, NEW E, NEW loc, NEW content, Extends(D, E, loc, content)
  PROVE  Grows(D, E)
BY DEF Extends, Grows

LEMMA FileWritten ==
  ASSUME NEW s, Fit(s.ms), NEW D, NEW E, NEW f \in Files(s.ms),
         Extends(D, E, Location(s.ms, f), Meant(s, D, f)),
         f \in Load /\ ~TakenOver(s, f) => \A g \in s.ms.data[f] \cup s.ms.support[f] : Reads(s, D, g),
         Faithful(s, D), Tidy(s, D)
  PROVE  Faithful(s, E) /\ Tidy(s, E) /\ Reads(s, E, f)
<1>1. Grows(D, E) /\ Reads(s, E, f)
  BY ExtensionGrows DEF Extends, Reads
<1>2. Meant(s, D, f) = Meant(s, E, f)
  <2>1. CASE f \in Load /\ ~TakenOver(s, f)
    <3>1. \A g \in s.ms.data[f] \cup s.ms.support[f] : D[Location(s.ms, g)] = E[Location(s.ms, g)]
      BY <1>1, <2>1 DEF Reads, Grows
    <3>2. LoadHeader(s.ms, s.version, f, D) = LoadHeader(s.ms, s.version, f, E)
      BY <3>1, HeaderOfFiles
    <3> QED BY <3>2 DEF Meant
  <2>2. CASE ~(f \in Load /\ ~TakenOver(s, f))
    BY <2>2 DEF Meant
  <2> QED BY <2>1, <2>2
<1>3. ASSUME NEW g \in Files(s.ms), Reads(s, E, g)
      PROVE  /\ E[Location(s.ms, g)] = Meant(s, E, g)
             /\ g \in Load /\ ~TakenOver(s, g) =>
                  \A h \in s.ms.data[g] \cup s.ms.support[g] : Reads(s, E, h)
  <2>1. CASE g = f
    BY <1>1, <1>2, <2>1 DEF Extends, Reads, Grows
  <2>2. CASE g # f
    <3>1. Reads(s, D, g)
      BY <1>3, <2>2, LocationsDiffer DEF Extends, Reads
    <3>2. Meant(s, D, g) = Meant(s, E, g)
      BY <1>1, <3>1, GrowthKeepsMeaning
    <3> QED BY <1>1, <3>1, <3>2 DEF Faithful, Reads, Grows
  <2> QED BY <2>1, <2>2
<1>4. Faithful(s, E)
  BY <1>3 DEF Faithful
<1>5. Tidy(s, E)
  BY DEF Tidy, Extends, FileLocations
<1> QED BY <1>1, <1>4, <1>5

(* When the files of the media set itself are there, a list that can be    *)
(* written takes the place of none.                                        *)
LEMMA ListWritten ==
  ASSUME NEW s, Fit(s.ms), NEW D, NEW E, NEW L \in ListNames(s.ms), NEW m \in Media(s.ms),
         Extends(D, E, <<m, L>>, ListMeant(s, D, L, m)),
         \A f \in AllFiles(s.ms, Root) : Reads(s, D, f),
         L = ListOfFiles =>
           /\ \A f \in Files(s.ms) : Reads(s, D, f)
           /\ <<m, ListOfLoads>> \in DOMAIN D
           /\ HasBatchList(s.ms) => <<m, ListOfBatches>> \in DOMAIN D,
         Faithful(s, D), Tidy(s, D), ListsDone(s, D, L, m - 1)
  PROVE  Faithful(s, E) /\ Tidy(s, E) /\ ListsDone(s, E, L, m)
<1>1. Grows(D, E)
  BY ExtensionGrows
<1>2. <<m, L>> \notin FileLocations(s.ms)
  <2> SUFFICES ASSUME NEW f \in Files(s.ms), Location(s.ms, f) = <<m, L>>
               PROVE  FALSE
    BY DEF FileLocations
  <2>1. Path(s.ms, f) = L
    BY DEF Location
  <2>2. f \in AllFiles(s.ms, Root)
    BY <2>1, AtTheTop DEF ListNames, ListOfFiles, ListOfLoads, ListOfBatches
  <2> QED BY <2>2 DEF Reads, Extends
<1>3. L \in {ListOfFiles, ListOfLoads, ListOfBatches}
  BY DEF ListNames
<1>4. Faithful(s, E)
  <2> SUFFICES ASSUME NEW g \in Files(s.ms), Reads(s, E, g)
               PROVE  /\ E[Location(s.ms, g)] = Meant(s, E, g)
                      /\ g \in Load /\ ~TakenOver(s, g) =>
                           \A h \in s.ms.data[g] \cup s.ms.support[g] : Reads(s, E, h)
    BY DEF Faithful
  <2>1. Reads(s, D, g)
    BY <1>2 DEF Reads, Extends, FileLocations
  <2>2. Meant(s, D, g) = Meant(s, E, g)
    BY <1>1, <2>1, GrowthKeepsMeaning
  <2> QED BY <1>1, <2>1, <2>2 DEF Faithful, Reads, Grows
<1>5. Tidy(s, E)
  BY DEF Tidy, Extends
<1>6. ListsDone(s, E, L, m - 1)
  BY <1>1, <1>3, GrowthKeepsLists
<1>7. ListMeant(s, D, L, m) = ListMeant(s, E, L, m)
  BY <1>1, <1>3, GrowthKeepsListMeaning
<1>8. /\ <<m, L>> \in DOMAIN E /\ E[<<m, L>>] = ListMeant(s, E, L, m)
      /\ L = ListOfFiles =>
           /\ \A f \in Files(s.ms) : Reads(s, E, f)
           /\ <<m, ListOfLoads>> \in DOMAIN E
           /\ HasBatchList(s.ms) => <<m, ListOfBatches>> \in DOMAIN E
  BY <1>1, <1>7 DEF Extends, Grows, Reads
<1>9. \A k \in 1 .. m : k = m \/ k \in 1 .. m - 1
  <2>1. LastMedium(s.ms, Root) \in Nat
    BY Survey DEF Surveyed, MediumNumber
  <2>2. m \in Nat
    BY <2>1 DEF Media, FirstMedium
  <2> QED BY <2>2
<1> QED BY <1>2, <1>4, <1>5, <1>6, <1>8, <1>9 DEF ListsDone

-----------------------------------------------------------------------------
(* The invariant of a compilation.                                         *)

AfterBatches == {"loadLists", "batchLists", "fileLists", "compiled"}
AfterLoads == {"batches"} \cup AfterBatches
AfterMedia == {"loads"} \cup AfterLoads

(* What the loops have done: D is the disk, p the phase, m the medium and  *)
(* t what the present loop still has to do.                                *)
Progress(s, D, p, m, t) ==
  LET last == LastMedium(s.ms, Root)
      loads == Files(s.ms) \cap Load
      batches == Files(s.ms) \cap Batch
      files == AllFiles(s.ms, Root) \cap RegularFile
  IN /\ p = "export" => \A f \in files : f \in t \/ Reads(s, D, f)
     /\ p \in AfterMedia => \A f \in files : Reads(s, D, f)
     /\ p = "loads" => \A f \in loads : f \in t \/ Reads(s, D, f)
     /\ p \in AfterLoads => \A f \in loads : Reads(s, D, f)
     /\ p = "batches" => \A f \in batches : f \in t \/ Reads(s, D, f)
     /\ p \in AfterBatches => \A f \in batches : Reads(s, D, f)
     /\ p = "loadLists" => ListsDone(s, D, ListOfLoads, m - 1)
     /\ p \in {"batchLists", "fileLists", "compiled"} => ListsDone(s, D, ListOfLoads, last)
     /\ p = "batchLists" => HasBatchList(s.ms) /\ ListsDone(s, D, ListOfBatches, m - 1)
     /\ p \in {"fileLists", "compiled"} /\ HasBatchList(s.ms) =>
          ListsDone(s, D, ListOfBatches, last)
     /\ p = "fileLists" => ListsDone(s, D, ListOfFiles, m - 1)
     /\ p = "compiled" => ListsDone(s, D, ListOfFiles, last)

Phases ==
  {"paths", "medium", "export", "loads", "batches", "loadLists", "batchLists", "fileLists",
   "compiled", "failed"}

CompilerSound ==
  /\ source \in Source
  /\ phase \in Phases
  /\ medium \in Media(Set)
  /\ \A e \in todo : e \in Entity /\ InSet(Set, e)
  /\ \A x \in dirs : x[1] \in MediumNumber
  /\ Faithful(source, disk) /\ Tidy(source, disk)
  /\ Progress(source, disk, phase, medium, todo)

LEMMA SourcesFit ==
  ASSUME NEW s \in Source
  PROVE  s \in SourceType /\ Fit(s.ms)
BY TransportAssumption DEF TransportAssumption, SourceType, Fit

LEMMA LoopStep ==
  ASSUME NEW ms, Fit(ms), NEW m \in Media(ms)
  PROVE  /\ FirstMedium \in Media(ms) /\ m \in Nat /\ m \in MediumNumber
         /\ LastMedium(ms, Root) \in Nat
         /\ LoopGoesOn(m, LastMedium(ms, Root)) =>
              NextMedium(m) \in Media(ms) /\ NextMedium(m) - 1 \in Nat /\ NextMedium(m) - 1 <= m
         /\ ~LoopGoesOn(m, LastMedium(ms, Root)) => m = LastMedium(ms, Root)
<1>1. LastMedium(ms, Root) \in MediumNumber
  BY Survey DEF Surveyed
<1> HIDE DEF Fit
<1> QED BY <1>1, MediumAssumption
        DEF MediumAssumption, Media, MediumNumber, FirstMedium, NextMedium, LoopGoesOn

LEMMA FewerLists ==
  ASSUME NEW s, NEW D, NEW L, NEW n \in Nat, NEW k \in Nat, k <= n, ListsDone(s, D, L, n)
  PROVE  ListsDone(s, D, L, k)
<1>1. \A m \in 1 .. k : m \in 1 .. n
  OBVIOUS
<1> QED BY <1>1 DEF ListsDone

LEMMA NoListsYet ==
  ASSUME NEW s, NEW D, NEW L
  PROVE  ListsDone(s, D, L, FirstMedium - 1)
<1>1. 1 .. (FirstMedium - 1) = {}
  BY DEF FirstMedium
<1> QED BY <1>1 DEF ListsDone

LEMMA ProgressKept ==
  ASSUME NEW s, Fit(s.ms), NEW D, NEW E, Grows(D, E), NEW p, NEW m, NEW t, NEW u,
         \A f \in t \cap File : f \in u \/ Reads(s, E, f),
         Progress(s, D, p, m, t)
  PROVE  Progress(s, E, p, m, u)
<1>1. \A f : Reads(s, D, f) => Reads(s, E, f)
  BY DEF Reads, Grows
<1>2. \A n : \A L \in {ListOfFiles, ListOfLoads, ListOfBatches} :
        ListsDone(s, D, L, n) => ListsDone(s, E, L, n)
  BY GrowthKeepsLists
<1>3. /\ AllFiles(s.ms, Root) \cap RegularFile \subseteq File
      /\ Files(s.ms) \cap Load \subseteq File /\ Files(s.ms) \cap Batch \subseteq File
  BY DEF File, AllFiles
<1> QED BY <1>1, <1>2, <1>3 DEF Progress

-----------------------------------------------------------------------------
(* Each step of the compiler keeps the invariant.                          *)

LEMMA SetMediaPathsSound ==
  ASSUME CompilerSound, SetMediaPaths
  PROVE  CompilerSound'
<1>1. Fit(Set) /\ medium \in Media(Set)
  BY SourcesFit DEF CompilerSound, Set
<1>2. source' = source /\ disk' = disk /\ dirs' = dirs
  BY DEF SetMediaPaths
<1>3. /\ phase' \in {"paths", "medium"} /\ todo' \subseteq todo
      /\ medium' \in Media(Set)
  BY <1>1, LoopStep DEF SetMediaPaths, Enter, LastMediumNumber, Set, Fit
<1>4. Progress(source, disk, phase', medium', todo')
  BY <1>3 DEF Progress, AfterMedia, AfterLoads, AfterBatches
<1> QED BY <1>2, <1>3, <1>4 DEF CompilerSound, Set, Phases

LEMMA CreateMediumSound ==
  ASSUME CompilerSound, CreateMedium
  PROVE  CompilerSound'
<1>1. Fit(Set) /\ medium \in MediumNumber
  BY SourcesFit, LoopStep DEF CompilerSound, Set
<1>2. /\ source' = source /\ disk' = disk /\ medium' = medium /\ phase' = "export"
      /\ todo' = (AllFiles(Set, Root) \cap RegularFile) \cup Subdirectories(Set, Root, medium)
      /\ dirs' = dirs \cup {<<medium, <<>>>>}
  BY DEF CreateMedium
<1>3. \A e \in todo' : e \in Entity /\ InSet(Set, e)
  BY <1>2, Classes DEF AllFiles, Subdirectories, AllSubdirectories, Entity, InSet
<1>4. \A x \in dirs' : x[1] \in MediumNumber
  BY <1>1, <1>2 DEF CompilerSound
<1>5. Progress(source, disk, "export", medium, todo')
  BY <1>2 DEF Progress, Set, AfterMedia, AfterLoads, AfterBatches
<1> QED BY <1>2, <1>3, <1>4, <1>5 DEF CompilerSound, Set, Phases

LEMMA ExportDirectorySound ==
  ASSUME CompilerSound, NEW d \in Directory, ExportDirectory(d)
  PROVE  CompilerSound'
<1>1. Fit(Set) /\ medium \in MediumNumber
  BY SourcesFit, LoopStep DEF CompilerSound, Set
<1>2. /\ source' = source /\ disk' = disk /\ medium' = medium /\ phase' = phase
      /\ todo' = (todo \ {d}) \cup (AllFiles(Set, d) \cap RegularFile) \cup AllSubdirectories(Set, d)
      /\ dirs' = dirs \cup {<<medium, Path(Set, d)>>}
  BY DEF ExportDirectory
<1>3. \A e \in todo' : e \in Entity /\ InSet(Set, e)
  BY <1>2, Classes DEF CompilerSound, AllFiles, AllSubdirectories, Entity, InSet, Container
<1>4. \A x \in dirs' : x[1] \in MediumNumber
  BY <1>1, <1>2 DEF CompilerSound
<1>5. Progress(source, disk, phase, medium, todo')
  <2>1. \A f \in todo \cap File : f \in todo'
    BY <1>2, Classes
  <2> QED BY <1>1, <2>1, ProgressKept DEF CompilerSound, Grows, Set
<1> QED BY <1>2, <1>3, <1>4, <1>5 DEF CompilerSound, Set

LEMMA MediumExportedSound ==
  ASSUME CompilerSound, MediumExported
  PROVE  CompilerSound'
<1>1. Fit(Set)
  BY SourcesFit DEF CompilerSound, Set
<1>2. /\ source' = source /\ disk' = disk /\ dirs' = dirs /\ todo = {}
      /\ Progress(source, disk, "export", medium, {})
  BY DEF MediumExported, CompilerSound
<1>3. CASE LoopGoesOn(medium, LastMediumNumber)
  <2>1. phase' = "medium" /\ medium' = NextMedium(medium) /\ todo' = todo
    BY <1>3 DEF MediumExported
  <2>2. medium' \in Media(Set)
    BY <1>1, <1>3, <2>1, LoopStep DEF CompilerSound, LastMediumNumber
  <2>3. Progress(source, disk, "medium", medium', todo')
    BY DEF Progress, AfterMedia, AfterLoads, AfterBatches
  <2> QED BY <1>2, <2>1, <2>2, <2>3 DEF CompilerSound, Set, Phases
<1>4. CASE ~LoopGoesOn(medium, LastMediumNumber)
  <2>1. phase' = "loads" /\ medium' = FirstMedium /\ todo' = RecursiveLoads(Set)
    BY <1>4 DEF MediumExported, Enter
  <2>2. medium' \in Media(Set) /\ todo' = Files(Set) \cap Load
    BY <1>1, <2>1, LoopStep, Survey DEF CompilerSound, Surveyed
  <2>3. \A e \in todo' : e \in Entity /\ InSet(Set, e)
    BY <2>2 DEF Files, Entity
  <2>4. Progress(source, disk, "loads", medium', todo')
    BY <1>2, <2>2 DEF Progress, Set, AfterMedia, AfterLoads, AfterBatches
  <2> QED BY <1>2, <2>1, <2>2, <2>3, <2>4 DEF CompilerSound, Set, Phases
<1> QED BY <1>3, <1>4

LEMMA LoadsExportedSound ==
  ASSUME CompilerSound, LoadsExported
  PROVE  CompilerSound'
<1>1. Fit(Set)
  BY SourcesFit DEF CompilerSound, Set
<1>2. /\ source' = source /\ disk' = disk /\ dirs' = dirs
      /\ phase' = "batches" /\ medium' = FirstMedium /\ todo' = RecursiveBatches(Set)
      /\ Progress(source, disk, "loads", medium, {})
  BY DEF LoadsExported, Enter, CompilerSound
<1>3. medium' \in Media(Set) /\ todo' = Files(Set) \cap Batch
  BY <1>1, <1>2, LoopStep, Survey DEF CompilerSound, Surveyed
<1>4. \A e \in todo' : e \in Entity /\ InSet(Set, e)
  BY <1>3 DEF Files, Entity
<1>5. Progress(source, disk, "batches", medium', todo')
  BY <1>2, <1>3 DEF Progress, Set, AfterMedia, AfterLoads, AfterBatches
<1> QED BY <1>2, <1>3, <1>4, <1>5 DEF CompilerSound, Set, Phases

LEMMA BatchesExportedSound ==
  ASSUME CompilerSound, BatchesExported
  PROVE  CompilerSound'
<1>1. Fit(Set)
  BY SourcesFit DEF CompilerSound, Set
<1>2. /\ source' = source /\ disk' = disk /\ dirs' = dirs
      /\ phase' = "loadLists" /\ medium' = FirstMedium /\ todo' = {}
      /\ Progress(source, disk, "batches", medium, {})
  BY DEF BatchesExported, Enter, CompilerSound
<1>3. medium' \in Media(Set)
  BY <1>1, <1>2, LoopStep DEF CompilerSound
<1>4. Progress(source, disk, "loadLists", medium', todo')
  BY <1>2, NoListsYet DEF Progress, AfterMedia, AfterLoads, AfterBatches
<1> QED BY <1>2, <1>3, <1>4 DEF CompilerSound, Set, Phases

(* A file that is written as it is meant leaves everything else as it was. *)
LEMMA ExportSound ==
  ASSUME CompilerSound, NEW f \in todo, f \in File,
         Creatable(Location(Set, f)), WriteFile(Location(Set, f), Meant(source, disk, f)),
         f \in Load /\ ~TakenOver(source, f) =>
           \A g \in Set.data[f] \cup Set.support[f] : Reads(source, disk, g),
         todo' = todo \ {f}, UNCHANGED <<source, phase, medium, dirs>>
  PROVE  CompilerSound'
<1>1. Fit(source.ms) /\ f \in Files(source.ms)
  BY SourcesFit DEF CompilerSound, Set, Files
<1>2. Extends(disk, disk', Location(source.ms, f), Meant(source, disk, f))
  BY WritingExtends DEF Creatable, Set
<1>3. Faithful(source, disk') /\ Tidy(source, disk') /\ Reads(source, disk', f)
  BY <1>1, <1>2, FileWritten DEF CompilerSound, Set
<1>4. Grows(disk, disk')
  BY <1>2, ExtensionGrows
<1>5. Progress(source, disk', phase, medium, todo')
  <2>1. \A x \in todo \cap File : x \in todo' \/ Reads(source, disk', x)
    BY <1>3
  <2> QED BY <1>1, <1>4, <2>1, ProgressKept DEF CompilerSound
<1> QED BY <1>3, <1>5 DEF CompilerSound, Set

LEMMA ExportRegularFileSound ==
  ASSUME CompilerSound, NEW f \in RegularFile, ExportRegularFile(f)
  PROVE  CompilerSound'
<1>1. /\ f \in todo /\ f \in File /\ f \notin Load
      /\ Creatable(Location(Set, f)) /\ WriteFile(Location(Set, f), SourceContent(f))
      /\ todo' = todo \ {f} /\ UNCHANGED <<source, phase, medium, dirs>>
  BY Classes DEF ExportRegularFile, Exportable, CreateFile, File
<1>2. SourceContent(f) = Meant(source, disk, f)
  BY DEF SourceContent, FileContent, Meant
<1> QED BY <1>1, <1>2, ExportSound

LEMMA TakenOverCopied ==
  \A f : Copied(f) <=> TakenOver(source, f)
BY DEF Copied, TakenOver

LEMMA ExportLoadSound ==
  ASSUME CompilerSound, NEW l \in Load, ExportLoad(l)
  PROVE  CompilerSound'
<1>1. /\ l \in todo /\ l \in File /\ l \notin RegularFile
      /\ Creatable(Location(Set, l))
      /\ todo' = todo \ {l} /\ UNCHANGED <<source, phase, medium, dirs>>
  BY Classes DEF ExportLoad, Exportable, File
<1>2. l \in Load /\ ~TakenOver(source, l) =>
        \A g \in Set.data[l] \cup Set.support[l] : Reads(source, disk, g)
  BY TakenOverCopied DEF ExportLoad, Exportable, Readable, Reads, Set
<1>3. WriteFile(Location(Set, l), Meant(source, disk, l))
  <2>1. CASE Copied(l)
    <3>1. SourceContent(l) = Meant(source, disk, l)
      BY <1>1, <2>1, TakenOverCopied DEF SourceContent, Meant, Set
    <3> QED BY <2>1, <3>1 DEF ExportLoad, CreateFile
  <2>2. CASE ~Copied(l)
    <3>1. Meant(source, disk, l) = LoadHeader(Set, source.version, l, disk)
      BY <1>1, <2>2, TakenOverCopied DEF Meant, Set
    <3> QED BY <2>2, <3>1 DEF ExportLoad
  <2> QED BY <2>1, <2>2
<1> QED BY <1>1, <1>2, <1>3, ExportSound

LEMMA ExportBatchSound ==
  ASSUME CompilerSound, NEW b \in Batch, ExportBatch(b)
  PROVE  CompilerSound'
<1>1. /\ b \in todo /\ b \in File /\ b \notin RegularFile /\ b \notin Load
      /\ Creatable(Location(Set, b))
      /\ todo' = todo \ {b} /\ UNCHANGED <<source, phase, medium, dirs>>
  BY Classes DEF ExportBatch, Exportable, File
<1>2. WriteFile(Location(Set, b), Meant(source, disk, b))
  <2>1. CASE Copied(b)
    <3>1. SourceContent(b) = Meant(source, disk, b)
      BY <1>1, <2>1, TakenOverCopied DEF SourceContent, Meant, Set
    <3> QED BY <2>1, <3>1 DEF ExportBatch, CreateFile
  <2>2. CASE ~Copied(b)
    <3>1. Meant(source, disk, b) = BatchContent(Set, b)
      BY <1>1, <2>2, TakenOverCopied DEF Meant, Set
    <3> QED BY <2>2, <3>1 DEF ExportBatch
  <2> QED BY <2>1, <2>2
<1> QED BY <1>1, <1>2, ExportSound

(* What the export of one list does, whichever it is.                      *)
ListExported(here, next, L) ==
  /\ source' = source /\ dirs' = dirs
  /\ Grows(disk, disk')
  /\ Faithful(source, disk') /\ Tidy(source, disk')
  /\ medium' \in Media(Set) /\ todo' \subseteq todo
  /\ \/ phase' = here /\ ListsDone(source, disk', L, medium' - 1)
     \/ phase' = next /\ medium' = FirstMedium /\ ListsDone(source, disk', L, LastMediumNumber)

LEMMA ListExport ==
  ASSUME CompilerSound, NEW here \in AfterBatches, NEW next, NEW L \in ListNames(Set),
         WriteList(here, next, L, ListMeant(source, disk, L, medium)),
         ListsDone(source, disk, L, medium - 1),
         L = ListOfFiles =>
           /\ \A f \in Files(Set) : Reads(source, disk, f)
           /\ <<medium, ListOfLoads>> \in DOMAIN disk
           /\ HasBatchList(Set) => <<medium, ListOfBatches>> \in DOMAIN disk
  PROVE  ListExported(here, next, L)
<1>1. /\ Fit(source.ms) /\ medium \in Media(source.ms) /\ phase = here
      /\ source' = source /\ dirs' = dirs
  BY SourcesFit DEF CompilerSound, Set, WriteList
<1>2. Extends(disk, disk', <<medium, L>>, ListMeant(source, disk, L, medium))
  BY WritingExtends DEF WriteList, Creatable
<1>3. \A f \in AllFiles(source.ms, Root) : Reads(source, disk, f)
  BY <1>1, Classes
     DEF CompilerSound, Progress, AfterMedia, AfterLoads, AllFiles, Files, File, InSet
<1>4. /\ Faithful(source, disk') /\ Tidy(source, disk')
      /\ ListsDone(source, disk', L, medium)
  BY <1>1, <1>2, <1>3, ListWritten DEF CompilerSound, Set
<1>5. Grows(disk, disk')
  BY <1>2, ExtensionGrows
<1>6. CASE LoopGoesOn(medium, LastMediumNumber)
  <2>1. /\ medium' = NextMedium(medium) /\ phase' = here /\ todo' = todo
        /\ medium' \in Media(Set) /\ medium \in Nat /\ medium' - 1 \in Nat /\ medium' - 1 <= medium
    BY <1>1, <1>6, LoopStep DEF WriteList, LastMediumNumber, Set
  <2>2. ListsDone(source, disk', L, medium' - 1)
    BY <1>4, <2>1, FewerLists
  <2> QED BY <1>1, <1>4, <1>5, <2>1, <2>2 DEF ListExported
<1>7. CASE ~LoopGoesOn(medium, LastMediumNumber)
  <2>1. /\ medium' = FirstMedium /\ phase' = next /\ todo' = {}
        /\ medium' \in Media(Set) /\ medium = LastMediumNumber
    BY <1>1, <1>7, LoopStep DEF WriteList, Enter, LastMediumNumber, Set
  <2> QED BY <1>1, <1>4, <1>5, <2>1 DEF ListExported
<1> QED BY <1>6, <1>7

LEMMA ExportListOfLoadsSound ==
  ASSUME CompilerSound, ExportListOfLoads
  PROVE  CompilerSound'
<1> DEFINE next == IF HasBatchList(Set) THEN "batchLists" ELSE "fileLists"
<1>1. Fit(source.ms) /\ phase = "loadLists"
  BY SourcesFit DEF CompilerSound, Set, ExportListOfLoads, WriteList
<1>2. ListExported("loadLists", next, ListOfLoads)
  <2>1. ListMeant(source, disk, ListOfLoads, medium) = LoadList(Set, medium)
    BY DEF ListMeant, Set
  <2>2. WriteList("loadLists", next, ListOfLoads, ListMeant(source, disk, ListOfLoads, medium))
    BY <2>1 DEF ExportListOfLoads
  <2>3. ListsDone(source, disk, ListOfLoads, medium - 1)
    BY <1>1 DEF CompilerSound, Progress
  <2> HIDE DEF next
  <2> QED BY <2>2, <2>3, ListExport, ListNamesDiffer DEF AfterBatches, ListNames
<1>3. Progress(source, disk', phase, medium, todo)
  BY <1>1, <1>2, ProgressKept DEF CompilerSound, ListExported
<1>4. Progress(source, disk', phase', medium', todo')
  BY <1>1, <1>2, <1>3, NoListsYet
     DEF ListExported, Progress, Set, LastMediumNumber, AfterMedia, AfterLoads, AfterBatches
<1> QED BY <1>2, <1>4 DEF ListExported, CompilerSound, Set, Phases

LEMMA ExportListOfBatchesSound ==
  ASSUME CompilerSound, ExportListOfBatches
  PROVE  CompilerSound'
<1>1. Fit(source.ms) /\ phase = "batchLists" /\ HasBatchList(Set)
  BY SourcesFit DEF CompilerSound, Set, ExportListOfBatches, WriteList, Progress
<1>2. ListExported("batchLists", "fileLists", ListOfBatches)
  <2>1. ListMeant(source, disk, ListOfBatches, medium) = BatchList(Set, medium)
    BY ListNamesDiffer DEF ListMeant, Set
  <2>2. WriteList("batchLists", "fileLists", ListOfBatches,
                  ListMeant(source, disk, ListOfBatches, medium))
    BY <2>1 DEF ExportListOfBatches
  <2>3. ListsDone(source, disk, ListOfBatches, medium - 1)
    BY <1>1 DEF CompilerSound, Progress
  <2> QED BY <1>1, <2>2, <2>3, ListExport, ListNamesDiffer DEF AfterBatches, ListNames
<1>3. Progress(source, disk', phase, medium, todo)
  BY <1>1, <1>2, ProgressKept DEF CompilerSound, ListExported
<1>4. Progress(source, disk', phase', medium', todo')
  BY <1>1, <1>2, <1>3, NoListsYet
     DEF ListExported, Progress, Set, LastMediumNumber, AfterMedia, AfterLoads, AfterBatches
<1> QED BY <1>2, <1>4 DEF ListExported, CompilerSound, Set, Phases

LEMMA ExportListOfFilesSound ==
  ASSUME CompilerSound, ExportListOfFiles
  PROVE  CompilerSound'
<1>1. /\ Fit(source.ms) /\ phase = "fileLists"
      /\ \A f \in Files(Set) : Reads(source, disk, f)
  BY SourcesFit DEF CompilerSound, Set, ExportListOfFiles, WriteList, Readable, Reads
<1>2. ListExported("fileLists", "compiled", ListOfFiles)
  <2>1. ListMeant(source, disk, ListOfFiles, medium) = FileList(Set, source.version, medium, disk)
    BY ListNamesDiffer DEF ListMeant, Set
  <2>2. WriteList("fileLists", "compiled", ListOfFiles,
                  ListMeant(source, disk, ListOfFiles, medium))
    BY <2>1 DEF ExportListOfFiles
  <2>3. ListsDone(source, disk, ListOfFiles, medium - 1)
    BY <1>1 DEF CompilerSound, Progress
  <2>4. /\ <<medium, ListOfLoads>> \in DOMAIN disk
        /\ HasBatchList(Set) => <<medium, ListOfBatches>> \in DOMAIN disk
    <3>1. medium \in 1 .. LastMedium(source.ms, Root)
      BY DEF CompilerSound, Media, FirstMedium, Set
    <3> QED BY <1>1, <3>1 DEF CompilerSound, Progress, ListsDone, Set
  <2> QED BY <1>1, <2>2, <2>3, <2>4, ListExport DEF AfterBatches, ListNames
<1>3. Progress(source, disk', phase, medium, todo)
  BY <1>1, <1>2, ProgressKept DEF CompilerSound, ListExported
<1>4. Progress(source, disk', phase', medium', todo')
  BY <1>1, <1>2, <1>3
     DEF ListExported, Progress, Set, LastMediumNumber, AfterMedia, AfterLoads, AfterBatches
<1> QED BY <1>2, <1>4 DEF ListExported, CompilerSound, Set, Phases

LEMMA CompilationFailsSound ==
  ASSUME CompilerSound, CompilationFails
  PROVE  CompilerSound'
<1>1. phase' = "failed" /\ UNCHANGED <<source, medium, todo, dirs, disk>>
  BY DEF CompilationFails
<1>2. Progress(source, disk, "failed", medium, todo)
  BY DEF Progress, AfterMedia, AfterLoads, AfterBatches
<1> QED BY <1>1, <1>2 DEF CompilerSound, Set, Phases

LEMMA CompileSound ==
  ASSUME CompilerSound, Compile
  PROVE  CompilerSound'
BY SetMediaPathsSound, CreateMediumSound, MediumExportedSound, LoadsExportedSound, BatchesExportedSound,
   ExportRegularFileSound, ExportDirectorySound, ExportLoadSound, ExportBatchSound,
   ExportListOfLoadsSound, ExportListOfBatchesSound, ExportListOfFilesSound,
   CompilationFailsSound DEF Compile

LEMMA InitCompilerSound == Init => CompilerSound
<1> SUFFICES ASSUME Init
             PROVE  CompilerSound
  OBVIOUS
<1>1. /\ source \in Source /\ phase = "paths" /\ medium = FirstMedium /\ todo = {} /\ dirs = {}
      /\ DOMAIN disk = {}
  BY DEF Init, CompilerInit, NoFiles
<1>2. medium \in Media(Set)
  <2>1. Fit(Set)
    BY <1>1, SourcesFit DEF Set
  <2>2. LastMedium(Set, Root) \in MediumNumber
    BY <2>1, Survey DEF Surveyed
  <2> HIDE DEF Fit
  <2> QED BY <1>1, <2>2 DEF Media, FirstMedium, MediumNumber
<1>3. Faithful(source, disk) /\ Tidy(source, disk)
  BY <1>1 DEF Faithful, Tidy, Reads
<1>4. Progress(source, disk, phase, medium, todo)
  BY <1>1 DEF Progress, AfterMedia, AfterLoads, AfterBatches
<1> QED BY <1>1, <1>2, <1>3, <1>4 DEF CompilerSound, Phases

(* The invariant of the compiler holds throughout the transport.           *)
THEOREM CompilerSoundness == Spec => []CompilerSound
<1>1. CompilerSound /\ [Next]_vars => CompilerSound'
  <2> SUFFICES ASSUME CompilerSound, [Next]_vars
               PROVE  CompilerSound'
    OBVIOUS
  <2>1. CASE Send
    BY <2>1, CompileSound DEF Send
  <2>2. CASE UNCHANGED compilerVars
    BY <2>2 DEF compilerVars, CompilerSound, Set
  <2>3. OnTheWay => UNCHANGED compilerVars
    BY DEF OnTheWay, Ship, Lose, Damage, Exchange, TakeEarlier, Disorder, Fault
  <2>4. Receive => UNCHANGED compilerVars
    BY DEF Receive
  <2> QED BY <2>1, <2>2, <2>3, <2>4 DEF Next, vars
<1> QED BY <1>1, InitCompilerSound, PTL DEF Spec

(* Nothing is exported before the media paths are named, and they are      *)
(* named only below the largest medium number.                             *)
PathsFirst ==
  IF phase = "paths" THEN todo = {} /\ dirs = {} /\ DOMAIN disk = {}
  ELSE LastMediumNumber < MaxMedium

LEMMA SetMediaPathsFirst ==
  ASSUME CompilerSound, PathsFirst, SetMediaPaths
  PROVE  PathsFirst'
<1>1. Fit(Set) /\ medium \in Media(Set)
  BY SourcesFit DEF CompilerSound, Set
<1>2. /\ LastMediumNumber \in Nat /\ medium \in Nat
      /\ ~LoopGoesOn(medium, LastMediumNumber) => medium = LastMediumNumber
  BY <1>1, LoopStep DEF LastMediumNumber
<1>3. LastMediumNumber' = LastMediumNumber
  BY DEF SetMediaPaths, LastMediumNumber, Set
<1>4. CASE LoopGoesOn(medium, LastMediumNumber)
  BY <1>4 DEF SetMediaPaths, PathsFirst
<1>5. CASE ~LoopGoesOn(medium, LastMediumNumber)
  <2>1. phase' = "medium"
    BY <1>5 DEF SetMediaPaths, Enter
  <2>2. LastMediumNumber < MaxMedium
    BY <1>2, <1>5, MediumAssumption DEF MediumAssumption, LoopGoesOn, NextMedium
  <2> QED BY <1>3, <2>1, <2>2 DEF PathsFirst
<1> QED BY <1>4, <1>5

LEMMA ExportsAfterPaths ==
  ASSUME PathsFirst, Compile, ~SetMediaPaths
  PROVE  PathsFirst'
<1>1. phase # "paths" /\ phase' # "paths" /\ source' = source
  BY DEF Compile, CreateMedium, MediumExported, LoadsExported, BatchesExported, ExportRegularFile,
         ExportDirectory, ExportLoad, ExportBatch, ExportListOfLoads, ExportListOfBatches,
         ExportListOfFiles, CompilationFails, WriteList, Enter
<1> QED BY <1>1 DEF PathsFirst, LastMediumNumber, Set

LEMMA PathsComeFirst == Spec => []PathsFirst
<1>1. Init => PathsFirst
  BY DEF Init, CompilerInit, PathsFirst, NoFiles
<1>2. CompilerSound /\ PathsFirst /\ [Next]_vars => PathsFirst'
  <2> SUFFICES ASSUME CompilerSound, PathsFirst, [Next]_vars
               PROVE  PathsFirst'
    OBVIOUS
  <2>1. CASE Send
    BY <2>1, SetMediaPathsFirst, ExportsAfterPaths DEF Send
  <2>2. CASE UNCHANGED compilerVars
    BY <2>2 DEF compilerVars, PathsFirst, LastMediumNumber, Set
  <2>3. OnTheWay => UNCHANGED compilerVars
    BY DEF OnTheWay, Ship, Lose, Damage, Exchange, TakeEarlier, Disorder, Fault
  <2>4. Receive => UNCHANGED compilerVars
    BY DEF Receive
  <2> QED BY <2>1, <2>2, <2>3, <2>4 DEF Next, vars
<1> QED BY <1>1, <1>2, CompilerSoundness, PTL DEF Spec

-----------------------------------------------------------------------------
(* What is on the media in the end.                                        *)

LEMMA DataImageContents ==
  ASSUME NEW ms, Fit(ms), NEW value, NEW f \in Files(ms) \cap RegularFile
  PROVE  /\ Location(ms, f) \in DOMAIN DataImage(ms, value)
         /\ DataImage(ms, value)[Location(ms, f)] = Data(value[f])
<1> DEFINE found == CHOOSE g \in RegularFilesOf(ms) : Location(ms, g) = Location(ms, f)
<1>1. f \in RegularFilesOf(ms)
  BY DEF RegularFilesOf
<1>2. found \in Files(ms) /\ Location(ms, found) = Location(ms, f)
  BY <1>1 DEF RegularFilesOf
<1>3. found = f
  BY <1>2, LocationsDiffer
<1> QED BY <1>1, <1>3 DEF DataImage

LEMMA LinkedFiles ==
  ASSUME NEW ms, Fit(ms), NEW l \in Load
  PROVE  ms.data[l] \cup ms.support[l] \subseteq Files(ms) \cap RegularFile
<1>1. LiveLinks(ms) /\ ms.data \in [Load -> SUBSET RegularFile]
      /\ ms.support \in [Load -> SUBSET RegularFile]
  BY DEF Fit, Proper, MediaSetType
<1> QED BY <1>1 DEF LiveLinks

(* A compilation that has come to its end has written all there is.        *)
LEMMA CompiledDisk ==
  ASSUME CompilerSound, phase = "compiled"
  PROVE  /\ \A f \in Files(Set) : Reads(source, disk, f)
         /\ ListsDone(source, disk, ListOfFiles, LastMedium(Set, Root))
         /\ ListsDone(source, disk, ListOfLoads, LastMedium(Set, Root))
         /\ HasBatchList(Set) => ListsDone(source, disk, ListOfBatches, LastMedium(Set, Root))
<1>1. 1 \in 1 .. LastMedium(Set, Root)
  <2>1. Fit(Set)
    BY SourcesFit DEF CompilerSound, Set
  <2>2. LastMedium(Set, Root) \in MediumNumber
    BY <2>1, Survey DEF Surveyed
  <2> HIDE DEF Fit
  <2> QED BY <2>2 DEF MediumNumber
<1>2. /\ ListsDone(source, disk, ListOfFiles, LastMedium(Set, Root))
      /\ ListsDone(source, disk, ListOfLoads, LastMedium(Set, Root))
      /\ HasBatchList(Set) => ListsDone(source, disk, ListOfBatches, LastMedium(Set, Root))
  BY DEF CompilerSound, Progress, Set
<1> QED BY <1>1, <1>2 DEF ListsDone, Set

LEMMA SoundDescribed == CompilerSound => MediaAsDescribed
<1> SUFFICES ASSUME CompilerSound, phase = "compiled",
                    \A f \in Files(Set) \cap (Load \cup Batch) :
                      Copied(f) => source.original[f] = "current"
             PROVE  IsImage(disk, Set, source.version, source.value)
  BY DEF MediaAsDescribed
<1>1. Fit(source.ms)
  BY SourcesFit DEF CompilerSound
<1>2. /\ \A f \in Files(Set) : Reads(source, disk, f)
      /\ ListsDone(source, disk, ListOfFiles, LastMedium(Set, Root))
      /\ ListsDone(source, disk, ListOfLoads, LastMedium(Set, Root))
      /\ HasBatchList(Set) => ListsDone(source, disk, ListOfBatches, LastMedium(Set, Root))
  BY CompiledDisk
<1>3. ASSUME NEW m \in FirstMedium .. LastMedium(Set, Root)
      PROVE  /\ <<m, ListOfFiles>> \in DOMAIN disk /\ <<m, ListOfLoads>> \in DOMAIN disk
             /\ HasBatchList(Set) => <<m, ListOfBatches>> \in DOMAIN disk
             /\ disk[<<m, ListOfFiles>>] = FileList(Set, source.version, m, disk)
             /\ disk[<<m, ListOfLoads>>] = LoadList(Set, m)
             /\ HasBatchList(Set) => disk[<<m, ListOfBatches>>] = BatchList(Set, m)
  BY <1>2, ListNamesDiffer DEF ListsDone, ListMeant, FirstMedium, Set
<1>4. ASSUME NEW f \in Files(Set)
      PROVE  disk[Location(Set, f)] = IF f \in RegularFile THEN Data(source.value[f])
                                      ELSE IF f \in Load THEN LoadHeader(Set, source.version, f, disk)
                                      ELSE BatchContent(Set, f)
  <2>1. disk[Location(Set, f)] = Meant(source, disk, f)
    BY <1>2 DEF CompilerSound, Faithful, Set
  <2>2. f \notin RegularFile => f \in Load \cup Batch
    BY DEF Files, File
  <2>3. TakenOver(source, f) /\ f \notin RegularFile => source.original[f] = "current"
    BY <2>2, TakenOverCopied
  <2>4. CASE f \in Load
    <3>1. \A g \in Set.data[f] \cup Set.support[f] :
            /\ g \in Files(Set) \cap RegularFile
            /\ disk[Location(Set, g)] = Data(source.value[g])
            /\ DataImage(Set, source.value)[Location(Set, g)] = Data(source.value[g])
      <4> TAKE g \in Set.data[f] \cup Set.support[f]
      <4>1. g \in Files(Set) \cap RegularFile
        BY <1>1, <2>4, LinkedFiles DEF Set
      <4>2. disk[Location(Set, g)] = Meant(source, disk, g)
        BY <1>2, <4>1 DEF CompilerSound, Faithful, Set
      <4> QED BY <1>1, <4>1, <4>2, DataImageContents DEF Meant, Set
    <3>2. LoadHeader(Set, source.version, f, DataImage(Set, source.value))
            = LoadHeader(Set, source.version, f, disk)
      BY <3>1, HeaderOfFiles
    <3> QED BY <2>1, <2>3, <2>4, <3>2, Classes DEF Meant, FileContent, Set
  <2>5. CASE f \notin Load
    BY <2>1, <2>3, <2>5 DEF Meant, FileContent, Set
  <2> QED BY <2>4, <2>5
<1>5. DOMAIN disk = FileLocations(Set)
                      \cup ((FirstMedium .. LastMedium(Set, Root)) \X ListNames(Set))
  <2>1. DOMAIN disk \subseteq FileLocations(Set)
                      \cup ((FirstMedium .. LastMedium(Set, Root)) \X ListNames(Set))
    BY DEF CompilerSound, Tidy, Media, Set
  <2>2. FileLocations(Set) \subseteq DOMAIN disk
    BY <1>2 DEF FileLocations, Reads, Set
  <2>3. (FirstMedium .. LastMedium(Set, Root)) \X ListNames(Set) \subseteq DOMAIN disk
    <3>1. ASSUME NEW m \in FirstMedium .. LastMedium(Set, Root), NEW L \in ListNames(Set)
          PROVE  <<m, L>> \in DOMAIN disk
      BY <1>3 DEF ListNames
    <3> QED BY <3>1
  <2> QED BY <2>1, <2>2, <2>3
<1> QED BY <1>3, <1>4, <1>5 DEF IsImage, ListNames

(* A compilation that reports success has written each described file once *)
(* and on its medium, with headers and lists that fit, and nothing else,   *)
(* whatever the media set, the policy and the names of files are.          *)
THEOREM CompiledAsDescribed == Spec => []MediaAsDescribed
BY SoundDescribed, CompilerSoundness, PTL

-----------------------------------------------------------------------------
(* What can be compiled: which files and directories the loop over media   *)
(* comes to.                                                               *)

(* The media at which the loop comes to x: to the media set itself and its *)
(* own files at all of them.                                               *)
Visits(ms, x) ==
  {k \in Media(ms) :
     \/ x = Root \/ (x \in File /\ ms.parent[x] = Root)
     \/ \E d \in Tops(ms) : x \in Inside(ms, d) /\ HasChildren(ms, d, k)}

(* Each file is on a medium at which the loop comes to it, each regular    *)
(* file is come to only once, and the rest of CanBeCompiled.               *)
Exportables(s) ==
  LET ms == s.ms
  IN /\ LastMedium(ms, Root) < MaxMedium
     /\ \A f \in Files(ms) : EffectiveMedium(ms, f) \in Visits(ms, f)
     /\ \A f \in Files(ms) \cap RegularFile : \A i, j \in Visits(ms, f) : i = j
     /\ \A f \in Files(ms) \cap (Load \cup Batch) : TakenOver(s, f) => s.original[f] # "missing"
     /\ \A f \in AllFiles(ms, Root) : <<ms.name[f]>> \notin ListNames(ms)

LEMMA ParentPath ==
  ASSUME NEW ms, Fit(ms), NEW e \in Entity, InSet(ms, e)
  PROVE  ms.parent[e] \in Containers(ms) /\ Front(Path(ms, e)) = Path(ms, ms.parent[e])
<1>1. Tree(ms) /\ ms.name \in [Entity -> Name]
  BY DEF Fit, Proper, MediaSetType
<1>2. e \in Members(ms) /\ e # Root
  BY Classes DEF Members, Containers, Files, Entity
<1>3. ms.parent[e] \in Containers(ms) /\ ms.parent[e] \in Members(ms) /\ ms.name[e] \in Name
  BY <1>1 DEF Tree, ParentsLive, Members
<1>4. Path(ms, e) = Append(Path(ms, ms.parent[e]), ms.name[e]) /\ Path(ms, ms.parent[e]) \in Seq(Name)
  BY <1>1, <1>2, <1>3, PathStep
<1> QED BY <1>3, <1>4, FrontAndLast

LEMMA RootPath ==
  ASSUME NEW ms, Fit(ms)
  PROVE  Path(ms, Root) = <<>> /\ Root \in Containers(ms)
<1>1. Tree(ms) /\ ms.name \in [Entity -> Name] /\ Root \in Members(ms) /\ Root \in Containers(ms)
  BY DEF Fit, Proper, MediaSetType, Members, Containers
<1> QED BY <1>1, PathStep

LEMMA ContainerPaths ==
  ASSUME NEW ms, Fit(ms), NEW c \in Containers(ms), NEW d \in Containers(ms),
         Path(ms, c) = Path(ms, d)
  PROVE  c = d
<1>1. Tree(ms) /\ UniqueNames(ms) /\ ms.name \in [Entity -> Name]
  BY DEF Fit, Proper, MediaSetType
<1>2. {c} = {d}
  BY <1>1, DirectoryFound
<1> QED BY <1>2

LEMMA VisitsUp ==
  ASSUME NEW ms, Fit(ms), NEW e \in Entity, InSet(ms, e), NEW k \in Visits(ms, e)
  PROVE  k \in Visits(ms, ms.parent[e])
<1>1. e # Root /\ \A d \in Tops(ms) : d \in Entity /\ ms.parent[d] = Root
  BY Classes DEF Tops, AllSubdirectories, Entity
<1> QED BY <1>1, InsideUp DEF Visits

LEMMA VisitsDown ==
  ASSUME NEW ms, Fit(ms), NEW e \in Entity, InSet(ms, e), e \in File \/ ms.parent[e] # Root,
         NEW k \in Visits(ms, ms.parent[e])
  PROVE  k \in Visits(ms, e)
<1>1. ms.parent[e] \in Containers(ms)
  BY DEF Fit, Proper, Tree, ParentsLive
<1>2. \A d \in Tops(ms) : d \in Entity
  BY DEF Tops, AllSubdirectories, Entity
<1>3. ms.parent[e] \notin File
  BY <1>1, Classes DEF Containers
<1> QED BY <1>2, <1>3, InsideClosed DEF Visits, ClosedUnder

LEMMA VisitsInside ==
  ASSUME NEW ms, Fit(ms), NEW d \in Directory, NEW k \in Visits(ms, d), NEW x \in Inside(ms, d)
  PROVE  k \in Visits(ms, x)
<1>1. PICK t \in Tops(ms) : d \in Inside(ms, t) /\ HasChildren(ms, t, k)
  BY Classes DEF Visits
<1>2. t \in Entity
  BY DEF Tops, AllSubdirectories, Entity
<1>3. x \in Inside(ms, t)
  BY <1>1, <1>2, InsideInside
<1> QED BY <1>1, <1>3 DEF Visits

(* A list takes the place of no file. *)
LEMMA ListsApart ==
  ASSUME NEW ms, Fit(ms), NEW m, NEW L \in ListNames(ms),
         \A f \in AllFiles(ms, Root) : <<ms.name[f]>> \notin ListNames(ms)
  PROVE  <<m, L>> \notin FileLocations(ms)
<1> SUFFICES ASSUME NEW f \in Files(ms), Location(ms, f) = <<m, L>>
             PROVE  FALSE
  BY DEF FileLocations
<1>1. Path(ms, f) = L
  BY DEF Location
<1>2. f \in AllFiles(ms, Root)
  BY <1>1, AtTheTop DEF ListNames, ListOfFiles, ListOfLoads, ListOfBatches
<1>3. Tree(ms) /\ ms.name \in [Entity -> Name]
  BY DEF Fit, Proper, MediaSetType
<1>4. Path(ms, f) = Append(<<>>, ms.name[f])
  BY <1>2, <1>3, PathOfFile, RootPath, ZenonT(30) DEF AllFiles
<1>5. Path(ms, f) = <<ms.name[f]>>
  BY <1>4
<1> QED BY <1>1, <1>2, <1>5

-----------------------------------------------------------------------------
(* The invariant.                                                          *)

Earlier(ms, m) == {k \in Media(ms) : k < m}

(* Directories are where the loop came to, files in directories, and       *)
(* nothing was copied that was not there.                                  *)
Traces(s, D, dd) ==
  /\ \A x \in dd : \E c \in Containers(s.ms) : x[2] = Path(s.ms, c) /\ x[1] \in Visits(s.ms, c)
  /\ \A f \in Files(s.ms) : Reads(s, D, f) =>
       <<EffectiveMedium(s.ms, f), Front(Path(s.ms, f))>> \in dd
  /\ \A f \in Files(s.ms) \cap (Load \cup Batch) :
       Reads(s, D, f) /\ TakenOver(s, f) => s.original[f] # "missing"

(* The loop has been at the media K. *)
Visited(s, D, dd, K) ==
  /\ \A f \in Files(s.ms) \cap RegularFile :
       /\ \A i, j \in Visits(s.ms, f) \cap K : i = j
       /\ Visits(s.ms, f) \cap K # {} => Reads(s, D, f)
  /\ \A c \in Containers(s.ms) : \A k \in Visits(s.ms, c) \cap K : <<k, Path(s.ms, c)>> \in dd

VisitedOnly(s, D, K) ==
  LastMedium(s.ms, Root) < MaxMedium =>
    \A f \in Files(s.ms) \cap RegularFile : Reads(s, D, f) => Visits(s.ms, f) \cap K # {}

Covered(ms, t, x) == \E a \in t : x \in Inside(ms, a)

(* The loop is at medium m and has t still to export.                      *)
Visiting(s, D, dd, m, t) ==
  /\ \A a \in t : /\ a \in RegularFile \cup Directory /\ m \in Visits(s.ms, a)
                  /\ <<m, Front(Path(s.ms, a))>> \in dd
  /\ \A a, b \in t : a \in Inside(s.ms, b) => a = b
  /\ \A f \in Files(s.ms) \cap RegularFile : m \in Visits(s.ms, f) =>
       Covered(s.ms, t, f) \/ (Reads(s, D, f) /\ Visits(s.ms, f) \cap Earlier(s.ms, m) = {})
  /\ \A c \in Containers(s.ms) : m \in Visits(s.ms, c) =>
       Covered(s.ms, t, c) \/ <<m, Path(s.ms, c)>> \in dd
  /\ Exportables(s) =>
       \A a \in t : \A f \in Inside(s.ms, a) \cap RegularFile : ~Reads(s, D, f)

(* The lists that stand there, at phase p and medium m.                    *)
ListsSoFar(s, D, p, m) ==
  \A k, L : <<k, L>> \in DOMAIN D /\ <<k, L>> \notin FileLocations(s.ms) =>
    \/ L = ListOfLoads /\ p = "loadLists" /\ k < m
    \/ L = ListOfLoads /\ p \in {"batchLists", "fileLists", "compiled"}
    \/ L = ListOfBatches /\ p = "batchLists" /\ k < m
    \/ L = ListOfBatches /\ p \in {"fileLists", "compiled"}
    \/ L = ListOfFiles /\ p = "fileLists" /\ k < m
    \/ L = ListOfFiles /\ p = "compiled"

Unread(s, D, S) == \A f \in Files(s.ms) \cap S : ~Reads(s, D, f)

Exports(s, D, dd, p, m, t) ==
  /\ Traces(s, D, dd)
  /\ ListsSoFar(s, D, p, m)
  /\ p \in {"medium", "export"} => Visited(s, D, dd, Earlier(s.ms, m)) /\ Unread(s, D, Load \cup Batch)
  /\ p = "medium" => VisitedOnly(s, D, Earlier(s.ms, m))
  /\ p = "export" => VisitedOnly(s, D, Earlier(s.ms, m) \cup {m}) /\ Visiting(s, D, dd, m, t)
  /\ p \in AfterMedia => Visited(s, D, dd, Media(s.ms)) /\ LastMedium(s.ms, Root) < MaxMedium
  /\ p = "loads" => t \subseteq Load /\ Unread(s, D, t) /\ Unread(s, D, Batch)
  /\ p = "batches" => t \subseteq Batch /\ Unread(s, D, t)

CompilerExact ==
  IF phase = "failed" THEN ~Exportables(source)
  ELSE Exports(source, disk, dirs, phase, medium, todo)

LEMMA CanCompile ==
  ASSUME Fit(source.ms)
  PROVE  CanBeCompiled <=> Exportables(source)
<1> DEFINE ms == source.ms
<1>1. Surveyed(ms) /\ Tree(ms)
  BY Survey DEF Fit, Proper
<1>2. ASSUME NEW d \in Tops(ms)
      PROVE  /\ Below(d) = Inside(ms, d) \cap File
             /\ \A x \in Inside(ms, d) : InSet(ms, x)
             /\ \A x \in Inside(ms, d) \cap File : ms.parent[x] # Root
             /\ \A x \in Inside(ms, d) \cap File : Visits(ms, x) = ExportedOn(d)
  <2>1. d \in Directory /\ d \in Entity /\ InSet(ms, d)
    BY Classes DEF Tops, AllSubdirectories, Entity, InSet
  <2>2. Below(d) = Inside(ms, d) \cap File /\ \A x \in Inside(ms, d) : InSet(ms, x)
    BY <1>1, <2>1, FilesInside, InsideMembers DEF Below, Set
  <2>3. \A x \in Inside(ms, d) \cap File : ms.parent[x] # Root
    BY <2>1, TopsOutside, Classes
  <2>4. \A x \in Inside(ms, d) \cap File : Visits(ms, x) = ExportedOn(d)
    <3> SUFFICES ASSUME NEW x \in Inside(ms, d) \cap File, NEW k \in Media(ms)
                 PROVE  k \in Visits(ms, x) <=> HasChildren(ms, d, k)
      BY DEF Visits, ExportedOn, Media, Set, LastMediumNumber
    <3>1. x # Root
      BY Classes
    <3>2. \A e \in Tops(ms) : x \in Inside(ms, e) => e = d
      BY TopsApart
    <3> QED BY <2>3, <3>1, <3>2 DEF Visits
  <2> QED BY <2>2, <2>3, <2>4
<1>3. \A f \in Files(ms) : ms.parent[f] = Root \/ \E d \in Tops(ms) : f \in Inside(ms, d)
  BY <1>1, InsideTop DEF Files, Entity
<1>4. \A f \in Files(ms) : ms.parent[f] = Root => Visits(ms, f) = Media(ms)
  BY DEF Files, Visits
<1>5. \A f \in Files(ms) : EffectiveMedium(ms, f) \in Media(ms)
  BY <1>1 DEF Surveyed
<1>6. (\A f \in Files(ms) : EffectiveMedium(ms, f) \in Visits(ms, f))
        <=> \A d \in Tops(ms) : \A f \in Below(d) : EffectiveMedium(ms, f) \in ExportedOn(d)
  BY <1>2, <1>3, <1>4, <1>5 DEF Files
<1>7. (\A f \in AllFiles(ms, Root) \cap RegularFile : \A i, j \in Visits(ms, f) : i = j)
        <=> (AllFiles(ms, Root) \cap RegularFile # {} => LastMediumNumber = FirstMedium)
  <2>1. \A f \in AllFiles(ms, Root) : f \in Files(ms) /\ ms.parent[f] = Root
    BY Classes DEF AllFiles, Files, InSet
  <2>2. LastMedium(ms, Root) \in Nat /\ LastMedium(ms, Root) >= 1
    BY <1>1 DEF Surveyed, MediumNumber
  <2>3. (\A i, j \in Media(ms) : i = j) <=> LastMedium(ms, Root) = 1
    BY <2>2 DEF Media, FirstMedium
  <2> QED BY <1>4, <2>1, <2>3 DEF LastMediumNumber, Set, FirstMedium
<1>8. ASSUME NEW d \in Tops(ms), \A f \in Below(d) : EffectiveMedium(ms, f) \in ExportedOn(d)
      PROVE  (\A f \in Below(d) \cap RegularFile : \A i, j \in Visits(ms, f) : i = j)
               <=> (Below(d) \cap RegularFile # {} => Cardinality(ExportedOn(d)) = 1)
  <2>1. (\E f : f \in Below(d)) => ExportedOn(d) # {}
    BY <1>8
  <2>2. IsFiniteSet(ExportedOn(d))
    <3>1. LastMediumNumber \in Int /\ FirstMedium \in Int
      BY <1>1 DEF Surveyed, LastMediumNumber, Set, MediumNumber, FirstMedium
    <3>2. IsFiniteSet(FirstMedium .. LastMediumNumber)
      BY <3>1, FS_Interval
    <3> QED BY <3>2, FS_Subset DEF ExportedOn
  <2>3. ExportedOn(d) # {} => ((\A i, j \in ExportedOn(d) : i = j) <=> Cardinality(ExportedOn(d)) = 1)
    <3>1. (Cardinality(ExportedOn(d)) = 1) <=> (\E x : ExportedOn(d) = {x})
      BY <2>2, FS_Singleton
    <3> QED BY <3>1
  <2>4. \A f \in Below(d) : Visits(ms, f) = ExportedOn(d)
    BY <1>2
  <2> QED BY <2>1, <2>3, <2>4
<1>9. ASSUME \A d \in Tops(ms) : \A f \in Below(d) : EffectiveMedium(ms, f) \in ExportedOn(d)
      PROVE  (\A f \in Files(ms) \cap RegularFile : \A i, j \in Visits(ms, f) : i = j)
               <=> /\ AllFiles(ms, Root) \cap RegularFile # {} => LastMediumNumber = FirstMedium
                   /\ \A d \in Tops(ms) : Below(d) \cap RegularFile # {} => Cardinality(ExportedOn(d)) = 1
  <2>1. \A f : f \in Files(ms) <=> f \in AllFiles(ms, Root) \/ \E d \in Tops(ms) : f \in Below(d)
    BY <1>2, <1>3, Classes DEF Files, AllFiles, InSet
  <2>2. (\A f \in Files(ms) \cap RegularFile : \A i, j \in Visits(ms, f) : i = j)
          <=> /\ \A f \in AllFiles(ms, Root) \cap RegularFile : \A i, j \in Visits(ms, f) : i = j
              /\ \A d \in Tops(ms) : \A f \in Below(d) \cap RegularFile : \A i, j \in Visits(ms, f) : i = j
    BY <2>1
  <2> QED BY <1>7, <1>8, <1>9, <2>2
<1>10. \A f : Copied(f) <=> TakenOver(source, f)
  BY TakenOverCopied
<1> QED BY <1>6, <1>9, <1>10 DEF CanBeCompiled, Exportables, Tops, LastMediumNumber, Set

-----------------------------------------------------------------------------
(* Each step of the compiler keeps it.                                     *)

LEMMA VisitedKept ==
  ASSUME NEW s, NEW D, NEW E, Grows(D, E), NEW dd, NEW ee, dd \subseteq ee, NEW K, Visited(s, D, dd, K)
  PROVE  Visited(s, E, ee, K)
BY DEF Visited, Reads, Grows

LEMMA CreateMediumExact ==
  ASSUME CompilerSound, CompilerExact, CreateMedium
  PROVE  CompilerExact'
<1> DEFINE s == source
           ms == source.ms
           made == dirs \cup {<<medium, <<>>>>}
           next == (AllFiles(ms, Root) \cap RegularFile) \cup Subdirectories(ms, Root, medium)
<1>1. /\ Fit(ms) /\ Tree(ms) /\ medium \in Media(ms)
      /\ phase = "medium" /\ phase' = "export" /\ source' = source /\ disk' = disk /\ medium' = medium
      /\ dirs' = made /\ todo' = next
      /\ Exports(source, disk, dirs, "medium", medium, todo)
  BY SourcesFit DEF CompilerSound, CompilerExact, CreateMedium, Fit, Proper, Set
<1>2. Path(ms, Root) = <<>> /\ Root \in Containers(ms) /\ medium \in Visits(ms, Root)
  BY <1>1, RootPath DEF Visits
<1>3. Traces(s, disk, made)
  BY <1>1, <1>2 DEF Exports, Traces
<1>4. Visited(s, disk, made, Earlier(ms, medium)) /\ Unread(s, disk, Load \cup Batch)
  BY <1>1, VisitedKept DEF Exports, Grows
<1>5. VisitedOnly(s, disk, Earlier(ms, medium) \cup {medium})
  BY <1>1 DEF Exports, VisitedOnly
<1>6. ListsSoFar(s, disk, "export", medium)
  BY <1>1 DEF Exports, ListsSoFar
<1>7. ASSUME NEW a \in next
      PROVE  /\ a \in RegularFile \cup Directory /\ a \in Entity /\ InSet(ms, a)
             /\ ms.parent[a] = Root /\ medium \in Visits(ms, a)
             /\ <<medium, Front(Path(ms, a))>> \in made
  <2>1. /\ a \in RegularFile \cup Directory /\ a \in Entity /\ InSet(ms, a) /\ ms.parent[a] = Root
    BY Classes DEF AllFiles, Subdirectories, AllSubdirectories, Entity, File, InSet
  <2>2. medium \in Visits(ms, a)
    <3>1. CASE a \in RegularFile
      BY <1>1, <2>1, <3>1 DEF Visits, File
    <3>2. CASE a \notin RegularFile
      <4>1. a \in Tops(ms) /\ HasChildren(ms, a, medium) /\ a \in Inside(ms, a)
        BY <1>1, <2>1, <3>2, LoopStep, Classes, InsideClosed DEF Subdirectories, Tops, MediumNumber
      <4> QED BY <1>1, <4>1 DEF Visits
    <3> QED BY <3>1, <3>2
  <2>3. Front(Path(ms, a)) = <<>>
    BY <1>1, <1>2, <2>1, ParentPath
  <2> QED BY <2>1, <2>2, <2>3
<1>8. ASSUME NEW a \in next, NEW b \in next, a \in Inside(ms, b)
      PROVE  a = b
  <2>1. b \in Entity /\ ms.parent[a] = Root /\ Root \notin Entity
    BY <1>7, Classes DEF Entity
  <2> QED BY <1>8, <2>1, InsideUp, InsideClosed
<1>9. ASSUME NEW x, medium \in Visits(ms, x), x # Root, x \in Load \cup Batch => ms.parent[x] # Root
      PROVE  Covered(ms, next, x)
  <2>1. CASE x \in File /\ ms.parent[x] = Root
    <3>1. x \in next /\ x \in Entity
      BY <1>9, <2>1 DEF AllFiles, File, Entity
    <3> QED BY <3>1, InsideClosed DEF Covered
  <2>2. CASE ~(x \in File /\ ms.parent[x] = Root)
    <3>1. PICK d \in Tops(ms) : x \in Inside(ms, d) /\ HasChildren(ms, d, medium)
      BY <1>9, <2>2 DEF Visits
    <3>2. d \in next
      BY <3>1 DEF Subdirectories, Tops
    <3> QED BY <3>1, <3>2 DEF Covered
  <2> QED BY <2>1, <2>2
<1>10. ASSUME Exportables(s), NEW a \in next, NEW f \in Inside(ms, a) \cap RegularFile
       PROVE  ~Reads(s, disk, f)
  <2>1. a \in Entity /\ InSet(ms, a) /\ medium \in Visits(ms, a) /\ a \in RegularFile \cup Directory
    BY <1>7
  <2>2. f \in Files(ms) /\ medium \in Visits(ms, f)
    <3>1. InSet(ms, f) /\ f \in File
      BY <1>1, <2>1, InsideMembers DEF File
    <3>2. CASE a \in RegularFile
      BY <1>1, <2>1, <3>1, <3>2, InsideFile DEF Files, File
    <3>3. CASE a \in Directory
      BY <1>1, <2>1, <3>1, <3>3, VisitsInside DEF Files
    <3> QED BY <2>1, <3>1, <3>2, <3>3
  <2>3. medium \notin Earlier(ms, medium)
    BY <1>1, LoopStep DEF Earlier
  <2>4. Visits(ms, f) \cap Earlier(ms, medium) = {}
    BY <1>10, <2>2, <2>3 DEF Exportables
  <2> QED BY <1>1, <1>10, <2>2, <2>4 DEF Exports, VisitedOnly, Exportables
<1>11. Visiting(s, disk, made, medium, next)
  <2>1. ASSUME NEW f \in Files(ms) \cap RegularFile, medium \in Visits(ms, f)
        PROVE  Covered(ms, next, f)
    BY <1>9, <2>1, Classes DEF File
  <2>2. ASSUME NEW c \in Containers(ms), medium \in Visits(ms, c)
        PROVE  Covered(ms, next, c) \/ <<medium, Path(ms, c)>> \in made
    BY <1>2, <1>9, <2>2, Classes DEF Containers, File
  <2> HIDE DEF next, made
  <2> QED BY <1>7, <1>8, <1>10, <2>1, <2>2 DEF Visiting
<1> HIDE DEF next, made
<1> QED BY <1>1, <1>3, <1>4, <1>5, <1>6, <1>11
        DEF CompilerExact, Exports, AfterMedia, AfterLoads, AfterBatches

(* A file is written where it belongs; the other files are as before.      *)
LEMMA ReadsAfter ==
  ASSUME NEW s, Fit(s.ms), NEW D, NEW E, NEW f \in Files(s.ms), NEW content,
         Extends(D, E, Location(s.ms, f), content)
  PROVE  /\ Grows(D, E) /\ ~Reads(s, D, f)
         /\ \A g \in Files(s.ms) : Reads(s, E, g) <=> Reads(s, D, g) \/ g = f
<1>1. \A g \in Files(s.ms) : Location(s.ms, g) = Location(s.ms, f) => g = f
  BY LocationsDiffer
<1> QED BY <1>1, ExtensionGrows DEF Extends, Reads

LEMMA FileTraced ==
  ASSUME NEW s, Fit(s.ms), NEW D, NEW E, NEW dd, NEW f \in Files(s.ms), NEW content,
         Extends(D, E, Location(s.ms, f), content),
         <<EffectiveMedium(s.ms, f), Front(Path(s.ms, f))>> \in dd,
         f \in Load \cup Batch /\ TakenOver(s, f) => s.original[f] # "missing",
         Traces(s, D, dd)
  PROVE  Traces(s, E, dd)
BY ReadsAfter DEF Traces

LEMMA FileListsSoFar ==
  ASSUME NEW s, NEW D, NEW E, NEW f \in Files(s.ms), NEW content, NEW p, NEW m,
         Extends(D, E, Location(s.ms, f), content), ListsSoFar(s, D, p, m)
  PROVE  ListsSoFar(s, E, p, m)
BY DEF ListsSoFar, Extends, FileLocations

LEMMA ExportRegularFileExact ==
  ASSUME CompilerSound, CompilerExact, NEW f \in RegularFile, ExportRegularFile(f)
  PROVE  CompilerExact'
<1> DEFINE s == source
           ms == source.ms
           rest == todo \ {f}
<1>1. /\ Fit(ms) /\ Tree(ms) /\ medium \in Media(ms)
      /\ phase = "export" /\ phase' = "export" /\ source' = source /\ medium' = medium
      /\ dirs' = dirs /\ todo' = rest /\ f \in todo /\ f \in File /\ f \in Files(ms)
      /\ Exports(source, disk, dirs, "export", medium, todo)
  BY SourcesFit DEF CompilerSound, CompilerExact, ExportRegularFile, Fit, Proper, Set, File, Files
<1>2. /\ Extends(disk, disk', Location(ms, f), SourceContent(f))
      /\ <<EffectiveMedium(ms, f), Front(Path(ms, f))>> \in dirs
  BY WritingExtends DEF ExportRegularFile, Exportable, Creatable, CreateFile, Location, Set
<1>3. /\ Grows(disk, disk') /\ ~Reads(s, disk, f)
      /\ \A g \in Files(ms) : Reads(s, disk', g) <=> Reads(s, disk, g) \/ g = f
  BY <1>1, <1>2, ReadsAfter
<1>4. f \notin Load \cup Batch
  BY Classes
<1>5. Traces(s, disk', dirs) /\ ListsSoFar(s, disk', "export", medium)
  BY <1>1, <1>2, <1>4, FileTraced, FileListsSoFar DEF Exports
<1>6. Visited(s, disk', dirs, Earlier(ms, medium)) /\ Unread(s, disk', Load \cup Batch)
  BY <1>1, <1>3, <1>4, VisitedKept DEF Exports, Unread
<1>7. medium \in Visits(ms, f)
  BY <1>1 DEF Exports, Visiting
<1>8. VisitedOnly(s, disk', Earlier(ms, medium) \cup {medium})
  BY <1>1, <1>3, <1>7 DEF Exports, VisitedOnly
<1>9. Inside(ms, f) = {f}
  BY <1>1, InsideFile
<1>10. \A x : x # f /\ Covered(ms, todo, x) => Covered(ms, rest, x)
  BY <1>9 DEF Covered
<1>11. Visiting(s, disk', dirs, medium, rest)
  <2>1. ASSUME NEW g \in Files(ms) \cap RegularFile, medium \in Visits(ms, g)
        PROVE  Covered(ms, rest, g) \/ (Reads(s, disk', g) /\ Visits(ms, g) \cap Earlier(ms, medium) = {})
    <3>1. CASE g = f
      BY <1>1, <1>3, <2>1, <3>1 DEF Exports, Visited
    <3>2. CASE g # f
      BY <1>1, <1>3, <1>10, <2>1, <3>2 DEF Exports, Visiting
    <3> QED BY <3>1, <3>2
  <2>2. ASSUME NEW c \in Containers(ms), medium \in Visits(ms, c)
        PROVE  Covered(ms, rest, c) \/ <<medium, Path(ms, c)>> \in dirs
    <3>1. c # f
      BY <1>1, Classes DEF Containers
    <3> QED BY <1>1, <1>10, <2>2, <3>1 DEF Exports, Visiting
  <2>3. ASSUME Exportables(s), NEW a \in rest, NEW g \in Inside(ms, a) \cap RegularFile
        PROVE  ~Reads(s, disk', g)
    <3>1. g # f
      BY <1>1, <2>3 DEF Exports, Visiting
    <3>2. a \in todo /\ a \in Entity /\ InSet(ms, a)
      BY <2>3 DEF CompilerSound, Set
    <3>3. g \in Files(ms)
      BY <1>1, <2>3, <3>2, InsideMembers DEF Files, File
    <3> QED BY <1>1, <1>3, <2>3, <3>1, <3>2, <3>3 DEF Exports, Visiting
  <2> QED BY <1>1, <2>1, <2>2, <2>3 DEF Exports, Visiting
<1> HIDE DEF rest
<1> QED BY <1>1, <1>5, <1>6, <1>8, <1>11
        DEF CompilerExact, Exports, AfterMedia, AfterLoads, AfterBatches

LEMMA ExportDirectoryExact ==
  ASSUME CompilerSound, CompilerExact, NEW d \in Directory, ExportDirectory(d)
  PROVE  CompilerExact'
<1> DEFINE s == source
           ms == source.ms
           made == dirs \cup {<<medium, Path(ms, d)>>}
           members == (AllFiles(ms, d) \cap RegularFile) \cup AllSubdirectories(ms, d)
           next == (todo \ {d}) \cup members
<1>1. /\ Fit(ms) /\ Tree(ms) /\ medium \in Media(ms)
      /\ phase = "export" /\ phase' = "export" /\ source' = source /\ medium' = medium /\ disk' = disk
      /\ dirs' = made /\ todo' = next /\ d \in todo /\ d \in Entity /\ InSet(ms, d)
      /\ d \in Containers(ms)
      /\ Exports(source, disk, dirs, "export", medium, todo)
  BY SourcesFit
     DEF CompilerSound, CompilerExact, ExportDirectory, Fit, Proper, Set, Entity, Containers
<1>2. medium \in Visits(ms, d) /\ d \in Inside(ms, d)
  BY <1>1, InsideClosed DEF Exports, Visiting
<1>3. Traces(s, disk, made)
  BY <1>1, <1>2 DEF Exports, Traces
<1>4. Visited(s, disk, made, Earlier(ms, medium)) /\ Unread(s, disk, Load \cup Batch)
  BY <1>1, VisitedKept DEF Exports, Grows
<1>5. VisitedOnly(s, disk, Earlier(ms, medium) \cup {medium}) /\ ListsSoFar(s, disk, "export", medium)
  BY <1>1 DEF Exports
<1>6. ASSUME NEW a \in members
      PROVE  /\ a \in RegularFile \cup Directory /\ a \in Entity /\ InSet(ms, a) /\ ms.parent[a] = d
             /\ a \in Inside(ms, d) /\ medium \in Visits(ms, a)
             /\ <<medium, Front(Path(ms, a))>> \in made
  <2>1. a \in RegularFile \cup Directory /\ a \in Entity /\ InSet(ms, a) /\ ms.parent[a] = d
    BY <1>1, Classes DEF AllFiles, AllSubdirectories, Entity, File, InSet, Container
  <2>2. a \in Inside(ms, d)
    BY <1>2, <2>1, InsideClosed, <1>1 DEF ClosedUnder
  <2>3. medium \in Visits(ms, a)
    BY <1>1, <1>2, <2>2, VisitsInside
  <2>4. Front(Path(ms, a)) = Path(ms, d)
    BY <1>1, <2>1, ParentPath
  <2> QED BY <2>1, <2>2, <2>3, <2>4
<1>7. \A a \in todo : a \in Entity /\ InSet(ms, a)
  BY DEF CompilerSound, Set
<1>8. \A a \in todo : d \in Inside(ms, a) \/ a \in Inside(ms, d) => a = d
  BY <1>1 DEF Exports, Visiting
<1>9. ASSUME NEW a \in next, NEW b \in next, a \in Inside(ms, b)
      PROVE  a = b
  <2>1. CASE a \in members /\ b \in members
    <3>1. a # b => d \in Inside(ms, b)
      BY <1>6, <1>9, <2>1, InsideUp
    <3>2. d \notin Inside(ms, b)
      BY <1>1, <1>6, <2>1, ParentOutside
    <3> QED BY <3>1, <3>2
  <2>2. CASE a \in members /\ b \in todo \ {d}
    <3>1. a # b => d \in Inside(ms, b)
      BY <1>6, <1>7, <1>9, <2>2, InsideUp
    <3> QED BY <1>8, <2>2, <3>1
  <2>3. CASE a \in todo \ {d} /\ b \in members
    <3>1. a \in Inside(ms, d)
      BY <1>1, <1>6, <1>9, <2>3, InsideInside
    <3> QED BY <1>8, <2>3, <3>1
  <2>4. CASE a \in todo \ {d} /\ b \in todo \ {d}
    BY <1>1, <1>9, <2>4 DEF Exports, Visiting
  <2> QED BY <2>1, <2>2, <2>3, <2>4
<1>10. ASSUME NEW x, x # d, x \notin Load \cup Batch, Covered(ms, todo, x)
       PROVE  Covered(ms, next, x)
  <2>1. PICK a \in todo : x \in Inside(ms, a)
    BY <1>10 DEF Covered
  <2>2. CASE a = d
    <3>1. PICK e \in Entity : ms.parent[e] = d /\ x \in Inside(ms, e)
      BY <1>1, <1>10, <2>1, <2>2, InsideDown
    <3>2. e \notin Load \cup Batch
      BY <1>1, <1>10, <3>1, InsideFile DEF File
    <3>3. e \in next
      BY <3>1, <3>2 DEF AllFiles, AllSubdirectories, Entity, File
    <3> QED BY <3>1, <3>3 DEF Covered
  <2>3. CASE a # d
    BY <2>1, <2>3 DEF Covered
  <2> QED BY <2>2, <2>3
<1>11. Visiting(s, disk, made, medium, next)
  <2>1. ASSUME NEW a \in next
        PROVE  /\ a \in RegularFile \cup Directory /\ medium \in Visits(ms, a)
               /\ <<medium, Front(Path(ms, a))>> \in made
    <3>1. CASE a \in members
      BY <1>6, <3>1
    <3>2. CASE a \in todo
      BY <1>1, <3>2 DEF Exports, Visiting
    <3> QED BY <3>1, <3>2
  <2>2. ASSUME NEW f \in Files(ms) \cap RegularFile, medium \in Visits(ms, f)
        PROVE  Covered(ms, next, f) \/ (Reads(s, disk, f) /\ Visits(ms, f) \cap Earlier(ms, medium) = {})
    <3>1. f # d /\ f \notin Load \cup Batch
      BY <1>1, Classes DEF File
    <3> QED BY <1>1, <1>10, <2>2, <3>1 DEF Exports, Visiting
  <2>3. ASSUME NEW c \in Containers(ms), medium \in Visits(ms, c)
        PROVE  Covered(ms, next, c) \/ <<medium, Path(ms, c)>> \in made
    <3>1. c \notin Load \cup Batch
      BY Classes DEF Containers, File
    <3> QED BY <1>1, <1>10, <2>3, <3>1 DEF Exports, Visiting
  <2>4. ASSUME Exportables(s), NEW a \in next, NEW f \in Inside(ms, a) \cap RegularFile
        PROVE  ~Reads(s, disk, f)
    <3>1. CASE a \in members
      <4>1. f \in Inside(ms, d)
        BY <1>1, <1>6, <2>4, <3>1, InsideInside
      <4> QED BY <1>1, <2>4, <4>1 DEF Exports, Visiting
    <3>2. CASE a \in todo
      BY <1>1, <2>4, <3>2 DEF Exports, Visiting
    <3> QED BY <3>1, <3>2
  <2> HIDE DEF next, made
  <2> QED BY <1>9, <2>1, <2>2, <2>3, <2>4 DEF Visiting
<1> HIDE DEF next, made
<1> QED BY <1>1, <1>3, <1>4, <1>5, <1>11
        DEF CompilerExact, Exports, AfterMedia, AfterLoads, AfterBatches

(* When nothing is left to export, the medium has been visited.            *)
LEMMA MediumVisited ==
  ASSUME NEW s, NEW D, NEW dd, NEW m, Visiting(s, D, dd, m, {}),
         Visited(s, D, dd, Earlier(s.ms, m))
  PROVE  Visited(s, D, dd, Earlier(s.ms, m) \cup {m})
<1> DEFINE ms == s.ms
           K == Earlier(ms, m)
<1>1. \A x : ~Covered(ms, {}, x)
  BY DEF Covered
<1>2. ASSUME NEW f \in Files(ms) \cap RegularFile
      PROVE  /\ \A i, j \in Visits(ms, f) \cap (K \cup {m}) : i = j
             /\ Visits(ms, f) \cap (K \cup {m}) # {} => Reads(s, D, f)
  <2>1. CASE m \in Visits(ms, f)
    <3>1. Reads(s, D, f) /\ Visits(ms, f) \cap K = {}
      BY <1>1, <2>1 DEF Visiting
    <3> QED BY <3>1
  <2>2. CASE m \notin Visits(ms, f)
    <3>1. Visits(ms, f) \cap (K \cup {m}) = Visits(ms, f) \cap K
      BY <2>2
    <3> QED BY <3>1 DEF Visited
  <2> QED BY <2>1, <2>2
<1>3. ASSUME NEW c \in Containers(ms), NEW k \in Visits(ms, c) \cap (K \cup {m})
      PROVE  <<k, Path(ms, c)>> \in dd
  BY <1>1 DEF Visiting, Visited
<1> QED BY <1>2, <1>3 DEF Visited

LEMMA EarlierMedia ==
  ASSUME NEW ms, Fit(ms), NEW m \in Media(ms)
  PROVE  /\ LoopGoesOn(m, LastMedium(ms, Root)) =>
              \/ NextMedium(m) = m + 1 /\ Earlier(ms, NextMedium(m)) = Earlier(ms, m) \cup {m}
              \/ NextMedium(m) = m /\ LastMedium(ms, Root) = MaxMedium
         /\ ~LoopGoesOn(m, LastMedium(ms, Root)) =>
              /\ m = LastMedium(ms, Root) /\ LastMedium(ms, Root) < MaxMedium
              /\ Media(ms) = Earlier(ms, m) \cup {m}
<1>1. LastMedium(ms, Root) \in MediumNumber
  BY Survey DEF Surveyed
<1> HIDE DEF Fit
<1> DEFINE last == LastMedium(ms, Root)
<1> HIDE DEF last
<1>2. last \in Nat /\ last <= MaxMedium /\ m \in Nat /\ 1 <= m /\ m <= last /\ MaxMedium \in Nat
  BY <1>1, MediumAssumption DEF MediumAssumption, Media, MediumNumber, FirstMedium, last
<1>3. Earlier(ms, m) = {k \in 1 .. last : k < m} /\ Media(ms) = 1 .. last
  BY DEF Earlier, Media, FirstMedium, last
<1>4. CASE m < MaxMedium
  <2>1. NextMedium(m) = m + 1
    BY <1>4 DEF NextMedium
  <2>2. LoopGoesOn(m, last) <=> m + 1 <= last
    BY <2>1 DEF LoopGoesOn
  <2>3. Earlier(ms, m + 1) = {k \in 1 .. last : k < m + 1}
    BY DEF Earlier, Media, FirstMedium, last
  <2>4. {k \in 1 .. last : k < m + 1} = {k \in 1 .. last : k < m} \cup {m}
    BY <1>2
  <2>5. m + 1 > last => m = last /\ 1 .. last = {k \in 1 .. last : k < m} \cup {m}
    BY <1>2
  <2> QED BY <1>2, <1>3, <1>4, <2>1, <2>2, <2>3, <2>4, <2>5 DEF last
<1>5. CASE ~(m < MaxMedium)
  <2>1. NextMedium(m) = m
    BY <1>5 DEF NextMedium
  <2>2. m = last /\ last = MaxMedium
    BY <1>2, <1>5
  <2>3. LoopGoesOn(m, last)
    BY <1>2, <2>1, <2>2 DEF LoopGoesOn
  <2> QED BY <2>1, <2>2, <2>3 DEF last
<1> QED BY <1>4, <1>5

LEMMA MediumExportedExact ==
  ASSUME CompilerSound, CompilerExact, MediumExported
  PROVE  CompilerExact'
<1> DEFINE s == source
           ms == source.ms
           last == LastMedium(ms, Root)
<1>1. /\ Fit(ms) /\ medium \in Media(ms) /\ phase = "export"
      /\ source' = source /\ disk' = disk /\ dirs' = dirs /\ todo = {}
      /\ Exports(source, disk, dirs, "export", medium, {})
  BY SourcesFit DEF CompilerSound, CompilerExact, MediumExported, Set
<1>2. /\ Traces(s, disk, dirs) /\ Unread(s, disk, Load \cup Batch)
      /\ Visited(s, disk, dirs, Earlier(ms, medium))
      /\ Visited(s, disk, dirs, Earlier(ms, medium) \cup {medium})
      /\ VisitedOnly(s, disk, Earlier(ms, medium) \cup {medium})
      /\ \A p \in {"medium", "loads"} : \A m : ListsSoFar(s, disk, p, m)
  BY <1>1, MediumVisited DEF Exports, ListsSoFar
<1>3. CASE LoopGoesOn(medium, last)
  <2>1. phase' = "medium" /\ medium' = NextMedium(medium) /\ todo' = {}
    BY <1>1, <1>3 DEF MediumExported, LastMediumNumber, Set
  <2>2. \/ Earlier(ms, medium') = Earlier(ms, medium) \cup {medium}
        \/ medium' = medium /\ last = MaxMedium
    BY <1>1, <1>3, <2>1, EarlierMedia
  <2>3. last = MaxMedium => ~(last < MaxMedium)
    BY MediumAssumption DEF MediumAssumption
  <2>4. Visited(s, disk, dirs, Earlier(ms, medium')) /\ VisitedOnly(s, disk, Earlier(ms, medium'))
    BY <1>2, <2>2, <2>3 DEF VisitedOnly
  <2> QED BY <1>1, <1>2, <2>1, <2>4
          DEF CompilerExact, Exports, AfterMedia, AfterLoads, AfterBatches
<1>4. CASE ~LoopGoesOn(medium, last)
  <2>1. phase' = "loads" /\ medium' = FirstMedium /\ todo' = Files(ms) \cap Load
    BY <1>1, <1>4, Survey DEF MediumExported, LastMediumNumber, Set, Enter, Surveyed
  <2>2. Visited(s, disk, dirs, Media(ms)) /\ last < MaxMedium
    BY <1>1, <1>2, <1>4, EarlierMedia
  <2>3. Unread(s, disk, todo') /\ Unread(s, disk, Batch) /\ todo' \subseteq Load
    BY <1>2, <2>1 DEF Unread
  <2> QED BY <1>1, <1>2, <2>1, <2>2, <2>3
          DEF CompilerExact, Exports, AfterMedia, AfterLoads, AfterBatches
<1> QED BY <1>3, <1>4

LEMMA LoadsExportedExact ==
  ASSUME CompilerSound, CompilerExact, LoadsExported
  PROVE  CompilerExact'
<1>1. /\ Fit(source.ms) /\ source' = source /\ disk' = disk /\ dirs' = dirs /\ phase = "loads"
      /\ phase' = "batches" /\ todo' = Files(source.ms) \cap Batch
      /\ Exports(source, disk, dirs, "loads", medium, todo)
  BY SourcesFit, Survey DEF CompilerSound, CompilerExact, LoadsExported, Enter, Surveyed, Set
<1>2. Unread(source, disk, todo') /\ todo' \subseteq Batch
  BY <1>1 DEF Exports, Unread
<1>3. \A m : ListsSoFar(source, disk, "batches", m)
  BY <1>1 DEF Exports, ListsSoFar
<1> QED BY <1>1, <1>2, <1>3
        DEF CompilerExact, Exports, AfterMedia, AfterLoads, AfterBatches

LEMMA BatchesExportedExact ==
  ASSUME CompilerSound, CompilerExact, BatchesExported
  PROVE  CompilerExact'
<1>1. /\ source' = source /\ disk' = disk /\ dirs' = dirs /\ phase = "batches"
      /\ phase' = "loadLists"
      /\ Exports(source, disk, dirs, "batches", medium, todo)
  BY DEF CompilerExact, BatchesExported, Enter
<1>2. \A m : ListsSoFar(source, disk, "loadLists", m)
  BY <1>1 DEF Exports, ListsSoFar
<1> QED BY <1>1, <1>2
        DEF CompilerExact, Exports, AfterMedia, AfterLoads, AfterBatches

(* A load header or a batch file is written.                               *)
LEMMA ExportExact ==
  ASSUME CompilerSound, CompilerExact, NEW f \in todo, NEW content, f \in Load \cup Batch,
         phase \in {"loads", "batches"}, Exportable(f),
         WriteFile(Location(Set, f), content),
         todo' = todo \ {f}, UNCHANGED <<source, phase, medium, dirs>>
  PROVE  CompilerExact'
<1> DEFINE s == source
           ms == source.ms
           rest == todo \ {f}
<1>1. /\ Fit(ms) /\ f \in Files(ms) /\ phase # "failed"
      /\ Exports(source, disk, dirs, phase, medium, todo)
  BY SourcesFit DEF CompilerSound, CompilerExact, Set, Files, File
<1>2. /\ Extends(disk, disk', Location(ms, f), content)
      /\ <<EffectiveMedium(ms, f), Front(Path(ms, f))>> \in dirs
      /\ TakenOver(s, f) => s.original[f] # "missing"
  BY WritingExtends, TakenOverCopied DEF Exportable, Creatable, Location, Set
<1>3. /\ Grows(disk, disk')
      /\ \A g \in Files(ms) : Reads(s, disk', g) <=> Reads(s, disk, g) \/ g = f
  BY <1>1, <1>2, ReadsAfter
<1>4. Traces(s, disk', dirs) /\ ListsSoFar(s, disk', phase, medium)
  BY <1>1, <1>2, FileTraced, FileListsSoFar DEF Exports
<1>5. Visited(s, disk', dirs, Media(ms))
  BY <1>1, <1>3, VisitedKept DEF Exports, AfterMedia, AfterLoads
<1>6. CASE phase = "loads"
  <2>1. todo \subseteq Load /\ Unread(s, disk, todo) /\ Unread(s, disk, Batch)
    BY <1>1, <1>6 DEF Exports
  <2>2. rest \subseteq Load /\ Unread(s, disk', rest) /\ Unread(s, disk', Batch)
    BY <1>3, <2>1, Classes DEF Unread
  <2> HIDE DEF rest
  <2> QED BY <1>1, <1>4, <1>5, <1>6, <2>2
          DEF CompilerExact, Exports, AfterMedia, AfterLoads, AfterBatches, rest
<1>7. CASE phase = "batches"
  <2>1. todo \subseteq Batch /\ Unread(s, disk, todo)
    BY <1>1, <1>7 DEF Exports
  <2>2. rest \subseteq Batch /\ Unread(s, disk', rest)
    BY <1>3, <2>1 DEF Unread
  <2> QED BY <1>1, <1>4, <1>5, <1>7, <2>2
          DEF CompilerExact, Exports, AfterMedia, AfterLoads, AfterBatches
<1> QED BY <1>6, <1>7

LEMMA ExportLoadExact ==
  ASSUME CompilerSound, CompilerExact, NEW l \in Load, ExportLoad(l)
  PROVE  CompilerExact'
<1>1. \E content : WriteFile(Location(Set, l), content)
  BY DEF ExportLoad, CreateFile
<1> QED BY <1>1, ExportExact DEF ExportLoad

LEMMA ExportBatchExact ==
  ASSUME CompilerSound, CompilerExact, NEW b \in Batch, ExportBatch(b)
  PROVE  CompilerExact'
<1>1. \E content : WriteFile(Location(Set, b), content)
  BY DEF ExportBatch, CreateFile
<1> QED BY <1>1, ExportExact DEF ExportBatch

LEMMA FrontOfOne ==
  ASSUME NEW n
  PROVE  Front(<<n>>) = <<>>
<1>1. <<n>> \in Seq({n}) /\ Len(<<n>>) = 1
  OBVIOUS
<1>2. SubSeq(<<n>>, 1, 0) \in Seq({n}) /\ Len(SubSeq(<<n>>, 1, 0)) = 0
  BY <1>1, SubSeqProperties
<1>3. SubSeq(<<n>>, 1, 0) = <<>>
  BY <1>2, EmptySeq
<1> QED BY <1>1, <1>3 DEF Front

(* A list is written to the next medium, or the phase is over.             *)
LEMMA ListExact ==
  ASSUME CompilerSound, CompilerExact, NEW here, NEW next, NEW L, NEW content,
         WriteList(here, next, L, content),
         \/ here = "loadLists" /\ next \in {"batchLists", "fileLists"} /\ L = ListOfLoads
         \/ here = "batchLists" /\ next = "fileLists" /\ L = ListOfBatches
         \/ here = "fileLists" /\ next = "compiled" /\ L = ListOfFiles
  PROVE  CompilerExact'
<1> DEFINE s == source
           ms == source.ms
           last == LastMedium(ms, Root)
<1>1. /\ Fit(ms) /\ medium \in Media(ms) /\ phase = here /\ source' = source /\ dirs' = dirs
      /\ Extends(disk, disk', <<medium, L>>, content)
      /\ phase # "failed"
      /\ Exports(source, disk, dirs, here, medium, todo)
  BY SourcesFit, WritingExtends DEF CompilerSound, CompilerExact, WriteList, Creatable, Set
<1>2. here \in AfterBatches /\ here \in AfterMedia /\ L \in {ListOfFiles, ListOfLoads, ListOfBatches}
  BY DEF AfterBatches, AfterLoads, AfterMedia
<1>3. Traces(s, disk, dirs) /\ ListsSoFar(s, disk, here, medium) /\ Visited(s, disk, dirs, Media(ms))
      /\ last < MaxMedium
  BY <1>1, <1>2 DEF Exports
<1>4. <<medium, L>> \notin FileLocations(ms)
  <2> SUFFICES ASSUME NEW f \in Files(ms), Location(ms, f) = <<medium, L>>
               PROVE  FALSE
    BY DEF FileLocations
  <2>1. Path(ms, f) = L
    BY DEF Location
  <2>2. f \in AllFiles(ms, Root)
    BY <1>1, <1>2, <2>1, AtTheTop DEF ListOfFiles, ListOfLoads, ListOfBatches
  <2>3. Reads(s, disk, f)
    BY <1>1, <1>2, <2>2, Classes
       DEF CompilerSound, Progress, AfterMedia, AfterLoads, AllFiles, Files, File, InSet
  <2> QED BY <1>1, <2>3 DEF Reads, Extends
<1>5. \A f \in Files(ms) : Reads(s, disk', f) <=> Reads(s, disk, f)
  BY <1>1, <1>4 DEF Reads, Extends, FileLocations
<1>6. Traces(s, disk', dirs) /\ Visited(s, disk', dirs, Media(ms))
  BY <1>3, <1>5 DEF Traces, Visited
<1>7. ASSUME NEW k, NEW M, <<k, M>> \in DOMAIN disk', <<k, M>> \notin FileLocations(ms)
      PROVE  \/ <<k, M>> \in DOMAIN disk /\ k \in Media(ms)
             \/ k = medium /\ M = L
  BY <1>1, <1>7 DEF Extends, CompilerSound, Tidy, Set
<1>8. ASSUME NEW k \in Media(ms)
      PROVE  k \in Nat
  <2>1. last \in Nat
    BY <1>1, LoopStep
  <2> QED BY <2>1 DEF Media, FirstMedium
<1>9. CASE LoopGoesOn(medium, last)
  <2>1. phase' = here /\ medium' = NextMedium(medium)
    BY <1>9 DEF WriteList, LastMediumNumber, Set
  <2>2. medium' = medium + 1 /\ medium \in Nat
    <3>1. last = MaxMedium => ~(last < MaxMedium)
      BY MediumAssumption DEF MediumAssumption
    <3> QED BY <1>1, <1>3, <1>8, <1>9, <2>1, <3>1, EarlierMedia
  <2>3. ListsSoFar(s, disk', here, medium')
    <3> SUFFICES ASSUME NEW k, NEW M, <<k, M>> \in DOMAIN disk', <<k, M>> \notin FileLocations(ms)
                 PROVE  \/ M = ListOfLoads /\ here = "loadLists" /\ k < medium'
                        \/ M = ListOfLoads /\ here \in {"batchLists", "fileLists", "compiled"}
                        \/ M = ListOfBatches /\ here = "batchLists" /\ k < medium'
                        \/ M = ListOfBatches /\ here \in {"fileLists", "compiled"}
                        \/ M = ListOfFiles /\ here = "fileLists" /\ k < medium'
                        \/ M = ListOfFiles /\ here = "compiled"
      BY DEF ListsSoFar
    <3>1. CASE k = medium /\ M = L
      <4>1. k < medium'
        BY <2>2, <3>1
      <4> QED BY <3>1, <4>1
    <3>2. CASE <<k, M>> \in DOMAIN disk /\ k \in Media(ms)
      <4>1. k < medium => k < medium'
        BY <1>8, <2>2, <3>2
      <4> QED BY <1>3, <3>2, <4>1 DEF ListsSoFar
    <3> QED BY <1>7, <3>1, <3>2
  <2> QED BY <1>1, <1>2, <1>3, <1>6, <2>1, <2>3 DEF CompilerExact, Exports, AfterBatches
<1>10. CASE ~LoopGoesOn(medium, last)
  <2>1. phase' = next
    BY <1>10 DEF WriteList, Enter, LastMediumNumber, Set
  <2>2. ListsSoFar(s, disk', next, medium')
    <3> SUFFICES ASSUME NEW k, NEW M, <<k, M>> \in DOMAIN disk', <<k, M>> \notin FileLocations(ms)
                 PROVE  \/ M = ListOfLoads /\ next \in {"batchLists", "fileLists", "compiled"}
                        \/ M = ListOfBatches /\ next \in {"fileLists", "compiled"}
                        \/ M = ListOfFiles /\ next = "compiled"
      BY DEF ListsSoFar
    <3>1. CASE k = medium /\ M = L
      BY <3>1
    <3>2. CASE <<k, M>> \in DOMAIN disk
      BY <1>3, <3>2 DEF ListsSoFar
    <3> QED BY <1>7, <3>1, <3>2
  <2> QED BY <1>1, <1>3, <1>6, <2>1, <2>2 DEF CompilerExact, Exports
<1> QED BY <1>9, <1>10

LEMMA ExportListsExact ==
  ASSUME CompilerSound, CompilerExact,
         ExportListOfLoads \/ ExportListOfBatches \/ ExportListOfFiles
  PROVE  CompilerExact'
<1>1. CASE ExportListOfLoads
  BY <1>1, ListExact DEF ExportListOfLoads
<1>2. CASE ExportListOfBatches
  BY <1>2, ListExact DEF ExportListOfBatches
<1>3. CASE ExportListOfFiles
  BY <1>3, ListExact DEF ExportListOfFiles
<1> QED BY <1>1, <1>2, <1>3

-----------------------------------------------------------------------------
(* A media set that can be compiled gives no handler a reason to throw.    *)

(* Where a file belongs there is a directory, once the loop over the media *)
(* has been at its medium.                                                 *)
LEMMA DirectoryMade ==
  ASSUME NEW s, Fit(s.ms), NEW D, NEW dd, Visited(s, D, dd, Media(s.ms)), Exportables(s),
         NEW f \in Files(s.ms)
  PROVE  <<EffectiveMedium(s.ms, f), Front(Path(s.ms, f))>> \in dd
<1> DEFINE ms == s.ms
           m == EffectiveMedium(ms, f)
<1>1. f \in Entity /\ InSet(ms, f) /\ m \in Visits(ms, f)
  BY DEF Files, Entity, Exportables
<1>2. ms.parent[f] \in Containers(ms) /\ Front(Path(ms, f)) = Path(ms, ms.parent[f])
  BY <1>1, ParentPath
<1>3. m \in Visits(ms, ms.parent[f]) /\ m \in Media(ms)
  BY <1>1, VisitsUp DEF Visits
<1> QED BY <1>2, <1>3 DEF Visited

(* All regular files are read. *)
LEMMA RegularFilesRead ==
  ASSUME NEW s, Fit(s.ms), NEW D, NEW dd, Visited(s, D, dd, Media(s.ms)), Exportables(s),
         NEW f \in Files(s.ms) \cap RegularFile
  PROVE  Reads(s, D, f)
BY DEF Visited, Exportables, Visits

LEMMA RegularFilesExportable ==
  ASSUME CompilerSound, CompilerExact, Exportables(source), phase = "export",
         NEW f \in todo \cap File
  PROVE  Exportable(f)
<1> DEFINE s == source
           ms == source.ms
<1>1. /\ Fit(ms) /\ f \in Files(ms) /\ f \in Entity
      /\ Visiting(s, disk, dirs, medium, todo)
  BY SourcesFit DEF CompilerSound, CompilerExact, Exports, Set, Files, Entity
<1>2. f \in RegularFile /\ medium \in Visits(ms, f) /\ <<medium, Front(Path(ms, f))>> \in dirs
  BY <1>1, Classes DEF Visiting, File
<1>3. EffectiveMedium(ms, f) = medium
  BY <1>1, <1>2 DEF Exportables
<1>4. ~Reads(s, disk, f)
  BY <1>1, <1>2, InsideClosed DEF Visiting
<1>5. Creatable(Location(Set, f))
  BY <1>2, <1>3, <1>4 DEF Creatable, Location, Reads, Set
<1> QED BY <1>2, <1>5, Classes DEF Exportable

LEMMA LoadsAndBatchesExportable ==
  ASSUME CompilerSound, CompilerExact, Exportables(source), phase \in {"loads", "batches"},
         NEW f \in todo \cap File
  PROVE  Exportable(f)
<1> DEFINE s == source
           ms == source.ms
<1>1. /\ Fit(ms) /\ f \in Files(ms) /\ f \in Load \cup Batch
      /\ Visited(s, disk, dirs, Media(ms)) /\ ~Reads(s, disk, f)
  BY SourcesFit DEF CompilerSound, CompilerExact, Exports, Set, Files, AfterMedia, AfterLoads, Unread
<1>2. Creatable(Location(Set, f))
  BY <1>1, DirectoryMade DEF Creatable, Location, Reads, Set
<1>3. Copied(f) => source.original[f] # "missing"
  BY <1>1, TakenOverCopied DEF Exportables
<1>4. f \in Load => \A g \in Set.data[f] \cup Set.support[f] : Readable(g)
  BY <1>1, LinkedFiles, RegularFilesRead DEF Readable, Reads, Set
<1> QED BY <1>2, <1>3, <1>4 DEF Exportable

LEMMA ListsCreatable ==
  ASSUME CompilerSound, CompilerExact, Exportables(source), NEW L,
         \/ phase = "loadLists" /\ L = ListOfLoads
         \/ phase = "batchLists" /\ L = ListOfBatches
         \/ phase = "fileLists" /\ L = ListOfFiles
  PROVE  Creatable(<<medium, L>>)
<1> DEFINE s == source
           ms == source.ms
<1>1. /\ Fit(ms) /\ medium \in Media(ms)
      /\ Visited(s, disk, dirs, Media(ms)) /\ ListsSoFar(s, disk, phase, medium)
  BY SourcesFit
     DEF CompilerSound, CompilerExact, Exports, Set, AfterMedia, AfterLoads, AfterBatches
<1>2. Path(ms, Root) = <<>> /\ Root \in Containers(ms) /\ medium \in Visits(ms, Root)
  BY <1>1, RootPath DEF Visits
<1>3. <<medium, <<>>>> \in dirs
  BY <1>1, <1>2 DEF Visited
<1>4. \A n : Front(<<n>>) = <<>>
  BY FrontOfOne
<1>5. Front(L) = <<>>
  BY <1>4 DEF ListOfLoads, ListOfBatches, ListOfFiles
<1>6. L \in ListNames(ms)
  BY DEF CompilerSound, Progress, ListNames
<1>7. <<medium, L>> \notin FileLocations(ms)
  BY <1>1, <1>6, ListsApart DEF Exportables
<1>8. ~(medium < medium)
  <2>1. medium \in Nat
    BY <1>1, LoopStep
  <2> QED BY <2>1
<1>9. <<medium, L>> \notin DOMAIN disk
  BY <1>1, <1>7, <1>8, ListNamesDiffer DEF ListsSoFar
<1> QED BY <1>3, <1>5, <1>9 DEF Creatable

LEMMA CompilationFailsExact ==
  ASSUME CompilerSound, CompilerExact, CompilationFails
  PROVE  CompilerExact'
<1> SUFFICES ASSUME Exportables(source)
             PROVE  FALSE
  BY DEF CompilationFails, CompilerExact
<1>1. \A f \in todo \cap File : phase \in {"export", "loads", "batches"} => Exportable(f)
  BY RegularFilesExportable, LoadsAndBatchesExportable
<1>2. phase = "export" => \A d \in todo : <<medium, Front(Path(Set, d))>> \in dirs
  BY DEF CompilerExact, Exports, Visiting, Set
<1>3. /\ phase = "loadLists" => Creatable(<<medium, ListOfLoads>>)
      /\ phase = "batchLists" => Creatable(<<medium, ListOfBatches>>)
      /\ phase = "fileLists" => Creatable(<<medium, ListOfFiles>>)
  BY ListsCreatable
<1>4. ASSUME phase = "fileLists", NEW f \in Files(Set)
      PROVE  Readable(f)
  <2>1. Fit(source.ms) /\ Visited(source, disk, dirs, Media(source.ms))
    BY <1>4, SourcesFit
       DEF CompilerSound, CompilerExact, Exports, AfterMedia, AfterLoads, AfterBatches
  <2>2. CASE f \in RegularFile
    BY <1>4, <2>1, <2>2, RegularFilesRead DEF Readable, Reads, Set
  <2>3. CASE f \in Load \cup Batch
    BY <1>4, <2>3 DEF CompilerSound, Progress, AfterLoads, AfterBatches, Readable, Reads, Set
  <2> QED BY <2>2, <2>3 DEF Files, File
<1> QED BY <1>1, <1>2, <1>3, <1>4 DEF CompilationFails

(* Before the first medium nothing is exported.                            *)
LEMMA NothingExported ==
  ASSUME NEW s, Fit(s.ms), NEW D, DOMAIN D = {}, NEW p \in {"paths", "medium"}
  PROVE  Exports(s, D, {}, p, FirstMedium, {})
<1>1. Earlier(s.ms, FirstMedium) = {}
  <2>1. LastMedium(s.ms, Root) \in Nat
    BY Survey DEF Surveyed, MediumNumber
  <2> HIDE DEF Fit
  <2> QED BY <2>1 DEF Earlier, Media, FirstMedium
<1>2. \A f : ~Reads(s, D, f)
  BY DEF Reads
<1> QED BY <1>1, <1>2
        DEF Exports, Traces, ListsSoFar, Visited, Unread, VisitedOnly,
            AfterMedia, AfterLoads, AfterBatches

LEMMA SetMediaPathsExact ==
  ASSUME CompilerSound, CompilerExact, PathsFirst, SetMediaPaths
  PROVE  CompilerExact'
<1>1. Fit(source.ms) /\ source' = source /\ disk' = disk /\ dirs' = dirs
  BY SourcesFit DEF CompilerSound, SetMediaPaths
<1>2. DOMAIN disk = {} /\ dirs = {} /\ todo = {} /\ phase = "paths"
  BY DEF PathsFirst, SetMediaPaths
<1>3. CASE phase' = "paths" /\ todo' = todo
  <2>1. Exports(source, disk, dirs, phase, medium, todo)
    BY <1>2 DEF CompilerExact
  <2>2. Exports(source, disk, dirs, "paths", medium', todo)
    BY <1>2, <2>1 DEF Exports, ListsSoFar, AfterMedia, AfterLoads, AfterBatches
  <2> QED BY <1>1, <1>3, <2>2 DEF CompilerExact
<1>4. CASE phase' = "medium" /\ medium' = FirstMedium /\ todo' = {}
  <2>1. Exports(source, disk, {}, "medium", FirstMedium, {})
    BY <1>1, <1>2, NothingExported
  <2> QED BY <1>1, <1>2, <1>4, <2>1 DEF CompilerExact
<1> QED BY <1>2, <1>3, <1>4 DEF SetMediaPaths, Enter

LEMMA CompileExact ==
  ASSUME CompilerSound, CompilerExact, PathsFirst, Compile
  PROVE  CompilerExact'
BY SetMediaPathsExact, CreateMediumExact, MediumExportedExact, LoadsExportedExact,
   BatchesExportedExact, ExportRegularFileExact, ExportDirectoryExact, ExportLoadExact,
   ExportBatchExact, ExportListsExact, CompilationFailsExact DEF Compile

LEMMA InitCompilerExact ==
  ASSUME Init
  PROVE  CompilerExact
<1>1. /\ source \in Source /\ phase = "paths" /\ medium = FirstMedium /\ todo = {} /\ dirs = {}
      /\ DOMAIN disk = {}
  BY DEF Init, CompilerInit, NoFiles
<1>2. Exports(source, disk, {}, "paths", FirstMedium, {})
  BY <1>1, SourcesFit, NothingExported
<1> QED BY <1>1, <1>2 DEF CompilerExact

(* A compilation that came to its end has shown that it could.             *)
LEMMA CompiledExact ==
  ASSUME CompilerSound, CompilerExact, phase = "compiled"
  PROVE  Exportables(source)
<1> DEFINE s == source
           ms == source.ms
<1>1. /\ Fit(ms) /\ Traces(s, disk, dirs) /\ Visited(s, disk, dirs, Media(ms))
      /\ LastMedium(ms, Root) < MaxMedium
  BY SourcesFit
     DEF CompilerSound, CompilerExact, Exports, AfterMedia, AfterLoads, AfterBatches
<1>2. /\ \A f \in Files(ms) : Reads(s, disk, f)
      /\ ListsDone(s, disk, ListOfFiles, LastMedium(ms, Root))
      /\ ListsDone(s, disk, ListOfLoads, LastMedium(ms, Root))
      /\ HasBatchList(ms) => ListsDone(s, disk, ListOfBatches, LastMedium(ms, Root))
  BY CompiledDisk DEF Set
<1>3. ASSUME NEW f \in Files(ms)
      PROVE  EffectiveMedium(ms, f) \in Visits(ms, f)
  <2>1. f \in Entity /\ InSet(ms, f) /\ f \in File
    BY DEF Files, Entity
  <2>2. /\ ms.parent[f] \in Containers(ms) /\ Front(Path(ms, f)) = Path(ms, ms.parent[f])
        /\ <<EffectiveMedium(ms, f), Front(Path(ms, f))>> \in dirs
    BY <1>1, <1>2, <2>1, ParentPath DEF Traces
  <2>3. PICK c \in Containers(ms) : /\ Path(ms, ms.parent[f]) = Path(ms, c)
                                    /\ EffectiveMedium(ms, f) \in Visits(ms, c)
    BY <1>1, <2>2 DEF Traces
  <2>4. c = ms.parent[f]
    BY <1>1, <2>2, <2>3, ContainerPaths
  <2> QED BY <1>1, <2>1, <2>3, <2>4, VisitsDown
<1>4. \A f \in Files(ms) \cap RegularFile : \A i, j \in Visits(ms, f) : i = j
  <2>1. \A f : Visits(ms, f) \cap Media(ms) = Visits(ms, f)
    BY DEF Visits
  <2> QED BY <1>1, <2>1 DEF Visited
<1>5. \A f \in Files(ms) \cap (Load \cup Batch) : TakenOver(s, f) => s.original[f] # "missing"
  BY <1>1, <1>2 DEF Traces
<1>6. ASSUME NEW f \in AllFiles(ms, Root), <<ms.name[f]>> \in ListNames(ms)
      PROVE  FALSE
  <2>1. f \in Files(ms)
    BY Classes DEF AllFiles, Files, InSet
  <2>2. Path(ms, f) = <<ms.name[f]>>
    <3>1. Tree(ms) /\ ms.name \in [Entity -> Name]
      BY <1>1 DEF Fit, Proper, MediaSetType
    <3>2. Path(ms, f) = Append(<<>>, ms.name[f])
      BY <1>1, <2>1, <3>1, PathOfFile, RootPath, ZenonT(30) DEF AllFiles
    <3> QED BY <3>2
  <2>3. EffectiveMedium(ms, f) \in 1 .. LastMedium(ms, Root)
    BY <1>1, <2>1, Survey DEF Surveyed, Media, FirstMedium
  <2>4. <<EffectiveMedium(ms, f), <<ms.name[f]>>>> \notin FileLocations(ms)
    BY <1>2, <1>6, <2>3 DEF ListsDone, ListNames
  <2> QED BY <2>1, <2>2, <2>4 DEF FileLocations, Location
<1> QED BY <1>1, <1>3, <1>4, <1>5, <1>6 DEF Exportables

(* A compilation reports success exactly for the media sets that           *)
(* CanBeCompiled describes: whatever the order in which the directories    *)
(* and files are exported, the handlers throw for all others that are      *)
(* begun and for none of those. What reaches the largest medium number is  *)
(* never begun.                                                            *)
THEOREM CompilesExactly == Spec => []CompilesWhatItCan
<1>1. CompilerSound /\ CompilerExact /\ PathsFirst /\ [Next]_vars => CompilerExact'
  <2> SUFFICES ASSUME CompilerSound, CompilerExact, PathsFirst, [Next]_vars
               PROVE  CompilerExact'
    OBVIOUS
  <2>1. CASE Send
    BY <2>1, CompileExact DEF Send
  <2>2. CASE UNCHANGED compilerVars
    BY <2>2 DEF compilerVars, CompilerExact
  <2>3. OnTheWay => UNCHANGED compilerVars
    BY DEF OnTheWay, Ship, Lose, Damage, Exchange, TakeEarlier, Disorder, Fault
  <2>4. Receive => UNCHANGED compilerVars
    BY DEF Receive
  <2> QED BY <2>1, <2>2, <2>3, <2>4 DEF Next, vars
<1>2. CompilerSound /\ CompilerExact /\ PathsFirst => CompilesWhatItCan
  <2> SUFFICES ASSUME CompilerSound, CompilerExact, PathsFirst
               PROVE  CompilesWhatItCan
    OBVIOUS
  <2>1. CanBeCompiled <=> Exportables(source)
    BY SourcesFit, CanCompile DEF CompilerSound
  <2>2. LastMediumNumber = MaxMedium => phase = "paths"
    BY MediumAssumption DEF MediumAssumption, PathsFirst
  <2> QED BY <2>1, <2>2, CompiledExact DEF CompilesWhatItCan, CompilerExact
<1> QED BY <1>1, <1>2, InitCompilerExact, CompilerSoundness, PathsComeFirst, PTL DEF Spec
-----------------------------------------------------------------------------
(* The media of an edition, as Image says.                                 *)

(* A list of the files for medium m that was made on a disk with these     *)
(* contents of regular files.                                              *)
ListFor(s, c, m, value) ==
  \E D : /\ c = FileList(s.ms, s.version, m, D)
         /\ \A f \in Files(s.ms) \cap RegularFile : D[Location(s.ms, f)] = Data(value[f])

(* The files M of the media have, at the place of medium m, medium k of    *)
(* the edition with these contents, as far as regular files and the list   *)
(* of files tell.                                                          *)
Edition(s, M, m, k, value) ==
  /\ <<m, ListOfFiles>> \in DOMAIN M /\ ListFor(s, M[<<m, ListOfFiles>>], k, value)
  /\ \A f \in Files(s.ms) \cap RegularFile :
       EffectiveMedium(s.ms, f) = k =>
         <<m, Path(s.ms, f)>> \in DOMAIN M /\ M[<<m, Path(s.ms, f)>>] = Data(value[f])

(* What the decompiler takes from list files is typed.                     *)
Legible(c) ==
  /\ c.kind = "fileList" => \A e \in c.files : e.medium \in MediumNumber
  /\ c.kind = "loadList" => \A e \in c.loads : e.medium \in MediumNumber

LEMMA FileMedium ==
  ASSUME NEW ms, Fit(ms), NEW f \in Files(ms)
  PROVE  EffectiveMedium(ms, f) \in MediumNumber
<1>1. Tree(ms) /\ ms.medium \in [File \cup Container -> Optional(MediumNumber)]
  BY DEF Fit, Proper, MediaSetType
<1> QED BY <1>1, EffectiveMediumTyping

(* The entry of a file in a list of files.                                 *)
Entry(ms, v, D, f) ==
  FileInfo(v, ms.name[f], Front(Path(ms, f)), EffectiveMedium(ms, f),
           EffectiveCheckType(ms, <<f, "file">>), D)

LEMMA FileListFields ==
  ASSUME NEW ms, Fit(ms), NEW v, NEW m, NEW D
  PROVE  /\ FileList(ms, v, m, D).kind = "fileList" /\ FileList(ms, v, m, D).medium = m
         /\ FileList(ms, v, m, D).members = LastMedium(ms, Root)
         /\ FileList(ms, v, m, D).files = {Entry(ms, v, D, f) : f \in Files(ms)}
<1>1. RecursiveFiles(ms, Root, NoValue) = Files(ms)
  BY Survey DEF Surveyed
<1>2. FileList(ms, v, m, D).files
        = {Entry(ms, v, D, f) : f \in RecursiveFiles(ms, Root, NoValue)}
  BY DEF FileList, Entry
<1> QED BY <1>1, <1>2 DEF FileList

LEMMA ListsLegible ==
  ASSUME NEW ms, Fit(ms), NEW v, NEW m, NEW D
  PROVE  Legible(FileList(ms, v, m, D)) /\ Legible(LoadList(ms, m)) /\ Legible(BatchList(ms, m))
<1>1. /\ RecursiveFiles(ms, Root, NoValue) = Files(ms)
      /\ RecursiveLoads(ms) \subseteq Files(ms)
      /\ \A f \in Files(ms) : EffectiveMedium(ms, f) \in MediumNumber
  BY Survey, FileMedium DEF Surveyed
<1>2. Legible(FileList(ms, v, m, D))
  <2>1. \A f : Entry(ms, v, D, f).medium = EffectiveMedium(ms, f)
    BY DEF Entry, FileInfo
  <2> QED BY <1>1, <2>1, FileListFields DEF Legible
<1>3. Legible(LoadList(ms, m))
  BY <1>1 DEF Legible, LoadList
<1>4. Legible(BatchList(ms, m))
  BY DEF Legible, BatchList
<1> QED BY <1>2, <1>3, <1>4

LEMMA FilesLegible ==
  ASSUME NEW ms, NEW v, NEW value, NEW f, NEW D
  PROVE  /\ Legible(Data(value)) /\ Legible(LoadHeader(ms, v, f, D)) /\ Legible(BatchContent(ms, f))
         /\ Legible(FileContent(ms, v, value, f))
<1>1. Legible(Data(value)) /\ Legible(Data(value[f]))
  BY DEF Legible, Data
<1>2. \A E : Legible(LoadHeader(ms, v, f, E))
  BY DEF Legible, LoadHeader
<1>3. Legible(BatchContent(ms, f))
  BY DEF Legible, BatchContent
<1> QED BY <1>1, <1>2, <1>3 DEF FileContent

LEMMA ImageLegible ==
  ASSUME NEW ms, Fit(ms), NEW v, NEW value
  PROVE  \A loc \in DOMAIN Image(ms, v, value) : Legible(Image(ms, v, value)[loc])
<1> DEFINE sides == FirstMedium .. LastMedium(ms, Root)
           files == [loc \in FileLocations(ms) |->
                       FileContent(ms, v, value, CHOOSE f \in Files(ms) : Location(ms, f) = loc)]
           loadLists == [loc \in sides \X {ListOfLoads} |-> LoadList(ms, loc[1])]
           batchLists == [loc \in sides \X (IF HasBatchList(ms) THEN {ListOfBatches} ELSE {}) |->
                            BatchList(ms, loc[1])]
           listed == Extended(files, Extended(loadLists, batchLists))
           fileLists == [loc \in sides \X {ListOfFiles} |-> FileList(ms, v, loc[1], listed)]
           Clear(D) == \A loc \in DOMAIN D : Legible(D[loc])
<1>1. ASSUME NEW D, NEW E, Clear(D), Clear(E)
      PROVE  Clear(Extended(D, E))
  BY <1>1 DEF Extended
<1>2. Clear(files)
  BY FilesLegible
<1>3. Clear(loadLists) /\ Clear(batchLists)
  BY ListsLegible
<1>4. Clear(fileLists)
  <2> HIDE DEF listed
  <2> QED BY ListsLegible
<1>5. Clear(Extended(listed, fileLists))
  <2> HIDE DEF Clear, files, loadLists, batchLists, fileLists
  <2> QED BY <1>1, <1>2, <1>3, <1>4
<1>6. Image(ms, v, value) = Extended(listed, fileLists)
  BY DEF Image
<1> HIDE DEF listed, fileLists
<1> QED BY <1>5, <1>6

(* On media where no file takes the place of the list of files.            *)
LEMMA ImageEdition ==
  ASSUME NEW s, Fit(s.ms), NEW value, NEW m \in Media(s.ms),
         <<m, ListOfFiles>> \notin FileLocations(s.ms)
  PROVE  Edition(s, Image(s.ms, s.version, value), m, m, value)
<1> DEFINE ms == s.ms
           v == s.version
           sides == FirstMedium .. LastMedium(ms, Root)
           files == [loc \in FileLocations(ms) |->
                       FileContent(ms, v, value, CHOOSE f \in Files(ms) : Location(ms, f) = loc)]
           loadLists == [loc \in sides \X {ListOfLoads} |-> LoadList(ms, loc[1])]
           batchLists == [loc \in sides \X (IF HasBatchList(ms) THEN {ListOfBatches} ELSE {}) |->
                            BatchList(ms, loc[1])]
           lists == Extended(loadLists, batchLists)
           listed == Extended(files, lists)
           fileLists == [loc \in sides \X {ListOfFiles} |-> FileList(ms, v, loc[1], listed)]
<1>1. ASSUME NEW f \in Files(ms) \cap RegularFile
      PROVE  Location(ms, f) \in DOMAIN files /\ files[Location(ms, f)] = Data(value[f])
  <2> DEFINE found == CHOOSE g \in Files(ms) : Location(ms, g) = Location(ms, f)
  <2>1. found \in Files(ms) /\ Location(ms, found) = Location(ms, f)
    OBVIOUS
  <2>2. found = f
    BY <2>1, LocationsDiffer
  <2>3. Location(ms, f) \in FileLocations(ms)
    BY DEF FileLocations
  <2> QED BY <2>2, <2>3 DEF FileContent
<1>2. <<m, ListOfFiles>> \notin DOMAIN lists
  BY ListNamesDiffer DEF Extended
<1>3. <<m, ListOfFiles>> \in DOMAIN fileLists
      /\ fileLists[<<m, ListOfFiles>>] = FileList(ms, v, m, listed)
  <2> HIDE DEF listed
  <2> QED BY DEF Media
<1>4. Image(ms, v, value) = Extended(listed, fileLists)
  BY DEF Image
<1> HIDE DEF lists, fileLists
<1>5. <<m, ListOfFiles>> \notin DOMAIN listed
  BY <1>2 DEF Extended
<1> HIDE DEF files
<1>6. \A f \in Files(ms) \cap RegularFile :
        Location(ms, f) \in DOMAIN listed /\ listed[Location(ms, f)] = Data(value[f])
  BY <1>1 DEF Extended
<1> HIDE DEF listed
<1>7. \A f \in Files(ms) \cap RegularFile :
        /\ Location(ms, f) \in DOMAIN Image(ms, v, value)
        /\ Image(ms, v, value)[Location(ms, f)] = Data(value[f])
  BY <1>4, <1>6 DEF Extended
<1>8. /\ <<m, ListOfFiles>> \in DOMAIN Image(ms, v, value)
      /\ Image(ms, v, value)[<<m, ListOfFiles>>] = FileList(ms, v, m, listed)
  BY <1>3, <1>4, <1>5 DEF Extended
<1> QED BY <1>6, <1>7, <1>8 DEF Edition, ListFor, Location

-----------------------------------------------------------------------------
(* Type correctness.                                                       *)

Pair(loc) == loc = <<loc[1], loc[2]>>

Typed(f) == f.medium \in MediumNumber

(* All that the decompiler has read and may still read is typed.           *)
DecompilerTyped ==
  /\ \A loc \in DOMAIN media : Pair(loc) /\ Legible(media[loc])
  /\ verify \in BOOLEAN
  /\ step \in {"first", "further", "files", "fill", "accepted", "rejected"}
  /\ number \in MediumNumber
  /\ step \in {"further", "files"} =>
       /\ \A e \in fileList.files : Typed(e)
       /\ \A n \in DOMAIN loadInfo : Typed(loadInfo[n])
  /\ \A f \in received.members : Typed(f)
  /\ faults \in Seq(FaultKind)

LEMMA NextMediumTyped ==
  ASSUME NEW m \in MediumNumber
  PROVE  NextMedium(m) \in MediumNumber
BY MediumAssumption DEF MediumAssumption, MediumNumber, NextMedium

LEMMA FirstMediumTyped == FirstMedium \in MediumNumber
BY MediumAssumption DEF MediumAssumption, MediumNumber, FirstMedium

LEMMA ImagePaired ==
  ASSUME NEW ms, NEW v, NEW value
  PROVE  \A loc \in DOMAIN Image(ms, v, value) : Pair(loc)
BY DEF Image, Extended, FileLocations, Location, Pair

LEMMA DiskLegible ==
  ASSUME CompilerSound, phase = "compiled"
  PROVE  \A loc \in DOMAIN disk : Legible(disk[loc])
<1> SUFFICES ASSUME NEW loc \in DOMAIN disk
             PROVE  Legible(disk[loc])
  OBVIOUS
<1>1. Fit(source.ms)
  BY SourcesFit DEF CompilerSound
<1>2. CASE loc \in FileLocations(source.ms)
  <2>1. PICK f \in Files(source.ms) : loc = Location(source.ms, f)
    BY <1>2 DEF FileLocations
  <2>2. disk[loc] = Meant(source, disk, f)
    BY <2>1 DEF CompilerSound, Faithful, Reads
  <2> QED BY <2>2, FilesLegible DEF Meant
<1>3. CASE loc \in Media(source.ms) \X ListNames(source.ms)
  <2>1. PICK m \in Media(source.ms), L \in ListNames(source.ms) : loc = <<m, L>>
    BY <1>3
  <2>2. disk[loc] = ListMeant(source, disk, L, m)
    BY <2>1, CompiledDisk DEF Media, ListNames, ListsDone, FirstMedium, Set
  <2> QED BY <1>1, <2>2, ListsLegible DEF ListMeant
<1> QED BY <1>2, <1>3 DEF CompilerSound, Tidy

LEMMA DiskPaired ==
  ASSUME CompilerSound
  PROVE  \A loc \in DOMAIN disk : Pair(loc)
BY DEF CompilerSound, Tidy, FileLocations, Location, Pair

LEMMA ShipTyped ==
  ASSUME CompilerSound, DecompilerTyped, Ship
  PROVE  DecompilerTyped'
BY DiskLegible, DiskPaired DEF Ship, DecompilerTyped

LEMMA FaultTyped ==
  ASSUME DecompilerTyped, NEW files, NEW kind \in {"damage", "loss", "exchange", "earlier"},
         Fault(kind, files), \A loc \in DOMAIN files : Pair(loc) /\ Legible(files[loc])
  PROVE  DecompilerTyped'
BY DEF Fault, FaultKind, DecompilerTyped

(* The location that one has after media m and n were exchanged.           *)
Swapped(m, n, loc) == <<IF loc[1] = m THEN n ELSE IF loc[1] = n THEN m ELSE loc[1], loc[2]>>

LEMMA SwapTwice ==
  ASSUME NEW m, NEW n, NEW loc, Pair(loc)
  PROVE  Swapped(m, n, Swapped(m, n, loc)) = loc
BY DEF Swapped, Pair

ExchangedMedia(m, n) ==
  [loc \in {Swapped(m, n, x) : x \in DOMAIN media} |-> media[Swapped(m, n, loc)]]

LEMMA ExchangeIsFault ==
  ASSUME NEW m, NEW n, Exchange(m, n)
  PROVE  Fault("exchange", ExchangedMedia(m, n))
BY DEF Exchange, ExchangedMedia, Swapped

(* The files after those at the place of medium m were replaced.           *)
WithEarlier(s, M, m) ==
  LET earlier == Image(s.ms, s.version, s.earlier)
      taken == {loc \in DOMAIN earlier : loc[1] = m}
      kept == {loc \in DOMAIN M : loc[1] # m}
  IN [loc \in taken \cup kept |-> IF loc \in taken THEN earlier[loc] ELSE M[loc]]

LEMMA EarlierIsFault ==
  ASSUME NEW m, TakeEarlier(m)
  PROVE  Fault("earlier", WithEarlier(source, media, m))
BY DEF TakeEarlier, WithEarlier, Set

LEMMA WithEarlierFiles ==
  ASSUME NEW s, NEW M, NEW m
  PROVE  \A loc \in DOMAIN WithEarlier(s, M, m) :
           \/ /\ loc[1] = m /\ loc \in DOMAIN Image(s.ms, s.version, s.earlier)
              /\ WithEarlier(s, M, m)[loc] = Image(s.ms, s.version, s.earlier)[loc]
           \/ /\ loc[1] # m /\ loc \in DOMAIN M
              /\ WithEarlier(s, M, m)[loc] = M[loc]
BY DEF WithEarlier

LEMMA OnTheWayTyped ==
  ASSUME CompilerSound, DecompilerTyped, OnTheWay
  PROVE  DecompilerTyped'
<1>1. ASSUME NEW loc \in DOMAIN media, Lose(loc)
      PROVE  DecompilerTyped'
  <2> DEFINE files == Restrict(media, DOMAIN media \ {loc})
  <2>1. \A x \in DOMAIN files : Pair(x) /\ Legible(files[x])
    BY DEF Restrict, DecompilerTyped
  <2> HIDE DEF files
  <2>2. Fault("loss", files)
    BY <1>1 DEF Lose, files
  <2> QED BY <2>1, <2>2, FaultTyped
<1>2. ASSUME NEW loc \in DOMAIN media, NEW v \in Value, Damage(loc, v)
      PROVE  DecompilerTyped'
  <2> DEFINE files == [media EXCEPT ![loc] = Data(v)]
  <2>1. \A x \in DOMAIN files : Pair(x) /\ Legible(files[x])
    BY DEF DecompilerTyped, Legible, Data
  <2> HIDE DEF files
  <2>2. Fault("damage", files)
    BY <1>2 DEF Damage, files
  <2> QED BY <2>1, <2>2, FaultTyped
<1>3. ASSUME NEW m, NEW n, Exchange(m, n)
      PROVE  DecompilerTyped'
  <2>1. ASSUME NEW x \in DOMAIN media
        PROVE  Pair(Swapped(m, n, x)) /\ Legible(ExchangedMedia(m, n)[Swapped(m, n, x)])
    <3>1. Swapped(m, n, Swapped(m, n, x)) = x
      BY SwapTwice DEF DecompilerTyped
    <3>2. ExchangedMedia(m, n)[Swapped(m, n, x)] = media[x]
      BY <3>1 DEF ExchangedMedia
    <3> QED BY <3>2 DEF DecompilerTyped, Pair, Swapped
  <2>2. \A y \in DOMAIN ExchangedMedia(m, n) : \E x \in DOMAIN media : y = Swapped(m, n, x)
    BY DEF ExchangedMedia
  <2> QED BY <1>3, <2>1, <2>2, ExchangeIsFault, FaultTyped
<1>4. ASSUME NEW m, TakeEarlier(m)
      PROVE  DecompilerTyped'
  <2> DEFINE files == WithEarlier(source, media, m)
  <2>1. Fit(source.ms)
    BY SourcesFit DEF CompilerSound
  <2>2. \A loc \in DOMAIN Image(source.ms, source.version, source.earlier) :
          Pair(loc) /\ Legible(Image(source.ms, source.version, source.earlier)[loc])
    BY <2>1, ImageLegible, ImagePaired
  <2>3. \A x \in DOMAIN files : Pair(x) /\ Legible(files[x])
    BY <2>2, WithEarlierFiles DEF DecompilerTyped
  <2> HIDE DEF files
  <2>4. Fault("earlier", files)
    BY <1>4, EarlierIsFault DEF files
  <2> QED BY <2>3, <2>4, FaultTyped
<1>5. ASSUME NEW d, Disorder(d)
      PROVE  DecompilerTyped'
  BY <1>5 DEF Disorder, decompilerVars, FaultKind, DecompilerTyped
<1> QED BY <1>1, <1>2, <1>3, <1>4, <1>5, ShipTyped DEF OnTheWay

LEMMA ReceiveTyped ==
  ASSUME DecompilerTyped, Receive
  PROVE  DecompilerTyped'
<1>1. faults' = faults
  BY DEF Receive
<1>2. CASE FirstMediumRejected \/ FurtherMediumRejected \/ AmbiguousClass
             \/ \E e \in toAdd : LoadRejected(e) \/ BatchRejected(e)
  BY <1>1, <1>2 DEF FirstMediumRejected, FurtherMediumRejected, AmbiguousClass, LoadRejected,
                    BatchRejected, Reject, DecompilerTyped
<1>3. CASE LoadFirstMedium
  <2> DEFINE list == media[<<FirstMedium, ListOfFiles>>]
             loads == media[<<FirstMedium, ListOfLoads>>].loads
  <2>1. /\ Legible(list) /\ list.kind = "fileList"
        /\ Legible(media[<<FirstMedium, ListOfLoads>>])
        /\ media[<<FirstMedium, ListOfLoads>>].kind = "loadList"
    BY <1>3 DEF LoadFirstMedium, FirstReadable, CanRead, DecompilerTyped
  <2>2. (\A e \in list.files : Typed(e)) /\ (\A e \in loads : Typed(e))
    BY <2>1 DEF Legible, Typed
  <2>3. /\ fileList' = list /\ loadInfo' \in [{l.name : l \in loads} -> loads]
        /\ number' = NextMedium(FirstMedium) /\ step' \in {"further", "files"}
        /\ received' = [received EXCEPT !.lists = received'.lists]
        /\ UNCHANGED <<media, verify>>
    BY <1>3 DEF LoadFirstMedium
  <2>4. received'.members = received.members
    BY <1>3 DEF LoadFirstMedium
  <2>5. number' \in MediumNumber
    BY <2>3, NextMediumTyped, FirstMediumTyped
  <2>6. \A n \in DOMAIN loadInfo' : Typed(loadInfo'[n])
    BY <2>2, <2>3
  <2> QED BY <1>1, <2>2, <2>3, <2>4, <2>5, <2>6 DEF DecompilerTyped
<1>4. CASE LoadFurtherMedium
  <2>1. number' \in MediumNumber
    BY <1>4, NextMediumTyped DEF LoadFurtherMedium, DecompilerTyped
  <2> QED BY <1>1, <1>4, <2>1 DEF LoadFurtherMedium, DecompilerTyped
<1>5. CASE AddFiles
  <2>1. \A f \in received'.members : Typed(f)
    BY <1>5 DEF AddFiles, DecompilerTyped, Typed, Class
  <2> QED BY <1>1, <1>5, <2>1 DEF AddFiles, DecompilerTyped
<1>6. CASE \E e \in toAdd : AddLoad(e) \/ AddBatch(e)
  <2>1. PICK e \in toAdd : AddLoad(e) \/ AddBatch(e)
    BY <1>6
  <2>2. step = "fill" /\ UNCHANGED <<media, verify, step, number>>
    BY <2>1 DEF AddLoad, AddBatch
  <2>3. received'.members = received.members
    <3>1. CASE AddLoad(e)
      <4>1. \E links, types :
              received' = [received EXCEPT !.links = @ \cup links, !.loadTypes = @ \cup types]
        BY <3>1 DEF AddLoad
      <4> QED BY <4>1
    <3>2. CASE AddBatch(e)
      <4>1. \E targets : received' = [received EXCEPT !.targets = @ \cup targets]
        BY <3>2 DEF AddBatch
      <4> QED BY <4>1
    <3> QED BY <2>1, <3>1, <3>2
  <2> QED BY <1>1, <2>2, <2>3 DEF DecompilerTyped
<1>7. CASE Accept
  BY <1>1, <1>7 DEF Accept, DecompilerTyped
<1> QED BY <1>2, <1>3, <1>4, <1>5, <1>6, <1>7 DEF Receive, Decompile

LEMMA CompilerTyped ==
  ASSUME CompilerSound
  PROVE  CompilerTypeOK
<1>1. Fit(Set) /\ source \in SourceType
  BY SourcesFit DEF CompilerSound, Set
<1>2. medium \in MediumNumber
  BY <1>1, LoopStep DEF CompilerSound
<1>3. \A x \in DOMAIN disk : x[1] \in MediumNumber
  <2>1. ASSUME NEW m \in Media(Set)
        PROVE  m \in MediumNumber
    BY <1>1, LoopStep
  <2>2. ASSUME NEW f \in Files(Set)
        PROVE  Location(Set, f)[1] \in MediumNumber
    BY <1>1, FileMedium DEF Location
  <2> QED BY <2>1, <2>2 DEF CompilerSound, Tidy, FileLocations, Set
<1> QED BY <1>1, <1>2, <1>3 DEF CompilerTypeOK, CompilerSound, Phases

LEMMA DecompilerSoundness == Spec => []DecompilerTyped
<1>1. Init => DecompilerTyped
  <2> SUFFICES ASSUME Init
               PROVE  DecompilerTyped
    OBVIOUS
  <2>1. /\ media = <<>> /\ verify = FALSE /\ step = "first" /\ number = FirstMedium
        /\ received.members = {} /\ faults = <<>>
    BY DEF Init, DecompilerInit, NothingReceived
  <2>2. DOMAIN media = {}
    BY <2>1
  <2>3. faults \in Seq(FaultKind)
    <3>1. <<>> \in Seq(FaultKind)
      OBVIOUS
    <3> QED BY <2>1, <3>1
  <2> QED BY <2>1, <2>2, <2>3, FirstMediumTyped DEF DecompilerTyped
<1>2. CompilerSound /\ DecompilerTyped /\ [Next]_vars => DecompilerTyped'
  <2> SUFFICES ASSUME CompilerSound, DecompilerTyped, [Next]_vars
               PROVE  DecompilerTyped'
    OBVIOUS
  <2>1. CASE Send \/ UNCHANGED vars
    BY <2>1 DEF Send, vars, decompilerVars, DecompilerTyped
  <2> QED BY <2>1, OnTheWayTyped, ReceiveTyped DEF Next
<1> QED BY <1>1, <1>2, CompilerSoundness, PTL DEF Spec

(* All variables of the transport keep their types; above all, no loop     *)
(* over media leaves the medium numbers, and no list names another one.    *)
THEOREM Typing == Spec => []TypeOK
<1>1. CompilerSound /\ DecompilerTyped => TypeOK
  BY CompilerTyped DEF DecompilerTyped, Typed, TypeOK
<1> QED BY <1>1, CompilerSoundness, DecompilerSoundness, PTL

-----------------------------------------------------------------------------
(* Editions do not mix: what the media hold on the way.                    *)

Undamaged(F) == Range(F) \cap {"damage", "loss"} = {}

LEMMA UndamagedBefore ==
  ASSUME NEW F \in Seq(FaultKind), NEW kind \in FaultKind, Undamaged(Append(F, kind))
  PROVE  Undamaged(F) /\ kind \notin {"damage", "loss"}
<1>1. Range(Append(F, kind)) = Range(F) \cup {kind}
  <2>1. \A i \in DOMAIN F : i \in DOMAIN Append(F, kind) /\ Append(F, kind)[i] = F[i]
    OBVIOUS
  <2>2. /\ Len(F) + 1 \in DOMAIN Append(F, kind) /\ Append(F, kind)[Len(F) + 1] = kind
        /\ \A i \in DOMAIN Append(F, kind) : i \in DOMAIN F \/ i = Len(F) + 1
    OBVIOUS
  <2> QED BY <2>1, <2>2 DEF Range
<1> QED BY <1>1 DEF Undamaged

ListAt(M, m) == M[<<m, ListOfFiles>>]

(* At every place, the files carry some medium of this or another edition. *)
Listed(s, M) ==
  \A m \in Media(s.ms) :
    /\ <<m, ListOfFiles>> \notin FileLocations(s.ms)
    /\ \E k \in Media(s.ms), value \in {s.value, s.earlier} : Edition(s, M, m, k, value)

Carried(s, M, F) == Undamaged(F) /\ M # <<>> => Listed(s, M)

LEMMA EditionList ==
  ASSUME NEW s, Fit(s.ms), NEW M, NEW m, NEW k, NEW value, Edition(s, M, m, k, value)
  PROVE  ListAt(M, m).medium = k /\ ListAt(M, m).members = LastMedium(s.ms, Root)
BY FileListFields DEF Edition, ListFor, ListAt

(* The lists of files at all places agree on the number of media.          *)
LEMMA ListedMembers ==
  ASSUME NEW s, Fit(s.ms), NEW M, Listed(s, M)
  PROVE  \A m \in Media(s.ms) : ListAt(M, m).members = LastMedium(s.ms, Root)
<1> TAKE m \in Media(s.ms)
<1>1. PICK k \in Media(s.ms), value \in {s.value, s.earlier} : Edition(s, M, m, k, value)
  BY DEF Listed
<1> QED BY <1>1, EditionList

LEMMA ShipCarried ==
  ASSUME CompilerSound, phase = "compiled"
  PROVE  Listed(source, disk)
<1>1. Fit(source.ms)
  BY SourcesFit DEF CompilerSound
<1>2. /\ \A f \in Files(source.ms) : Reads(source, disk, f)
      /\ ListsDone(source, disk, ListOfFiles, LastMedium(source.ms, Root))
  BY CompiledDisk DEF Set
<1>3. ASSUME NEW m \in Media(source.ms)
      PROVE  /\ <<m, ListOfFiles>> \notin FileLocations(source.ms)
             /\ Edition(source, disk, m, m, source.value)
  <2>1. /\ <<m, ListOfFiles>> \in DOMAIN disk /\ <<m, ListOfFiles>> \notin FileLocations(source.ms)
        /\ disk[<<m, ListOfFiles>>] = FileList(source.ms, source.version, m, disk)
    BY <1>2, ListNamesDiffer DEF ListsDone, ListMeant, Media, FirstMedium
  <2>2. \A f \in Files(source.ms) \cap RegularFile :
          /\ Location(source.ms, f) \in DOMAIN disk
          /\ disk[Location(source.ms, f)] = Data(source.value[f])
    BY <1>2 DEF CompilerSound, Faithful, Reads, Meant
  <2> QED BY <2>1, <2>2 DEF Edition, ListFor, Location
<1> QED BY <1>3 DEF Listed

(* Exchanged media are at each other's places.                             *)
LEMMA ExchangeCarried ==
  ASSUME DecompilerTyped, Listed(source, media), NEW m \in Media(source.ms),
         NEW n \in Media(source.ms)
  PROVE  Listed(source, ExchangedMedia(m, n))
<1> DEFINE moved(x) == IF x = m THEN n ELSE IF x = n THEN m ELSE x
<1>1. ASSUME NEW x \in Media(source.ms), NEW path, <<moved(x), path>> \in DOMAIN media
      PROVE  /\ <<x, path>> \in DOMAIN ExchangedMedia(m, n)
             /\ ExchangedMedia(m, n)[<<x, path>>] = media[<<moved(x), path>>]
  <2>1. /\ Swapped(m, n, <<moved(x), path>>) = <<x, path>>
        /\ Swapped(m, n, <<x, path>>) = <<moved(x), path>>
    BY DEF Swapped
  <2> HIDE DEF moved
  <2> QED BY <1>1, <2>1 DEF ExchangedMedia
<1>2. \A x \in Media(source.ms) : moved(x) \in Media(source.ms)
  OBVIOUS
<1> HIDE DEF moved
<1>3. ASSUME NEW x \in Media(source.ms)
      PROVE  \E k \in Media(source.ms), value \in {source.value, source.earlier} :
               Edition(source, ExchangedMedia(m, n), x, k, value)
  <2>1. PICK k \in Media(source.ms), value \in {source.value, source.earlier} :
          Edition(source, media, moved(x), k, value)
    BY <1>2 DEF Listed
  <2>2. Edition(source, ExchangedMedia(m, n), x, k, value)
    BY <1>1, <2>1 DEF Edition
  <2> QED BY <2>2
<1> QED BY <1>3 DEF Listed

(* A medium of the earlier edition is whole, whatever it replaces.         *)
LEMMA EarlierCarried ==
  ASSUME NEW s, Fit(s.ms), NEW M, Listed(s, M), NEW m \in Media(s.ms)
  PROVE  Listed(s, WithEarlier(s, M, m))
<1> DEFINE earlier == Image(s.ms, s.version, s.earlier)
           N == WithEarlier(s, M, m)
<1>1. Edition(s, earlier, m, m, s.earlier)
  BY ImageEdition DEF Listed
<1>2. /\ \A path : <<m, path>> \in DOMAIN earlier =>
                     <<m, path>> \in DOMAIN N /\ N[<<m, path>>] = earlier[<<m, path>>]
      /\ \A x, path : x # m /\ <<x, path>> \in DOMAIN M =>
                        <<x, path>> \in DOMAIN N /\ N[<<x, path>>] = M[<<x, path>>]
  <2> HIDE DEF earlier
  <2> QED BY DEF WithEarlier, earlier
<1> HIDE DEF N, earlier
<1>3. Edition(s, N, m, m, s.earlier)
  BY <1>1, <1>2 DEF Edition
<1>4. ASSUME NEW x \in Media(s.ms), x # m, NEW k, NEW value, Edition(s, M, x, k, value)
      PROVE  Edition(s, N, x, k, value)
  BY <1>2, <1>4 DEF Edition
<1>5. Listed(s, N)
  BY <1>3, <1>4 DEF Listed
<1> QED BY <1>5 DEF N

-----------------------------------------------------------------------------
(* Editions do not mix: what the decompiler has compared.                  *)

(* The list on medium k is that of the first medium but for the number.    *)
Agreed(M, list, k) == ListAt(M, k).files = list.files /\ ListAt(M, k).medium = k

(* Where the decompiler stands, the list that it keeps, and its number of  *)
(* the next medium.                                                        *)
Compared(s, M, st, list, k) ==
  /\ list = ListAt(M, FirstMedium)
  /\ st = "further" => k \in Media(s.ms) /\ \A x \in 1 .. k - 1 : Agreed(M, list, x)
  /\ st # "further" => \A x \in Media(s.ms) : Agreed(M, list, x)

Reading(s, M, F, st, list, k) ==
  /\ st # "first" => M # <<>>
  /\ Undamaged(F) /\ st \in {"further", "files", "fill", "accepted"} => Compared(s, M, st, list, k)

EditionInv ==
  /\ Carried(source, media, faults)
  /\ Reading(source, media, faults, step, fileList, number)

LEMMA FirstMediumCompared ==
  ASSUME CompilerSound, EditionInv, Undamaged(faults), media # <<>>, LoadFirstMedium
  PROVE  Compared(source, media', step', fileList', number')
<1>1. /\ Fit(source.ms) /\ Listed(source, media)
      /\ \A m \in Media(source.ms) : ListAt(media, m).members = LastMedium(source.ms, Root)
  <2>1. Fit(source.ms) /\ Listed(source, media)
    BY SourcesFit DEF CompilerSound, EditionInv, Carried
  <2> QED BY <2>1, ListedMembers
<1>2. /\ FirstMedium \in Media(source.ms) /\ LastMedium(source.ms, Root) \in Nat
  BY <1>1, LoopStep DEF CompilerSound, Set
<1>3. /\ media' = media /\ fileList' = ListAt(media, FirstMedium)
      /\ fileList'.medium = FirstMedium /\ number' = NextMedium(FirstMedium)
      /\ fileList'.members = LastMedium(source.ms, Root)
      /\ step' = IF LoopGoesOn(FirstMedium, LastMedium(source.ms, Root)) THEN "further" ELSE "files"
  BY <1>1, <1>2 DEF LoadFirstMedium, FirstReadable, ListAt
<1>4. Agreed(media', fileList', 1)
  BY <1>3 DEF Agreed, FirstMedium
<1>5. CASE LoopGoesOn(FirstMedium, LastMedium(source.ms, Root))
  <2>1. number' \in Media(source.ms) /\ number' - 1 \in Nat /\ number' - 1 <= 1
    BY <1>1, <1>2, <1>3, <1>5, LoopStep DEF FirstMedium
  <2>2. \A x \in 1 .. number' - 1 : x = 1
    BY <2>1
  <2> QED BY <1>3, <1>4, <1>5, <2>1, <2>2 DEF Compared
<1>6. CASE ~LoopGoesOn(FirstMedium, LastMedium(source.ms, Root))
  <2>1. LastMedium(source.ms, Root) = 1
    BY <1>1, <1>2, <1>6, LoopStep DEF FirstMedium
  <2>2. \A x \in Media(source.ms) : x = 1
    BY <2>1 DEF Media, FirstMedium
  <2> QED BY <1>3, <1>4, <1>6, <2>2 DEF Compared
<1> QED BY <1>5, <1>6

LEMMA FurtherMediumCompared ==
  ASSUME CompilerSound, EditionInv, Undamaged(faults), media # <<>>, LoadFurtherMedium
  PROVE  Compared(source, media', step', fileList', number')
<1>1. /\ Fit(source.ms) /\ Listed(source, media)
      /\ \A m \in Media(source.ms) : ListAt(media, m).members = LastMedium(source.ms, Root)
  <2>1. Fit(source.ms) /\ Listed(source, media)
    BY SourcesFit DEF CompilerSound, EditionInv, Carried
  <2> QED BY <2>1, ListedMembers
<1>2. /\ step = "further" /\ fileList = ListAt(media, FirstMedium)
      /\ number \in Media(source.ms)
      /\ \A x \in 1 .. number - 1 : Agreed(media, fileList, x)
  BY DEF LoadFurtherMedium, EditionInv, Reading, Compared
<1>3. /\ FirstMedium \in Media(source.ms) /\ LastMedium(source.ms, Root) \in Nat /\ number \in Nat
  BY <1>1, <1>2, LoopStep
<1>4. /\ media' = media /\ fileList' = fileList /\ number' = NextMedium(number)
      /\ fileList.members = LastMedium(source.ms, Root)
      /\ step' = IF LoopGoesOn(number, LastMedium(source.ms, Root)) THEN "further" ELSE "files"
      /\ Agreed(media, fileList, number)
  BY <1>1, <1>2, <1>3 DEF LoadFurtherMedium, FurtherMediumAgrees, ListAt, Agreed
<1>5. \A x \in 1 .. number : Agreed(media, fileList, x)
  <2>1. \A x \in 1 .. number : x = number \/ x \in 1 .. number - 1
    BY <1>3
  <2> QED BY <1>2, <1>4, <2>1
<1>6. CASE LoopGoesOn(number, LastMedium(source.ms, Root))
  <2>1. number' \in Media(source.ms) /\ number' - 1 \in Nat /\ number' - 1 <= number
    BY <1>1, <1>2, <1>4, <1>6, LoopStep
  <2>2. \A x \in 1 .. number' - 1 : x \in 1 .. number
    BY <1>3, <2>1
  <2> QED BY <1>2, <1>4, <1>5, <1>6, <2>1, <2>2 DEF Compared
<1>7. CASE ~LoopGoesOn(number, LastMedium(source.ms, Root))
  <2>1. LastMedium(source.ms, Root) = number
    BY <1>1, <1>2, <1>7, LoopStep
  <2> QED BY <1>2, <1>4, <1>5, <1>7, <2>1 DEF Compared, Media, FirstMedium
<1> QED BY <1>6, <1>7

LEMMA ReceiveEdition ==
  ASSUME CompilerSound, EditionInv, Receive
  PROVE  EditionInv'
<1>1. /\ media # <<>> /\ media' = media /\ faults' = faults /\ source' = source
      /\ Carried(source, media, faults)
  BY DEF Receive, Decompile, compilerVars, EditionInv, Reject, LoadFirstMedium, FirstMediumRejected,
         LoadFurtherMedium, FurtherMediumRejected, AddFiles, AmbiguousClass, AddLoad, LoadRejected,
         AddBatch, BatchRejected, Accept
<1> SUFFICES ASSUME Undamaged(faults), step' \in {"further", "files", "fill", "accepted"}
             PROVE  Compared(source, media', step', fileList', number')
  BY <1>1 DEF EditionInv, Reading
<1>2. CASE LoadFirstMedium
  BY <1>1, <1>2, FirstMediumCompared
<1>3. CASE LoadFurtherMedium
  BY <1>1, <1>3, FurtherMediumCompared
<1>4. CASE AddFiles \/ Accept \/ \E e \in toAdd : AddLoad(e) \/ AddBatch(e)
  <2>1. /\ step \in {"files", "fill"} /\ step' \in {"fill", "accepted"} /\ fileList' = fileList
    BY <1>4 DEF AddFiles, Accept, AddLoad, AddBatch
  <2> QED BY <1>1, <2>1 DEF EditionInv, Reading, Compared
<1>5. ~Reject
  BY DEF Reject
<1> QED BY <1>2, <1>3, <1>4, <1>5
        DEF Receive, Decompile, FirstMediumRejected, FurtherMediumRejected, AmbiguousClass,
            LoadRejected, BatchRejected

LEMMA OnTheWayEdition ==
  ASSUME CompilerSound, DecompilerTyped, EditionInv, OnTheWay
  PROVE  EditionInv'
<1>1. source' = source /\ step' = step
  BY DEF OnTheWay, Ship, Lose, Damage, Exchange, TakeEarlier, Disorder, Fault, compilerVars,
         decompilerVars
<1>2. step = "first"
  BY DEF OnTheWay, Ship, Lose, Damage, Exchange, TakeEarlier, Disorder, Fault, EditionInv, Reading
<1>3. Fit(source.ms)
  BY SourcesFit DEF CompilerSound
<1>4. ASSUME NEW kind \in FaultKind, NEW files, Fault(kind, files),
             kind \notin {"damage", "loss"} /\ Listed(source, media) => Listed(source, files)
      PROVE  Carried(source, media', faults')
  <2> SUFFICES ASSUME Undamaged(faults')
               PROVE  Listed(source, files)
    BY <1>4 DEF Fault, Carried
  <2>1. media # <<>> /\ faults' = Append(faults, kind)
    BY <1>4 DEF Fault
  <2>2. Undamaged(faults) /\ kind \notin {"damage", "loss"}
    BY <2>1, UndamagedBefore DEF DecompilerTyped
  <2> QED BY <1>4, <2>1, <2>2 DEF EditionInv, Carried
<1>5. Carried(source, media', faults')
  <2>1. CASE Ship
    BY <2>1, ShipCarried DEF Ship, Carried
  <2>2. ASSUME NEW loc \in DOMAIN media, Lose(loc) \/ \E v \in Value : Damage(loc, v)
        PROVE  Carried(source, media', faults')
    BY <1>4, <2>2 DEF Lose, Damage, FaultKind
  <2>3. ASSUME NEW m \in FirstMedium .. LastMediumNumber, NEW n \in FirstMedium .. LastMediumNumber,
               Exchange(m, n)
        PROVE  Carried(source, media', faults')
    <3>1. m \in Media(source.ms) /\ n \in Media(source.ms)
      BY DEF Media, LastMediumNumber, Set
    <3> QED BY <1>4, <2>3, <3>1, ExchangeIsFault, ExchangeCarried DEF FaultKind
  <2>4. ASSUME NEW d, Disorder(d)
        PROVE  Carried(source, media', faults')
    <3>1. media' = media /\ faults' = Append(faults, "disorder")
      BY <2>4 DEF Disorder, decompilerVars
    <3> QED BY <3>1, UndamagedBefore DEF DecompilerTyped, FaultKind, EditionInv, Carried
  <2>5. ASSUME NEW m \in FirstMedium .. LastMediumNumber, TakeEarlier(m)
        PROVE  Carried(source, media', faults')
    <3>1. m \in Media(source.ms)
      BY DEF Media, LastMediumNumber, Set
    <3> QED BY <1>3, <1>4, <2>5, <3>1, EarlierIsFault, EarlierCarried DEF FaultKind
  <2> QED BY <2>1, <2>2, <2>3, <2>4, <2>5 DEF OnTheWay
<1> QED BY <1>1, <1>2, <1>5 DEF EditionInv, Reading

LEMMA ChecksumOfData == \A v : Checksum(Data(v)) = Crc[v]
BY DEF Checksum, Data

(* What a list says of a file determines its checksum, whatever disk it    *)
(* was made on.                                                            *)
LEMMA SameEntries ==
  ASSUME NEW s, Fit(s.ms), NEW m, NEW n, NEW c, NEW d, NEW value, NEW other,
         ListFor(s, c, m, value), ListFor(s, d, n, other), c.files = d.files,
         NEW f \in Files(s.ms) \cap RegularFile
  PROVE  Crc[value[f]] = Crc[other[f]]
<1>1. PICK D : /\ c = FileList(s.ms, s.version, m, D)
               /\ \A g \in Files(s.ms) \cap RegularFile : D[Location(s.ms, g)] = Data(value[g])
  BY DEF ListFor
<1>2. PICK E : /\ d = FileList(s.ms, s.version, n, E)
               /\ \A g \in Files(s.ms) \cap RegularFile : E[Location(s.ms, g)] = Data(other[g])
  BY DEF ListFor
<1>3. /\ c.files = {Entry(s.ms, s.version, D, g) : g \in Files(s.ms)}
      /\ d.files = {Entry(s.ms, s.version, E, g) : g \in Files(s.ms)}
  BY <1>1, <1>2, FileListFields
<1>4. PICK g \in Files(s.ms) : Entry(s.ms, s.version, D, f) = Entry(s.ms, s.version, E, g)
  BY <1>3
<1>5. ASSUME NEW h \in Files(s.ms), NEW disc
      PROVE  /\ Entry(s.ms, s.version, disc, h).name = s.ms.name[h]
             /\ Entry(s.ms, s.version, disc, h).path = Front(Path(s.ms, h))
             /\ Entry(s.ms, s.version, disc, h).medium = EffectiveMedium(s.ms, h)
             /\ Entry(s.ms, s.version, disc, h).crc = Checksum(disc[Location(s.ms, h)])
  BY PathParts DEF Entry, FileInfo, Location
<1>6. f = g
  <2>1. /\ s.ms.name[f] = s.ms.name[g] /\ Front(Path(s.ms, f)) = Front(Path(s.ms, g))
        /\ EffectiveMedium(s.ms, f) = EffectiveMedium(s.ms, g)
    BY <1>4, <1>5
  <2>2. Path(s.ms, f) = Path(s.ms, g)
    BY <2>1, PathParts
  <2> QED BY <2>1, <2>2, LocationsDiffer DEF Location
<1>7. Checksum(D[Location(s.ms, f)]) = Checksum(E[Location(s.ms, f)])
  BY <1>4, <1>5, <1>6
<1> QED BY <1>1, <1>2, <1>7, ChecksumOfData

LEMMA EditionsApart ==
  ASSUME CompilerSound, EditionInv
  PROVE  NoMixedEditions
<1> SUFFICES ASSUME step = "accepted", Undamaged(faults)
             PROVE  \E value \in {source.value, source.earlier} :
                      \A f \in RegularFilesOf(Set) :
                        Checksum(media[Location(Set, f)]) = Crc[value[f]]
  BY DEF NoMixedEditions, Undamaged
<1>1. /\ Fit(source.ms) /\ media # <<>> /\ Listed(source, media)
      /\ \A x \in Media(source.ms) : Agreed(media, fileList, x)
  BY SourcesFit DEF CompilerSound, EditionInv, Carried, Reading, Compared
<1>2. FirstMedium \in Media(source.ms)
  BY <1>1, LoopStep DEF CompilerSound, Set
<1>3. \A x \in Media(source.ms) : \E value \in {source.value, source.earlier} :
        Edition(source, media, x, x, value)
  <2> SUFFICES ASSUME NEW x \in Media(source.ms)
               PROVE  \E value \in {source.value, source.earlier} :
                        Edition(source, media, x, x, value)
    OBVIOUS
  <2>1. PICK k \in Media(source.ms) : \E value \in {source.value, source.earlier} :
          Edition(source, media, x, k, value)
    BY <1>1 DEF Listed
  <2>2. PICK value \in {source.value, source.earlier} : Edition(source, media, x, k, value)
    BY <2>1
  <2>3. ListAt(media, x).medium = k
    BY <1>1, <2>2, EditionList
  <2>4. ListAt(media, x).medium = x
    BY <1>1 DEF Agreed
  <2> QED BY <2>2, <2>3, <2>4
<1>4. PICK value \in {source.value, source.earlier} :
        Edition(source, media, FirstMedium, FirstMedium, value)
  BY <1>2, <1>3
<1>5. ASSUME NEW f \in Files(source.ms) \cap RegularFile
      PROVE  Checksum(media[Location(source.ms, f)]) = Crc[value[f]]
  <2> DEFINE m == EffectiveMedium(source.ms, f)
  <2>1. m \in Media(source.ms)
    BY <1>1, Survey DEF Surveyed
  <2>2. PICK other \in {source.value, source.earlier} : Edition(source, media, m, m, other)
    BY <1>3, <2>1
  <2>3. Checksum(media[Location(source.ms, f)]) = Crc[other[f]]
    BY <2>1, <2>2, ChecksumOfData DEF Edition, Location
  <2>4. /\ ListFor(source, ListAt(media, m), m, other)
        /\ ListFor(source, ListAt(media, FirstMedium), FirstMedium, value)
        /\ ListAt(media, m).files = ListAt(media, FirstMedium).files
    BY <1>1, <1>2, <1>4, <2>1, <2>2 DEF Edition, ListAt, Agreed
  <2> HIDE DEF m
  <2> QED BY <1>1, <2>3, <2>4, SameEntries
<1> QED BY <1>5 DEF RegularFilesOf, Set

LEMMA EditionSoundness == Spec => []EditionInv
<1>1. Init => EditionInv
  <2> SUFFICES ASSUME Init
               PROVE  EditionInv
    OBVIOUS
  <2> QED BY DEF Init, DecompilerInit, EditionInv, Carried, Reading
<1>2. CompilerSound /\ DecompilerTyped /\ EditionInv /\ [Next]_vars => EditionInv'
  <2> SUFFICES ASSUME CompilerSound, DecompilerTyped, EditionInv, [Next]_vars
               PROVE  EditionInv'
    OBVIOUS
  <2>1. CASE Send \/ UNCHANGED vars
    <3>1. UNCHANGED <<media, step, number, fileList, faults>> /\ source' = source
      BY <2>1 DEF Send, vars, compilerVars, decompilerVars, Compile, SetMediaPaths, CreateMedium, MediumExported,
                  LoadsExported, BatchesExported, ExportRegularFile, ExportDirectory, ExportLoad,
                  ExportBatch, ExportListOfLoads, ExportListOfBatches, ExportListOfFiles,
                  WriteList, CompilationFails
    <3> QED BY <3>1 DEF EditionInv
  <2> QED BY <2>1, OnTheWayEdition, ReceiveEdition DEF Next
<1> QED BY <1>1, <1>2, CompilerSoundness, DecompilerSoundness, PTL DEF Spec

(* A recipient who accepts the media has those of one edition, even if     *)
(* media were exchanged or taken from an earlier edition, their integrity  *)
(* is not checked, and the faults are as many as one likes, as long as no  *)
(* single file was damaged or lost: the comparison of the lists of files   *)
(* tells the media apart.                                                  *)
THEOREM EditionsNotMixed == Spec => []NoMixedEditions
<1>1. CompilerSound /\ EditionInv => NoMixedEditions
  BY EditionsApart
<1> QED BY <1>1, CompilerSoundness, EditionSoundness, PTL

-----------------------------------------------------------------------------
(* What was compiled is accepted: the files inside a directory are those   *)
(* whose path begins with its path.                                        *)

LEMMA PrefixOfAppend ==
  ASSUME NEW r \in Seq(Name), NEW s \in Seq(Name), NEW n \in Name
  PROVE  /\ IsPrefix(r, s) => IsPrefix(r, Append(s, n))
         /\ IsPrefix(r, Append(s, n)) => IsPrefix(r, s) \/ r = Append(s, n)
<1> DEFINE t == Append(s, n)
<1>1. /\ t \in Seq(Name) /\ Len(s) \in Nat /\ Len(r) \in Nat /\ Len(t) = Len(s) + 1
      /\ \A i \in 1 .. Len(s) : t[i] = s[i]
  BY AppendProperties
<1> HIDE DEF t
<1>2. ASSUME Len(r) <= Len(s)
      PROVE  SubSeq(s, 1, Len(r)) = SubSeq(t, 1, Len(r))
  <2>1. \A i \in 1 .. Len(r) : s[i] = t[i]
    BY <1>1, <1>2
  <2> QED BY <1>1, <1>2, <2>1
<1>3. SubSeq(r, 1, Len(r)) = r /\ SubSeq(t, 1, Len(t)) = t
  BY <1>1
<1>4. Len(r) <= Len(t) => Len(r) <= Len(s) \/ Len(r) = Len(t)
  BY <1>1
<1>5. Len(r) <= Len(s) => Len(r) <= Len(t)
  BY <1>1
<1> QED BY <1>2, <1>3, <1>4, <1>5 DEF IsPrefix, t

LEMMA InsideByPath ==
  ASSUME NEW ms, Fit(ms), NEW c \in Containers(ms), NEW f \in Files(ms)
  PROVE  f \in RecursiveFiles(ms, c, NoValue) <=> IsPrefix(Path(ms, c), Front(Path(ms, f)))
<1>1. Tree(ms) /\ UniqueNames(ms) /\ ms.name \in [Entity -> Name]
  BY DEF Fit, Proper, MediaSetType
<1>2. /\ ms.parent[f] \in Containers(ms) /\ Front(Path(ms, f)) = Path(ms, ms.parent[f])
      /\ f \in File /\ f \in Entity /\ InSet(ms, f)
  BY <1>1, PathOfFile DEF Files, Entity
<1>3. CASE c = Root
  <2>1. f \in RecursiveFiles(ms, c, NoValue)
    BY <1>3, Survey DEF Surveyed
  <2>2. Path(ms, c) = <<>> /\ Path(ms, ms.parent[f]) \in Seq(Name)
    BY <1>1, <1>2, <1>3, PathOfDirectory
  <2>3. IsPrefix(<<>>, Path(ms, ms.parent[f]))
    BY <2>2 DEF IsPrefix
  <2> QED BY <1>2, <2>1, <2>2, <2>3
<1>4. CASE c # Root
  <2>1. c \in Directory /\ c \in Entity /\ InSet(ms, c) /\ Path(ms, c) \in Seq(Name)
    BY <1>1, <1>4, PathOfDirectory DEF Containers
  <2>2. RecursiveFiles(ms, c, NoValue) = Inside(ms, c) \cap File
    BY <1>1, <2>1, FilesInside
  <2>3. ASSUME f \in Inside(ms, c)
        PROVE  IsPrefix(Path(ms, c), Path(ms, ms.parent[f]))
    <3> DEFINE S == {x \in Entity : x \in Directory =>
                                      InSet(ms, x) /\ IsPrefix(Path(ms, c), Path(ms, x))}
    <3>1. IsPrefix(Path(ms, c), Path(ms, c))
      BY <2>1 DEF IsPrefix
    <3>2. S \in SUBSET Entity /\ c \in S
      BY <2>1, <3>1
    <3>3. ClosedUnder(ms, S)
      <4> SUFFICES ASSUME NEW x \in Entity, ms.parent[x] \in S, x \in Directory
                   PROVE  InSet(ms, x) /\ IsPrefix(Path(ms, c), Path(ms, x))
        BY DEF ClosedUnder
      <4>1. InSet(ms, x) /\ x \in Containers(ms) /\ x # Root
        BY Classes DEF InSet, Entity, Containers, Container
      <4>2. /\ ms.parent[x] \in Containers(ms) /\ Path(ms, ms.parent[x]) \in Seq(Name)
            /\ ms.name[x] \in Name /\ Path(ms, x) = Append(Path(ms, ms.parent[x]), ms.name[x])
        BY <1>1, <4>1, PathOfDirectory
      <4>3. ms.parent[x] \in Directory
        BY <4>2, Classes DEF Containers, Entity
      <4> QED BY <2>1, <4>1, <4>2, <4>3, PrefixOfAppend
    <3>4. Inside(ms, c) \subseteq S
      BY <2>1, <3>2, <3>3, InsideLeast
    <3>5. ms.parent[f] \in Inside(ms, c)
      BY <1>2, <2>1, <2>3, InsideUp, Classes
    <3>6. ms.parent[f] \in Directory
      BY <1>2, <2>1, <3>5, InsideClosed, Classes DEF Containers, Entity
    <3> QED BY <3>4, <3>5, <3>6
  <2>4. ASSUME IsPrefix(Path(ms, c), Path(ms, ms.parent[f]))
        PROVE  f \in Inside(ms, c)
    <3> DEFINE S == {p \in Containers(ms) : IsPrefix(Path(ms, c), Path(ms, p)) => p \in Inside(ms, c)}
    <3>1. Root \in S
      <4>1. Root \in Containers(ms) /\ Path(ms, Root) = <<>>
        BY <1>1, PathOfDirectory DEF Containers
      <4>2. IsPrefix(Path(ms, c), <<>>) => Path(ms, c) = <<>>
        BY <2>1 DEF IsPrefix
      <4> QED BY <1>1, <1>4, <4>1, <4>2, DirectoriesDiffer
    <3>2. ASSUME NEW p \in Containers(ms) \ {Root}, ms.parent[p] \in S
          PROVE  p \in S
      <4>1. /\ p \in Entity /\ ms.parent[p] \in Containers(ms)
            /\ Path(ms, ms.parent[p]) \in Seq(Name) /\ ms.name[p] \in Name
            /\ Path(ms, p) = Append(Path(ms, ms.parent[p]), ms.name[p])
        BY <1>1, PathOfDirectory
      <4>2. CASE IsPrefix(Path(ms, c), Path(ms, ms.parent[p]))
        BY <2>1, <3>2, <4>1, <4>2, InsideClosed DEF ClosedUnder
      <4>3. CASE Path(ms, c) = Path(ms, p)
        BY <1>1, <2>1, <4>3, DirectoriesDiffer, InsideClosed
      <4> QED BY <2>1, <4>1, <4>2, <4>3, PrefixOfAppend
    <3>3. S = Containers(ms)
      <4>1. S \in SUBSET Containers(ms)
        OBVIOUS
      <4> HIDE DEF S
      <4> QED BY <1>1, <3>1, <3>2, <4>1, ContainersDown
    <3>4. ms.parent[f] \in Inside(ms, c)
      BY <1>2, <2>4, <3>3
    <3> QED BY <1>2, <2>1, <3>4, InsideClosed DEF ClosedUnder
  <2> QED BY <1>2, <2>2, <2>3, <2>4
<1> QED BY <1>3, <1>4

-----------------------------------------------------------------------------
(* What was compiled is accepted: the lists agree with what they list.     *)

LEMMA EntryFields ==
  ASSUME NEW ms, Fit(ms), NEW v, NEW D, NEW f \in Files(ms)
  PROVE  /\ Entry(ms, v, D, f).name = ms.name[f]
         /\ Entry(ms, v, D, f).path = Front(Path(ms, f))
         /\ Entry(ms, v, D, f).medium = EffectiveMedium(ms, f)
         /\ Entry(ms, v, D, f).crc = Checksum(D[Location(ms, f)])
         /\ Entry(ms, v, D, f).check
              = Recorded(v, EffectiveCheckType(ms, <<f, "file">>), D[Location(ms, f)])
         /\ EntryLocation(Entry(ms, v, D, f)) = Location(ms, f)
BY PathParts DEF Entry, FileInfo, EntryLocation, Location

(* Check values fit what they were made of, and those of the same content  *)
(* and type are the same.                                                  *)
LEMMA RecordedFits ==
  ASSUME NEW v, NEW t, NEW u, NEW c
  PROVE  /\ Recorded(v, t, c).type # NotUsed => CheckValue(Recorded(v, t, c).type, c) = Recorded(v, t, c)
         /\ Recorded(v, t, c).type = Recorded(v, u, c).type => Recorded(v, t, c) = Recorded(v, u, c)
<1>1. ASSUME NEW x
      PROVE  CheckValue(x, c).type = x
  BY DEF CheckValue, NoCheckValue
<1>2. NoCheckValue.type = NotUsed
  BY DEF NoCheckValue
<1> QED BY <1>1, <1>2 DEF Recorded

(* NamesTell, of a source.                                                 *)
Tells(s) ==
  LET ms == s.ms
  IN /\ \A f \in Files(ms) \ RegularFile, g \in Files(ms) : ms.name[f] = ms.name[g] => f = g
     /\ \A l \in RecursiveLoads(ms) : \A f \in ms.data[l] \cup ms.support[l] :
          LET near == RecursiveFiles(ms, ms.parent[l], NoValue)
              named == {g \in RegularFilesOf(ms) : ms.name[g] = ms.name[f]}
          IN \/ named = {f}
             \/ f \in near /\ \A g \in named \cap near : s.value[g] = s.value[f]

(* M is the disk of what s describes, and names are not ambiguous.         *)
Whole(s, M) ==
  /\ Fit(s.ms) /\ IsFiniteSet(Files(s.ms))
  /\ IsImage(M, s.ms, s.version, s.value)
  /\ Tells(s)

LEMMA WholeFiles ==
  ASSUME NEW s, NEW M, Whole(s, M), NEW f \in Files(s.ms)
  PROVE  /\ Location(s.ms, f) \in DOMAIN M /\ EffectiveMedium(s.ms, f) \in Media(s.ms)
         /\ f \in RegularFile => M[Location(s.ms, f)] = Data(s.value[f])
         /\ f \in Load => M[Location(s.ms, f)] = LoadHeader(s.ms, s.version, f, M)
         /\ f \in Batch => M[Location(s.ms, f)] = BatchContent(s.ms, f)
<1>1. Fit(s.ms) /\ IsImage(M, s.ms, s.version, s.value)
  BY DEF Whole
<1>2. Location(s.ms, f) \in FileLocations(s.ms)
  BY DEF FileLocations
<1>3. EffectiveMedium(s.ms, f) \in Media(s.ms)
  BY <1>1, Survey DEF Surveyed
<1> QED BY <1>1, <1>2, <1>3, Classes DEF IsImage

LEMMA WholeLists ==
  ASSUME NEW s, NEW M, Whole(s, M), NEW m \in Media(s.ms)
  PROVE  /\ <<m, ListOfFiles>> \in DOMAIN M /\ <<m, ListOfLoads>> \in DOMAIN M
         /\ HasBatchList(s.ms) => <<m, ListOfBatches>> \in DOMAIN M
         /\ M[<<m, ListOfFiles>>] = FileList(s.ms, s.version, m, M)
         /\ M[<<m, ListOfLoads>>] = LoadList(s.ms, m)
         /\ HasBatchList(s.ms) => M[<<m, ListOfBatches>>] = BatchList(s.ms, m)
BY DEF Whole, IsImage, Media

LEMMA HasBatchesFits ==
  ASSUME NEW ms, NEW v, NEW m, NEW D
  PROVE  HasBatches(FileList(ms, v, m, D)) <=> HasBatchList(ms)
BY DEF HasBatches, FileList

(* What the list of loads or of batches has of the files of the class.     *)
LoadEntry(ms, l) == [load |-> l, name |-> ms.name[l], medium |-> EffectiveMedium(ms, l)]
BatchEntry(ms, b) == [batch |-> b, name |-> ms.name[b], medium |-> EffectiveMedium(ms, b)]

LEMMA ListFields ==
  ASSUME NEW ms, Fit(ms), NEW m
  PROVE  /\ LoadList(ms, m).kind = "loadList" /\ LoadList(ms, m).medium = m
         /\ LoadList(ms, m).members = LastMedium(ms, Root)
         /\ LoadList(ms, m).loads = {LoadEntry(ms, l) : l \in Files(ms) \cap Load}
         /\ BatchList(ms, m).kind = "batchList" /\ BatchList(ms, m).medium = m
         /\ BatchList(ms, m).members = LastMedium(ms, Root)
         /\ BatchList(ms, m).batches = {BatchEntry(ms, b) : b \in Files(ms) \cap Batch}
<1>1. RecursiveLoads(ms) = Files(ms) \cap Load /\ RecursiveBatches(ms) = Files(ms) \cap Batch
  BY Survey DEF Surveyed
<1> QED BY <1>1 DEF LoadList, BatchList, LoadEntry, BatchEntry

LEMMA EntryIntact ==
  ASSUME Whole(source, media), NEW f \in Files(source.ms)
  PROVE  Intact(Entry(source.ms, source.version, media, f))
<1> DEFINE e == Entry(source.ms, source.version, media, f)
           t == EffectiveCheckType(source.ms, <<f, "file">>)
           c == media[Location(source.ms, f)]
<1>1. Fit(source.ms)
  BY DEF Whole
<1>2. EntryLocation(e) = Location(source.ms, f) /\ e.crc = Checksum(c) /\ e.check = Recorded(source.version, t, c)
  BY <1>1, EntryFields
<1>3. Location(source.ms, f) \in DOMAIN media
  BY WholeFiles
<1> HIDE DEF e, t
<1>4. e.check.type # NotUsed => CheckValue(e.check.type, c) = e.check
  BY <1>2, RecordedFits
<1> QED BY <1>2, <1>3, <1>4 DEF Intact, e

LEMMA MediaIntact ==
  ASSUME Whole(source, media), NEW m, NEW n
  PROVE  MediumIntact(FileList(source.ms, source.version, n, media), m)
<1>1. FileList(source.ms, source.version, n, media).files
        = {Entry(source.ms, source.version, media, f) : f \in Files(source.ms)}
  BY FileListFields DEF Whole
<1> QED BY <1>1, EntryIntact DEF MediumIntact

LEMMA FirstIsReadable ==
  ASSUME Whole(source, media)
  PROVE  FirstReadable
<1>1. Fit(source.ms) /\ FirstMedium \in Media(source.ms)
  BY Survey DEF Whole, Surveyed, Media, MediumNumber, FirstMedium
<1>2. /\ <<FirstMedium, ListOfFiles>> \in DOMAIN media /\ <<FirstMedium, ListOfLoads>> \in DOMAIN media
      /\ HasBatchList(source.ms) => <<FirstMedium, ListOfBatches>> \in DOMAIN media
      /\ media[<<FirstMedium, ListOfFiles>>] = FileList(source.ms, source.version, FirstMedium, media)
      /\ media[<<FirstMedium, ListOfLoads>>] = LoadList(source.ms, FirstMedium)
      /\ HasBatchList(source.ms) =>
           media[<<FirstMedium, ListOfBatches>>] = BatchList(source.ms, FirstMedium)
  BY <1>1, WholeLists
<1>3. MediumIntact(FileList(source.ms, source.version, FirstMedium, media), FirstMedium)
  BY MediaIntact
<1> QED BY <1>1, <1>2, <1>3, FileListFields, ListFields, HasBatchesFits DEF FirstReadable, CanRead

(* An entry of a list of loads or batches is that of a file of its name,   *)
(* which has no other.                                                     *)
LEMMA ListsConsistent ==
  ASSUME NEW s, NEW M, Whole(s, M), NEW m, NEW n
  PROVE  /\ ~MayBeInconsistent(FileList(s.ms, s.version, m, M), LoadList(s.ms, n).loads)
         /\ ~MayBeInconsistent(FileList(s.ms, s.version, m, M), BatchList(s.ms, n).batches)
<1> DEFINE list == FileList(s.ms, s.version, m, M)
<1>1. Fit(s.ms) /\ list.files = {Entry(s.ms, s.version, M, f) : f \in Files(s.ms)}
  BY FileListFields DEF Whole
<1> HIDE DEF list
<1>2. ASSUME NEW f \in Files(s.ms)
      PROVE  /\ Entry(s.ms, s.version, M, f).name = s.ms.name[f]
             /\ Entry(s.ms, s.version, M, f).medium = EffectiveMedium(s.ms, f)
  BY DEF Entry, FileInfo
<1>3. ASSUME NEW f \in Files(s.ms) \ RegularFile
      PROVE  EntriesNamed(list, s.ms.name[f]) = {Entry(s.ms, s.version, M, f)}
  <2>1. \A g \in Files(s.ms) : Entry(s.ms, s.version, M, g).name = s.ms.name[g]
    BY <1>2
  <2>2. \A g \in Files(s.ms) : s.ms.name[f] = s.ms.name[g] => f = g
    BY DEF Whole, Tells
  <2> QED BY <1>1, <2>1, <2>2 DEF EntriesNamed
<1>4. ~MayBeInconsistent(list, LoadList(s.ms, n).loads)
  <2>1. ASSUME NEW l \in Files(s.ms) \cap Load
        PROVE  /\ EntriesNamed(list, LoadEntry(s.ms, l).name) = {Entry(s.ms, s.version, M, l)}
               /\ Entry(s.ms, s.version, M, l).medium = LoadEntry(s.ms, l).medium
    BY <1>3, <1>2, Classes DEF LoadEntry
  <2>2. LoadList(s.ms, n).loads = {LoadEntry(s.ms, l) : l \in Files(s.ms) \cap Load}
    BY <1>1, ListFields
  <2> QED BY <2>1, <2>2 DEF MayBeInconsistent
<1>5. ~MayBeInconsistent(list, BatchList(s.ms, n).batches)
  <2>1. ASSUME NEW b \in Files(s.ms) \cap Batch
        PROVE  /\ EntriesNamed(list, BatchEntry(s.ms, b).name) = {Entry(s.ms, s.version, M, b)}
               /\ Entry(s.ms, s.version, M, b).medium = BatchEntry(s.ms, b).medium
    BY <1>3, <1>2, Classes DEF BatchEntry
  <2>2. BatchList(s.ms, n).batches = {BatchEntry(s.ms, b) : b \in Files(s.ms) \cap Batch}
    BY <1>1, ListFields
  <2> QED BY <2>1, <2>2 DEF MayBeInconsistent
<1> QED BY <1>4, <1>5 DEF list

-----------------------------------------------------------------------------
(* What was compiled is accepted: what the decompiler makes of the lists.  *)

(* The entries of the list of loads, by name. *)
Indexed(ms, infos) ==
  LET loads == LoadList(ms, FirstMedium).loads
  IN /\ infos \in [{l.name : l \in loads} -> loads]
     /\ \A n \in DOMAIN infos : infos[n].name = n

(* The class that the decompiler gives to a file: without a list of        *)
(* batches, these are regular files.                                       *)
ClassIn(ms, f) ==
  IF f \in Load THEN "load" ELSE IF f \in Batch /\ HasBatchList(ms) THEN "batch" ELSE "regular"

(* The member that it makes of a file, and its search results for a file   *)
(* that is referred to: files that are just like it.                       *)
Member(s, M, f) ==
  [path |-> Front(Path(s.ms, f)), name |-> s.ms.name[f], class |-> ClassIn(s.ms, f),
   crc |-> Checksum(M[Location(s.ms, f)]), medium |-> EffectiveMedium(s.ms, f),
   check |-> Recorded(s.version, EffectiveCheckType(s.ms, <<f, "file">>), M[Location(s.ms, f)])]

Alike(s, f) ==
  {g \in RegularFilesOf(s.ms) : s.ms.name[g] = s.ms.name[f] /\ s.value[g] = s.value[f]}

(* The lists that are kept. *)
Kept(s, M, list, loads, batches, infos) ==
  /\ list = FileList(s.ms, s.version, FirstMedium, M)
  /\ loads = LoadList(s.ms, FirstMedium)
  /\ HasBatchList(s.ms) => batches = BatchList(s.ms, FirstMedium)
  /\ Indexed(s.ms, infos)

KeptNow == Kept(source, media, fileList, loadList, batchList, loadInfo)

LEMMA FurtherAgrees ==
  ASSUME Whole(source, media), KeptNow, NEW m \in Media(source.ms)
  PROVE  FurtherMediumAgrees(m)
<1>1. Fit(source.ms) /\ FirstMedium \in Media(source.ms)
  BY Survey DEF Whole, Surveyed, Media, MediumNumber, FirstMedium
<1>2. /\ <<m, ListOfFiles>> \in DOMAIN media /\ <<m, ListOfLoads>> \in DOMAIN media
      /\ HasBatchList(source.ms) => <<m, ListOfBatches>> \in DOMAIN media
      /\ media[<<m, ListOfFiles>>] = FileList(source.ms, source.version, m, media)
      /\ media[<<m, ListOfLoads>>] = LoadList(source.ms, m)
      /\ HasBatchList(source.ms) => media[<<m, ListOfBatches>>] = BatchList(source.ms, m)
  BY WholeLists
<1>3. MediumIntact(fileList, m)
  BY MediaIntact DEF KeptNow, Kept
<1>4. /\ fileList = FileList(source.ms, source.version, FirstMedium, media)
      /\ loadList = LoadList(source.ms, FirstMedium)
      /\ HasBatchList(source.ms) => batchList = BatchList(source.ms, FirstMedium)
  BY DEF KeptNow, Kept
<1>5. media[<<m, ListOfFiles>>].members = fileList.members
  <2>1. /\ FileList(source.ms, source.version, m, media).members = LastMedium(source.ms, Root)
        /\ FileList(source.ms, source.version, FirstMedium, media).members = LastMedium(source.ms, Root)
    BY <1>1, FileListFields
  <2> QED BY <1>2, <1>4, <2>1
<1>6. media[<<m, ListOfFiles>>].files = fileList.files
  <2>1. /\ FileList(source.ms, source.version, m, media).files
             = {Entry(source.ms, source.version, media, f) : f \in Files(source.ms)}
        /\ FileList(source.ms, source.version, FirstMedium, media).files
             = {Entry(source.ms, source.version, media, f) : f \in Files(source.ms)}
    BY <1>1, FileListFields
  <2> QED BY <1>2, <1>4, <2>1
<1>7. /\ HasBatches(media[<<m, ListOfFiles>>]) <=> HasBatchList(source.ms)
      /\ HasBatches(fileList) <=> HasBatchList(source.ms)
  BY <1>2, <1>4, HasBatchesFits
<1>8. CanRead(<<m, ListOfFiles>>, "fileList") /\ media[<<m, ListOfFiles>>].medium = m
  <2>1. /\ FileList(source.ms, source.version, m, media).kind = "fileList"
        /\ FileList(source.ms, source.version, m, media).medium = m
    BY <1>1, FileListFields
  <2> QED BY <1>2, <2>1 DEF CanRead
<1>9. /\ CanRead(<<m, ListOfLoads>>, "loadList")
      /\ media[<<m, ListOfLoads>>].members = loadList.members
      /\ media[<<m, ListOfLoads>>].loads = loadList.loads
      /\ media[<<m, ListOfLoads>>].medium = m
  BY <1>2, <1>4 DEF CanRead, LoadList
<1>10. ASSUME HasBatches(fileList)
      PROVE  /\ CanRead(<<m, ListOfBatches>>, "batchList")
             /\ media[<<m, ListOfBatches>>].members = batchList.members
             /\ media[<<m, ListOfBatches>>].batches = batchList.batches
             /\ media[<<m, ListOfBatches>>].medium = m
  <2>1. HasBatchList(source.ms)
    BY <1>7, <1>10
  <2>2. /\ <<m, ListOfBatches>> \in DOMAIN media /\ media[<<m, ListOfBatches>>] = BatchList(source.ms, m)
        /\ batchList = BatchList(source.ms, FirstMedium)
    BY <1>2, <1>4, <2>1
  <2>3. /\ BatchList(source.ms, m).kind = "batchList" /\ BatchList(source.ms, m).medium = m
        /\ BatchList(source.ms, m).members = BatchList(source.ms, FirstMedium).members
        /\ BatchList(source.ms, m).batches = BatchList(source.ms, FirstMedium).batches
    BY DEF BatchList
  <2> QED BY <2>2, <2>3 DEF CanRead
<1>11. HasBatches(media[<<m, ListOfFiles>>]) <=> HasBatches(fileList)
  BY <1>7
<1> QED
  <2>1. HasBatches(fileList) =>
          /\ CanRead(<<m, ListOfBatches>>, "batchList")
          /\ media[<<m, ListOfBatches>>].members = batchList.members
          /\ media[<<m, ListOfBatches>>].batches = batchList.batches
          /\ media[<<m, ListOfBatches>>].medium = m
    BY <1>10
  <2> QED BY ONLY <1>3, <1>5, <1>6, <1>8, <1>9, <1>11, <2>1 DEF FurtherMediumAgrees

LEMMA NamesTold ==
  ASSUME NEW s, Tells(s), NEW f \in Files(s.ms) \ RegularFile, NEW g \in Files(s.ms),
         s.ms.name[f] = s.ms.name[g]
  PROVE  f = g
BY DEF Tells

(* The entry of a load, and of a batch, is found by its name.              *)
LEMMA LoadIndexed ==
  ASSUME NEW s, Fit(s.ms), Tells(s), NEW infos, Indexed(s.ms, infos)
  PROVE  /\ DOMAIN infos = {s.ms.name[l] : l \in Files(s.ms) \cap Load}
         /\ \A l \in Files(s.ms) \cap Load : infos[s.ms.name[l]] = LoadEntry(s.ms, l)
<1> DEFINE ms == s.ms
           loads == LoadList(ms, FirstMedium).loads
<1>1. loads = {LoadEntry(ms, l) : l \in Files(ms) \cap Load}
  BY ListFields
<1>2. \A l : LoadEntry(ms, l).name = ms.name[l]
  BY DEF LoadEntry
<1>3. infos \in [{l.name : l \in loads} -> loads] /\ \A n \in DOMAIN infos : infos[n].name = n
  BY DEF Indexed
<1> HIDE DEF loads
<1>4. DOMAIN infos = {ms.name[l] : l \in Files(ms) \cap Load}
  BY <1>1, <1>2, <1>3
<1>5. ASSUME NEW l \in Files(ms) \cap Load
      PROVE  infos[ms.name[l]] = LoadEntry(ms, l)
  <2>1. ms.name[l] \in DOMAIN infos
    BY <1>4
  <2>2. infos[ms.name[l]] \in loads /\ infos[ms.name[l]].name = ms.name[l]
    BY <1>3, <2>1
  <2>3. PICK k \in Files(ms) \cap Load : infos[ms.name[l]] = LoadEntry(ms, k)
    BY <1>1, <2>2
  <2>4. ms.name[l] = ms.name[k]
    BY <1>2, <2>2, <2>3
  <2>5. l = k
    BY <2>4, NamesTold, Classes
  <2> QED BY <2>3, <2>5
<1> QED BY <1>4, <1>5

LEMMA BatchesKept ==
  ASSUME Whole(source, media), KeptNow
  PROVE  BatchInfos = IF HasBatchList(source.ms)
                      THEN {BatchEntry(source.ms, b) : b \in Files(source.ms) \cap Batch} ELSE {}
<1>1. Fit(source.ms)
  BY DEF Whole
<1>2. HasBatches(fileList) <=> HasBatchList(source.ms)
  BY HasBatchesFits DEF KeptNow, Kept
<1>3. HasBatchList(source.ms) => batchList = BatchList(source.ms, FirstMedium)
  BY DEF KeptNow, Kept
<1>4. BatchList(source.ms, FirstMedium).batches
        = {BatchEntry(source.ms, b) : b \in Files(source.ms) \cap Batch}
  BY <1>1, ListFields
<1> QED BY <1>2, <1>3, <1>4 DEF BatchInfos

LEMMA ClassTold ==
  ASSUME Whole(source, media), KeptNow, NEW f \in Files(source.ms)
  PROVE  Class(source.ms.name[f]) = ClassIn(source.ms, f)
<1> DEFINE ms == source.ms
           n == ms.name[f]
<1>1. DOMAIN loadInfo = {ms.name[l] : l \in Files(ms) \cap Load}
  BY LoadIndexed DEF Whole, KeptNow, Kept
<1>2. Tells(source) /\ f \in RegularFile \cup Load \cup Batch
  BY DEF Whole, Files, File
<1>3. n \in DOMAIN loadInfo <=> f \in Load
  <2>1. ASSUME NEW l \in Files(ms) \cap Load, ms.name[l] = n
        PROVE  f \in Load
    <3>1. l = f
      BY <1>2, <2>1, NamesTold, Classes
    <3> QED BY <3>1
  <2> QED BY <1>1, <2>1
<1>4. f \notin Load => ((\E i \in BatchInfos : i.name = n) <=> f \in Batch /\ HasBatchList(ms))
  <2>1. ASSUME NEW b \in Files(ms) \cap Batch, ms.name[b] = n
        PROVE  f \in Batch
    <3>1. b = f
      BY <1>2, <2>1, NamesTold, Classes
    <3> QED BY <3>1
  <2>2. \A b : BatchEntry(ms, b).name = ms.name[b]
    BY DEF BatchEntry
  <2>3. BatchInfos = IF HasBatchList(ms) THEN {BatchEntry(ms, b) : b \in Files(ms) \cap Batch} ELSE {}
    BY BatchesKept
  <2> QED BY <2>1, <2>2, <2>3
<1> QED BY <1>3, <1>4 DEF Class, ClassIn

(* A load and a batch differ in name. *)
LEMMA ClassesApart ==
  ASSUME Whole(source, media), KeptNow, NEW i \in BatchInfos
  PROVE  i.name \notin DOMAIN loadInfo
<1> DEFINE ms == source.ms
<1>1. DOMAIN loadInfo = {ms.name[l] : l \in Files(ms) \cap Load}
  BY LoadIndexed DEF Whole, KeptNow, Kept
<1>2. PICK b \in Files(ms) \cap Batch : i = BatchEntry(ms, b)
  BY BatchesKept
<1>3. i.name = ms.name[b]
  BY <1>2 DEF BatchEntry
<1>4. ASSUME NEW l \in Files(ms) \cap Load, ms.name[l] = ms.name[b]
      PROVE  FALSE
  <2>1. l = b
    BY <1>4, NamesTold, Classes DEF Whole
  <2> QED BY <2>1, Classes
<1> QED BY <1>1, <1>3, <1>4

LEMMA MembersMade ==
  ASSUME Whole(source, media), KeptNow, AddFiles
  PROVE  /\ received'.members = {Member(source, media, f) : f \in Files(source.ms)}
         /\ toAdd' \subseteq {Entry(source.ms, source.version, media, f) : f \in Files(source.ms)}
<1> DEFINE ms == source.ms
           E(f) == Entry(ms, source.version, media, f)
           Made(e) == [path |-> e.path, name |-> e.name, class |-> Class(e.name), crc |-> e.crc,
                       medium |-> IF Class(e.name) = "load" THEN loadInfo[e.name].medium ELSE e.medium,
                       check |-> e.check]
<1>1. fileList.files = {E(f) : f \in Files(ms)}
  BY FileListFields DEF Whole, KeptNow, Kept
<1>2. received'.members = {Made(e) : e \in fileList.files} /\ toAdd' \subseteq fileList.files
  BY DEF AddFiles
<1>3. ASSUME NEW f \in Files(ms)
      PROVE  Made(E(f)) = Member(source, media, f)
  <2>1. /\ E(f).name = ms.name[f] /\ E(f).path = Front(Path(ms, f))
        /\ E(f).medium = EffectiveMedium(ms, f)
        /\ E(f).crc = Checksum(media[Location(ms, f)])
        /\ E(f).check = Recorded(source.version, EffectiveCheckType(ms, <<f, "file">>),
                                 media[Location(ms, f)])
    BY EntryFields DEF Whole
  <2>2. Class(ms.name[f]) = ClassIn(ms, f)
    BY ClassTold
  <2>3. ClassIn(ms, f) = "load" => loadInfo[ms.name[f]].medium = EffectiveMedium(ms, f)
    <3>1. ClassIn(ms, f) = "load" => f \in Files(ms) \cap Load
      BY DEF ClassIn
    <3>2. f \in Files(ms) \cap Load => loadInfo[ms.name[f]] = LoadEntry(ms, f)
      BY LoadIndexed DEF Whole, KeptNow, Kept
    <3> QED BY <3>1, <3>2 DEF LoadEntry
  <2> HIDE DEF E
  <2> QED BY <2>1, <2>2, <2>3 DEF Member
<1> HIDE DEF E, Made
<1>4. {Made(e) : e \in fileList.files} = {Member(source, media, f) : f \in Files(ms)}
  BY <1>1, <1>3
<1> QED BY <1>1, <1>2, <1>4 DEF E

-----------------------------------------------------------------------------
(* What was compiled is accepted: the files of a load.                     *)

(* What has been made of the lists when loads and batches are to be read.  *)
Filling(s, M, members, add) ==
  /\ members = {Member(s, M, f) : f \in Files(s.ms)}
  /\ add \subseteq {Entry(s.ms, s.version, M, f) : f \in Files(s.ms)}

FillingNow == Filling(source, media, received.members, toAdd)

LEMMA MemberLocation ==
  ASSUME NEW s, Fit(s.ms), NEW M, NEW f \in Files(s.ms)
  PROVE  EntryLocation(Member(s, M, f)) = Location(s.ms, f)
<1>1. Append(Front(Path(s.ms, f)), s.ms.name[f]) = Path(s.ms, f)
  BY PathParts
<1> QED BY <1>1 DEF Member, EntryLocation, Location

LEMMA FiniteMembers ==
  ASSUME NEW s, NEW M, IsFiniteSet(Files(s.ms))
  PROVE  IsFiniteSet({Member(s, M, f) : f \in Files(s.ms)})
<1> DEFINE S == Files(s.ms)
           T == {Member(s, M, f) : f \in S}
           to == [f \in S |-> Member(s, M, f)]
<1>1. to \in Surjection(S, T)
  BY DEF Surjection
<1> HIDE DEF to, T
<1>2. IsFiniteSet(T)
  BY <1>1, FS_Surjection
<1> QED BY <1>2 DEF T

(* A search for a file finds it, or files just like it: if names tell, the *)
(* search by name, by directory and by checksum needs no luck.             *)
LEMMA OnlyAlike ==
  ASSUME Whole(source, media), FillingNow, NEW l \in Files(source.ms) \cap Load,
         NEW f \in source.ms.data[l] \cup source.ms.support[l], NEW path, NEW i,
         path = Front(Path(source.ms, l)), i.name = source.ms.name[f]
  PROVE  /\ Candidates(path, i) # {}
         /\ Candidates(path, i) \subseteq {Member(source, media, g) : g \in Alike(source, f)}
         /\ Candidates(path, i) \subseteq Regular
<1> DEFINE ms == source.ms
           X(g) == Member(source, media, g)
           N == {g \in RegularFilesOf(ms) : ms.name[g] = ms.name[f]}
           inside == RecursiveFiles(ms, ms.parent[l], NoValue)
           named == {x \in Regular : x.name = i.name}
           near == {x \in named : IsPrefix(path, x.path)}
           equal == {x \in near : x.crc = i.crc}
           alike == {X(g) : g \in Alike(source, f)}
<1>1. Fit(ms) /\ Tells(source) /\ IsFiniteSet(Files(ms)) /\ f \in Files(ms) \cap RegularFile
  <2>1. Fit(ms)
    BY DEF Whole
  <2> QED BY <2>1, LinkedFiles DEF Whole
<1>2. received.members = {X(g) : g \in Files(ms)}
  BY DEF FillingNow, Filling
<1>3. \A g \in Files(ms) : /\ X(g).name = ms.name[g] /\ X(g).class = ClassIn(ms, g)
                           /\ X(g).path = Front(Path(ms, g))
  BY DEF Member
<1>4. f \in N /\ N \subseteq Files(ms)
  BY <1>1 DEF RegularFilesOf
<1>5. \A g \in Files(ms) : ms.name[g] = ms.name[f] => g \in RegularFile
  BY <1>1, NamesTold
<1>6. \A g \in Files(ms) \cap RegularFile : ClassIn(ms, g) = "regular"
  BY Classes DEF ClassIn
<1>7. named = {X(g) : g \in N}
  BY <1>2, <1>3, <1>4, <1>5, <1>6 DEF Regular, RegularFilesOf
<1>8. l \in RecursiveLoads(ms)
  BY <1>1, Survey DEF Surveyed
<1>9. N = {f} \/ (f \in inside /\ \A g \in N \cap inside : source.value[g] = source.value[f])
  BY <1>1, <1>8 DEF Tells
<1>10. IsFiniteSet(named)
  <2>1. IsFiniteSet(received.members)
    BY <1>1, <1>2, FiniteMembers
  <2>2. named \in SUBSET received.members
    BY DEF Regular
  <2> HIDE DEF named
  <2> QED BY <2>1, <2>2, FS_Subset
<1>11. X(f) \in named /\ X(f) \in alike
  BY <1>4, <1>7 DEF Alike
<1>12. Cardinality(named) <= 1 => named = {X(f)}
  <2>1. Cardinality(named) \in Nat /\ Cardinality(named) # 0
    <3> HIDE DEF named
    <3> QED BY <1>10, <1>11, FS_CardinalityType, FS_EmptySet
  <2>2. Cardinality(named) <= 1 => \E x : named = {x}
    <3> HIDE DEF named
    <3>1. Cardinality(named) <= 1 => Cardinality(named) = 1
      BY <2>1
    <3> QED BY <1>10, <3>1, FS_Singleton
  <2> HIDE DEF named
  <2> QED BY <1>11, <2>2
<1>13. ASSUME N # {f}
       PROVE  X(f) \in near /\ near \subseteq alike
  <2>1. /\ ms.parent[l] \in Containers(ms) /\ path = Path(ms, ms.parent[l])
    BY <1>1, PathOfFile DEF Fit, Proper, MediaSetType
  <2>2. \A g \in Files(ms) : g \in inside <=> IsPrefix(path, X(g).path)
    BY <1>1, <1>3, <2>1, InsideByPath
  <2>3. f \in inside /\ \A g \in N \cap inside : source.value[g] = source.value[f]
    BY <1>9, <1>13
  <2>4. X(f) \in near
    BY <1>4, <1>11, <2>2, <2>3
  <2>5. ASSUME NEW x \in near
        PROVE  x \in alike
    <3>1. PICK g \in N : x = X(g)
      BY <1>7
    <3>2. g \in inside
      BY <1>4, <2>2, <3>1
    <3> QED BY <1>4, <2>3, <3>1, <3>2 DEF Alike
  <2> QED BY <2>4, <2>5
<1>14. Candidates(path, i) = IF Cardinality(named) <= 1 THEN named
                             ELSE IF Cardinality(near) <= 1 THEN near
                             ELSE IF equal # {} THEN equal ELSE near
  BY DEF Candidates
<1>15. N = {f} => named = {X(f)}
  BY <1>7
<1>16. Cardinality({X(f)}) = 1
  BY FS_Singleton
<1>17. named \subseteq Regular /\ near \subseteq named /\ equal \subseteq near
  OBVIOUS
<1> HIDE DEF named, near, equal, N, inside, alike, X
<1>18. CASE Cardinality(named) <= 1
  BY <1>11, <1>12, <1>14, <1>17, <1>18 DEF alike, X
<1>19. CASE ~(Cardinality(named) <= 1)
  <2>1. N # {f}
    BY <1>15, <1>16, <1>19
  <2>2. X(f) \in near /\ near \subseteq alike
    BY <1>13, <2>1
  <2>3. Candidates(path, i) = near \/ (Candidates(path, i) = equal /\ equal # {})
    BY <1>14, <1>19
  <2> QED BY <1>17, <2>2, <2>3 DEF alike, X
<1> QED BY <1>18, <1>19

(* What a search result has in common with the file that is meant.         *)
LEMMA AlikeContent ==
  ASSUME NEW s, NEW M, Whole(s, M), NEW f \in Files(s.ms) \cap RegularFile, NEW g \in Alike(s, f)
  PROVE  /\ EntryLocation(Member(s, M, g)) \in DOMAIN M
         /\ M[EntryLocation(Member(s, M, g))] = M[Location(s.ms, f)]
         /\ Member(s, M, g).crc = Checksum(M[Location(s.ms, f)])
         /\ \E t : Member(s, M, g).check = Recorded(s.version, t, M[Location(s.ms, f)])
<1>1. g \in Files(s.ms) /\ g \in RegularFile /\ s.value[g] = s.value[f] /\ Fit(s.ms)
  BY DEF Alike, RegularFilesOf, Whole
<1>2. EntryLocation(Member(s, M, g)) = Location(s.ms, g)
  BY <1>1, MemberLocation
<1>3. /\ Location(s.ms, g) \in DOMAIN M /\ M[Location(s.ms, g)] = Data(s.value[g])
      /\ M[Location(s.ms, f)] = Data(s.value[f])
  BY <1>1, WholeFiles
<1>4. /\ Member(s, M, g).crc = Checksum(M[Location(s.ms, g)])
      /\ Member(s, M, g).check = Recorded(s.version, EffectiveCheckType(s.ms, <<g, "file">>),
                                          M[Location(s.ms, g)])
  BY DEF Member
<1>5. M[Location(s.ms, g)] = M[Location(s.ms, f)]
  BY <1>1, <1>3
<1> QED BY <1>2, <1>3, <1>4, <1>5

(* What the header says of file f in the role.                             *)
Info(s, M, l, role, f) == LoadFileInfo(s.ms, s.version, l, role, f, M)

Describing(s, M, l, header) ==
  /\ header.kind = "load" /\ header.load = l
  /\ \A i \in header.files : \E role \in Roles : \E f \in LoadFiles(s.ms, l, role) :
       i = Info(s, M, l, role, f)
  /\ \A role \in Roles : \A f \in LoadFiles(s.ms, l, role) : Info(s, M, l, role, f) \in header.files
  /\ header.sum = [role \in Roles |->
       {<<s.ms.name[f], M[Location(s.ms, f)]>> : f \in LoadFiles(s.ms, l, role)}]

LEMMA HeaderDescribes ==
  ASSUME NEW s, NEW M, NEW l
  PROVE  Describing(s, M, l, LoadHeader(s.ms, s.version, l, M))
<1> DEFINE pairs == UNION {{x} \X LoadFiles(s.ms, l, x) : x \in Roles}
           header == LoadHeader(s.ms, s.version, l, M)
<1>1. /\ header.kind = "load" /\ header.load = l
      /\ header.sum = [role \in Roles |->
           {<<s.ms.name[f], M[Location(s.ms, f)]>> : f \in LoadFiles(s.ms, l, role)}]
      /\ header.files = {Info(s, M, l, r[1], r[2]) : r \in pairs}
  BY DEF LoadHeader, Info
<1>2. \A r \in pairs : r[1] \in Roles /\ r[2] \in LoadFiles(s.ms, l, r[1])
  OBVIOUS
<1>3. ASSUME NEW role \in Roles, NEW f \in LoadFiles(s.ms, l, role)
      PROVE  <<role, f>> \in pairs /\ <<role, f>>[1] = role /\ <<role, f>>[2] = f
  OBVIOUS
<1> HIDE DEF pairs, header
<1>4. \A i \in header.files : \E role \in Roles : \E f \in LoadFiles(s.ms, l, role) :
        i = Info(s, M, l, role, f)
  BY <1>1, <1>2
<1>5. ASSUME NEW role \in Roles, NEW f \in LoadFiles(s.ms, l, role)
      PROVE  Info(s, M, l, role, f) \in header.files
  <2>1. Info(s, M, l, <<role, f>>[1], <<role, f>>[2]) \in header.files
    BY <1>1, <1>3
  <2> QED BY <1>3, <2>1
<1> QED BY <1>1, <1>4, <1>5 DEF header, Describing

(* The entry for f in the header agrees with each file that is just like f.*)
LEMMA AlikeAgrees ==
  ASSUME Whole(source, media), NEW l, NEW role, NEW f \in Files(source.ms) \cap RegularFile,
         NEW g \in Alike(source, f)
  PROVE  FileAgrees(Info(source, media, l, role, f), Member(source, media, g))
<1> DEFINE i == Info(source, media, l, role, f)
           x == Member(source, media, g)
           c == media[Location(source.ms, f)]
           t == EffectiveCheckType(source.ms, <<l, role>>)
<1>1. i.crc = Checksum(c) /\ i.check = Recorded(source.version, t, c)
  BY DEF Info, LoadFileInfo
<1>2. /\ EntryLocation(x) \in DOMAIN media /\ media[EntryLocation(x)] = c /\ x.crc = Checksum(c)
      /\ \E u : x.check = Recorded(source.version, u, c)
  BY AlikeContent
<1> HIDE DEF i, x, c, t
<1>3. PICK u : x.check = Recorded(source.version, u, c)
  BY <1>2
<1>4. i.check.type = x.check.type => i.check = x.check
  BY <1>1, <1>3, RecordedFits
<1>5. i.check.type # NotUsed => CheckValue(i.check.type, c) = i.check
  BY <1>1, RecordedFits
<1> QED BY <1>1, <1>2, <1>4, <1>5 DEF FileAgrees, i, x

LEMMA LoadAgreesWith ==
  ASSUME Whole(source, media), KeptNow, FillingNow, NEW l \in Files(source.ms) \cap Load,
         NEW e, e = Entry(source.ms, source.version, media, l)
  PROVE  /\ LoadReadable(e)
         /\ \A choice \in SearchResults(e) : LoadAgrees(media[EntryLocation(e)], choice)
<1> DEFINE ms == source.ms
           header == LoadHeader(ms, source.version, l, media)
           X(g) == Member(source, media, g)
           I(role, f) == Info(source, media, l, role, f)
<1>1. Fit(ms) /\ Tells(source)
  BY DEF Whole
<1>2. e.name = ms.name[l] /\ e.path = Front(Path(ms, l)) /\ EntryLocation(e) = Location(ms, l)
  BY <1>1, PathParts DEF Entry, FileInfo, EntryLocation, Location
<1>3. Location(ms, l) \in DOMAIN media /\ media[Location(ms, l)] = header
  BY WholeFiles
<1>4. Describing(source, media, l, header)
  BY HeaderDescribes
<1> HIDE DEF header
<1>5. /\ header.kind = "load" /\ header.load = l
      /\ \A i \in header.files : \E role \in Roles : \E f \in LoadFiles(ms, l, role) : i = I(role, f)
      /\ \A role \in Roles : \A f \in LoadFiles(ms, l, role) : I(role, f) \in header.files
      /\ header.sum = [role \in Roles |->
           {<<ms.name[f], media[Location(ms, f)]>> : f \in LoadFiles(ms, l, role)}]
  BY <1>4 DEF Describing
<1>6. loadInfo[ms.name[l]].load = l
  <2>1. loadInfo[ms.name[l]] = LoadEntry(ms, l)
    BY <1>1, LoadIndexed DEF KeptNow, Kept
  <2> QED BY <2>1 DEF LoadEntry
<1>7. \A role, f : I(role, f).name = ms.name[f] /\ I(role, f).role = role
  BY DEF Info, LoadFileInfo
<1>8. ASSUME NEW role \in Roles, NEW f \in LoadFiles(ms, l, role)
      PROVE  /\ f \in Files(ms) \cap RegularFile
             /\ Candidates(e.path, I(role, f)) # {} /\ Candidates(e.path, I(role, f)) \subseteq Regular
             /\ \A x \in Candidates(e.path, I(role, f)) : \E g \in Alike(source, f) : x = X(g)
  <2>1. f \in ms.data[l] \cup ms.support[l]
    BY DEF LoadFiles, Roles
  <2>2. f \in Files(ms) \cap RegularFile
    BY <1>1, <2>1, LinkedFiles
  <2>3. I(role, f).name = ms.name[f]
    BY <1>7
  <2> HIDE DEF I
  <2>4. /\ Candidates(e.path, I(role, f)) # {} /\ Candidates(e.path, I(role, f)) \subseteq Regular
        /\ Candidates(e.path, I(role, f)) \subseteq {X(g) : g \in Alike(source, f)}
    BY <1>2, <2>1, <2>3, OnlyAlike
  <2> QED BY <2>2, <2>4
<1> HIDE DEF I, X
<1>9. LoadReadable(e)
  BY <1>2, <1>3, <1>5, <1>6, <1>8 DEF LoadReadable, CanRead
<1>10. ASSUME NEW choice \in SearchResults(e)
      PROVE  LoadAgrees(header, choice)
  <2>1. /\ choice \in [header.files -> Regular]
        /\ \A i \in header.files : choice[i] \in Candidates(e.path, i)
    BY <1>2, <1>3 DEF SearchResults
  <2>2. ASSUME NEW role \in Roles, NEW f \in LoadFiles(ms, l, role)
        PROVE  /\ FileAgrees(I(role, f), choice[I(role, f)])
               /\ media[EntryLocation(choice[I(role, f)])] = media[Location(ms, f)]
    <3>1. PICK g \in Alike(source, f) : choice[I(role, f)] = X(g)
      BY <1>5, <1>8, <2>1
    <3>2. f \in Files(ms) \cap RegularFile
      BY <1>8
    <3>3. FileAgrees(I(role, f), X(g))
      BY <3>2, AlikeAgrees DEF I, X
    <3>4. media[EntryLocation(X(g))] = media[Location(ms, f)]
      BY <3>2, AlikeContent DEF X
    <3> QED BY <3>1, <3>3, <3>4
  <2>3. \A i \in header.files : FileAgrees(i, choice[i])
    BY <1>5, <2>2
  <2>4. ASSUME NEW role \in Roles
        PROVE  {<<i.name, media[EntryLocation(choice[i])]>> : i \in {x \in header.files : x.role = role}}
                 = {<<ms.name[f], media[Location(ms, f)]>> : f \in LoadFiles(ms, l, role)}
    <3>1. ASSUME NEW i \in header.files, i.role = role
          PROVE  \E f \in LoadFiles(ms, l, role) :
                   <<i.name, media[EntryLocation(choice[i])]>> = <<ms.name[f], media[Location(ms, f)]>>
      <4>1. PICK r \in Roles : \E f \in LoadFiles(ms, l, r) : i = I(r, f)
        BY <1>5
      <4>2. PICK f \in LoadFiles(ms, l, r) : i = I(r, f)
        BY <4>1
      <4>3. r = role /\ i.name = ms.name[f]
        BY <1>7, <3>1, <4>2
      <4> QED BY <2>2, <4>2, <4>3
    <3>2. ASSUME NEW f \in LoadFiles(ms, l, role)
          PROVE  \E i \in header.files :
                   /\ i.role = role
                   /\ <<i.name, media[EntryLocation(choice[i])]>> = <<ms.name[f], media[Location(ms, f)]>>
      <4>1. I(role, f) \in header.files /\ I(role, f).role = role /\ I(role, f).name = ms.name[f]
        BY <1>5, <1>7
      <4> QED BY <2>2, <4>1
    <3> QED BY <3>1, <3>2
  <2>5. header.sum = [role \in Roles |->
          {<<i.name, media[EntryLocation(choice[i])]>> : i \in {x \in header.files : x.role = role}}]
    BY <1>5, <2>4
  <2> QED BY <2>3, <2>5 DEF LoadAgrees
<1>11. media[EntryLocation(e)] = header
  BY <1>2, <1>3
<1> QED BY <1>9, <1>10, <1>11

-----------------------------------------------------------------------------
(* What was compiled is accepted: batches, and the invariant.              *)

LEMMA OneLoadNamed ==
  ASSUME Whole(source, media), FillingNow, NEW l \in Files(source.ms) \cap Load
  PROVE  {x \in received.members : x.class = "load" /\ x.name = source.ms.name[l]}
           = {Member(source, media, l)}
<1> DEFINE ms == source.ms
           X(f) == Member(source, media, f)
<1>1. received.members = {X(f) : f \in Files(ms)}
  BY DEF FillingNow, Filling
<1>2. \A f \in Files(ms) : X(f).name = ms.name[f] /\ X(f).class = ClassIn(ms, f)
  BY DEF Member
<1>3. \A f \in Files(ms) : ms.name[f] = ms.name[l] => f = l
  BY NamesTold, Classes DEF Whole
<1>4. ClassIn(ms, l) = "load"
  BY DEF ClassIn
<1> HIDE DEF X
<1> QED BY <1>1, <1>2, <1>3, <1>4 DEF X

LEMMA BatchIsReadable ==
  ASSUME Whole(source, media), KeptNow, FillingNow, HasBatchList(source.ms),
         NEW b \in Files(source.ms) \cap Batch, NEW e, e = Entry(source.ms, source.version, media, b)
  PROVE  BatchReadable(e)
<1> DEFINE ms == source.ms
           batch == BatchContent(ms, b)
<1>1. Fit(ms) /\ Tells(source)
  BY DEF Whole
<1>2. e.name = ms.name[b] /\ EntryLocation(e) = Location(ms, b)
  BY <1>1, PathParts DEF Entry, FileInfo, EntryLocation, Location
<1>3. Location(ms, b) \in DOMAIN media /\ media[Location(ms, b)] = batch
  BY WholeFiles
<1>4. CanRead(EntryLocation(e), "batch")
  BY <1>2, <1>3 DEF CanRead, BatchContent
<1>5. \E i \in BatchInfos : i.name = e.name /\ i.batch = batch.batch
  <2>1. BatchEntry(ms, b) \in BatchInfos
    BY BatchesKept
  <2>2. BatchEntry(ms, b).name = ms.name[b] /\ BatchEntry(ms, b).batch = b /\ batch.batch = b
    BY DEF BatchEntry, BatchContent
  <2> QED BY <1>2, <2>1, <2>2
<1>6. ASSUME NEW t \in batch.targets, NEW x \in t.loads
      PROVE  \E l \in Files(ms) \cap Load : x.name = ms.name[l] /\ x.load = l
  <2>1. PICK p \in {y \in Position : ms.targets[b][y] # NoValue} :
          t.loads = {[name |-> ms.name[l], load |-> l] : l \in ms.targets[b][p]}
    BY DEF BatchContent
  <2>2. PICK l \in ms.targets[b][p] : x = [name |-> ms.name[l], load |-> l]
    BY <2>1
  <2>3. ms.targets[b][p] \subseteq Files(ms) /\ ms.targets[b][p] \subseteq Load
    <3>1. ms.targets \in [Batch -> [Position -> Optional(SUBSET Load)]] /\ LiveLinks(ms)
      BY <1>1 DEF Fit, Proper, MediaSetType
    <3> QED BY <3>1 DEF LiveLinks, Optional
  <2> QED BY <2>2, <2>3
<1>7. ASSUME NEW t \in batch.targets, NEW x \in t.loads
      PROVE  /\ Cardinality({f \in received.members : f.class = "load" /\ f.name = x.name}) = 1
             /\ loadInfo[x.name].load = x.load
  <2>1. PICK l \in Files(ms) \cap Load : x.name = ms.name[l] /\ x.load = l
    BY <1>6
  <2>2. {f \in received.members : f.class = "load" /\ f.name = x.name} = {Member(source, media, l)}
    BY <2>1, OneLoadNamed
  <2>3. loadInfo[ms.name[l]] = LoadEntry(ms, l)
    BY <1>1, LoadIndexed DEF KeptNow, Kept
  <2>4. Cardinality({Member(source, media, l)}) = 1
    BY FS_Singleton
  <2>5. loadInfo[ms.name[l]].load = l
    BY <2>3 DEF LoadEntry
  <2> QED BY <2>1, <2>2, <2>4, <2>5
<1> HIDE DEF batch
<1>8. media[EntryLocation(e)] = batch
  BY <1>2, <1>3
<1> QED BY <1>4, <1>5, <1>7, <1>8 DEF BatchReadable

(* Nothing that the decompiler does with these media is a rejection.       *)
Accepting(s, M, st, k, list, loads, batches, infos, add, members) ==
  /\ st # "rejected"
  /\ st # "first" => Kept(s, M, list, loads, batches, infos)
  /\ st = "further" => k \in Media(s.ms)
  /\ st = "fill" => Filling(s, M, members, add)

AcceptingNow ==
  Accepting(source, media, step, number, fileList, loadList, batchList, loadInfo, toAdd,
            received.members)

LEMMA FirstMediumAccepting ==
  ASSUME Whole(source, media), LoadFirstMedium
  PROVE  Accepting(source, media, step', number', fileList', loadList', batchList', loadInfo',
                   toAdd', received'.members)
<1> DEFINE ms == source.ms
           list == FileList(ms, source.version, FirstMedium, media)
           loads == LoadList(ms, FirstMedium)
<1>1. Fit(ms) /\ FirstMedium \in Media(ms)
  BY Survey DEF Whole, Surveyed, Media, MediumNumber, FirstMedium
<1>2. /\ media[<<FirstMedium, ListOfFiles>>] = list /\ media[<<FirstMedium, ListOfLoads>>] = loads
      /\ HasBatchList(ms) => media[<<FirstMedium, ListOfBatches>>] = BatchList(ms, FirstMedium)
  BY <1>1, WholeLists
<1>3. HasBatches(list) <=> HasBatchList(ms)
  BY HasBatchesFits
<1>4. list.members = LastMedium(ms, Root)
  BY <1>1, FileListFields
<1> HIDE DEF list
<1>5. /\ fileList' = list /\ loadList' = loads /\ Indexed(ms, loadInfo')
      /\ HasBatches(list) => batchList' = media[<<FirstMedium, ListOfBatches>>]
      /\ number' = NextMedium(FirstMedium)
      /\ step' = IF LoopGoesOn(FirstMedium, list.members) THEN "further" ELSE "files"
  BY <1>2 DEF LoadFirstMedium, Indexed
<1>6. Kept(source, media, fileList', loadList', batchList', loadInfo')
  BY <1>2, <1>3, <1>5 DEF Kept, list
<1>7. step' = "further" => number' \in Media(ms)
  BY <1>1, <1>4, <1>5, LoopStep
<1> QED BY <1>5, <1>6, <1>7 DEF Accepting

LEMMA FurtherMediumAccepting ==
  ASSUME Whole(source, media), AcceptingNow, LoadFurtherMedium
  PROVE  Accepting(source, media, step', number', fileList', loadList', batchList', loadInfo',
                   toAdd', received'.members)
<1>1. /\ Fit(source.ms) /\ number \in Media(source.ms) /\ KeptNow
  BY DEF Whole, AcceptingNow, Accepting, LoadFurtherMedium, KeptNow
<1>2. fileList.members = LastMedium(source.ms, Root)
  BY <1>1, FileListFields DEF KeptNow, Kept
<1>3. /\ number' = NextMedium(number)
      /\ step' = IF LoopGoesOn(number, fileList.members) THEN "further" ELSE "files"
      /\ UNCHANGED <<fileList, loadList, batchList, loadInfo>>
  BY DEF LoadFurtherMedium
<1>4. step' = "further" => number' \in Media(source.ms)
  BY <1>1, <1>2, <1>3, LoopStep
<1> QED BY <1>1, <1>3, <1>4 DEF Accepting, KeptNow

LEMMA FillAccepting ==
  ASSUME Whole(source, media), AcceptingNow,
         AddFiles \/ Accept \/ \E e \in toAdd : AddLoad(e) \/ AddBatch(e)
  PROVE  Accepting(source, media, step', number', fileList', loadList', batchList', loadInfo',
                   toAdd', received'.members)
<1>1. /\ UNCHANGED <<fileList, loadList, batchList, loadInfo>>
      /\ step \in {"files", "fill"} /\ step' \in {"fill", "accepted"}
  BY DEF AddFiles, Accept, AddLoad, AddBatch
<1>2. KeptNow
  BY <1>1 DEF AcceptingNow, Accepting, KeptNow
<1>3. Kept(source, media, fileList', loadList', batchList', loadInfo')
  BY <1>1, <1>2 DEF KeptNow
<1>4. step' = "fill" => Filling(source, media, received'.members, toAdd')
  <2>1. CASE AddFiles
    BY <1>2, <2>1, MembersMade DEF Filling
  <2>2. CASE Accept
    BY <2>2 DEF Accept
  <2>3. ASSUME NEW e \in toAdd, AddLoad(e) \/ AddBatch(e)
        PROVE  Filling(source, media, received'.members, toAdd')
    <3>1. step = "fill" /\ toAdd' = toAdd \ {e}
      BY <2>3 DEF AddLoad, AddBatch
    <3>2. received'.members = received.members
      <4>1. CASE AddLoad(e)
        <5>1. \E links, types :
                received' = [received EXCEPT !.links = @ \cup links, !.loadTypes = @ \cup types]
          BY <4>1 DEF AddLoad
        <5> QED BY <5>1
      <4>2. CASE AddBatch(e)
        <5>1. \E targets : received' = [received EXCEPT !.targets = @ \cup targets]
          BY <4>2 DEF AddBatch
        <5> QED BY <5>1
      <4> QED BY <2>3, <4>1, <4>2
    <3> QED BY <3>1, <3>2 DEF AcceptingNow, Accepting, Filling
  <2> QED BY <2>1, <2>2, <2>3
<1> QED BY <1>1, <1>3, <1>4 DEF Accepting

LEMMA NothingRejected ==
  ASSUME Whole(source, media), AcceptingNow
  PROVE  /\ ~FirstMediumRejected /\ ~FurtherMediumRejected /\ ~AmbiguousClass
         /\ \A e \in toAdd : ~LoadRejected(e) /\ ~BatchRejected(e)
<1> DEFINE ms == source.ms
<1>1. ~FirstMediumRejected
  <2>1. Fit(ms) /\ FirstMedium \in Media(ms)
    BY Survey DEF Whole, Surveyed, Media, MediumNumber, FirstMedium
  <2>2. /\ media[<<FirstMedium, ListOfFiles>>] = FileList(ms, source.version, FirstMedium, media)
        /\ media[<<FirstMedium, ListOfLoads>>] = LoadList(ms, FirstMedium)
        /\ HasBatchList(ms) => media[<<FirstMedium, ListOfBatches>>] = BatchList(ms, FirstMedium)
    BY <2>1, WholeLists
  <2>3. FirstReadable
    BY FirstIsReadable
  <2>4. /\ ~MayBeInconsistent(FileList(ms, source.version, FirstMedium, media),
                              LoadList(ms, FirstMedium).loads)
        /\ ~MayBeInconsistent(FileList(ms, source.version, FirstMedium, media),
                              BatchList(ms, FirstMedium).batches)
    BY ListsConsistent
  <2>5. HasBatches(FileList(ms, source.version, FirstMedium, media)) <=> HasBatchList(ms)
    BY HasBatchesFits
  <2> QED BY <2>2, <2>3, <2>4, <2>5 DEF FirstMediumRejected
<1>2. ~FurtherMediumRejected
  BY FurtherAgrees DEF FurtherMediumRejected, AcceptingNow, Accepting, KeptNow
<1>3. ~AmbiguousClass
  BY ClassesApart DEF AmbiguousClass, AcceptingNow, Accepting, KeptNow
<1>4. ASSUME NEW e \in toAdd, step = "fill"
      PROVE  ~LoadRejected(e) /\ ~BatchRejected(e)
  <2>1. KeptNow /\ FillingNow
    BY <1>4 DEF AcceptingNow, Accepting, KeptNow, FillingNow
  <2>2. PICK f \in Files(ms) : e = Entry(ms, source.version, media, f)
    BY <2>1 DEF FillingNow, Filling
  <2>3. Class(e.name) = ClassIn(ms, f)
    <3>1. e.name = ms.name[f]
      BY <2>2 DEF Entry, FileInfo
    <3> QED BY <2>1, <3>1, ClassTold
  <2>4. Class(e.name) = "load" => f \in Load
    BY <2>3 DEF ClassIn
  <2>5. Class(e.name) = "batch" => f \in Batch /\ HasBatchList(ms)
    BY <2>3 DEF ClassIn
  <2>6. ~LoadRejected(e)
    BY <2>1, <2>2, <2>4, LoadAgreesWith DEF LoadRejected
  <2>7. ~BatchRejected(e)
    BY <2>1, <2>2, <2>5, BatchIsReadable DEF BatchRejected
  <2> QED BY <2>6, <2>7
<1>5. ASSUME NEW e \in toAdd, step # "fill"
      PROVE  ~LoadRejected(e) /\ ~BatchRejected(e)
  BY <1>5 DEF LoadRejected, BatchRejected
<1> QED BY <1>1, <1>2, <1>3, <1>4, <1>5

(* What arrived undisturbed is the disk of the compiler, and the decompiler *)
(* accepts it as far as it has come.                                       *)
Acceptance ==
  faults = <<>> /\ media # <<>> =>
    phase = "compiled" /\ media = disk /\ (Whole(source, media) => AcceptingNow)

LEMMA SendAcceptance ==
  ASSUME Acceptance, Send
  PROVE  Acceptance'
<1>1. phase # "compiled"
  BY DEF Send, Compile, SetMediaPaths, CreateMedium, MediumExported, LoadsExported, BatchesExported,
         ExportRegularFile, ExportDirectory, ExportLoad, ExportBatch, ExportListOfLoads,
         ExportListOfBatches, ExportListOfFiles, WriteList, CompilationFails
<1> QED BY <1>1 DEF Send, decompilerVars, Acceptance

LEMMA OnTheWayAcceptance ==
  ASSUME DecompilerTyped, EditionInv, Acceptance, OnTheWay
  PROVE  Acceptance'
<1>1. CASE Ship
  <2>1. /\ phase' = "compiled" /\ media' = disk /\ disk' = disk
        /\ step' = "first"
    BY <1>1 DEF Ship, compilerVars, EditionInv, Reading
  <2> QED BY <2>1 DEF Acceptance, AcceptingNow, Accepting
<1>2. CASE faults' # <<>>
  BY <1>2 DEF Acceptance
<1>3. OnTheWay => Ship \/ faults' # <<>>
  <2>1. \A x : Append(faults, x) # <<>>
    BY DEF DecompilerTyped
  <2> QED BY <2>1 DEF OnTheWay, Lose, Damage, Exchange, TakeEarlier, Disorder, Fault
<1> QED BY <1>1, <1>2, <1>3

LEMMA ReceiveAcceptance ==
  ASSUME Acceptance, Receive
  PROVE  Acceptance'
<1>1. media # <<>> /\ UNCHANGED <<source, phase, disk, media, faults>>
  BY DEF Receive, Decompile, compilerVars, Reject, LoadFirstMedium, FirstMediumRejected,
         LoadFurtherMedium, FurtherMediumRejected, AddFiles, AmbiguousClass, AddLoad, LoadRejected,
         AddBatch, BatchRejected, Accept
<1> SUFFICES ASSUME faults = <<>>, Whole(source, media), AcceptingNow
             PROVE  Accepting(source, media, step', number', fileList', loadList', batchList',
                              loadInfo', toAdd', received'.members)
  BY <1>1 DEF Acceptance, AcceptingNow
<1> QED BY FirstMediumAccepting, FurtherMediumAccepting, FillAccepting, NothingRejected
        DEF Receive, Decompile

LEMMA AcceptanceSound == Spec => []Acceptance
<1>1. Init => Acceptance
  BY DEF Init, Acceptance
<1>2. DecompilerTyped /\ EditionInv /\ Acceptance /\ [Next]_vars => Acceptance'
  <2> SUFFICES ASSUME DecompilerTyped, EditionInv, Acceptance, [Next]_vars
               PROVE  Acceptance'
    OBVIOUS
  <2>1. CASE UNCHANGED vars
    BY <2>1 DEF vars, compilerVars, decompilerVars, Acceptance, AcceptingNow
  <2> QED BY <2>1, SendAcceptance, OnTheWayAcceptance, ReceiveAcceptance DEF Next
<1> QED BY <1>1, <1>2, DecompilerSoundness, EditionSoundness, PTL DEF Spec

LEMMA WholeMedia ==
  ASSUME CompilerSound, CompilesWhatItCan, MediaAsDescribed, phase = "compiled", media = disk,
         NamesTell,
         \A f \in Files(Set) \ RegularFile : ~(Copied(f) /\ source.original[f] = "earlier")
  PROVE  Whole(source, media)
<1>1. /\ Fit(source.ms) /\ IsFiniteSet(Files(source.ms)) /\ source \in SourceType
  BY SourcesFit, TransportAssumption DEF CompilerSound, TransportAssumption
<1>2. Tells(source)
  BY DEF NamesTell, Tells, Set
<1>3. ASSUME NEW f \in Files(Set) \cap (Load \cup Batch), Copied(f)
      PROVE  source.original[f] = "current"
  <2>1. source.original[f] # "missing"
    BY <1>3 DEF CompilesWhatItCan, CanBeCompiled
  <2>2. source.original[f] \in {"missing", "current", "earlier"}
    BY <1>1 DEF SourceType, Original
  <2>3. source.original[f] # "earlier"
    BY <1>3, Classes
  <2> QED BY <2>1, <2>2, <2>3
<1>4. IsImage(disk, Set, source.version, source.value)
  BY <1>3 DEF MediaAsDescribed
<1> QED BY <1>1, <1>2, <1>4 DEF Whole, Set

(* What was compiled and arrives undisturbed is not rejected, with and     *)
(* without the check of integrity, unless names are ambiguous or the       *)
(* header or batch file of another edition was taken over: all that the    *)
(* decompiler compares, and all files that it searches, agree.             *)
THEOREM CompiledIsAccepted == Spec => []AcceptsWhatWasCompiled
<1>1. CompilerSound /\ CompilesWhatItCan /\ EditionInv /\ Acceptance => AcceptsWhatWasCompiled
  <2> SUFFICES ASSUME CompilerSound, CompilesWhatItCan, EditionInv, Acceptance,
                      step = "rejected", faults = <<>>, NamesTell,
                      \A f \in Files(Set) \ RegularFile :
                        ~(Copied(f) /\ source.original[f] = "earlier")
               PROVE  FALSE
    BY DEF AcceptsWhatWasCompiled
  <2>1. media # <<>>
    BY DEF EditionInv, Reading
  <2>2. phase = "compiled" /\ media = disk /\ (Whole(source, media) => AcceptingNow)
    BY <2>1 DEF Acceptance
  <2>3. Whole(source, media)
    BY <2>2, SoundDescribed, WholeMedia
  <2> QED BY <2>2, <2>3 DEF AcceptingNow, Accepting
<1> QED BY <1>1, CompilerSoundness, CompilesExactly, EditionSoundness, AcceptanceSound, PTL

-----------------------------------------------------------------------------
(* One edition is delivered: what stands on the media, whatever happened   *)
(* to them.                                                                *)

(* An edition: the contents of files, and for every load the contents that *)
(* its header is made for.                                                 *)
Issues(s) ==
  {[value |-> s.value,
    loaded |-> [l \in Load |-> IF TakenOver(s, l) /\ s.original[l] = "earlier"
                               THEN s.earlier ELSE s.value]],
   [value |-> s.earlier, loaded |-> [l \in Load |-> s.earlier]]}

HeaderFor(s, c, l) == LoadHeader(s.ms, s.version, l, DataImage(s.ms, c.loaded[l]))

Holds(s, D, c) ==
  \A f \in Files(s.ms) :
    /\ f \in RegularFile => D[Location(s.ms, f)] = Data(c.value[f])
    /\ f \in Load => D[Location(s.ms, f)] = HeaderFor(s, c, f)

(* A list of files of edition c for medium k. *)
ListOf(s, c, k, x) == \E D : Holds(s, D, c) /\ x = FileList(s.ms, s.version, k, D)

ListIssued(s, x, k) == \E c \in Issues(s) : ListOf(s, c, k, x)

(* Faults move, remove and replace contents, but make no new list, header  *)
(* or batch file, and headers and batch files keep their path.             *)
Genuine(s, path, x) ==
  \/ x.kind = "data"
  \/ \E k \in Media(s.ms) : ListIssued(s, x, k)
  \/ \E k : x = LoadList(s.ms, k) \/ x = BatchList(s.ms, k)
  \/ \E l \in Files(s.ms) \cap Load :
       path = Path(s.ms, l) /\ \E c \in Issues(s) : x = HeaderFor(s, c, l)
  \/ \E b \in Files(s.ms) \cap Batch : path = Path(s.ms, b) /\ x = BatchContent(s.ms, b)

AllGenuine(s, M) == \A loc \in DOMAIN M : Genuine(s, loc[2], M[loc])

(* Damaged contents are data, whatever stood there.                        *)
LEMMA DataKind == \A v : Data(v).kind = "data"
BY DEF Data

(* The kind of a content tells which of these it is.                       *)
LEMMA KindTells ==
  ASSUME NEW s, Fit(s.ms), NEW path, NEW x, Genuine(s, path, x)
  PROVE  /\ x.kind = "fileList" => x.medium \in Media(s.ms) /\ ListIssued(s, x, x.medium)
         /\ x.kind = "loadList" => \E k : x = LoadList(s.ms, k)
         /\ x.kind = "batchList" => \E k : x = BatchList(s.ms, k)
         /\ x.kind = "load" => \E l \in Files(s.ms) \cap Load :
              path = Path(s.ms, l) /\ \E c \in Issues(s) : x = HeaderFor(s, c, l)
         /\ x.kind = "batch" => \E b \in Files(s.ms) \cap Batch :
              path = Path(s.ms, b) /\ x = BatchContent(s.ms, b)
<1>1. ASSUME NEW k \in Media(s.ms), ListIssued(s, x, k)
      PROVE  /\ x.kind = "fileList" /\ x.medium \in Media(s.ms)
             /\ ListIssued(s, x, x.medium)
  <2>1. PICK c \in Issues(s) : ListOf(s, c, k, x)
    BY <1>1 DEF ListIssued
  <2>2. PICK D : Holds(s, D, c) /\ x = FileList(s.ms, s.version, k, D)
    BY <2>1 DEF ListOf
  <2>3. x.kind = "fileList" /\ x.medium = k
    BY <2>2, FileListFields
  <2> QED BY <1>1, <2>3
<1>2. \A k : LoadList(s.ms, k).kind = "loadList" /\ BatchList(s.ms, k).kind = "batchList"
  BY DEF LoadList, BatchList
<1>3. \A c, l : HeaderFor(s, c, l).kind = "load"
  BY DEF HeaderFor, LoadHeader
<1>4. \A b : BatchContent(s.ms, b).kind = "batch"
  BY DEF BatchContent
<1> QED BY <1>1, <1>2, <1>3, <1>4 DEF Genuine

(* The compiler leaves one edition on its media, ...                       *)
LEMMA DiskHolds ==
  ASSUME CompilerSound, CompilesWhatItCan, phase = "compiled"
  PROVE  \E c \in Issues(source) : Holds(source, disk, c)
<1> DEFINE s == source
           c == [value |-> s.value,
                 loaded |-> [l \in Load |-> IF TakenOver(s, l) /\ s.original[l] = "earlier"
                                            THEN s.earlier ELSE s.value]]
<1>1. c \in Issues(s) /\ c.value = s.value
  BY DEF Issues
<1>2. Fit(s.ms) /\ s \in SourceType
  BY SourcesFit DEF CompilerSound
<1>3. ASSUME NEW f \in Files(s.ms)
      PROVE  /\ Location(s.ms, f) \in DOMAIN disk /\ disk[Location(s.ms, f)] = Meant(s, disk, f)
             /\ f \in Load /\ ~TakenOver(s, f) =>
                  \A g \in s.ms.data[f] \cup s.ms.support[f] : Reads(s, disk, g)
  BY CompiledDisk DEF CompilerSound, Faithful, Reads, Set
<1>4. ASSUME NEW f \in Files(s.ms) \cap RegularFile
      PROVE  disk[Location(s.ms, f)] = Data(s.value[f])
  BY <1>3 DEF Meant
<1>5. ASSUME NEW l \in Files(s.ms) \cap Load
      PROVE  disk[Location(s.ms, l)] = HeaderFor(s, c, l)
  <2>1. c.loaded[l] = IF TakenOver(s, l) /\ s.original[l] = "earlier" THEN s.earlier ELSE s.value
    OBVIOUS
  <2>2. l \notin RegularFile
    BY Classes
  <2>3. CASE TakenOver(s, l)
    <3>1. s.original[l] \in {"current", "earlier"}
      <4>1. Copied(l) <=> TakenOver(s, l)
        BY DEF Copied, TakenOver
      <4>2. s.original[l] # "missing"
        BY <2>3, <4>1 DEF CompilesWhatItCan, CanBeCompiled, Set
      <4> QED BY <1>2, <4>2 DEF SourceType, Original
    <3>2. Meant(s, disk, l) = FileContent(s.ms, s.version, c.loaded[l], l)
      <4> HIDE DEF c
      <4> QED BY <2>1, <2>2, <2>3, <3>1 DEF Meant
    <3> HIDE DEF c
    <3> QED BY <1>3, <2>2, <3>2 DEF FileContent, HeaderFor
  <2>4. CASE ~TakenOver(s, l)
    <3>1. \A g \in s.ms.data[l] \cup s.ms.support[l] :
            disk[Location(s.ms, g)] = DataImage(s.ms, s.value)[Location(s.ms, g)]
      BY <1>2, <1>4, LinkedFiles, DataImageContents
    <3>2. LoadHeader(s.ms, s.version, l, disk)
            = LoadHeader(s.ms, s.version, l, DataImage(s.ms, s.value))
      BY <3>1, HeaderOfFiles
    <3>3. Meant(s, disk, l) = LoadHeader(s.ms, s.version, l, disk)
      BY <2>2, <2>4 DEF Meant
    <3>4. c.loaded[l] = s.value
      BY <2>1, <2>4
    <3> HIDE DEF c
    <3> QED BY <1>3, <3>2, <3>3, <3>4 DEF HeaderFor
  <2> QED BY <2>3, <2>4
<1> HIDE DEF c
<1>6. Holds(s, disk, c)
  BY <1>1, <1>4, <1>5 DEF Holds
<1> QED BY <1>1, <1>6

(* ... all of it genuine, ...                                              *)
LEMMA DiskGenuine ==
  ASSUME CompilerSound, CompilesWhatItCan, phase = "compiled"
  PROVE  AllGenuine(source, disk)
<1> SUFFICES ASSUME NEW loc \in DOMAIN disk
             PROVE  Genuine(source, loc[2], disk[loc])
  BY DEF AllGenuine
<1>1. Fit(source.ms)
  BY SourcesFit DEF CompilerSound
<1>2. PICK c \in Issues(source) : Holds(source, disk, c)
  BY DiskHolds
<1>3. CASE loc \in FileLocations(source.ms)
  <2>1. PICK f \in Files(source.ms) : loc = Location(source.ms, f)
    BY <1>3 DEF FileLocations
  <2>2. loc[2] = Path(source.ms, f)
    BY <2>1 DEF Location
  <2>3. f \in RegularFile \cup Load \cup Batch
    BY DEF Files, File
  <2>4. CASE f \in RegularFile
    <3>1. disk[loc] = Data(c.value[f])
      BY <1>2, <2>1, <2>4 DEF Holds
    <3> QED BY <3>1, DataKind DEF Genuine
  <2>5. CASE f \in Load
    BY <1>2, <2>1, <2>2, <2>5 DEF Holds, Genuine
  <2>6. CASE f \in Batch
    <3>1. disk[loc] = Meant(source, disk, f)
      BY <2>1 DEF CompilerSound, Faithful, Reads
    <3>2. disk[loc] = BatchContent(source.ms, f)
      BY <2>6, <3>1, Classes DEF Meant, FileContent
    <3> QED BY <2>2, <2>6, <3>2 DEF Genuine
  <2> QED BY <2>3, <2>4, <2>5, <2>6
<1>4. CASE loc \in Media(source.ms) \X ListNames(source.ms)
  <2>1. PICK m \in Media(source.ms), L \in ListNames(source.ms) : loc = <<m, L>>
    BY <1>4
  <2>2. disk[loc] = ListMeant(source, disk, L, m)
    BY <2>1, CompiledDisk DEF Media, ListNames, ListsDone, FirstMedium, Set
  <2>3. ListIssued(source, FileList(source.ms, source.version, m, disk), m)
    BY <1>2 DEF ListIssued, ListOf
  <2> QED BY <2>2, <2>3 DEF ListMeant, Genuine
<1> QED BY <1>3, <1>4 DEF CompilerSound, Tidy

(* ... and so is what the earlier edition has.                             *)
LEMMA ImageGenuine ==
  ASSUME NEW s, Fit(s.ms)
  PROVE  AllGenuine(s, Image(s.ms, s.version, s.earlier))
<1> DEFINE ms == s.ms
           v == s.version
           c == [value |-> s.earlier, loaded |-> [l \in Load |-> s.earlier]]
           sides == FirstMedium .. LastMedium(ms, Root)
           files == [loc \in FileLocations(ms) |->
                       FileContent(ms, v, s.earlier, CHOOSE f \in Files(ms) : Location(ms, f) = loc)]
           loadLists == [loc \in sides \X {ListOfLoads} |-> LoadList(ms, loc[1])]
           batchLists == [loc \in sides \X (IF HasBatchList(ms) THEN {ListOfBatches} ELSE {}) |->
                            BatchList(ms, loc[1])]
           listed == Extended(files, Extended(loadLists, batchLists))
           fileLists == [loc \in sides \X {ListOfFiles} |-> FileList(ms, v, loc[1], listed)]
<1>1. ASSUME NEW D, NEW E, AllGenuine(s, D), AllGenuine(s, E)
      PROVE  AllGenuine(s, Extended(D, E))
  BY <1>1 DEF Extended, AllGenuine
<1>2. ASSUME NEW f \in Files(ms)
      PROVE  /\ Location(ms, f) \in DOMAIN files
             /\ files[Location(ms, f)] = FileContent(ms, v, s.earlier, f)
  <2> DEFINE found == CHOOSE g \in Files(ms) : Location(ms, g) = Location(ms, f)
  <2>1. found \in Files(ms) /\ Location(ms, found) = Location(ms, f)
    OBVIOUS
  <2>2. found = f
    BY <2>1, LocationsDiffer
  <2>3. Location(ms, f) \in FileLocations(ms)
    BY DEF FileLocations
  <2> QED BY <2>2, <2>3
<1>3. c \in Issues(s) /\ c.value = s.earlier /\ \A l \in Load : c.loaded[l] = s.earlier
  BY DEF Issues
<1> HIDE DEF c
<1>4. ASSUME NEW f \in Files(ms)
      PROVE  /\ f \in RegularFile => FileContent(ms, v, s.earlier, f) = Data(c.value[f])
             /\ f \in Load => FileContent(ms, v, s.earlier, f) = HeaderFor(s, c, f)
             /\ f \in Batch => FileContent(ms, v, s.earlier, f) = BatchContent(ms, f)
             /\ f \in RegularFile \cup Load \cup Batch
  BY <1>3, Classes DEF FileContent, HeaderFor, Files, File
<1>5. AllGenuine(s, files)
  <2> SUFFICES ASSUME NEW f \in Files(ms)
               PROVE  Genuine(s, Path(ms, f), FileContent(ms, v, s.earlier, f))
    <3>1. DOMAIN files = {Location(ms, f) : f \in Files(ms)}
      BY DEF FileLocations
    <3>2. \A f : Location(ms, f)[2] = Path(ms, f)
      BY DEF Location
    <3> HIDE DEF files
    <3> QED BY <1>2, <3>1, <3>2 DEF AllGenuine
  <2>1. f \in RegularFile => FileContent(ms, v, s.earlier, f).kind = "data"
    BY <1>4, DataKind
  <2> QED BY <1>3, <1>4, <2>1 DEF Genuine
<1>6. AllGenuine(s, loadLists) /\ AllGenuine(s, batchLists)
  BY DEF AllGenuine, Genuine
<1>7. Holds(s, listed, c)
  <2>1. \A f \in Files(ms) : listed[Location(ms, f)] = files[Location(ms, f)]
    <3> HIDE DEF files, loadLists, batchLists
    <3> QED BY <1>2 DEF Extended
  <2> HIDE DEF listed, files
  <2> QED BY <1>2, <1>4, <2>1 DEF Holds
<1>8. AllGenuine(s, fileLists)
  <2> HIDE DEF listed
  <2>1. \A k : ListIssued(s, FileList(ms, v, k, listed), k)
    BY <1>3, <1>7 DEF ListIssued, ListOf
  <2>2. \A loc \in DOMAIN fileLists :
          loc[1] \in Media(ms) /\ fileLists[loc] = FileList(ms, v, loc[1], listed)
    BY DEF Media
  <2> HIDE DEF fileLists
  <2> QED BY <2>1, <2>2 DEF AllGenuine, Genuine
<1>9. AllGenuine(s, Extended(listed, fileLists))
  <2> HIDE DEF files, loadLists, batchLists, fileLists
  <2> QED BY <1>1, <1>5, <1>6, <1>8
<1>10. Image(ms, v, s.earlier) = Extended(listed, fileLists)
  BY DEF Image
<1> HIDE DEF listed, fileLists
<1> QED BY <1>9, <1>10

(* Whatever happens on the way, the media hold only what some edition has. *)
LEMMA OnTheWayGenuine ==
  ASSUME CompilerSound, CompilesWhatItCan, DecompilerTyped, AllGenuine(source, media), OnTheWay
  PROVE  AllGenuine(source, media')
<1>1. CASE Ship
  BY <1>1, DiskGenuine DEF Ship
<1>2. ASSUME NEW loc \in DOMAIN media, Lose(loc)
      PROVE  AllGenuine(source, media')
  <2>1. media' = Restrict(media, DOMAIN media \ {loc})
    BY <1>2 DEF Lose, Fault
  <2> QED BY <2>1 DEF Restrict, AllGenuine
<1>3. ASSUME NEW loc \in DOMAIN media, NEW v \in Value, Damage(loc, v)
      PROVE  AllGenuine(source, media')
  <2>1. media' = [media EXCEPT ![loc] = Data(v)]
    BY <1>3 DEF Damage, Fault
  <2>2. \A path : Genuine(source, path, Data(v))
    BY DataKind DEF Genuine
  <2> QED BY <2>1, <2>2 DEF AllGenuine
<1>4. ASSUME NEW m, NEW n, Exchange(m, n)
      PROVE  AllGenuine(source, media')
  <2>1. media' = ExchangedMedia(m, n)
    BY <1>4, ExchangeIsFault DEF Fault
  <2>2. ASSUME NEW x \in DOMAIN media
        PROVE  /\ ExchangedMedia(m, n)[Swapped(m, n, x)] = media[x]
               /\ Swapped(m, n, x)[2] = x[2]
    <3>1. Swapped(m, n, Swapped(m, n, x)) = x
      BY SwapTwice DEF DecompilerTyped
    <3> QED BY <3>1 DEF ExchangedMedia, Swapped
  <2>3. \A y \in DOMAIN ExchangedMedia(m, n) : \E x \in DOMAIN media : y = Swapped(m, n, x)
    BY DEF ExchangedMedia
  <2> QED BY <2>1, <2>2, <2>3 DEF AllGenuine
<1>5. ASSUME NEW m, TakeEarlier(m)
      PROVE  AllGenuine(source, media')
  <2>1. media' = WithEarlier(source, media, m)
    BY <1>5, EarlierIsFault DEF Fault
  <2>2. AllGenuine(source, Image(source.ms, source.version, source.earlier))
    BY SourcesFit, ImageGenuine DEF CompilerSound
  <2> QED BY <2>1, <2>2, WithEarlierFiles DEF AllGenuine
<1>6. ASSUME NEW d, Disorder(d)
      PROVE  AllGenuine(source, media')
  BY <1>6 DEF Disorder, decompilerVars
<1> QED BY <1>1, <1>2, <1>3, <1>4, <1>5, <1>6 DEF OnTheWay

-----------------------------------------------------------------------------
(* One edition is delivered: what the decompiler makes of the media.       *)

(* The lists that are kept, and which of their entries were compared with  *)
(* the files: those of the media before k.                                 *)
Lists(s, list, batches, infos) ==
  /\ ListIssued(s, list, FirstMedium)
  /\ Indexed(s.ms, infos)
  /\ HasBatchList(s.ms) => batches.batches = BatchList(s.ms, FirstMedium).batches

SameChecksum(M, e) == Checksum(M[EntryLocation(e)]) = e.crc

Looked(vf, M, st, list, k) ==
  vf => \A e \in list.files : (st = "further" => e.medium \in 1 .. k - 1) => SameChecksum(M, e)

(* The class that a name gives to a file. *)
ClassNamed(ms, n) ==
  IF \E l \in Files(ms) \cap Load : ms.name[l] = n THEN "load"
  ELSE IF HasBatchList(ms) /\ \E b \in Files(ms) \cap Batch : ms.name[b] = n THEN "batch"
  ELSE "regular"

Made(s, infos, e) ==
  [path |-> e.path, name |-> e.name, class |-> ClassNamed(s.ms, e.name), crc |-> e.crc,
   medium |-> IF ClassNamed(s.ms, e.name) = "load" THEN infos[e.name].medium ELSE e.medium,
   check |-> e.check]

StoredAs(v, type) == IF v = "Supplement2" THEN NotUsed ELSE type

CheckedIf(vf, x) == IF vf THEN x ELSE NoValue

(* What arrives of load l, of batch b, and of the list files.              *)
LinkTo(s, vf, c, l, role, f) ==
  [load |-> l, role |-> role, name |-> s.ms.name[f],
   check |-> StoredAs(s.version, EffectiveCheckType(s.ms, <<l, role>>)),
   content |-> CheckedIf(vf, Data(c.loaded[l][f]))]

LinksOf(s, vf, c, l) ==
  UNION {{LinkTo(s, vf, c, l, role, f) : f \in LoadFiles(s.ms, l, role)} : role \in Roles}

TypeOfLoad(s, l) == <<l, StoredAs(s.version, EffectiveCheckType(s.ms, <<l, "load">>))>>

TargetsOf(s, b) ==
  {[batch |-> b, position |-> p, loads |-> s.ms.targets[b][p]] :
     p \in {x \in Position : s.ms.targets[b][x] # NoValue}}

ListTypes(s) ==
  <<StoredAs(s.version, EffectiveCheckType(s.ms, <<Root, "listOfFiles">>)),
    StoredAs(s.version, EffectiveCheckType(s.ms, <<Root, "listOfLoads">>)),
    IF HasBatchList(s.ms)
    THEN StoredAs(s.version, EffectiveCheckType(s.ms, <<Root, "listOfBatches">>)) ELSE NotUsed>>

(* The links as the recipient looks at them. *)
LinkSeen(vf, M, k) ==
  [load |-> k.load, role |-> k.role, name |-> k.file.name, check |-> k.check,
   content |-> CheckedIf(vf, M[EntryLocation(k.file)])]

LinksSeen(vf, M, links) == {LinkSeen(vf, M, k) : k \in links}

(* The files that are no longer to be added. *)
Done(ms, add) == {f \in Files(ms) : \A e \in add : EntryLocation(e) # Location(ms, f)}

AllLinks(s, vf, c, S) == UNION {LinksOf(s, vf, c, l) : l \in S \cap Load}
AllLoadTypes(s, S) == {TypeOfLoad(s, l) : l \in S \cap Load}
AllTargets(s, S) == UNION {TargetsOf(s, b) : b \in S \cap Batch}

(* The files of F are what their names say.                                *)
RightlyNamed(s, infos, F) ==
  \A f \in F :
    /\ ClassNamed(s.ms, s.ms.name[f]) = "load" => f \in Load /\ infos[s.ms.name[f]].load = f
    /\ ClassNamed(s.ms, s.ms.name[f]) = "batch" => f \in Batch

NamesApart(ms) ==
  HasBatchList(ms) =>
    \A l \in Files(ms) \cap Load, b \in Files(ms) \cap Batch : ms.name[l] # ms.name[b]

(* What is received when the files of edition c in F are added.            *)
Added(s, vf, M, list, infos, c, F, rcv) ==
  /\ ListOf(s, c, FirstMedium, list)
  /\ NamesApart(s.ms) /\ RightlyNamed(s, infos, F)
  /\ rcv.members = {Made(s, infos, e) : e \in list.files}
  /\ LinksSeen(vf, M, rcv.links) = AllLinks(s, vf, c, F)
  /\ rcv.loadTypes = AllLoadTypes(s, F)
  /\ BatchesListed(s.ms) => rcv.targets = AllTargets(s, F)
  /\ rcv.lists = ListTypes(s)

FiveFields(rcv) ==
  rcv = [members |-> rcv.members, links |-> rcv.links, loadTypes |-> rcv.loadTypes,
         targets |-> rcv.targets, lists |-> rcv.lists]

Delivering(s, M, vf, st, k, list, batches, infos, add, rcv) ==
  /\ FiveFields(rcv)
  /\ st = "first" => rcv = NothingReceived
  /\ st \in {"further", "files"} => rcv = [NothingReceived EXCEPT !.lists = ListTypes(s)]
  /\ st = "further" => k \in Media(s.ms)
  /\ st \in {"further", "files", "fill", "accepted"} =>
       Lists(s, list, batches, infos) /\ Looked(vf, M, st, list, k)
  /\ st \in {"fill", "accepted"} =>
       /\ add \subseteq list.files
       /\ \E c \in Issues(s) : Added(s, vf, M, list, infos, c, Done(s.ms, add), rcv)
  /\ st = "accepted" => add = {}

DeliveringNow ==
  Delivering(source, media, verify, step, number, fileList, batchList, loadInfo, toAdd, received)

(* The type of a recorded check value does not depend on the content.     *)
LEMMA RecordedType == \A v, t, x : Recorded(v, t, x).type = StoredAs(v, t)
BY DEF Recorded, CheckValue, NoCheckValue, StoredAs

(* What an entry says of its file, whatever edition the list is of.        *)
EntryFor(s, e, f) ==
  /\ e.name = s.ms.name[f] /\ e.path = Front(Path(s.ms, f)) /\ e.medium = EffectiveMedium(s.ms, f)
  /\ e.check.type = StoredAs(s.version, EffectiveCheckType(s.ms, <<f, "file">>))
  /\ EntryLocation(e) = Location(s.ms, f)

(* Entries are made by this.                                               *)
LEMMA EntryIsFor ==
  ASSUME NEW s, Fit(s.ms), NEW D, NEW f \in Files(s.ms)
  PROVE  EntryFor(s, Entry(s.ms, s.version, D, f), f)
<1> DEFINE e == Entry(s.ms, s.version, D, f)
<1>1. /\ e.name = s.ms.name[f] /\ e.path = Front(Path(s.ms, f))
      /\ e.medium = EffectiveMedium(s.ms, f) /\ EntryLocation(e) = Location(s.ms, f)
      /\ e.check = Recorded(s.version, EffectiveCheckType(s.ms, <<f, "file">>), D[Location(s.ms, f)])
  BY EntryFields
<1> QED BY <1>1, RecordedType DEF EntryFor

(* A list of any edition has an entry for every file, and no other.        *)
LEMMA ListedFiles ==
  ASSUME NEW s, Fit(s.ms), NEW list, NEW k, ListIssued(s, list, k)
  PROVE  /\ list.members = LastMedium(s.ms, Root) /\ (HasBatches(list) <=> HasBatchList(s.ms))
         /\ \A e \in list.files : \E f \in Files(s.ms) : EntryFor(s, e, f)
         /\ \A f \in Files(s.ms) : \E e \in list.files : EntryFor(s, e, f)
         /\ \A e \in list.files : e.medium \in Media(s.ms)
<1>1. PICK c \in Issues(s) : ListOf(s, c, k, list)
  BY DEF ListIssued
<1>2. PICK D : list = FileList(s.ms, s.version, k, D)
  BY <1>1 DEF ListOf
<1>3. list.files = {Entry(s.ms, s.version, D, f) : f \in Files(s.ms)}
      /\ list.members = LastMedium(s.ms, Root)
  BY <1>2, FileListFields
<1>4. HasBatches(list) <=> HasBatchList(s.ms)
  BY <1>2, HasBatchesFits
<1>5. \A f \in Files(s.ms) : EntryFor(s, Entry(s.ms, s.version, D, f), f)
  BY EntryIsFor
<1>6. \A f \in Files(s.ms) : EffectiveMedium(s.ms, f) \in Media(s.ms)
  BY Survey DEF Surveyed
<1> QED BY <1>3, <1>4, <1>5, <1>6 DEF EntryFor

(* An entry is for one file.                                               *)
LEMMA EntryForOne ==
  ASSUME NEW s, Fit(s.ms), NEW e, NEW f \in Files(s.ms), NEW g \in Files(s.ms),
         EntryFor(s, e, f), EntryFor(s, e, g)
  PROVE  f = g
BY LocationsDiffer DEF EntryFor

(* The checksum in the entry is that of the edition. *)
LEMMA ListedChecksum ==
  ASSUME NEW s, Fit(s.ms), NEW c, NEW k, NEW list, ListOf(s, c, k, list), NEW e \in list.files,
         NEW f \in Files(s.ms), EntryFor(s, e, f)
  PROVE  /\ f \in RegularFile => e.crc = Crc[c.value[f]]
         /\ f \in Load => e.crc = HeaderFor(s, c, f)
<1>1. PICK D : Holds(s, D, c) /\ list = FileList(s.ms, s.version, k, D)
  BY DEF ListOf
<1>2. PICK g \in Files(s.ms) : e = Entry(s.ms, s.version, D, g)
  BY <1>1, FileListFields
<1>3. f = g
  BY <1>2, EntryIsFor, EntryForOne
<1>4. e.crc = Checksum(D[Location(s.ms, f)])
  <2>1. Entry(s.ms, s.version, D, f).crc = Checksum(D[Location(s.ms, f)])
    BY PathParts DEF Entry, FileInfo, Location
  <2> QED BY <1>2, <1>3, <2>1
<1>5. HeaderFor(s, c, f).kind # "data"
  BY DEF HeaderFor, LoadHeader
<1> QED BY <1>1, <1>4, <1>5, ChecksumOfData DEF Holds, Checksum

(* Two entries of a file are the same. *)
LEMMA EntriesDiffer ==
  ASSUME NEW s, Fit(s.ms), NEW list, NEW k, ListIssued(s, list, k), NEW e \in list.files,
         NEW d \in list.files, NEW f \in Files(s.ms), EntryFor(s, e, f), EntryFor(s, d, f)
  PROVE  e = d
<1>1. PICK c \in Issues(s) : ListOf(s, c, k, list)
  BY DEF ListIssued
<1>2. PICK D : list = FileList(s.ms, s.version, k, D)
  BY <1>1 DEF ListOf
<1>3. list.files = {Entry(s.ms, s.version, D, g) : g \in Files(s.ms)}
  BY <1>2, FileListFields
<1>4. PICK g \in Files(s.ms), h \in Files(s.ms) :
        e = Entry(s.ms, s.version, D, g) /\ d = Entry(s.ms, s.version, D, h)
  BY <1>3
<1>5. g = f /\ h = f
  BY <1>4, EntryIsFor, EntryForOne
<1> QED BY <1>4, <1>5

(* The check value types that the decompiler keeps of the list files.      *)
LEMMA ListedTypes ==
  ASSUME NEW s, NEW list, NEW k, ListIssued(s, list, k)
  PROVE  <<list.check, list.loadList.check.type,
           IF HasBatches(list) THEN (CHOOSE i \in list.batchList : TRUE).check.type ELSE NotUsed>>
           = ListTypes(s)
<1>1. PICK c \in Issues(s) : ListOf(s, c, k, list)
  BY DEF ListIssued
<1>2. PICK D : list = FileList(s.ms, s.version, k, D)
  BY <1>1 DEF ListOf
<1> DEFINE v == s.version
           type(l) == EffectiveCheckType(s.ms, <<Root, l>>)
           loads == FileInfo(v, ListOfLoads[1], <<>>, k, type("listOfLoads"), D)
           batches == FileInfo(v, ListOfBatches[1], <<>>, k, type("listOfBatches"), D)
<1>3. list.check = StoredAs(v, type("listOfFiles"))
  BY <1>2 DEF FileList, StoredAs
<1>4. list.loadList = loads /\ list.batchList = IF HasBatchList(s.ms) THEN {batches} ELSE {}
  BY <1>2 DEF FileList
<1>5. \A n, t : FileInfo(v, n, <<>>, k, t, D).check.type = StoredAs(v, t)
  BY RecordedType DEF FileInfo
<1>6. loads.check.type = StoredAs(v, type("listOfLoads"))
      /\ batches.check.type = StoredAs(v, type("listOfBatches"))
  BY <1>5
<1> HIDE DEF loads, batches
<1>7. HasBatchList(s.ms) => HasBatches(list) /\ (CHOOSE i \in list.batchList : TRUE) = batches
  BY <1>4 DEF HasBatches
<1>8. ~HasBatchList(s.ms) => ~HasBatches(list)
  BY <1>4 DEF HasBatches
<1>9. list.loadList.check.type = StoredAs(v, type("listOfLoads"))
  BY <1>4, <1>6
<1> QED BY <1>3, <1>6, <1>7, <1>8, <1>9 DEF ListTypes

-----------------------------------------------------------------------------
(* The steps of the decompiler keep what is received right: the first      *)
(* medium, ...                                                             *)
LEMMA FirstMediumDelivering ==
  ASSUME CompilerSound, AllGenuine(source, media), DeliveringNow, LoadFirstMedium
  PROVE  Delivering(source, media, verify, step', number', fileList', batchList', loadInfo',
                    toAdd', received')
<1> DEFINE s == source
           list == media[<<FirstMedium, ListOfFiles>>]
           loads == media[<<FirstMedium, ListOfLoads>>]
           batches == media[<<FirstMedium, ListOfBatches>>]
<1>1. /\ step = "first" /\ FirstReadable
      /\ fileList' = list
      /\ loadInfo' \in [{l.name : l \in loads.loads} -> loads.loads]
      /\ \A n \in DOMAIN loadInfo' : loadInfo'[n].name = n
      /\ HasBatches(list) => batchList' = batches
      /\ received' = [received EXCEPT !.lists =
                        <<list.check, list.loadList.check.type,
                          IF HasBatches(list) THEN (CHOOSE i \in list.batchList : TRUE).check.type
                          ELSE NotUsed>>]
      /\ number' = NextMedium(FirstMedium)
      /\ step' = IF LoopGoesOn(FirstMedium, list.members) THEN "further" ELSE "files"
      /\ toAdd' = toAdd
  BY DEF LoadFirstMedium
<1>2. /\ Fit(s.ms) /\ FirstMedium \in Media(s.ms) /\ LastMedium(s.ms, Root) \in Nat
  BY SourcesFit, LoopStep DEF CompilerSound, Set
<1>3. received = NothingReceived
  BY <1>1 DEF DeliveringNow, Delivering
<1>4. ListIssued(s, list, FirstMedium)
  BY <1>1, <1>2, KindTells DEF FirstReadable, CanRead, AllGenuine
<1>5. loads.loads = LoadList(s.ms, FirstMedium).loads
  <2>1. PICK k : loads = LoadList(s.ms, k)
    BY <1>1, <1>2, KindTells DEF FirstReadable, CanRead, AllGenuine
  <2> QED BY <2>1 DEF LoadList
<1>6. HasBatchList(s.ms) => batchList'.batches = BatchList(s.ms, FirstMedium).batches
  <2> SUFFICES ASSUME HasBatchList(s.ms)
               PROVE  batchList'.batches = BatchList(s.ms, FirstMedium).batches
    OBVIOUS
  <2>1. HasBatches(list)
    BY <1>2, <1>4, ListedFiles
  <2>2. PICK k : batches = BatchList(s.ms, k)
    BY <1>1, <1>2, <2>1, KindTells DEF FirstReadable, CanRead, AllGenuine
  <2> QED BY <1>1, <2>1, <2>2 DEF BatchList
<1>7. Indexed(s.ms, loadInfo')
  <2> HIDE DEF loads
  <2> QED BY <1>1, <1>5 DEF Indexed
<1>8. Lists(s, fileList', batchList', loadInfo')
  BY <1>1, <1>4, <1>6, <1>7 DEF Lists
<1>9. /\ list.members = LastMedium(s.ms, Root)
      /\ \A e \in list.files : e.medium \in Media(s.ms)
  BY <1>2, <1>4, ListedFiles
<1>10. verify => \A e \in list.files : e.medium = FirstMedium => SameChecksum(media, e)
  BY <1>1 DEF FirstReadable, MediumIntact, Intact, SameChecksum
<1>11. received' = [NothingReceived EXCEPT !.lists = ListTypes(s)]
  BY <1>1, <1>3, <1>4, ListedTypes
<1>12. FiveFields(received')
  BY <1>11 DEF FiveFields, NothingReceived
<1> HIDE DEF list, loads, batches
<1>13. CASE LoopGoesOn(FirstMedium, LastMedium(s.ms, Root))
  <2>1. number' \in Media(s.ms) /\ number' - 1 \in Nat /\ number' - 1 <= 1
    BY <1>1, <1>2, <1>13, LoopStep DEF FirstMedium
  <2>2. \A x \in 1 .. number' - 1 : x = FirstMedium
    BY <2>1 DEF FirstMedium
  <2>3. Looked(verify, media, step', fileList', number')
    BY <1>1, <1>9, <1>10, <1>13, <2>2 DEF Looked
  <2>4. step' = "further"
    BY <1>1, <1>9, <1>13
  <2> QED BY <1>8, <1>11, <1>12, <2>1, <2>3, <2>4 DEF Delivering
<1>14. CASE ~LoopGoesOn(FirstMedium, LastMedium(s.ms, Root))
  <2>1. LastMedium(s.ms, Root) = 1
    BY <1>2, <1>14, LoopStep DEF FirstMedium
  <2>2. \A x \in Media(s.ms) : x = FirstMedium
    BY <2>1 DEF Media, FirstMedium
  <2>3. step' = "files"
    BY <1>1, <1>9, <1>14
  <2>4. Looked(verify, media, step', fileList', number')
    BY <1>1, <1>9, <1>10, <2>2 DEF Looked
  <2> QED BY <1>8, <1>11, <1>12, <2>3, <2>4 DEF Delivering
<1> QED BY <1>13, <1>14

(* ... each further medium, ...                                            *)
LEMMA FurtherMediumDelivering ==
  ASSUME CompilerSound, DeliveringNow, LoadFurtherMedium
  PROVE  Delivering(source, media, verify, step', number', fileList', batchList', loadInfo',
                    toAdd', received')
<1> DEFINE s == source
<1>1. /\ step = "further" /\ MediumIntact(fileList, number)
      /\ number' = NextMedium(number)
      /\ step' = IF LoopGoesOn(number, fileList.members) THEN "further" ELSE "files"
      /\ UNCHANGED <<fileList, batchList, loadInfo, toAdd, received>>
  BY DEF LoadFurtherMedium, FurtherMediumAgrees
<1>2. /\ number \in Media(s.ms) /\ Lists(s, fileList, batchList, loadInfo)
      /\ Looked(verify, media, step, fileList, number)
      /\ FiveFields(received) /\ received = [NothingReceived EXCEPT !.lists = ListTypes(s)]
  BY <1>1 DEF DeliveringNow, Delivering
<1>3. /\ Fit(s.ms) /\ FirstMedium \in Media(s.ms) /\ LastMedium(s.ms, Root) \in Nat
      /\ number \in Nat
  BY <1>2, SourcesFit, LoopStep DEF CompilerSound, Set
<1>4. /\ fileList.members = LastMedium(s.ms, Root)
      /\ \A e \in fileList.files : e.medium \in Media(s.ms)
  BY <1>2, <1>3, ListedFiles DEF Lists
<1>5. verify => \A e \in fileList.files : e.medium \in 1 .. number => SameChecksum(media, e)
  <2>1. \A x \in 1 .. number : x = number \/ x \in 1 .. number - 1
    BY <1>3
  <2>2. verify => \A e \in fileList.files : e.medium = number => SameChecksum(media, e)
    BY <1>1 DEF MediumIntact, Intact, SameChecksum
  <2> QED BY <1>1, <1>2, <2>1, <2>2 DEF Looked
<1>6. CASE LoopGoesOn(number, LastMedium(s.ms, Root))
  <2>1. number' \in Media(s.ms) /\ number' - 1 \in Nat /\ number' - 1 <= number
    BY <1>1, <1>2, <1>3, <1>6, LoopStep
  <2>2. \A x \in 1 .. number' - 1 : x \in 1 .. number
    BY <1>3, <2>1
  <2>3. Looked(verify, media, step', fileList, number')
    BY <1>1, <1>4, <1>5, <1>6, <2>2 DEF Looked
  <2>4. step' = "further"
    BY <1>1, <1>4, <1>6
  <2> QED BY <1>1, <1>2, <2>1, <2>3, <2>4 DEF Delivering
<1>7. CASE ~LoopGoesOn(number, LastMedium(s.ms, Root))
  <2>1. LastMedium(s.ms, Root) = number
    BY <1>2, <1>3, <1>7, LoopStep
  <2>2. \A x \in Media(s.ms) : x \in 1 .. number
    BY <2>1 DEF Media, FirstMedium
  <2>3. step' = "files"
    BY <1>1, <1>4, <1>7
  <2>4. Looked(verify, media, step', fileList, number')
    BY <1>4, <1>5, <2>2 DEF Looked
  <2> QED BY <1>1, <1>2, <2>3, <2>4 DEF Delivering
<1> QED BY <1>6, <1>7

(* Names are looked up in the lists of the first medium.                   *)
LEMMA ClassKnown ==
  ASSUME Fit(source.ms), Lists(source, fileList, batchList, loadInfo), NEW n
  PROVE  /\ Class(n) = ClassNamed(source.ms, n)
         /\ DOMAIN loadInfo = {source.ms.name[l] : l \in Files(source.ms) \cap Load}
         /\ BatchInfos = IF HasBatchList(source.ms)
                         THEN {BatchEntry(source.ms, b) : b \in Files(source.ms) \cap Batch} ELSE {}
<1> DEFINE ms == source.ms
<1>1. /\ LoadList(ms, FirstMedium).loads = {LoadEntry(ms, l) : l \in Files(ms) \cap Load}
      /\ BatchList(ms, FirstMedium).batches = {BatchEntry(ms, b) : b \in Files(ms) \cap Batch}
  BY ListFields
<1>2. /\ \A l : LoadEntry(ms, l).name = ms.name[l]
      /\ \A b : BatchEntry(ms, b).name = ms.name[b]
  BY DEF LoadEntry, BatchEntry
<1>3. DOMAIN loadInfo = {ms.name[l] : l \in Files(ms) \cap Load}
  BY <1>1, <1>2 DEF Lists, Indexed
<1>4. HasBatches(fileList) <=> HasBatchList(ms)
  BY ListedFiles DEF Lists
<1>5. BatchInfos = IF HasBatchList(ms) THEN {BatchEntry(ms, b) : b \in Files(ms) \cap Batch} ELSE {}
  BY <1>1, <1>4 DEF BatchInfos, Lists
<1>6. n \in DOMAIN loadInfo <=> \E l \in Files(ms) \cap Load : ms.name[l] = n
  BY <1>3
<1>7. (\E i \in BatchInfos : i.name = n)
        <=> HasBatchList(ms) /\ \E b \in Files(ms) \cap Batch : ms.name[b] = n
  BY <1>2, <1>5
<1>8. Class(n) = ClassNamed(ms, n)
  BY <1>6, <1>7 DEF Class, ClassNamed
<1> QED BY <1>3, <1>5, <1>8

(* ... the files, none of which has a header or a batch file yet, ...      *)
LEMMA AddFilesDelivering ==
  ASSUME CompilerSound, DeliveringNow, AddFiles
  PROVE  Delivering(source, media, verify, step', number', fileList', batchList', loadInfo',
                    toAdd', received')
<1> DEFINE s == source
           ms == source.ms
           F == Done(ms, toAdd')
<1>1. /\ step = "files" /\ step' = "fill" /\ UNCHANGED <<number, fileList, batchList, loadInfo>>
      /\ \A i \in BatchInfos : i.name \notin DOMAIN loadInfo
      /\ toAdd' = {e \in fileList.files : Class(e.name) # "regular"}
      /\ received' = [received EXCEPT !.members =
           {[path |-> e.path, name |-> e.name, class |-> Class(e.name), crc |-> e.crc,
             medium |-> IF Class(e.name) = "load" THEN loadInfo[e.name].medium ELSE e.medium,
             check |-> e.check] : e \in fileList.files}]
  BY DEF AddFiles
<1>2. /\ Lists(s, fileList, batchList, loadInfo) /\ Looked(verify, media, step, fileList, number)
      /\ received = [NothingReceived EXCEPT !.lists = ListTypes(s)]
  BY <1>1 DEF DeliveringNow, Delivering
<1>3. Fit(ms)
  BY SourcesFit DEF CompilerSound
<1>4. \A n : Class(n) = ClassNamed(ms, n)
  BY <1>2, <1>3, ClassKnown
<1>5. ASSUME NEW f \in F
      PROVE  f \in Files(ms) /\ ClassNamed(ms, ms.name[f]) = "regular"
  <2>1. f \in Files(ms)
    BY DEF Done
  <2>2. PICK e \in fileList.files : EntryFor(s, e, f)
    BY <1>2, <1>3, <2>1, ListedFiles DEF Lists
  <2>3. e \notin toAdd'
    BY <1>5, <2>2 DEF Done, EntryFor
  <2>4. Class(e.name) = "regular"
    BY <1>1, <2>3
  <2> QED BY <1>4, <2>1, <2>2, <2>4 DEF EntryFor
<1>6. F \cap Load = {}
  BY <1>5 DEF ClassNamed
<1>7. BatchesListed(ms) => F \cap Batch = {}
  <2>1. RecursiveBatches(ms) = Files(ms) \cap Batch
    BY <1>3, Survey DEF Surveyed
  <2> QED BY <1>5, <2>1 DEF ClassNamed, BatchesListed
<1>8. RightlyNamed(s, loadInfo, F)
  BY <1>5 DEF RightlyNamed
<1>9. NamesApart(ms)
  <2>1. /\ DOMAIN loadInfo = {ms.name[l] : l \in Files(ms) \cap Load}
        /\ HasBatchList(ms) => BatchInfos = {BatchEntry(ms, b) : b \in Files(ms) \cap Batch}
    BY <1>2, <1>3, ClassKnown
  <2>2. \A b : BatchEntry(ms, b).name = ms.name[b]
    BY DEF BatchEntry
  <2> QED BY <1>1, <2>1, <2>2 DEF NamesApart
<1>10. received' = [NothingReceived EXCEPT !.lists = ListTypes(s),
                                           !.members = {Made(s, loadInfo, e) : e \in fileList.files}]
  <2>1. received' = [received EXCEPT !.members = {Made(s, loadInfo, e) : e \in fileList.files}]
    BY <1>1, <1>4 DEF Made
  <2> QED BY <1>2, <2>1
<1>11. /\ FiveFields(received') /\ received'.links = {} /\ received'.loadTypes = {}
       /\ received'.targets = {} /\ received'.lists = ListTypes(s)
       /\ received'.members = {Made(s, loadInfo, e) : e \in fileList.files}
  BY <1>10 DEF NothingReceived, FiveFields
<1>12. PICK c \in Issues(s) : ListOf(s, c, FirstMedium, fileList)
  BY <1>2 DEF Lists, ListIssued
<1> HIDE DEF F
<1>13. Added(s, verify, media, fileList, loadInfo, c, F, received')
  BY <1>6, <1>7, <1>8, <1>9, <1>11, <1>12
     DEF Added, LinksSeen, AllLinks, AllLoadTypes, AllTargets
<1>14. toAdd' \subseteq fileList.files /\ Looked(verify, media, step', fileList', number')
  BY <1>1, <1>2 DEF Looked
<1> QED BY <1>1, <1>2, <1>11, <1>13, <1>14 DEF Delivering, F

(* With one entry fewer to add, one file more is done.                     *)
LEMMA DoneGrows ==
  ASSUME Fit(source.ms), ListIssued(source, fileList, FirstMedium), toAdd \in SUBSET fileList.files,
         NEW e \in toAdd, NEW f \in Files(source.ms), EntryFor(source, e, f), toAdd' = toAdd \ {e}
  PROVE  Done(source.ms, toAdd') = Done(source.ms, toAdd) \cup {f}
<1>1. ASSUME NEW g \in Done(source.ms, toAdd \ {e}), g # f
      PROVE  g \in Done(source.ms, toAdd)
  <2>1. g \in Files(source.ms) /\ EntryLocation(e) # Location(source.ms, g)
    BY <1>1, LocationsDiffer DEF Done, EntryFor
  <2> QED BY <2>1 DEF Done
<1>2. f \in Done(source.ms, toAdd \ {e})
  <2> SUFFICES ASSUME NEW d \in toAdd \ {e}, EntryLocation(d) = Location(source.ms, f)
               PROVE  FALSE
    BY DEF Done
  <2>1. PICK g \in Files(source.ms) : EntryFor(source, d, g)
    BY ListedFiles
  <2>2. g = f
    BY <2>1, LocationsDiffer DEF EntryFor
  <2>3. d = e
    BY <2>1, <2>2, EntriesDiffer
  <2> QED BY <2>3
<1>3. Done(source.ms, toAdd \ {e}) = Done(source.ms, toAdd) \cup {f}
  BY <1>1, <1>2 DEF Done
<1> QED BY <1>3

(* What a load and what a batch adds.                                      *)
LEMMA AddedLoad ==
  ASSUME NEW s, NEW vf, NEW c, NEW S, NEW f \in Load
  PROVE  /\ AllLinks(s, vf, c, S \cup {f}) = AllLinks(s, vf, c, S) \cup LinksOf(s, vf, c, f)
         /\ AllLoadTypes(s, S \cup {f}) = AllLoadTypes(s, S) \cup {TypeOfLoad(s, f)}
         /\ AllTargets(s, S \cup {f}) = AllTargets(s, S)
<1>1. f \notin Batch
  BY Classes
<1>2. AllLinks(s, vf, c, S \cup {f}) = AllLinks(s, vf, c, S) \cup LinksOf(s, vf, c, f)
  BY DEF AllLinks
<1>3. AllLoadTypes(s, S \cup {f}) = AllLoadTypes(s, S) \cup {TypeOfLoad(s, f)}
  BY DEF AllLoadTypes
<1>4. (S \cup {f}) \cap Batch = S \cap Batch
  BY <1>1
<1> QED BY <1>2, <1>3, <1>4 DEF AllTargets

LEMMA AddedBatch ==
  ASSUME NEW s, NEW vf, NEW c, NEW S, NEW f \in Batch
  PROVE  /\ AllLinks(s, vf, c, S \cup {f}) = AllLinks(s, vf, c, S)
         /\ AllLoadTypes(s, S \cup {f}) = AllLoadTypes(s, S)
         /\ AllTargets(s, S \cup {f}) = AllTargets(s, S) \cup TargetsOf(s, f)
<1>1. (S \cup {f}) \cap Load = S \cap Load
  BY Classes
<1>2. AllTargets(s, S \cup {f}) = AllTargets(s, S) \cup TargetsOf(s, f)
  BY DEF AllTargets
<1> QED BY <1>1, <1>2 DEF AllLinks, AllLoadTypes

(* The links of a load, one by one.                                        *)
LEMMA LinksTo ==
  ASSUME NEW s, NEW vf, NEW c, NEW l
  PROVE  \A x : x \in LinksOf(s, vf, c, l) <=>
                  \E role \in Roles : \E f \in LoadFiles(s.ms, l, role) :
                    x = LinkTo(s, vf, c, l, role, f)
BY DEF LinksOf

(* What a header of edition c says. *)
LEMMA HeaderSays ==
  ASSUME NEW s, Fit(s.ms), NEW c, NEW l \in Load, NEW header, header = HeaderFor(s, c, l)
  PROVE  /\ header.load = l /\ header.kind = "load"
         /\ <<l, header.check>> = TypeOfLoad(s, l)
         /\ \A i \in header.files : /\ i.role \in Roles
                                    /\ \E f \in LoadFiles(s.ms, l, i.role) : i.name = s.ms.name[f]
                                    /\ i.check.type
                                         = StoredAs(s.version, EffectiveCheckType(s.ms, <<l, i.role>>))
         /\ \A role \in Roles : \A f \in LoadFiles(s.ms, l, role) :
              \E i \in header.files : i.role = role /\ i.name = s.ms.name[f]
         /\ \A role \in Roles :
              header.sum[role]
                = {<<s.ms.name[f], Data(c.loaded[l][f])>> : f \in LoadFiles(s.ms, l, role)}
<1> DEFINE D == DataImage(s.ms, c.loaded[l])
           I(role, f) == Info(s, D, l, role, f)
<1>1. header = LoadHeader(s.ms, s.version, l, D)
  BY DEF HeaderFor
<1>2. Describing(s, D, l, header)
  BY <1>1, HeaderDescribes
<1>3. header.check = StoredAs(s.version, EffectiveCheckType(s.ms, <<l, "load">>))
  BY <1>1 DEF LoadHeader, StoredAs
<1>4. ASSUME NEW role \in Roles, NEW f \in LoadFiles(s.ms, l, role)
      PROVE  D[Location(s.ms, f)] = Data(c.loaded[l][f])
  <2>1. f \in s.ms.data[l] \cup s.ms.support[l]
    BY DEF LoadFiles, Roles
  <2> QED BY <2>1, LinkedFiles, DataImageContents
<1> HIDE DEF D
<1>5. \A role, f : /\ I(role, f).role = role /\ I(role, f).name = s.ms.name[f]
                   /\ I(role, f).check.type = StoredAs(s.version, EffectiveCheckType(s.ms, <<l, role>>))
  BY RecordedType DEF Info, LoadFileInfo
<1> HIDE DEF I
<1>6. /\ \A i \in header.files : \E role \in Roles : \E f \in LoadFiles(s.ms, l, role) : i = I(role, f)
      /\ \A role \in Roles : \A f \in LoadFiles(s.ms, l, role) : I(role, f) \in header.files
      /\ header.sum = [role \in Roles |->
           {<<s.ms.name[f], D[Location(s.ms, f)]>> : f \in LoadFiles(s.ms, l, role)}]
      /\ header.load = l /\ header.kind = "load"
  BY <1>2 DEF Describing, I
<1>7. ASSUME NEW role \in Roles
      PROVE  header.sum[role]
               = {<<s.ms.name[f], Data(c.loaded[l][f])>> : f \in LoadFiles(s.ms, l, role)}
  <2>1. header.sum[role] = {<<s.ms.name[f], D[Location(s.ms, f)]>> : f \in LoadFiles(s.ms, l, role)}
    BY <1>6
  <2> QED BY <1>4, <2>1
<1>8. ASSUME NEW i \in header.files
      PROVE  /\ i.role \in Roles
             /\ \E f \in LoadFiles(s.ms, l, i.role) : i.name = s.ms.name[f]
             /\ i.check.type = StoredAs(s.version, EffectiveCheckType(s.ms, <<l, i.role>>))
  <2>1. PICK role \in Roles : \E f \in LoadFiles(s.ms, l, role) : i = I(role, f)
    BY <1>6
  <2>2. PICK f \in LoadFiles(s.ms, l, role) : i = I(role, f)
    BY <2>1
  <2>3. i.role = role
    BY <1>5, <2>2
  <2> QED BY <1>5, <2>2, <2>3
<1>9. \A role \in Roles : \A f \in LoadFiles(s.ms, l, role) :
        \E i \in header.files : i.role = role /\ i.name = s.ms.name[f]
  BY <1>5, <1>6
<1>10. <<l, header.check>> = TypeOfLoad(s, l)
  BY <1>3 DEF TypeOfLoad
<1> QED BY <1>6, <1>7, <1>8, <1>9, <1>10

(* The links that the decompiler makes of a header. *)
NewLinks(header, choice) ==
  {[load |-> header.load, role |-> i.role, check |-> i.check.type, file |-> choice[i]] :
     i \in header.files}

SeenAt(vf, M, header, choice, i) ==
  [load |-> header.load, role |-> i.role, name |-> choice[i].name, check |-> i.check.type,
   content |-> CheckedIf(vf, M[EntryLocation(choice[i])])]

(* What the recipient sees of them.                                        *)
LEMMA NewLinksSeen ==
  ASSUME NEW vf, NEW M, NEW header, NEW choice
  PROVE  LinksSeen(vf, M, NewLinks(header, choice))
           = {SeenAt(vf, M, header, choice, i) : i \in header.files}
<1> DEFINE new(i) == [load |-> header.load, role |-> i.role, check |-> i.check.type, file |-> choice[i]]
<1>1. \A i : LinkSeen(vf, M, new(i)) = SeenAt(vf, M, header, choice, i)
  BY DEF LinkSeen, SeenAt
<1>2. NewLinks(header, choice) = {new(i) : i \in header.files}
  BY DEF NewLinks
<1> HIDE DEF new
<1> QED BY <1>1, <1>2 DEF LinksSeen

(* The files of a load that agree with its header are those of the edition *)
(* of the header, if integrity is checked with their contents.             *)
LEMMA HeaderLinks ==
  ASSUME Fit(source.ms), NEW e, NEW l \in Load, NEW c, NEW d, NEW choice, NEW header,
         header = HeaderFor(source, d, l), verify => d = c, media[EntryLocation(e)] = header,
         choice \in SearchResults(e), LoadAgrees(header, choice)
  PROVE  LinksSeen(verify, media, NewLinks(header, choice)) = LinksOf(source, verify, c, l)
<1> DEFINE s == source
           seen(i) == SeenAt(verify, media, header, choice, i)
           link(role, f) == LinkTo(s, verify, c, l, role, f)
<1>1. /\ header.load = l
      /\ \A i \in header.files : /\ i.role \in Roles
                                 /\ \E f \in LoadFiles(s.ms, l, i.role) : i.name = s.ms.name[f]
                                 /\ i.check.type
                                      = StoredAs(s.version, EffectiveCheckType(s.ms, <<l, i.role>>))
      /\ \A role \in Roles : \A f \in LoadFiles(s.ms, l, role) :
           \E i \in header.files : i.role = role /\ i.name = s.ms.name[f]
      /\ \A role \in Roles :
           header.sum[role]
             = {<<s.ms.name[f], Data(d.loaded[l][f])>> : f \in LoadFiles(s.ms, l, role)}
  BY HeaderSays
<1>2. \A i \in header.files : choice[i].name = i.name
  BY DEF SearchResults, Candidates
<1>3. ASSUME verify, NEW role \in Roles
      PROVE  {<<i.name, media[EntryLocation(choice[i])]>> : i \in {x \in header.files : x.role = role}}
               = {<<s.ms.name[f], Data(c.loaded[l][f])>> : f \in LoadFiles(s.ms, l, role)}
  <2>1. header.sum = [r \in Roles |->
          {<<i.name, media[EntryLocation(choice[i])]>> : i \in {x \in header.files : x.role = r}}]
    BY <1>3 DEF LoadAgrees
  <2>2. header.sum[role]
          = {<<s.ms.name[f], Data(c.loaded[l][f])>> : f \in LoadFiles(s.ms, l, role)}
    BY <1>1, <1>3
  <2> QED BY <2>1, <2>2
<1>4. ASSUME NEW i \in header.files, NEW f, i.name = s.ms.name[f],
             verify => media[EntryLocation(choice[i])] = Data(c.loaded[l][f])
      PROVE  seen(i) = link(i.role, f)
  BY <1>1, <1>2, <1>4 DEF SeenAt, LinkTo, CheckedIf
<1> HIDE DEF seen, link
<1>5. ASSUME NEW i \in header.files
      PROVE  \E role \in Roles : \E f \in LoadFiles(s.ms, l, role) : seen(i) = link(role, f)
  <2>1. i.role \in Roles
    BY <1>1
  <2>2. CASE verify
    <3>1. <<i.name, media[EntryLocation(choice[i])]>>
            \in {<<s.ms.name[f], Data(c.loaded[l][f])>> : f \in LoadFiles(s.ms, l, i.role)}
      BY <1>3, <2>1, <2>2
    <3>2. PICK f \in LoadFiles(s.ms, l, i.role) :
            <<i.name, media[EntryLocation(choice[i])]>> = <<s.ms.name[f], Data(c.loaded[l][f])>>
      BY <3>1
    <3> QED BY <1>4, <2>1, <3>2
  <2>3. CASE ~verify
    <3>1. PICK f \in LoadFiles(s.ms, l, i.role) : i.name = s.ms.name[f]
      BY <1>1
    <3>2. seen(i) = link(i.role, f)
      BY <1>4, <2>3, <3>1
    <3> QED BY <2>1, <3>2
  <2> QED BY <2>2, <2>3
<1>6. ASSUME NEW role \in Roles, NEW f \in LoadFiles(s.ms, l, role)
      PROVE  \E i \in header.files : seen(i) = link(role, f)
  <2>1. CASE verify
    <3>1. <<s.ms.name[f], Data(c.loaded[l][f])>>
            \in {<<i.name, media[EntryLocation(choice[i])]>> : i \in {x \in header.files : x.role = role}}
      BY <1>3, <2>1
    <3>2. PICK i \in {x \in header.files : x.role = role} :
            <<i.name, media[EntryLocation(choice[i])]>> = <<s.ms.name[f], Data(c.loaded[l][f])>>
      BY <3>1
    <3> QED BY <1>4, <3>2
  <2>2. CASE ~verify
    <3>1. PICK i \in header.files : i.role = role /\ i.name = s.ms.name[f]
      BY <1>1
    <3>2. seen(i) = link(i.role, f)
      BY <1>4, <2>2, <3>1
    <3> QED BY <3>1, <3>2
  <2> QED BY <2>1, <2>2
<1>7. LinksSeen(verify, media, NewLinks(header, choice)) = {seen(i) : i \in header.files}
  BY NewLinksSeen DEF seen
<1>8. \A x : x \in LinksOf(s, verify, c, l) <=>
               \E role \in Roles : \E f \in LoadFiles(s.ms, l, role) : x = link(role, f)
  BY LinksTo DEF link
<1> QED BY <1>5, <1>6, <1>7, <1>8

(* What is known while loads and batches are added.                        *)
LEMMA FillingFacts ==
  ASSUME CompilerSound, DeliveringNow, step = "fill"
  PROVE  /\ Fit(source.ms) /\ FiveFields(received)
         /\ Lists(source, fileList, batchList, loadInfo)
         /\ verify => \A e \in fileList.files : SameChecksum(media, e)
         /\ toAdd \in SUBSET fileList.files
         /\ \E c \in Issues(source) :
              Added(source, verify, media, fileList, loadInfo, c, Done(source.ms, toAdd), received)
BY SourcesFit DEF CompilerSound, DeliveringNow, Delivering, Looked

(* A load header on the media is that of the file at its place, of some    *)
(* edition, and of the edition of the list if that was compared.           *)
LEMMA HeaderFound ==
  ASSUME Fit(source.ms), AllGenuine(source, media), NEW c, NEW k, ListOf(source, c, k, fileList),
         NEW e \in fileList.files, verify => SameChecksum(media, e),
         NEW f \in Files(source.ms), EntryFor(source, e, f), CanRead(EntryLocation(e), "load")
  PROVE  /\ f \in Load
         /\ \E d : media[EntryLocation(e)] = HeaderFor(source, d, f) /\ (verify => d = c)
<1> DEFINE s == source
           header == media[EntryLocation(e)]
<1>1. EntryLocation(e) = Location(s.ms, f) /\ EntryLocation(e) \in DOMAIN media /\ header.kind = "load"
  BY DEF EntryFor, CanRead
<1>2. Location(s.ms, f)[2] = Path(s.ms, f)
  BY DEF Location
<1>3. PICK l \in Files(s.ms) \cap Load :
        Path(s.ms, f) = Path(s.ms, l) /\ \E d \in Issues(s) : header = HeaderFor(s, d, l)
  BY <1>1, <1>2, KindTells DEF AllGenuine
<1>4. l = f
  BY <1>3, PathsDiffer DEF Fit, Proper, MediaSetType
<1>5. PICK d : header = HeaderFor(s, d, f)
  BY <1>3, <1>4
<1>6. verify => header = HeaderFor(s, c, f)
  <2> SUFFICES ASSUME verify
               PROVE  header = HeaderFor(s, c, f)
    OBVIOUS
  <2>1. e.crc = HeaderFor(s, c, f)
    BY <1>3, <1>4, ListedChecksum
  <2>2. Checksum(header) = header
    BY <1>1 DEF Checksum
  <2> QED BY <2>1, <2>2 DEF SameChecksum
<1> QED BY <1>3, <1>4, <1>5, <1>6

(* ... each load header, ...                                               *)
LEMMA AddLoadDelivering ==
  ASSUME CompilerSound, AllGenuine(source, media), DeliveringNow, NEW e \in toAdd, AddLoad(e)
  PROVE  Delivering(source, media, verify, step', number', fileList', batchList', loadInfo',
                    toAdd', received')
<1> DEFINE s == source
           ms == source.ms
           header == media[EntryLocation(e)]
           F == Done(ms, toAdd)
<1>1. /\ step = "fill" /\ Class(e.name) = "load" /\ LoadReadable(e) /\ toAdd' = toAdd \ {e}
      /\ UNCHANGED <<step, number, fileList, batchList, loadInfo>>
  BY DEF AddLoad
<1>2. /\ Fit(ms) /\ FiveFields(received) /\ Lists(s, fileList, batchList, loadInfo)
      /\ verify => \A x \in fileList.files : SameChecksum(media, x)
      /\ toAdd \in SUBSET fileList.files
  BY <1>1, FillingFacts
<1>3. PICK c \in Issues(s) : Added(s, verify, media, fileList, loadInfo, c, F, received)
  BY <1>1, FillingFacts
<1>4. ListIssued(s, fileList, FirstMedium) /\ ListOf(s, c, FirstMedium, fileList)
  BY <1>2, <1>3 DEF Lists, Added
<1>5. PICK f \in Files(ms) : EntryFor(s, e, f)
  BY <1>2, <1>4, ListedFiles
<1>6. Done(ms, toAdd') = F \cup {f}
  BY <1>1, <1>2, <1>4, <1>5, DoneGrows
<1>7. CanRead(EntryLocation(e), "load") /\ loadInfo[e.name].load = header.load
  BY <1>1 DEF LoadReadable
<1>8. f \in Load /\ \E d : header = HeaderFor(s, d, f) /\ (verify => d = c)
  BY <1>2, <1>4, <1>5, <1>7, HeaderFound
<1>9. PICK d : header = HeaderFor(s, d, f) /\ (verify => d = c)
  BY <1>8
<1>10. header.load = f /\ <<header.load, header.check>> = TypeOfLoad(s, f)
  BY <1>2, <1>8, <1>9, HeaderSays
<1>11. PICK choice \in SearchResults(e) :
        /\ LoadAgrees(header, choice)
        /\ received' = [received EXCEPT !.links = @ \cup NewLinks(header, choice),
                                        !.loadTypes = @ \cup {<<header.load, header.check>>}]
  BY DEF AddLoad, NewLinks
<1>12. LinksSeen(verify, media, NewLinks(header, choice)) = LinksOf(s, verify, c, f)
  BY <1>11, <1>2, <1>8, <1>9, HeaderLinks
<1>13. RightlyNamed(s, loadInfo, F \cup {f}) /\ NamesApart(ms)
  <2>1. RightlyNamed(s, loadInfo, F) /\ NamesApart(ms)
    BY <1>3 DEF Added
  <2>2. ClassNamed(ms, ms.name[f]) = "load" /\ loadInfo[ms.name[f]].load = f
    BY <1>1, <1>2, <1>5, <1>7, <1>10, ClassKnown DEF EntryFor
  <2> QED BY <1>8, <2>1, <2>2 DEF RightlyNamed
<1> HIDE DEF header
<1>14. /\ received'.members = received.members /\ received'.targets = received.targets
       /\ received'.lists = received.lists /\ FiveFields(received')
       /\ received'.links = received.links \cup NewLinks(header, choice)
       /\ received'.loadTypes = received.loadTypes \cup {TypeOfLoad(s, f)}
  BY <1>11, <1>2, <1>10 DEF FiveFields
<1>15. LinksSeen(verify, media, received'.links)
         = LinksSeen(verify, media, received.links)
             \cup LinksSeen(verify, media, NewLinks(header, choice))
  BY <1>14 DEF LinksSeen
<1>16. /\ AllLinks(s, verify, c, F \cup {f}) = AllLinks(s, verify, c, F) \cup LinksOf(s, verify, c, f)
       /\ AllLoadTypes(s, F \cup {f}) = AllLoadTypes(s, F) \cup {TypeOfLoad(s, f)}
       /\ AllTargets(s, F \cup {f}) = AllTargets(s, F)
  <2>1. f \in Load
    BY <1>8
  <2> HIDE DEF F
  <2>2. AllLinks(s, verify, c, F \cup {f}) = AllLinks(s, verify, c, F) \cup LinksOf(s, verify, c, f)
    BY <2>1 DEF AllLinks
  <2>3. AllLoadTypes(s, F \cup {f}) = AllLoadTypes(s, F) \cup {TypeOfLoad(s, f)}
    BY <2>1, AddedLoad
  <2>4. AllTargets(s, F \cup {f}) = AllTargets(s, F)
    BY <2>1, AddedLoad
  <2> QED BY <2>2, <2>3, <2>4
<1> HIDE DEF F
<1>17. Added(s, verify, media, fileList, loadInfo, c, F \cup {f}, received')
  BY <1>3, <1>12, <1>13, <1>14, <1>15, <1>16 DEF Added
<1> QED BY <1>1, <1>2, <1>6, <1>14, <1>17 DEF Delivering, Looked

(* What the decompiler makes of a batch file.                              *)
LEMMA BatchTargets ==
  ASSUME NEW s, Fit(s.ms), NEW b \in Batch
  PROVE  /\ BatchContent(s.ms, b).batch = b
         /\ {[batch |-> b, position |-> t.position, loads |-> {l.load : l \in t.loads}] :
               t \in BatchContent(s.ms, b).targets} = TargetsOf(s, b)
<1> DEFINE P == {x \in Position : s.ms.targets[b][x] # NoValue}
           pair(l) == [name |-> s.ms.name[l], load |-> l]
           named(p) == {pair(l) : l \in s.ms.targets[b][p]}
           target(p) == [position |-> p, loads |-> named(p)]
           made(t) == [batch |-> b, position |-> t.position, loads |-> {l.load : l \in t.loads}]
           meant(p) == [batch |-> b, position |-> p, loads |-> s.ms.targets[b][p]]
<1>1. /\ BatchContent(s.ms, b).batch = b
      /\ BatchContent(s.ms, b).targets = {target(p) : p \in P}
  BY DEF BatchContent
<1>2. ASSUME NEW p \in P
      PROVE  {l.load : l \in named(p)} = s.ms.targets[b][p]
  <2>1. s.ms.targets \in [Batch -> [Position -> Optional(SUBSET Load)]]
    BY DEF Fit, MediaSetType
  <2>2. s.ms.targets[b][p] \in SUBSET Load
    BY <2>1 DEF Optional
  <2>3. \A l : pair(l).load = l
    OBVIOUS
  <2> HIDE DEF pair
  <2>4. named(p) = {pair(l) : l \in s.ms.targets[b][p]}
    OBVIOUS
  <2> HIDE DEF named
  <2> QED BY <2>2, <2>3, <2>4
<1>3. \A p : target(p).position = p /\ target(p).loads = named(p)
  OBVIOUS
<1> HIDE DEF target, named
<1>4. \A p \in P : made(target(p)) = meant(p)
  BY <1>2, <1>3
<1>5. {made(t) : t \in BatchContent(s.ms, b).targets} = {meant(p) : p \in P}
  <2> HIDE DEF made, meant, P
  <2> QED BY <1>1, <1>4
<1> QED BY <1>1, <1>5 DEF TargetsOf

(* ... and each batch file.                                                *)
LEMMA AddBatchDelivering ==
  ASSUME CompilerSound, AllGenuine(source, media), DeliveringNow, NEW e \in toAdd, AddBatch(e)
  PROVE  Delivering(source, media, verify, step', number', fileList', batchList', loadInfo',
                    toAdd', received')
<1> DEFINE s == source
           ms == source.ms
           batch == media[EntryLocation(e)]
           F == Done(ms, toAdd)
<1>1. /\ step = "fill" /\ Class(e.name) = "batch" /\ BatchReadable(e) /\ toAdd' = toAdd \ {e}
      /\ UNCHANGED <<step, number, fileList, batchList, loadInfo>>
      /\ received' = [received EXCEPT
           !.targets = @ \cup {[batch |-> batch.batch, position |-> t.position,
                                loads |-> {l.load : l \in t.loads}] : t \in batch.targets}]
  BY DEF AddBatch
<1>2. /\ Fit(ms) /\ FiveFields(received) /\ Lists(s, fileList, batchList, loadInfo)
      /\ verify => \A x \in fileList.files : SameChecksum(media, x)
      /\ toAdd \in SUBSET fileList.files
  BY <1>1, FillingFacts
<1>3. PICK c \in Issues(s) : Added(s, verify, media, fileList, loadInfo, c, F, received)
  BY <1>1, FillingFacts
<1>4. ListIssued(s, fileList, FirstMedium)
  BY <1>2 DEF Lists
<1>5. PICK f \in Files(ms) : EntryFor(s, e, f)
  BY <1>2, <1>4, ListedFiles
<1>6. f \in Batch /\ batch = BatchContent(ms, f)
  <2>1. EntryLocation(e) = Location(ms, f) /\ EntryLocation(e) \in DOMAIN media /\ batch.kind = "batch"
    BY <1>1, <1>5 DEF EntryFor, BatchReadable, CanRead
  <2>2. Location(ms, f)[2] = Path(ms, f)
    BY DEF Location
  <2>3. PICK b \in Files(ms) \cap Batch : Path(ms, f) = Path(ms, b) /\ batch = BatchContent(ms, b)
    BY <1>2, <2>1, <2>2, KindTells DEF AllGenuine
  <2>4. b = f
    BY <1>2, <2>3, PathsDiffer DEF Fit, Proper, MediaSetType
  <2> QED BY <2>3, <2>4
<1>7. /\ batch.batch = f
      /\ {[batch |-> f, position |-> t.position, loads |-> {l.load : l \in t.loads}] :
            t \in batch.targets} = TargetsOf(s, f)
  BY <1>2, <1>6, BatchTargets
<1>8. received' = [received EXCEPT !.targets = @ \cup TargetsOf(s, f)]
  BY <1>1, <1>7
<1>9. Done(ms, toAdd') = F \cup {f}
  BY <1>1, <1>2, <1>4, <1>5, DoneGrows
<1>10. RightlyNamed(s, loadInfo, F \cup {f}) /\ NamesApart(ms)
  <2>1. RightlyNamed(s, loadInfo, F) /\ NamesApart(ms)
    BY <1>3 DEF Added
  <2>2. ClassNamed(ms, ms.name[f]) = "batch"
    BY <1>1, <1>2, <1>5, ClassKnown DEF EntryFor
  <2> QED BY <1>6, <2>1, <2>2 DEF RightlyNamed
<1>11. /\ received'.members = received.members /\ received'.links = received.links
       /\ received'.loadTypes = received.loadTypes
       /\ received'.lists = received.lists /\ FiveFields(received')
       /\ received'.targets = received.targets \cup TargetsOf(s, f)
  BY <1>2, <1>8 DEF FiveFields
<1>12. /\ AllLinks(s, verify, c, F \cup {f}) = AllLinks(s, verify, c, F)
       /\ AllLoadTypes(s, F \cup {f}) = AllLoadTypes(s, F)
       /\ AllTargets(s, F \cup {f}) = AllTargets(s, F) \cup TargetsOf(s, f)
  <2> HIDE DEF F
  <2> QED BY <1>6, AddedBatch
<1> HIDE DEF F
<1>13. Added(s, verify, media, fileList, loadInfo, c, F \cup {f}, received')
  BY <1>3, <1>10, <1>11, <1>12 DEF Added
<1> QED BY <1>1, <1>2, <1>9, <1>11, <1>13 DEF Delivering, Looked

-----------------------------------------------------------------------------
DeliveryInv ==
  /\ AllGenuine(source, media)
  /\ media # <<>> => phase = "compiled"
  /\ step # "first" => media # <<>>
  /\ DeliveringNow

(* All steps keep it.                                                      *)
LEMMA ReceiveDelivery ==
  ASSUME CompilerSound, DeliveryInv, Receive
  PROVE  DeliveryInv'
<1>1. media # <<>> /\ UNCHANGED <<source, phase, media, verify>>
  BY DEF Receive, Decompile, compilerVars, Reject, LoadFirstMedium, FirstMediumRejected,
         LoadFurtherMedium, FurtherMediumRejected, AddFiles, AmbiguousClass, AddLoad, LoadRejected,
         AddBatch, BatchRejected, Accept
<1> SUFFICES Delivering(source, media, verify, step', number', fileList', batchList', loadInfo',
                        toAdd', received')
  BY <1>1 DEF DeliveryInv, DeliveringNow
<1>2. CASE FirstMediumRejected \/ FurtherMediumRejected \/ AmbiguousClass
             \/ \E e \in toAdd : LoadRejected(e) \/ BatchRejected(e)
  <2>1. step' = "rejected" /\ received' = received
    BY <1>2 DEF FirstMediumRejected, FurtherMediumRejected, AmbiguousClass, LoadRejected,
                BatchRejected, Reject
  <2> QED BY <2>1 DEF DeliveryInv, DeliveringNow, Delivering
<1>3. CASE Accept
  <2>1. /\ step = "fill" /\ step' = "accepted" /\ toAdd = {}
        /\ UNCHANGED <<number, fileList, batchList, loadInfo, toAdd, received>>
    BY <1>3 DEF Accept
  <2> QED BY <2>1 DEF DeliveryInv, DeliveringNow, Delivering, Looked
<1> QED
  BY <1>2, <1>3, FirstMediumDelivering, FurtherMediumDelivering, AddFilesDelivering,
     AddLoadDelivering, AddBatchDelivering DEF DeliveryInv, Receive, Decompile

(* Faults happen before the recipient reads.                               *)
LEMMA OnTheWayDelivery ==
  ASSUME CompilerSound, CompilesWhatItCan, DecompilerTyped, DeliveryInv, OnTheWay
  PROVE  DeliveryInv'
<1>1. /\ step = "first" /\ phase = "compiled"
      /\ UNCHANGED <<source, phase, step, number, fileList, batchList, loadInfo, toAdd, received>>
  BY DEF OnTheWay, Ship, Lose, Damage, Exchange, TakeEarlier, Disorder, Fault, compilerVars,
         decompilerVars, DeliveryInv
<1>2. AllGenuine(source, media')
  BY OnTheWayGenuine DEF DeliveryInv
<1> QED BY <1>1, <1>2 DEF DeliveryInv, DeliveringNow, Delivering

(* The compiler ends before the media leave.                               *)
LEMMA SendDelivery ==
  ASSUME DeliveryInv, Send
  PROVE  DeliveryInv'
<1>1. phase # "compiled"
  BY DEF Send, Compile, SetMediaPaths, CreateMedium, MediumExported, LoadsExported, BatchesExported,
         ExportRegularFile, ExportDirectory, ExportLoad, ExportBatch, ExportListOfLoads,
         ExportListOfBatches, ExportListOfFiles, WriteList, CompilationFails
<1>2. source' = source
  BY DEF Send, Compile, SetMediaPaths, CreateMedium, MediumExported, LoadsExported, BatchesExported,
         ExportRegularFile, ExportDirectory, ExportLoad, ExportBatch, ExportListOfLoads,
         ExportListOfBatches, ExportListOfFiles, WriteList, CompilationFails
<1> QED BY <1>1, <1>2 DEF Send, decompilerVars, DeliveryInv, DeliveringNow

-----------------------------------------------------------------------------
(* One edition is delivered: what was accepted is what was sent.           *)

SentMember(s, vf, c, f) ==
  [path |-> Front(Path(s.ms, f)), name |-> s.ms.name[f], class |-> ClassOf(f),
   medium |-> EffectiveMedium(s.ms, f),
   check |-> StoredAs(s.version, EffectiveCheckType(s.ms, <<f, "file">>)),
   crc |-> IF f \in RegularFile THEN CheckedIf(vf, Crc[c.value[f]]) ELSE NoValue]

SentBy(s, vf, c) ==
  [members |-> {SentMember(s, vf, c, f) : f \in Files(s.ms)},
   links |-> AllLinks(s, vf, c, Files(s.ms)),
   loadTypes |-> AllLoadTypes(s, Files(s.ms)),
   targets |-> AllTargets(s, Files(s.ms)),
   lists |-> ListTypes(s)]

EditionsBy(s, vf) == {SentBy(s, vf, c) : c \in Issues(s)}

(* What is sent, in the terms of what arrives.                             *)
LEMMA SentIs ==
  ASSUME Fit(source.ms), NEW c
  PROVE  Sent(c.value, c.loaded) = SentBy(source, verify, c)
<1> DEFINE s == source
           ms == source.ms
           sent == Sent(c.value, c.loaded)
           member(f) ==
             [path |-> Front(Path(Set, f)), name |-> Set.name[f], class |-> ClassOf(f),
              medium |-> EffectiveMedium(Set, f),
              check |-> Stored(EffectiveCheckType(Set, <<f, "file">>)),
              crc |-> IF f \in RegularFile THEN Checked(Crc[c.value[f]]) ELSE NoValue]
           link(l, role, f) ==
             [load |-> l, role |-> role, name |-> Set.name[f],
              check |-> Stored(EffectiveCheckType(Set, <<l, role>>)),
              content |-> Checked(Data(c.loaded[l][f]))]
           type(l) == <<l, Stored(EffectiveCheckType(Set, <<l, "load">>))>>
<1>1. RecursiveLoads(ms) = Files(ms) \cap Load /\ RecursiveBatches(ms) = Files(ms) \cap Batch
  BY Survey DEF Surveyed
<1>2. /\ \A t : Stored(t) = StoredAs(s.version, t)
      /\ \A x : Checked(x) = CheckedIf(verify, x)
      /\ Set = ms
  BY DEF Stored, StoredAs, Checked, CheckedIf, Set
<1>3. /\ \A f : member(f) = SentMember(s, verify, c, f)
      /\ \A l, role, f : link(l, role, f) = LinkTo(s, verify, c, l, role, f)
      /\ \A l : type(l) = TypeOfLoad(s, l)
  BY <1>2 DEF SentMember, LinkTo, TypeOfLoad
<1>4. /\ sent.members = {member(f) : f \in Files(Set)}
      /\ sent.links = UNION {{link(l, role, f) : f \in LoadFiles(Set, l, role)} :
                               l \in RecursiveLoads(Set), role \in Roles}
      /\ sent.loadTypes = {type(l) : l \in RecursiveLoads(Set)}
      /\ sent.targets = UNION {TargetsOf(s, b) : b \in RecursiveBatches(Set)}
      /\ sent.lists = ListTypes(s)
      /\ sent = [members |-> sent.members, links |-> sent.links, loadTypes |-> sent.loadTypes,
                 targets |-> sent.targets, lists |-> sent.lists]
  <2>1. sent.members = {member(f) : f \in Files(Set)}
    BY DEF Sent
  <2>2. sent.links = UNION {{link(l, role, f) : f \in LoadFiles(Set, l, role)} :
                              l \in RecursiveLoads(Set), role \in Roles}
    BY DEF Sent
  <2>3. sent.loadTypes = {type(l) : l \in RecursiveLoads(Set)}
    BY DEF Sent
  <2>4. sent.targets = UNION {TargetsOf(s, b) : b \in RecursiveBatches(Set)}
    BY DEF Sent, TargetsOf, Set
  <2>5. sent.lists = ListTypes(s)
    BY <1>2 DEF Sent, ListTypes
  <2>6. sent = [members |-> sent.members, links |-> sent.links, loadTypes |-> sent.loadTypes,
                targets |-> sent.targets, lists |-> sent.lists]
    BY DEF Sent
  <2> QED BY <2>1, <2>2, <2>3, <2>4, <2>5, <2>6
<1> HIDE DEF member, link, type, sent
<1>5. sent.members = {SentMember(s, verify, c, f) : f \in Files(ms)}
  BY <1>2, <1>3, <1>4
<1>6. sent.links = AllLinks(s, verify, c, Files(ms))
  <2>1. \A x : x \in sent.links <=>
                 \E l \in Files(ms) \cap Load, role \in Roles :
                   \E f \in LoadFiles(ms, l, role) : x = LinkTo(s, verify, c, l, role, f)
    <3> DEFINE links(l, role) == {link(l, role, f) : f \in LoadFiles(ms, l, role)}
    <3>1. sent.links = UNION {links(l, role) : l \in RecursiveLoads(ms), role \in Roles}
      BY <1>2, <1>4
    <3>2. \A x, l, role : x \in links(l, role) <=>
                            \E f \in LoadFiles(ms, l, role) : x = LinkTo(s, verify, c, l, role, f)
      BY <1>3
    <3> HIDE DEF links
    <3>3. \A x : x \in sent.links <=>
                   \E l \in RecursiveLoads(ms) : \E role \in Roles : x \in links(l, role)
      BY <3>1
    <3> QED BY <1>1, <3>2, <3>3
  <2>2. \A x : x \in AllLinks(s, verify, c, Files(ms)) <=>
                 \E l \in Files(ms) \cap Load : x \in LinksOf(s, verify, c, l)
    BY DEF AllLinks
  <2>3. \A x, l : x \in LinksOf(s, verify, c, l) <=>
                    \E role \in Roles : \E f \in LoadFiles(ms, l, role) :
                      x = LinkTo(s, verify, c, l, role, f)
    BY DEF LinksOf
  <2> QED BY <2>1, <2>2, <2>3
<1>7. sent.loadTypes = AllLoadTypes(s, Files(ms))
  BY <1>1, <1>2, <1>3, <1>4 DEF AllLoadTypes
<1>8. sent.targets = AllTargets(s, Files(ms))
  BY <1>1, <1>2, <1>4 DEF AllTargets
<1> QED BY <1>4, <1>5, <1>6, <1>7, <1>8 DEF SentBy, sent

(* Both editions may be delivered.                                         *)
LEMMA IssuesSent ==
  ASSUME Fit(source.ms)
  PROVE  EditionsBy(source, verify) \subseteq Editions
<1> SUFFICES ASSUME NEW c \in Issues(source)
             PROVE  SentBy(source, verify, c) \in Editions
  BY DEF EditionsBy
<1>1. \A l : Copied(l) <=> TakenOver(source, l)
  BY DEF Copied, TakenOver
<1>2. \/ c.value = source.value /\ c.loaded = [l \in Load |-> HeaderContents(l)]
      \/ c.value = source.earlier /\ c.loaded = [l \in Load |-> source.earlier]
  BY <1>1 DEF Issues, HeaderContents
<1>3. Sent(c.value, c.loaded) \in Editions
  BY <1>2 DEF Editions
<1> QED BY <1>3, SentIs

(* The class that a file gets by its name is its own once it is filled.    *)
LEMMA ClassOfFile ==
  ASSUME NEW s, Fit(s.ms), BatchesListed(s.ms), NEW infos, NamesApart(s.ms),
         RightlyNamed(s, infos, Files(s.ms)), NEW f \in Files(s.ms)
  PROVE  /\ ClassNamed(s.ms, s.ms.name[f]) = ClassOf(f)
         /\ f \in Load => infos[s.ms.name[f]].load = f
<1> DEFINE class == ClassNamed(s.ms, s.ms.name[f])
<1>1. f \in RegularFile \cup Load \cup Batch
  BY DEF Files, File
<1>2. class = "load" => f \in Load /\ infos[s.ms.name[f]].load = f
  BY DEF RightlyNamed
<1>3. class = "batch" => f \in Batch
  BY DEF RightlyNamed
<1>4. class \in {"load", "batch", "regular"}
  BY DEF ClassNamed
<1>5. f \in Load => class = "load"
  BY DEF ClassNamed
<1>6. ASSUME f \in Batch
      PROVE  class = "batch"
  <2>1. RecursiveBatches(s.ms) = Files(s.ms) \cap Batch
    BY Survey DEF Surveyed
  <2>2. HasBatchList(s.ms)
    BY <1>6, <2>1 DEF BatchesListed
  <2> QED BY <1>6, <2>2 DEF ClassNamed, NamesApart
<1> HIDE DEF class
<1>7. class = ClassOf(f)
  BY <1>1, <1>2, <1>3, <1>4, <1>5, <1>6, Classes DEF ClassOf
<1> QED BY <1>2, <1>5, <1>7 DEF class

MemberSeen(vf, M, m) ==
  [path |-> m.path, name |-> m.name, class |-> m.class, medium |-> m.medium,
   check |-> m.check.type,
   crc |-> IF m.class = "regular" THEN CheckedIf(vf, Checksum(M[EntryLocation(m)])) ELSE NoValue]

(* Every file arrives as it was sent.                                      *)
LEMMA MemberOfEdition ==
  ASSUME NEW s, Fit(s.ms), BatchesListed(s.ms), NEW vf, NEW M, NEW infos, Indexed(s.ms, infos),
         NamesApart(s.ms), RightlyNamed(s, infos, Files(s.ms)),
         NEW c, NEW k, NEW list, ListOf(s, c, k, list), NEW e \in list.files,
         vf => SameChecksum(M, e), NEW f \in Files(s.ms), EntryFor(s, e, f)
  PROVE  MemberSeen(vf, M, Made(s, infos, e)) = SentMember(s, vf, c, f)
<1> DEFINE m == Made(s, infos, e)
<1>1. /\ e.name = s.ms.name[f] /\ e.path = Front(Path(s.ms, f))
      /\ e.medium = EffectiveMedium(s.ms, f)
      /\ e.check.type = StoredAs(s.version, EffectiveCheckType(s.ms, <<f, "file">>))
  BY DEF EntryFor
<1>2. ClassNamed(s.ms, e.name) = ClassOf(f) /\ (f \in Load => infos[e.name].load = f)
  BY <1>1, ClassOfFile
<1>3. /\ m.path = e.path /\ m.name = e.name /\ m.class = ClassOf(f) /\ m.check = e.check
      /\ m.medium = IF ClassOf(f) = "load" THEN infos[e.name].medium ELSE e.medium
  BY <1>2 DEF Made
<1>4. m.medium = EffectiveMedium(s.ms, f)
  <2>1. CASE f \in Load
    <3>1. LoadList(s.ms, FirstMedium).loads = {LoadEntry(s.ms, l) : l \in Files(s.ms) \cap Load}
      BY ListFields
    <3>2. LoadEntry(s.ms, f).name = e.name
      BY <1>1 DEF LoadEntry
    <3>3. infos[e.name] \in LoadList(s.ms, FirstMedium).loads
      BY <2>1, <3>1, <3>2 DEF Indexed
    <3>4. PICK l \in Files(s.ms) \cap Load : infos[e.name] = LoadEntry(s.ms, l)
      BY <3>1, <3>3
    <3>5. infos[e.name].load = l /\ infos[e.name].medium = EffectiveMedium(s.ms, l)
      BY <3>4 DEF LoadEntry
    <3>6. ClassOf(f) = "load"
      BY <2>1 DEF ClassOf
    <3> HIDE DEF m
    <3> QED BY <1>2, <1>3, <2>1, <3>5, <3>6
  <2>2. CASE f \notin Load
    <3>1. ClassOf(f) # "load"
      BY <2>2 DEF ClassOf
    <3> HIDE DEF m
    <3> QED BY <1>1, <1>3, <3>1
  <2> QED BY <2>1, <2>2
<1>5. ClassOf(f) = "regular" <=> f \in RegularFile
  BY Classes DEF ClassOf, Files, File
<1>6. f \in RegularFile => EntryLocation(m) = EntryLocation(e)
  <2> HIDE DEF m
  <2> QED BY <1>1, <1>3, <1>4 DEF EntryLocation
<1>7. f \in RegularFile /\ vf => Checksum(M[EntryLocation(m)]) = Crc[c.value[f]]
  <2>1. f \in RegularFile => e.crc = Crc[c.value[f]]
    BY ListedChecksum
  <2> HIDE DEF m
  <2> QED BY <1>6, <2>1 DEF SameChecksum
<1>8. (IF m.class = "regular" THEN CheckedIf(vf, Checksum(M[EntryLocation(m)])) ELSE NoValue)
        = (IF f \in RegularFile THEN CheckedIf(vf, Crc[c.value[f]]) ELSE NoValue)
  <2> HIDE DEF m
  <2> QED BY <1>3, <1>5, <1>7 DEF CheckedIf
<1> HIDE DEF m
<1>9. MemberSeen(vf, M, m) = SentMember(s, vf, c, f)
  BY <1>1, <1>3, <1>4, <1>8 DEF MemberSeen, SentMember
<1> QED BY <1>9 DEF m

(* What the recipient has, in these terms.                                 *)
LEMMA ReceivedIs ==
  ASSUME FiveFields(received)
  PROVE  Received = [members |-> {MemberSeen(verify, media, m) : m \in received.members},
                     links |-> LinksSeen(verify, media, received.links),
                     loadTypes |-> received.loadTypes, targets |-> received.targets,
                     lists |-> received.lists]
<1> DEFINE seen(m) ==
             [path |-> m.path, name |-> m.name, class |-> m.class, medium |-> m.medium,
              check |-> m.check.type,
              crc |-> IF m.class = "regular" THEN Checked(Checksum(media[EntryLocation(m)]))
                      ELSE NoValue]
           link(k) ==
             [load |-> k.load, role |-> k.role, name |-> k.file.name, check |-> k.check,
              content |-> Checked(media[EntryLocation(k.file)])]
<1>1. \A m : seen(m) = MemberSeen(verify, media, m)
  BY DEF MemberSeen, Checked, CheckedIf
<1>2. \A k : link(k) = LinkSeen(verify, media, k)
  BY DEF LinkSeen, Checked, CheckedIf
<1>3. Received = [received EXCEPT !.members = {seen(m) : m \in received.members},
                                  !.links = {link(k) : k \in received.links}]
  BY DEF Received
<1> HIDE DEF seen, link
<1>4. {seen(m) : m \in received.members} = {MemberSeen(verify, media, m) : m \in received.members}
  BY <1>1
<1>5. {link(k) : k \in received.links} = LinksSeen(verify, media, received.links)
  BY <1>2 DEF LinksSeen
<1> QED BY <1>3, <1>4, <1>5 DEF FiveFields

(* What was accepted is one edition.                                       *)
AcceptedRight == step = "accepted" => Received \in EditionsBy(source, verify)

LEMMA AcceptedIsSent ==
  ASSUME CompilerSound, BatchesListed(source.ms), DeliveryInv
  PROVE  AcceptedRight
<1> SUFFICES ASSUME step = "accepted"
             PROVE  Received \in EditionsBy(source, verify)
  BY DEF AcceptedRight
<1> DEFINE s == source
           ms == source.ms
<1>1. Fit(ms)
  BY SourcesFit DEF CompilerSound
<1>2. /\ FiveFields(received) /\ Lists(s, fileList, batchList, loadInfo) /\ toAdd = {}
      /\ verify => \A e \in fileList.files : SameChecksum(media, e)
      /\ \E c \in Issues(s) : Added(s, verify, media, fileList, loadInfo, c, Done(ms, toAdd), received)
  BY DEF DeliveryInv, DeliveringNow, Delivering, Looked
<1>3. Done(ms, toAdd) = Files(ms)
  BY <1>2 DEF Done
<1>4. PICK c \in Issues(s) :
        Added(s, verify, media, fileList, loadInfo, c, Files(ms), received)
  BY <1>2, <1>3
<1>5. /\ ListOf(s, c, FirstMedium, fileList) /\ NamesApart(ms)
      /\ RightlyNamed(s, loadInfo, Files(ms)) /\ Indexed(ms, loadInfo)
      /\ ListIssued(s, fileList, FirstMedium)
      /\ received.members = {Made(s, loadInfo, e) : e \in fileList.files}
  BY <1>2, <1>4 DEF Added, Lists
<1>6. ASSUME NEW e \in fileList.files, NEW f \in Files(ms), EntryFor(s, e, f)
      PROVE  MemberSeen(verify, media, Made(s, loadInfo, e)) = SentMember(s, verify, c, f)
  <2>1. verify => SameChecksum(media, e)
    BY <1>2
  <2> QED BY <1>1, <1>5, <1>6, <2>1, MemberOfEdition
<1>7. {MemberSeen(verify, media, m) : m \in received.members}
        = {SentMember(s, verify, c, f) : f \in Files(ms)}
  <2>1. /\ \A e \in fileList.files : \E f \in Files(ms) : EntryFor(s, e, f)
        /\ \A f \in Files(ms) : \E e \in fileList.files : EntryFor(s, e, f)
    BY <1>1, <1>5, ListedFiles
  <2> QED BY <1>5, <1>6, <2>1
<1>8. SentBy(s, verify, c) \in EditionsBy(s, verify)
  BY DEF EditionsBy
<1>9. Received = SentBy(s, verify, c)
  BY <1>2, <1>4, <1>7, ReceivedIs DEF SentBy, Added
<1> QED BY <1>8, <1>9

-----------------------------------------------------------------------------
(* The compiler answers only with a refusal, and only once.                *)
LEMMA SendTakesNoAnswer ==
  ASSUME DeliveryInv, Send
  PROVE  Delivered = NoValue /\ Delivered' \in {NoValue, Refused}
<1>1. /\ phase \notin {"compiled", "failed"}
  BY DEF Send, Compile, SetMediaPaths, CreateMedium, MediumExported, LoadsExported, BatchesExported,
         ExportRegularFile, ExportDirectory, ExportLoad, ExportBatch, ExportListOfLoads,
         ExportListOfBatches, ExportListOfFiles, WriteList, CompilationFails
<1>2. step = "first" /\ step' = step
  BY <1>1 DEF DeliveryInv, Send, decompilerVars
<1> QED BY <1>1, <1>2 DEF Delivered

(* Every step gives the answer, or none.                                   *)
LEMMA DeliveryStep ==
  ASSUME CompilerSound, DeliveryInv, AcceptedRight', [Next]_vars
  PROVE  [Delivery!Next]_Delivered
<1>1. CASE UNCHANGED vars
  <2>1. UNCHANGED <<step, phase, received, verify, media>>
    BY <1>1 DEF vars, compilerVars, decompilerVars
  <2> QED BY <2>1 DEF Delivered, Received, Checked
<1>2. CASE Send
  BY <1>2, SendTakesNoAnswer DEF Delivery!Next, Delivery!Refuse
<1>3. CASE OnTheWay
  <2>1. /\ step = "first" /\ step' = "first" /\ phase = "compiled" /\ phase' = "compiled"
    BY <1>3 DEF OnTheWay, Ship, Lose, Damage, Exchange, TakeEarlier, Disorder, Fault, compilerVars,
           decompilerVars, DeliveryInv
  <2> QED BY <2>1 DEF Delivered
<1>4. CASE Receive
  <2>1. /\ media # <<>> /\ UNCHANGED <<source, phase, media, verify>>
        /\ step \notin {"accepted", "rejected"}
    BY <1>4 DEF Receive, Decompile, compilerVars, Reject, LoadFirstMedium, FirstMediumRejected,
           LoadFurtherMedium, FurtherMediumRejected, AddFiles, AmbiguousClass, AddLoad, LoadRejected,
           AddBatch, BatchRejected, Accept
  <2>2. Delivered = NoValue
    BY <2>1 DEF Delivered, DeliveryInv
  <2>3. CASE step' = "accepted"
    <3>1. Received' \in EditionsBy(source', verify')
      BY <2>3 DEF AcceptedRight
    <3>2. EditionsBy(source', verify') \subseteq Editions
      <4>1. Fit(source.ms)
        BY SourcesFit DEF CompilerSound
      <4> QED BY <2>1, <4>1, IssuesSent
    <3>3. Delivered' = Received'
      BY <2>3 DEF Delivered
    <3> QED BY <2>2, <3>1, <3>2, <3>3 DEF Delivery!Next, Delivery!Deliver
  <2>4. CASE step' # "accepted"
    <3>1. Delivered' \in {NoValue, Refused}
      BY <2>4 DEF Delivered
    <3> QED BY <2>2, <3>1 DEF Delivery!Next, Delivery!Refuse
  <2> QED BY <2>3, <2>4
<1> QED BY <1>1, <1>2, <1>3, <1>4 DEF Next

(* The description stays the same.                                         *)
LEMMA SourceStays == [Next]_vars => source' = source
BY DEF Next, Send, OnTheWay, Receive, Compile, SetMediaPaths, CreateMedium, MediumExported, LoadsExported,
       BatchesExported, ExportRegularFile, ExportDirectory, ExportLoad, ExportBatch,
       ExportListOfLoads, ExportListOfBatches, ExportListOfFiles, WriteList, CompilationFails,
       Ship, Lose, Damage, Exchange, TakeEarlier, Disorder, Fault, compilerVars, vars

LEMMA DeliverySound == Spec => []DeliveryInv
<1>1. Init => DeliveryInv
  <2> SUFFICES ASSUME Init
               PROVE  DeliveryInv
    OBVIOUS
  <2>1. DOMAIN <<>> = {}
    OBVIOUS
  <2>2. media = <<>> /\ step = "first" /\ received = NothingReceived
    BY DEF Init, DecompilerInit
  <2> QED BY <2>1, <2>2 DEF DeliveryInv, AllGenuine, DeliveringNow, Delivering, FiveFields,
                            NothingReceived
<1>2. CompilerSound /\ CompilesWhatItCan /\ DecompilerTyped /\ DeliveryInv /\ [Next]_vars
        => DeliveryInv'
  <2> SUFFICES ASSUME CompilerSound, CompilesWhatItCan, DecompilerTyped, DeliveryInv, [Next]_vars
               PROVE  DeliveryInv'
    OBVIOUS
  <2>1. CASE UNCHANGED vars
    BY <2>1 DEF vars, compilerVars, decompilerVars, DeliveryInv, DeliveringNow
  <2> QED BY <2>1, SendDelivery, OnTheWayDelivery, ReceiveDelivery DEF Next
<1> QED BY <1>1, <1>2, CompilerSoundness, CompilesExactly, DecompilerSoundness, PTL DEF Spec

(* Whatever the faults on the way: a recipient gets one edition of the     *)
(* media set, whole, or nothing, and never two answers. It is assumed that *)
(* the compiler lists the batches (BatchesListed): the others arrive as    *)
(* regular files (BatchesArrive).                                          *)
THEOREM OneEditionDelivered == Spec /\ BatchesListed(Set) => DeliversOneEdition
<1>1. Init => Delivery!Init
  <2> SUFFICES ASSUME Init
               PROVE  Delivery!Init
    OBVIOUS
  <2>1. step = "first" /\ phase # "failed"
    BY DEF Init, DecompilerInit, CompilerInit
  <2> QED BY <2>1 DEF Delivery!Init, Delivered
<1>2. BatchesListed(Set) /\ [Next]_vars => BatchesListed(Set)'
  <2>1. [Next]_vars => source' = source
    BY SourceStays
  <2> QED BY <2>1 DEF Set
<1>3. CompilerSound /\ BatchesListed(Set) /\ DeliveryInv => AcceptedRight
  BY AcceptedIsSent DEF Set
<1>4. CompilerSound /\ DeliveryInv /\ AcceptedRight' /\ [Next]_vars => [Delivery!Next]_Delivered
  BY DeliveryStep
<1> QED BY <1>1, <1>2, <1>3, <1>4, CompilerSoundness, DeliverySound, PTL
        DEF Spec, DeliversOneEdition, Delivery!Safety
-----------------------------------------------------------------------------
(* Where files came from.                                                  *)

(* Directories hold all media, in any order, and while nothing but their   *)
(* order was disturbed, the media are what was compiled.                   *)
Undisturbed ==
  Range(faults) \subseteq {"disorder"} /\ media # <<>> => phase = "compiled" /\ media = disk

Ordered == media # <<>> => directories \in Orders

LEMMA OnTheWayOrdered ==
  ASSUME CompilerSound, DecompilerTyped, Undisturbed, Ordered, OnTheWay, source' = source
  PROVE  Undisturbed' /\ Ordered'
<1>1. LastMediumNumber \in Nat
  <2>1. Fit(source.ms)
    BY SourcesFit DEF CompilerSound
  <2>2. LastMedium(source.ms, Root) \in MediumNumber
    BY <2>1, Survey DEF Surveyed
  <2> QED BY <2>2, MediumAssumption DEF MediumAssumption, MediumNumber, LastMediumNumber, Set
<1>2. Orders' = Orders
  BY DEF Orders, LastMediumNumber, Set
<1>3. CASE Ship
  <2> DEFINE straight == [m \in FirstMedium .. LastMediumNumber |-> m]
  <2>1. Range(straight) = FirstMedium .. LastMediumNumber
    BY DEF Range
  <2>2. straight \in [1 .. LastMediumNumber -> FirstMedium .. LastMediumNumber]
    BY DEF FirstMedium
  <2>3. LastMediumNumber \in LastMediumNumber .. LastMediumNumber + 1
    BY <1>1
  <2> HIDE DEF straight
  <2>4. straight \in Orders
    BY <2>1, <2>2, <2>3 DEF Orders
  <2>5. media' = disk /\ disk' = disk /\ phase' = "compiled" /\ directories' = straight
    BY <1>3 DEF Ship, compilerVars, straight
  <2> QED BY <1>2, <2>4, <2>5 DEF Undisturbed, Ordered
<1>4. ASSUME NEW d \in Orders, Disorder(d)
      PROVE  Undisturbed' /\ Ordered'
  <2>1. /\ media # <<>> /\ media' = media /\ disk' = disk /\ phase' = phase /\ directories' = d
        /\ faults' = Append(faults, "disorder")
    BY <1>4 DEF Disorder, compilerVars, decompilerVars
  <2>2. Range(faults) \subseteq Range(faults')
    BY <2>1 DEF DecompilerTyped, Range
  <2> QED BY <1>2, <2>1, <2>2 DEF Undisturbed, Ordered
<1>5. ASSUME NEW kind \in FaultKind \ {"disorder"}, NEW files, Fault(kind, files)
      PROVE  Undisturbed' /\ Ordered'
  <2>1. media # <<>> /\ directories' = directories /\ faults' = Append(faults, kind)
    BY <1>5 DEF Fault
  <2>2. kind \in Range(faults')
    BY <2>1 DEF DecompilerTyped, Range
  <2> QED BY <1>2, <2>1, <2>2 DEF Undisturbed, Ordered
<1>6. {"damage", "loss", "exchange", "earlier"} = FaultKind \ {"disorder"}
  BY DEF FaultKind
<1>7. ASSUME NEW loc, Lose(loc)
      PROVE  Undisturbed' /\ Ordered'
  BY <1>5, <1>6, <1>7 DEF Lose
<1>8. ASSUME NEW loc, NEW v, Damage(loc, v)
      PROVE  Undisturbed' /\ Ordered'
  BY <1>5, <1>6, <1>8 DEF Damage
<1>9. ASSUME NEW m, NEW n, Exchange(m, n)
      PROVE  Undisturbed' /\ Ordered'
  BY <1>5, <1>6, <1>9 DEF Exchange
<1>10. ASSUME NEW m, TakeEarlier(m)
       PROVE  Undisturbed' /\ Ordered'
  BY <1>5, <1>6, <1>10 DEF TakeEarlier
<1> QED BY <1>3, <1>4, <1>7, <1>8, <1>9, <1>10 DEF OnTheWay

LEMMA OrderSoundness == Spec => [](Undisturbed /\ Ordered)
<1>1. Init => Undisturbed /\ Ordered
  BY DEF Init, Undisturbed, Ordered
<1>2. CompilerSound /\ DecompilerTyped /\ Undisturbed /\ Ordered /\ [Next]_vars
        => Undisturbed' /\ Ordered'
  <2> SUFFICES ASSUME CompilerSound, DecompilerTyped, Undisturbed, Ordered, [Next]_vars
               PROVE  Undisturbed' /\ Ordered'
    OBVIOUS
  <2>1. source' = source
    BY SourceStays
  <2>2. Orders' = Orders
    BY <2>1 DEF Orders, LastMediumNumber, Set
  <2>3. CASE UNCHANGED vars \/ Receive
    BY <2>2, <2>3 DEF vars, Receive, Decompile, compilerVars, decompilerVars, Reject,
         LoadFirstMedium, FirstMediumRejected, LoadFurtherMedium, FurtherMediumRejected, AddFiles,
         AmbiguousClass, AddLoad, LoadRejected, AddBatch, BatchRejected, Accept, Undisturbed, Ordered
  <2>4. CASE Send
    <3>1. phase # "compiled" /\ UNCHANGED <<media, directories, faults>>
      BY <2>4 DEF Send, decompilerVars, Compile, SetMediaPaths, CreateMedium, MediumExported, LoadsExported,
         BatchesExported, ExportRegularFile, ExportDirectory, ExportLoad, ExportBatch,
         ExportListOfLoads, ExportListOfBatches, ExportListOfFiles, WriteList, CompilationFails
    <3> QED BY <2>2, <3>1 DEF Undisturbed, Ordered
  <2> QED BY <2>1, <2>3, <2>4, OnTheWayOrdered DEF Next
<1> QED BY <1>1, <1>2, CompilerSoundness, DecompilerSoundness, PTL DEF Spec

(* Whatever happened to the media: what is read as a list of files says    *)
(* how many media there are, and has the number of one of them.            *)
LEMMA InformationOf ==
  ASSUME Fit(source.ms), AllGenuine(source, media), NEW d, IsMedium(d)
  PROVE  /\ MediumInformation(d).members = LastMedium(source.ms, Root)
         /\ MediumInformation(d).number \in Media(source.ms)
<1> DEFINE list == media[<<d, ListOfFiles>>]
<1>1. <<d, ListOfFiles>> \in DOMAIN media /\ list.kind = "fileList"
  BY DEF IsMedium, CanRead
<1>2. list.medium \in Media(source.ms) /\ ListIssued(source, list, list.medium)
  BY <1>1, KindTells DEF AllGenuine
<1>3. PICK D : list = FileList(source.ms, source.version, list.medium, D)
  BY <1>2 DEF ListIssued, ListOf
<1>4. list.members = LastMedium(source.ms, Root)
  BY <1>3, FileListFields
<1> QED BY <1>2, <1>4 DEF MediumInformation

(* The page takes every directory that is a medium.                        *)
LEMMA AllTaken ==
  ASSUME Fit(source.ms), AllGenuine(source, media), directories \in Orders
  PROVE  /\ Taken = MediumPlaces
         /\ MediumPlaces # {} => MediaSetMembers = LastMedium(source.ms, Root)
         /\ MediumPlaces \in SUBSET Nat
         /\ \E n \in Nat : directories \in [1 .. n -> Media(source.ms)]
         /\ \A m \in Media(source.ms) : \E k \in DOMAIN directories : directories[k] = m
<1>1. LastMedium(source.ms, Root) \in Nat
  <2>1. LastMedium(source.ms, Root) \in MediumNumber
    BY Survey DEF Surveyed
  <2> QED BY <2>1, MediumAssumption DEF MediumAssumption, MediumNumber
<1>2. PICK n \in LastMediumNumber .. LastMediumNumber + 1 :
        directories \in [1 .. n -> Media(source.ms)] /\ Range(directories) = Media(source.ms)
  BY DEF Orders, Media, LastMediumNumber, Set
<1>3. n \in Nat
  BY <1>1, <1>2 DEF LastMediumNumber, Set
<1>4. MediumPlaces \in SUBSET Nat
  BY <1>2, <1>3 DEF MediumPlaces
<1>5. MediumPlaces # {} => Min(MediumPlaces) \in MediumPlaces
  BY <1>4, Least DEF Min
<1>6. \A k \in MediumPlaces :
        MediumInformation(directories[k]).members = LastMedium(source.ms, Root)
  BY InformationOf DEF MediumPlaces
<1>7. MediumPlaces # {} => MediaSetMembers = LastMedium(source.ms, Root)
  BY <1>5, <1>6 DEF MediaSetMembers
<1>8. Taken = MediumPlaces
  BY <1>6, <1>7 DEF Taken
<1> QED BY <1>2, <1>3, <1>4, <1>7, <1>8 DEF Range

(* A complete page has a directory for every medium: with one that is no   *)
(* medium, fewer numbers are left than there are media.                    *)
LEMMA CompletePage ==
  ASSUME Fit(source.ms), AllGenuine(source, media), directories \in Orders, ViewerComplete
  PROVE  DOMAIN ViewerPaths = FirstMedium .. MediumInformation(directories[1]).members
<1> DEFINE L == LastMedium(source.ms, Root)
           all == Media(source.ms)
           places == {directories[k] : k \in MediumPlaces}
           numbers == {NumberAt(k) : k \in MediumPlaces}
<1>1. /\ Taken = MediumPlaces /\ (MediumPlaces # {} => MediaSetMembers = L)
      /\ MediumPlaces \in SUBSET Nat
      /\ \E n \in Nat : directories \in [1 .. n -> all]
      /\ \A m \in all : \E k \in DOMAIN directories : directories[k] = m
  BY AllTaken
<1>2. DOMAIN ViewerPaths = numbers
  BY <1>1 DEF ViewerPaths
<1>3. MediumPlaces # {} /\ Cardinality(numbers) = L
  BY <1>1, <1>2 DEF ViewerComplete
<1>4. \A k \in MediumPlaces : /\ k \in DOMAIN directories /\ directories[k] \in all
                          /\ NumberAt(k) \in all
                          /\ IsMedium(directories[k])
  BY <1>1, InformationOf DEF NumberAt, MediumPlaces
<1>5. L \in Nat /\ L >= 1 /\ all = 1 .. L /\ IsFiniteSet(all) /\ Cardinality(all) = L
  <2>1. L \in MediumNumber
    BY Survey DEF Surveyed
  <2>2. L \in Nat /\ L >= 1
    BY <2>1, MediumAssumption DEF MediumAssumption, MediumNumber
  <2>3. all = 1 .. L
    BY DEF Media, FirstMedium
  <2> QED BY <2>2, <2>3, FS_Interval
<1> HIDE DEF L, all
<1>6. numbers = all
  <2>1. numbers \in SUBSET all
    BY <1>4
  <2> HIDE DEF numbers
  <2> QED BY <1>3, <1>5, <2>1, FS_Subset
<1>7. directories[1] \in places
  <2> DEFINE numbering == [d \in places |-> MediumInformation(d).number]
  <2>1. places \in SUBSET all
    BY <1>4
  <2>2. numbering \in Surjection(places, numbers)
    <3>1. \A d \in places : numbering[d] \in numbers
      BY DEF NumberAt
    <3>2. \A x \in numbers : \E d \in places : numbering[d] = x
      BY DEF NumberAt
    <3>3. DOMAIN numbering = places /\ numbering = [d \in places |-> numbering[d]]
      OBVIOUS
    <3> HIDE DEF numbering, places, numbers
    <3> QED BY <3>1, <3>2, <3>3 DEF Surjection
  <2> HIDE DEF places, numbers, numbering
  <2>3. IsFiniteSet(places) /\ Cardinality(places) <= L
    BY <1>5, <2>1, FS_Subset
  <2>4. Cardinality(numbers) <= Cardinality(places)
    BY <2>2, <2>3, FS_Surjection
  <2>5. Cardinality(places) \in Nat
    BY <2>3, FS_CardinalityType
  <2>6. places = all
    <3>1. Cardinality(places) = L
      BY <1>3, <1>5, <2>3, <2>4, <2>5
    <3> QED BY <1>5, <2>1, <3>1, FS_Subset
  <2>7. 1 \in all
    BY <1>5
  <2>8. directories[1] \in all
    <3>1. PICK n \in Nat : directories \in [1 .. n -> all]
      BY <1>1
    <3>2. PICK k \in DOMAIN directories : directories[k] = 1
      BY <1>1, <2>7
    <3>3. 1 \in 1 .. n
      BY <3>1, <3>2
    <3> QED BY <3>1, <3>3
  <2> QED BY <2>6, <2>8
<1>8. MediumInformation(directories[1]).members = L
  <2>1. IsMedium(directories[1])
    BY <1>4, <1>7
  <2> QED BY <2>1, InformationOf DEF L
<1> QED BY <1>2, <1>5, <1>6, <1>8 DEF FirstMedium

(* The media that were compiled have their own numbers.                    *)
LEMMA CompiledInformation ==
  ASSUME CompilerSound, phase = "compiled", media = disk, NEW m \in Media(source.ms)
  PROVE  IsMedium(m) /\ MediumInformation(m).number = m
<1>1. Fit(source.ms)
  BY SourcesFit DEF CompilerSound
<1>2. /\ <<m, ListOfFiles>> \in DOMAIN media
      /\ media[<<m, ListOfFiles>>] = ListMeant(source, disk, ListOfFiles, m)
  BY CompiledDisk DEF ListsDone, Set, Media, FirstMedium
<1>3. media[<<m, ListOfFiles>>] = FileList(source.ms, source.version, m, disk)
  BY <1>2, ListNamesDiffer DEF ListMeant
<1> QED BY <1>1, <1>2, <1>3, FileListFields DEF IsMedium, CanRead, MediumInformation

(* Each of them is found where it is.                                      *)
LEMMA StraightPaths ==
  ASSUME CompilerSound, AllGenuine(source, media), directories \in Orders, phase = "compiled",
         media = disk
  PROVE  /\ ViewerComplete /\ CommandAccepts
         /\ \A m \in Media(source.ms) : ViewerPaths[m] = m
<1>1. Fit(source.ms)
  BY SourcesFit DEF CompilerSound
<1>2. /\ Taken = MediumPlaces /\ (MediumPlaces # {} => MediaSetMembers = LastMedium(source.ms, Root))
      /\ MediumPlaces \in SUBSET Nat
      /\ \A m \in Media(source.ms) : \E k \in DOMAIN directories : directories[k] = m
  BY <1>1, AllTaken
<1>3. PICK n \in Nat : directories \in [1 .. n -> Media(source.ms)]
  BY <1>1, AllTaken
<1>4. \A k \in DOMAIN directories : IsMedium(directories[k]) /\ NumberAt(k) = directories[k]
  BY <1>3, CompiledInformation DEF NumberAt
<1>5. Taken = DOMAIN directories
  BY <1>2, <1>4 DEF MediumPlaces
<1>6. DOMAIN ViewerPaths = Media(source.ms)
  <2>1. {NumberAt(k) : k \in Taken} = Media(source.ms)
    BY <1>2, <1>3, <1>4, <1>5
  <2> QED BY <2>1 DEF ViewerPaths
<1>7. ASSUME NEW m \in Media(source.ms)
      PROVE  ViewerPaths[m] = m
  <2> DEFINE same == {k \in Taken : NumberAt(k) = m}
  <2>1. same \in SUBSET Nat /\ same # {} /\ \A k \in same : k <= n
    BY <1>2, <1>3, <1>4, <1>5
  <2>2. ViewerPaths[m] = directories[Max(same)]
    BY <1>6 DEF ViewerPaths
  <2>3. \A k \in same : directories[k] = m
    BY <1>4, <1>5
  <2> HIDE DEF same
  <2>4. PICK k \in same : \A j \in same : j <= k
    BY <2>1, Greatest
  <2>5. Max(same) \in same
    BY <2>1, <2>4 DEF Max
  <2> QED BY <2>2, <2>3, <2>5
<1>8. ViewerComplete
  <2>1. LastMedium(source.ms, Root) \in MediumNumber
    BY <1>1, Survey DEF Surveyed
  <2>2. LastMedium(source.ms, Root) \in Nat /\ LastMedium(source.ms, Root) >= 1
    BY <2>1, MediumAssumption DEF MediumAssumption, MediumNumber
  <2>3. FirstMedium \in Media(source.ms)
    BY <2>2 DEF Media, FirstMedium
  <2>4. Cardinality(Media(source.ms)) = LastMedium(source.ms, Root)
    BY <2>2, FS_Interval DEF Media, FirstMedium
  <2>5. MediumPlaces # {}
    BY <1>2, <1>5, <2>3
  <2> QED BY <1>2, <1>6, <2>3, <2>4, <2>5 DEF ViewerComplete
<1> QED BY <1>4, <1>7, <1>8 DEF CommandAccepts

(* A file that arrives is on a medium of the set, at its path.             *)
LEMMA MembersPlaced ==
  ASSUME CompilerSound, DeliveryInv, phase = "compiled", media = disk, step = "accepted",
         NEW f \in received.members
  PROVE  f.medium \in Media(source.ms) /\ <<f.medium, Append(f.path, f.name)>> \in DOMAIN media
<1> DEFINE s == source
           ms == source.ms
<1>1. Fit(ms)
  BY SourcesFit DEF CompilerSound
<1>2. /\ Lists(s, fileList, batchList, loadInfo) /\ toAdd = {}
      /\ \E c \in Issues(s) : Added(s, verify, media, fileList, loadInfo, c, Done(ms, toAdd), received)
  BY DEF DeliveryInv, DeliveringNow, Delivering
<1>3. Done(ms, toAdd) = Files(ms)
  BY <1>2 DEF Done
<1>4. /\ RightlyNamed(s, loadInfo, Files(ms)) /\ Indexed(ms, loadInfo)
      /\ ListIssued(s, fileList, FirstMedium)
      /\ received.members = {Made(s, loadInfo, e) : e \in fileList.files}
  BY <1>2, <1>3 DEF Added, Lists
<1>5. PICK e \in fileList.files : f = Made(s, loadInfo, e)
  BY <1>4
<1>6. PICK g \in Files(ms) : EntryFor(s, e, g)
  BY <1>1, <1>4, ListedFiles
<1>7. /\ f.path = e.path /\ f.name = e.name
      /\ f.medium = IF ClassNamed(ms, e.name) = "load" THEN loadInfo[e.name].medium ELSE e.medium
  BY <1>5 DEF Made
<1>8. e.name = ms.name[g] /\ e.path = Front(Path(ms, g)) /\ e.medium = EffectiveMedium(ms, g)
  BY <1>6 DEF EntryFor
<1>9. ASSUME ClassNamed(ms, e.name) = "load"
      PROVE  loadInfo[e.name].medium = EffectiveMedium(ms, g)
  <2>1. g \in Load /\ loadInfo[e.name].load = g
    BY <1>4, <1>8, <1>9 DEF RightlyNamed
  <2>2. LoadList(ms, FirstMedium).loads = {LoadEntry(ms, l) : l \in Files(ms) \cap Load}
    BY <1>1, ListFields
  <2>3. LoadEntry(ms, g).name = e.name
    BY <1>8 DEF LoadEntry
  <2>4. loadInfo[e.name] \in LoadList(ms, FirstMedium).loads
    BY <1>4, <2>1, <2>2, <2>3 DEF Indexed
  <2>5. PICK l \in Files(ms) \cap Load : loadInfo[e.name] = LoadEntry(ms, l)
    BY <2>2, <2>4
  <2> QED BY <2>1, <2>5 DEF LoadEntry
<1>10. f.medium = EffectiveMedium(ms, g)
  BY <1>7, <1>8, <1>9
<1>11. <<f.medium, Append(f.path, f.name)>> = Location(ms, g)
  BY <1>1, <1>7, <1>8, <1>10, PathParts DEF Location
<1>12. Location(ms, g) \in DOMAIN media
  BY CompiledDisk DEF Reads, Set
<1>13. EffectiveMedium(ms, g) \in Media(ms)
  BY <1>1, Survey DEF Surveyed
<1> QED BY <1>10, <1>11, <1>12, <1>13

(* The viewer goes on only with a directory for every medium, whatever     *)
(* happened to the media, and finds every file in the directory it notes   *)
(* for it, in whatever order the directories were given; the command does  *)
(* if they were given in the order of their media.                         *)
THEOREM SourcesFound == Spec => []SourcesLeadToFiles
<1>1. CompilerSound /\ DeliveryInv /\ Undisturbed /\ Ordered => SourcesLeadToFiles
  <2> SUFFICES ASSUME CompilerSound, DeliveryInv, Undisturbed, Ordered
               PROVE  SourcesLeadToFiles
    OBVIOUS
  <2>1. Fit(source.ms) /\ AllGenuine(source, media)
    BY SourcesFit DEF CompilerSound, DeliveryInv
  <2>2. ASSUME step = "first", ViewerComplete
        PROVE  DOMAIN ViewerPaths = FirstMedium .. MediumInformation(directories[1]).members
    <3>1. media # <<>>
      <4>1. DOMAIN <<>> = {}
        OBVIOUS
      <4>2. media = <<>> => MediumPlaces = {}
        BY <4>1 DEF MediumPlaces, IsMedium, CanRead
      <4>3. MediumPlaces # {}
        BY <2>2 DEF ViewerComplete, ViewerPaths, Taken
      <4> QED BY <4>2, <4>3
    <3> QED BY <2>1, <2>2, <3>1, CompletePage DEF Ordered
  <2>3. ASSUME step = "accepted", Range(faults) \subseteq {"disorder"}
        PROVE  /\ ViewerComplete /\ CommandAccepts
               /\ \A f \in received.members :
                    LET holds(d) == d = f.medium /\ <<d, Append(f.path, f.name)>> \in DOMAIN media
                    IN /\ holds(ViewerSource(f))
                       /\ directories = [m \in DOMAIN directories |-> m] => holds(CommandSource(f))
    <3>1. media # <<>> /\ phase = "compiled" /\ media = disk /\ directories \in Orders
      BY <2>3 DEF DeliveryInv, Undisturbed, Ordered
    <3>2. /\ ViewerComplete /\ CommandAccepts
          /\ \A m \in Media(source.ms) : ViewerPaths[m] = m
      BY <2>1, <3>1, StraightPaths
    <3>3. ASSUME NEW f \in received.members
          PROVE  /\ f.medium \in Media(source.ms)
                 /\ <<f.medium, Append(f.path, f.name)>> \in DOMAIN media
      BY <2>3, <3>1, MembersPlaced
    <3>4. ASSUME NEW m \in Media(source.ms), directories = [k \in DOMAIN directories |-> k]
          PROVE  directories[m] = m
      <4>1. \A x \in Media(source.ms) : \E k \in DOMAIN directories : directories[k] = x
        BY <2>1, <3>1, AllTaken
      <4> QED BY <3>4, <4>1
    <3> QED BY <3>2, <3>3, <3>4 DEF ViewerSource, CommandSource
  <2> QED BY <2>2, <2>3 DEF SourcesLeadToFiles
<1> QED BY <1>1, CompilerSoundness, DeliverySound, OrderSoundness, PTL
=============================================================================
