------------------------- MODULE MediaSetTransport -------------------------
(***************************************************************************)
(* A media set from its description to the recipient: it is compiled onto  *)
(* media, the media are carried to the recipient, and there decompiled.    *)
(* On the way files may be damaged or lost, two media taken for each       *)
(* other, and a medium replaced by that of an earlier edition.             *)
(***************************************************************************)
EXTENDS MediaSetCompiler, MediaDirectories

CONSTANTS
  Source,      \* the descriptions to be compiled
  MaxFaults,   \* bound: how many faults happen on the way
  Refused      \* the answer of a recipient who gets no media set

ASSUME TransportAssumption ==
  /\ MaxFaults \in Nat
  /\ Source \subseteq SourceType
  /\ \A s \in Source : Proper(s.ms) /\ IsFiniteSet(Files(s.ms))

VARIABLE faults   \* the faults that happened, in their order

vars == <<compilerVars, decompilerVars, directories, faults>>

Init ==
  /\ source \in Source
  /\ CompilerInit
  /\ media = <<>>
  /\ verify = FALSE
  /\ DecompilerInit
  /\ directories = <<>>
  /\ faults = <<>>

-----------------------------------------------------------------------------
(* External: the media on their way.                                       *)

(* The recipient asks for the integrity check of files or does not.        *)
Ship ==
  /\ phase = "compiled" /\ media = <<>>
  /\ media' = disk
  /\ directories' = [m \in FirstMedium .. LastMediumNumber |-> m]
  /\ verify' \in BOOLEAN
  /\ UNCHANGED <<compilerVars, faults, step, number, fileList, loadList, batchList,
                 loadInfo, toAdd, received>>

Fault(kind, files) ==
  /\ media # <<>> /\ step = "first"
  /\ Len(faults) < MaxFaults
  /\ faults' = Append(faults, kind)
  /\ media' = files
  /\ UNCHANGED <<compilerVars, directories, verify, step, number, fileList, loadList, batchList,
                 loadInfo, toAdd, received>>

Damage(loc, v) ==
  /\ media[loc].kind = "data" /\ media[loc] # Data(v)
  /\ Fault("damage", [media EXCEPT ![loc] = Data(v)])

Lose(loc) == Fault("loss", Restrict(media, DOMAIN media \ {loc}))

(* The recipient takes medium m for n and n for m. *)
Exchange(m, n) ==
  LET swap(loc) == <<IF loc[1] = m THEN n ELSE IF loc[1] = n THEN m ELSE loc[1], loc[2]>>
  IN Fault("exchange", [loc \in {swap(x) : x \in DOMAIN media} |-> media[swap(loc)]])

(* Medium m comes from the earlier edition, which carries the same part    *)
(* number and the same files with other contents.                          *)
TakeEarlier(m) ==
  LET earlier == Image(Set, source.version, source.earlier)
      taken == {loc \in DOMAIN earlier : loc[1] = m}
      kept == {loc \in DOMAIN media : loc[1] # m}
  IN Fault("earlier", [loc \in taken \cup kept |->
                         IF loc \in taken THEN earlier[loc] ELSE media[loc]])

(* The recipient gives the directories in another order, or one of them    *)
(* twice.                                                                  *)
Orders ==
  UNION {{d \in [1 .. n -> FirstMedium .. LastMediumNumber] :
            Range(d) = FirstMedium .. LastMediumNumber} : n \in LastMediumNumber .. LastMediumNumber + 1}

Disorder(d) ==
  /\ media # <<>> /\ step = "first"
  /\ Len(faults) < MaxFaults /\ d # directories
  /\ faults' = Append(faults, "disorder")
  /\ directories' = d
  /\ UNCHANGED <<compilerVars, decompilerVars>>

OnTheWay ==
  \/ Ship
  \/ \E loc \in DOMAIN media : Lose(loc) \/ \E v \in Value : Damage(loc, v)
  \/ \E m, n \in FirstMedium .. LastMediumNumber : m < n /\ Exchange(m, n)
  \/ \E d \in Orders : Disorder(d)
  \/ \E m \in FirstMedium .. LastMediumNumber : TakeEarlier(m)

Receive == media # <<>> /\ Decompile /\ UNCHANGED <<compilerVars, directories, faults>>

Send == Compile /\ UNCHANGED <<decompilerVars, directories, faults>>

Next == Send \/ OnTheWay \/ Receive

(* Compiler and decompiler run to their end, and the media arrive. Faults  *)
(* need not happen.                                                        *)
Fairness == WF_vars(Send) /\ WF_vars(Ship) /\ WF_vars(Receive)

Spec == Init /\ [][Next]_vars /\ Fairness

-----------------------------------------------------------------------------
FaultKind == {"damage", "loss", "exchange", "earlier", "disorder"}

TypeOK ==
  /\ CompilerTypeOK
  /\ verify \in BOOLEAN
  /\ step \in {"first", "further", "files", "fill", "accepted", "rejected"}
  /\ number \in MediumNumber
  /\ \A f \in received.members : f.medium \in MediumNumber
  /\ faults \in Seq(FaultKind)

(* Checksums and contents count only when the recipient looks at them.     *)
Checked(x) == IF verify THEN x ELSE NoValue

ClassOf(f) == IF f \in Load THEN "load" ELSE IF f \in Batch THEN "batch" ELSE "regular"

Stored(type) == IF source.version = "Supplement2" THEN NotUsed ELSE type

(* The contents that the header of load l is made for: those of another    *)
(* edition if it was taken over from there.                                *)
HeaderContents(l) ==
  IF Copied(l) /\ source.original[l] = "earlier" THEN source.earlier ELSE source.value

(* The media set as the sender knows it, with these contents of files, and *)
(* with those that the header of each load is made for.                    *)
Sent(value, loaded) ==
  [members |-> {[path |-> Front(Path(Set, f)), name |-> Set.name[f], class |-> ClassOf(f),
                 medium |-> EffectiveMedium(Set, f),
                 check |-> Stored(EffectiveCheckType(Set, <<f, "file">>)),
                 crc |-> IF f \in RegularFile THEN Checked(Crc[value[f]]) ELSE NoValue] :
                   f \in Files(Set)},
   links |-> UNION {{[load |-> l, role |-> role, name |-> Set.name[f],
                      check |-> Stored(EffectiveCheckType(Set, <<l, role>>)),
                      content |-> Checked(Data(loaded[l][f]))] : f \in LoadFiles(Set, l, role)} :
                        l \in RecursiveLoads(Set), role \in Roles},
   loadTypes |-> {<<l, Stored(EffectiveCheckType(Set, <<l, "load">>))>> : l \in RecursiveLoads(Set)},
   targets |-> UNION {{[batch |-> b, position |-> p, loads |-> Set.targets[b][p]] :
                         p \in {x \in Position : Set.targets[b][x] # NoValue}} :
                           b \in RecursiveBatches(Set)},
   lists |-> <<Stored(EffectiveCheckType(Set, <<Root, "listOfFiles">>)),
               Stored(EffectiveCheckType(Set, <<Root, "listOfLoads">>)),
               IF HasBatchList(Set) THEN Stored(EffectiveCheckType(Set, <<Root, "listOfBatches">>))
               ELSE NotUsed>>]

(* The media set as the recipient has it, with the contents on its media.  *)
Received ==
  [received EXCEPT
     !.members = {[path |-> f.path, name |-> f.name, class |-> f.class, medium |-> f.medium,
                   check |-> f.check.type,
                   crc |-> IF f.class = "regular" THEN Checked(Checksum(media[EntryLocation(f)]))
                           ELSE NoValue] : f \in @},
     !.links = {[load |-> k.load, role |-> k.role, name |-> k.file.name, check |-> k.check,
                 content |-> Checked(media[EntryLocation(k.file)])] : k \in @}]

(* What a recipient may get. A load whose header was taken over from the    *)
(* earlier edition has the contents that this header is for.               *)
Editions ==
  {Sent(source.value, [l \in Load |-> HeaderContents(l)]),
   Sent(source.earlier, [l \in Load |-> source.earlier])}

Delivered ==
  IF step = "accepted" THEN Received
  ELSE IF phase = "failed" \/ step = "rejected" THEN Refused ELSE NoValue

Delivery ==
  INSTANCE MediaSetDelivery WITH
    editions <- Editions, delivered <- Delivered, Nothing <- NoValue, Refusal <- Refused

(* The recipient gets one edition of the media set, whole, or none: names, *)
(* directories, media, check value types, the files of loads and the       *)
(* targets of batches arrive; contents do, up to the 16-bit CRC and exactly *)
(* for files of loads, if the recipient checks integrity. It holds for     *)
(* media sets whose batches the compiler lists.                            *)
DeliversOneEdition == Delivery!Safety

(* The transport of a media set ends with it or with a refusal, unless it  *)
(* reaches the largest medium number, from which the compiler does not     *)
(* return.                                                                 *)
AlwaysAnswers == LastMediumNumber < MaxMedium => Delivery!Answers

(* Media sets whose batches the compiler lists: none, or one at the top.   *)
BatchesListed(ms) == HasBatchList(ms) \/ RecursiveBatches(ms) = {}

(* The media of two editions are never mixed, even if integrity is not     *)
(* checked, as long as no single file was damaged or lost.                 *)
NoMixedEditions ==
  step = "accepted" /\ Range(faults) \cap {"damage", "loss"} = {} =>
    \E value \in {source.value, source.earlier} :
      \A f \in RegularFilesOf(Set) : Checksum(media[Location(Set, f)]) = Crc[value[f]]

(* Headers and batch files are told apart by name alone. A file of a load  *)
(* must be the only one of its name, or below the directory of the load    *)
(* and there equal to all others of its name.                              *)
NamesTell ==
  /\ \A f \in Files(Set) \ RegularFile, g \in Files(Set) : Set.name[f] = Set.name[g] => f = g
  /\ \A l \in RecursiveLoads(Set) : \A f \in Set.data[l] \cup Set.support[l] :
       LET near == RecursiveFiles(Set, Set.parent[l], NoValue)
           named == {g \in RegularFilesOf(Set) : Set.name[g] = Set.name[f]}
       IN \/ named = {f}
          \/ f \in near /\ \A g \in named \cap near : source.value[g] = source.value[f]

(* What the compiler has written and nothing disturbed is accepted, unless *)
(* names are ambiguous or a header of another edition was taken over.      *)
AcceptsWhatWasCompiled ==
  step = "rejected" /\ faults = <<>> =>
    \/ ~NamesTell
    \/ \E f \in Files(Set) \ RegularFile : Copied(f) /\ source.original[f] = "earlier"

(* The viewer goes on only with a directory for every medium. Afterwards   *)
(* it finds every file in the directory it notes for it, in whatever order *)
(* the directories were given, and the command does if they were given in  *)
(* the order of their media.                                               *)
SourcesLeadToFiles ==
  LET holds(d, f) == d = f.medium /\ <<d, Append(f.path, f.name)>> \in DOMAIN media
  IN /\ step = "first" /\ ViewerComplete =>
          DOMAIN ViewerPaths = FirstMedium .. MediumInformation(directories[1]).members
     /\ step = "accepted" /\ Range(faults) \subseteq {"disorder"} =>
          /\ ViewerComplete /\ CommandAccepts
          /\ \A f \in received.members :
               /\ holds(ViewerSource(f), f)
               /\ directories = [m \in DOMAIN directories |-> m] => holds(CommandSource(f), f)

(* "Export list of batches file (if present)": a batch arrives as a batch. *)
BatchesArrive ==
  step = "accepted" =>
    Cardinality({f \in received.members : f.class = "batch"}) = Cardinality(RecursiveBatches(Set))
=============================================================================
