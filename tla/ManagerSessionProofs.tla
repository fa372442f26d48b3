------------------------ MODULE ManagerSessionProofs ------------------------
(***************************************************************************)
(* Theorems about the graphical sessions. Type correctness, and that       *)
(* nothing the decompiler rejects is ever registered, hold for any number  *)
(* of sessions at once; what a session with integrity check offers is      *)
(* stored as long as no other session works on the repository.             *)
(***************************************************************************)
EXTENDS ManagerSession, MediaSetManagerProofs

USE DEF Location, Operation, MediaSetOperation

(* What a user's request leaves typed.                                     *)
LEMMA UserTyping ==
  ASSUME TypeOK, NEW self \in Proc, User(self)
  PROVE  TypeOK'
<1> USE DEF storeVars, memory, work, Goto, Request, Begin
<1>1. CASE StartSession(self)
  <2>1. CASE CreateRepository(self, "session")
    BY <2>1, CreateTyping
  <2>2. CASE ~CreateRepository(self, "session")
    BY <1>1, <2>2, ManagerAssumption, ZenonT(30) DEF StartSession, TypeOK, StoreTypeOK
  <2> QED BY <2>1, <2>2
<1>2. ASSUME NEW p \in PartNumber, SessionRemove(self, p)
      PROVE  TypeOK'
  BY <1>2 DEF SessionRemove, DeregisterMediaSet, TypeOK, StoreTypeOK
<1>3. ASSUME NEW p \in PartNumber, NEW v \in BOOLEAN,
             SessionImport(self, p, v) \/ SessionImportXml(self, p, v)
      PROVE  TypeOK'
  <2>1. StoreTypeOK'
    BY <1>3 DEF SessionImport, SessionImportXml, CreateNewDirectory, CreateDirectory,
                TypeOK, StoreTypeOK
  <2> QED BY <1>3, <2>1 DEF SessionImport, SessionImportXml, TypeOK
<1>4. ASSUME NEW d \in Defaults, SessionSettings(self, d)
      PROVE  TypeOK'
  BY <1>4, ManagerAssumption DEF SessionSettings, TypeOK, StoreTypeOK
<1>5. CASE CloseWindow(self)
  BY <1>5 DEF CloseWindow, request, TypeOK, StoreTypeOK
<1> QED BY <1>1, <1>2, <1>3, <1>4, <1>5 DEF User

(* Every reachable state is well typed, whatever sessions run together.    *)
THEOREM Typing == Spec => []TypeOK
<1>1. Init => TypeOK
  BY InitTyping
<1>2. TypeOK /\ [Next]_vars => TypeOK'
  <2> SUFFICES ASSUME TypeOK, [Next]_vars
               PROVE  TypeOK'
    OBVIOUS
  <2>1. CASE UNCHANGED vars
    BY <2>1 DEF vars, storeVars, request, memory, work, TypeOK, StoreTypeOK
  <2>2. ASSUME NEW self \in Proc, User(self) \/ Crash(self)
        PROVE  TypeOK'
    BY <2>2, UserTyping, CrashTyping
  <2>3. ASSUME NEW self \in Proc, Load(self) \/ Fill(self) \/ Empty(self)
        PROVE  TypeOK'
    BY <2>3, LoadTyping, FillTyping, EmptyTyping DEF Load, Fill, Empty
  <2>4. ASSUME NEW self \in Proc, Save(self)
        PROVE  TypeOK'
    <3>1. SaveHandler(self) \in Location
      BY DEF SaveHandler
    <3> QED BY <2>4, <3>1, SaveTyping DEF Save
  <2>5. ASSUME NEW self \in Proc, SessionFinished(self)
        PROVE  TypeOK'
    BY <2>5, ManagerAssumption
    DEF SessionFinished, Begin, Request, Goto, storeVars, memory, work, TypeOK, StoreTypeOK
  <2> QED BY <2>1, <2>2, <2>3, <2>4, <2>5 DEF Next, Step
<1> QED BY <1>1, <1>2, PTL DEF Spec

-----------------------------------------------------------------------------

(* What a step does to the memory of the programs: one program learns of a *)
(* media set the decompiler has accepted, or programs forget.              *)
Learns(self, p, checkFileIntegrity) ==
  /\ Decompiles(p, checkFileIntegrity)
  /\ info' = [info EXCEPT ![self] = @ \cup {p}]
  /\ paths' = [paths EXCEPT ![self] = @ \cup {p}]

ForgetsOnly ==
  \A self \in Proc : info'[self] \subseteq info[self] /\ paths'[self] \subseteq paths[self]

LEMMA MemoryStep ==
  ASSUME TypeOK, NEW self \in Proc, User(self) \/ Step(self) \/ Crash(self)
  PROVE  \/ ForgetsOnly
         \/ \E p \in PartNumber, c \in BOOLEAN : Learns(self, p, c)
<1> USE DEF memory, ForgetsOnly
<1>1. CASE UNCHANGED <<info, paths>>
  BY <1>1
<1>2. CASE Terminate(self)
  BY <1>2 DEF Terminate, TypeOK
<1>3. ASSUME NEW p \in PartNumber, DeregisterMediaSet(self, p)
      PROVE  ForgetsOnly
  BY <1>3 DEF DeregisterMediaSet, TypeOK
<1>4. ASSUME NEW p \in PartNumber, LoadMediaSet(self, p)
      PROVE  \E q \in PartNumber, c \in BOOLEAN : Learns(self, q, c)
  BY <1>4 DEF LoadMediaSet, Learns, TypeOK
<1>5. CASE RegisterMediaSet(self)
  <2>1. arg[self] \in PartNumber /\ verify[self] \in BOOLEAN
    BY <1>5 DEF RegisterMediaSet, Decompiles, ListFilesDecode, FilesIntact, TypeOK, StoreTypeOK
  <2>2. Learns(self, arg[self], verify[self])
    BY <1>5 DEF RegisterMediaSet, Learns
  <2> QED BY <2>1, <2>2
<1>6. CASE User(self)
  <2>1. UNCHANGED <<info, paths>> \/ \E p \in PartNumber : DeregisterMediaSet(self, p)
    BY <1>6 DEF User, StartSession, CreateRepository, SessionRemove, SessionImport,
                SessionImportXml, SessionSettings, CloseWindow
  <2> QED BY <1>1, <1>3, <2>1
<1>7. CASE Load(self) \/ Fill(self) \/ Crash(self)
  BY <1>1, <1>2, <1>4, <1>5, <1>7
  DEF Load, WriteNewConfiguration, CreationFails, ReadConfiguration,
      ConfigurationUnreadable, LoadFails, Loaded, Fill, WriteMediaFile, WriteTruncates,
      WriteCollides, WriteFails, WriteDone, RegisterRefused, Throw, Crash
<1>8. CASE Empty(self) \/ Save(self) \/ SessionFinished(self)
  BY <1>1, <1>2, <1>8
  DEF Empty, EraseMediaFile, EraseMediaSetDirectory, EraseFails, Save,
      OpenConfiguration, FlushConfiguration, SaveFails, DestructorOpens,
      DestructorFlushes, DestructorFails, Throw, SessionFinished
<1> QED BY <1>6, <1>7, <1>8 DEF Step

(* The configuration stays as it is, is emptied, or takes over the memory  *)
(* of a manager.                                                           *)
LEMMA ConfigurationStep ==
  ASSUME NEW self \in Proc, User(self) \/ Step(self) \/ Crash(self)
  PROVE  config' = config \/ config'.sets = {} \/ config'.sets = paths[self]
<1>1. CASE User(self)
  <2>1. config' = config \/ config' = Torn
    BY <1>1 DEF User, StartSession, CreateRepository, SessionRemove, DeregisterMediaSet,
                SessionImport, SessionImportXml, SessionSettings, CloseWindow
  <2> QED BY <2>1 DEF Torn
<1>2. CASE Load(self) \/ Crash(self)
  <2>1. config' = config \/ config' = Written({}, BuiltinDefaults)
    BY <1>2 DEF Load, WriteNewConfiguration, CreationFails, ReadConfiguration,
                ConfigurationUnreadable, LoadMediaSet, LoadFails, Loaded, Crash
  <2> QED BY <2>1 DEF Written
<1>3. CASE Fill(self) \/ Empty(self) \/ SessionFinished(self)
  BY <1>3 DEF Fill, WriteMediaFile, WriteTruncates, WriteCollides, WriteFails, WriteDone,
              RegisterMediaSet, RegisterRefused, Throw, Empty, EraseMediaFile,
              EraseMediaSetDirectory, EraseFails, SessionFinished
<1>4. CASE Save(self)
  <2>1. \/ config' = config \/ config' = Torn
        \/ config' = Written(paths[self], settings[self])
    BY <1>4 DEF Save, OpenConfiguration, FlushConfiguration, SaveFails, DestructorOpens,
                DestructorFlushes, DestructorFails, Throw
  <2> QED BY <2>1 DEF Torn, Written
<1> QED BY <1>1, <1>2, <1>3, <1>4 DEF Step

(* Whatever sessions run together, and whenever they crash, no media set   *)
(* the decompiler rejects is in the configuration or in a memory.          *)
THEOREM BrokenNeverRegistered == Spec => []NothingBrokenRegistered
<1>1. Init => NothingBrokenRegistered
  BY DEF Init, Absent, NothingBrokenRegistered
<1>2. TypeOK /\ NothingBrokenRegistered /\ [Next]_vars => NothingBrokenRegistered'
  <2> SUFFICES ASSUME TypeOK, NothingBrokenRegistered, [Next]_vars
               PROVE  NothingBrokenRegistered'
    OBVIOUS
  <2>1. CASE UNCHANGED vars
    BY <2>1 DEF vars, memory, NothingBrokenRegistered
  <2>2. ASSUME NEW self \in Proc, User(self) \/ Step(self) \/ Crash(self)
        PROVE  NothingBrokenRegistered'
    <3>1. config'.sets \cap Broken = {}
      BY <2>2, ConfigurationStep DEF NothingBrokenRegistered
    <3>2. CASE ForgetsOnly
      BY <3>1, <3>2 DEF ForgetsOnly, NothingBrokenRegistered
    <3>3. ASSUME NEW p \in PartNumber, NEW c \in BOOLEAN, Learns(self, p, c)
          PROVE  NothingBrokenRegistered'
      BY <3>1, <3>3 DEF Learns, Decompiles, ListFilesDecode, FilesIntact, NothingBrokenRegistered, TypeOK
    <3> QED BY <2>2, <3>2, <3>3, MemoryStep
  <2> QED BY <2>1, <2>2 DEF Next
<1> QED BY <1>1, <1>2, Typing, PTL DEF Spec

-----------------------------------------------------------------------------
(* What a checked session offers. The invariant that carries the property  *)
(* says in addition how far an import has come (the data files it need not *)
(* write any more are there), that a removal has forgotten the media set   *)
(* before it erases the first file, and that a session starts with nothing *)
(* in its memory.                                                          *)
Filled(self) ==
  /\ pc[self] \in {"writing", "registering"} =>
       \A f \in DataFile : f \in toWrite[self] \/ file[arg[self]][f] = "ok"
  /\ pc[self] = "registering" => toWrite[self] = {}

Forgotten(self) == pc[self] = "erasing" => arg[self] \notin info[self]

OffersStored(self) == check[self] => \A p \in info[self] : Complete(p)

Blank(self) == pc[self] \in {"idle", "creating", "reading"} => info[self] = {}

Offered ==
  \A self \in Proc :
    OffersStored(self) /\ Filled(self) /\ Forgotten(self) /\ Blank(self)

(* A step that goes anywhere else, harms no complete media set and teaches *)
(* the session nothing keeps the invariant.                                *)
LEMMA OfferedKept ==
  ASSUME Exclusive, TypeOK, Offered, NEW self \in Proc,
         pc'[self] \in {"loading", "ready", "saving", "flushing", "saved", "closing",
                        "closingFlush"},
         check'[self] => check[self], info'[self] \subseteq info[self],
         \A q \in PartNumber : Complete(q) => Complete(q)'
  PROVE  Offered'
<1>1. \A other \in Proc : other = self
  BY DEF Exclusive
<1>2. OffersStored(self)'
  BY DEF Offered, OffersStored, TypeOK
<1> QED BY <1>1, <1>2 DEF Offered, Filled, Forgotten, Blank

LEMMA TerminateOffered ==
  ASSUME Exclusive, TypeOK, NEW self \in Proc, Terminate(self)
  PROVE  Offered'
<1>1. \A other \in Proc : pc'[other] = "idle" /\ info'[other] = {}
  BY DEF Exclusive, TypeOK, Terminate, Goto
<1> QED BY <1>1 DEF Offered, OffersStored, Filled, Forgotten, Blank

LEMMA ThrowOffered ==
  ASSUME Exclusive, TypeOK, Offered, NEW self \in Proc, NEW from,
         NEW handler \in {"closing", "saved"}, Throw(self, from, handler),
         \A q \in PartNumber : Complete(q) => Complete(q)'
  PROVE  Offered'
BY OfferedKept DEF Throw, Goto, request, memory, TypeOK

LEMMA UserOffered ==
  ASSUME Exclusive, TypeOK, Offered, NEW self \in Proc, User(self)
  PROVE  Offered'
<1> USE DEF storeVars, memory, work, Goto, Request, Begin
<1>1. \A q \in PartNumber : Complete(q) => Complete(q)'
  BY DEF User, StartSession, CreateRepository, SessionRemove, DeregisterMediaSet,
         SessionImport, SessionImportXml, CreateNewDirectory, CreateDirectory,
         SessionSettings, CloseWindow, Complete
<1>2. CASE StartSession(self)
  <2>1. pc[self] = "idle" /\ pc'[self] \in {"creating", "reading"} /\ info' = info
    BY <1>2 DEF StartSession, CreateRepository, TypeOK
  <2>2. info'[self] = {}
    BY <2>1 DEF Offered, Blank
  <2> QED BY <2>1, <2>2 DEF Offered, OffersStored, Filled, Forgotten, Blank, Exclusive
<1>3. ASSUME NEW p \in PartNumber, SessionRemove(self, p)
      PROVE  Offered'
  <2>1. \A other \in Proc : /\ other = self
                            /\ pc'[other] = "erasing"
                            /\ check'[other] = check[other]
                            /\ arg'[other] = p
                            /\ info'[other] = info[other] \ {p}
    BY <1>3 DEF SessionRemove, DeregisterMediaSet, Exclusive, TypeOK
  <2> QED BY <1>1, <2>1 DEF Offered, OffersStored, Filled, Forgotten, Blank, TypeOK
<1>4. ASSUME NEW p \in PartNumber, NEW v \in BOOLEAN,
             SessionImport(self, p, v) \/ SessionImportXml(self, p, v)
      PROVE  Offered'
  <2>1. \A other \in Proc : /\ other = self
                            /\ pc'[other] = "writing"
                            /\ check'[other] = check[other]
                            /\ toWrite'[other] = File
                            /\ info'[other] = info[other]
    BY <1>4 DEF SessionImport, SessionImportXml, Exclusive, TypeOK
  <2> QED BY <1>1, <2>1 DEF Offered, OffersStored, Filled, Forgotten, Blank, TypeOK, File
<1>5. ASSUME NEW d \in Defaults, SessionSettings(self, d)
      PROVE  Offered'
  BY <1>1, <1>5, OfferedKept DEF SessionSettings, TypeOK
<1>6. CASE CloseWindow(self)
  BY <1>1, <1>6, OfferedKept DEF CloseWindow, request, TypeOK
<1> QED BY <1>2, <1>3, <1>4, <1>5, <1>6 DEF User

LEMMA LoadOffered ==
  ASSUME Exclusive, TypeOK, Offered, NEW self \in Proc, Load(self)
  PROVE  Offered'
<1> USE DEF request, memory, work, Goto
<1>1. UNCHANGED storeVars
  BY DEF Load, WriteNewConfiguration, CreationFails, ReadConfiguration,
         ConfigurationUnreadable, LoadMediaSet, LoadFails, Loaded
<1>2. \A q \in PartNumber : Complete(q) => Complete(q)'
  BY <1>1 DEF storeVars, Complete
<1>3. CASE Terminate(self)
  BY <1>3, TerminateOffered
<1>4. CASE WriteNewConfiguration(self)
  <2>1. \A other \in Proc :
          pc[other] = "creating" /\ pc'[other] = "reading" /\ info'[other] = info[other]
    BY <1>4 DEF WriteNewConfiguration, Exclusive, TypeOK
  <2> QED BY <2>1 DEF Offered, OffersStored, Filled, Forgotten, Blank
<1>5. CASE ReadConfiguration(self) \/ Loaded(self)
  <2>1. /\ pc'[self] \in {"loading", "ready"}
        /\ check' = check /\ info' = info
    BY <1>5 DEF ReadConfiguration, Loaded, TypeOK
  <2> QED BY <1>2, <2>1, OfferedKept
<1>6. ASSUME NEW p \in PartNumber, LoadMediaSet(self, p)
      PROVE  Offered'
  <2>1. check[self] => Complete(p)'
    BY <1>1, <1>6 DEF LoadMediaSet, Decompiles, ListFilesDecode, FilesIntact, Complete, File, storeVars
  <2>2. \A other \in Proc : /\ other = self
                            /\ pc'[other] = "loading"
                            /\ check'[other] = check[other]
                            /\ info'[other] = info[other] \cup {p}
    BY <1>6 DEF LoadMediaSet, Exclusive, TypeOK
  <2> QED BY <1>2, <2>1, <2>2 DEF Offered, OffersStored, Filled, Forgotten, Blank, TypeOK
<1> QED BY <1>3, <1>4, <1>5, <1>6 DEF Load, CreationFails, ConfigurationUnreadable, LoadFails

LEMMA FillOffered ==
  ASSUME Exclusive, TypeOK, Offered, NEW self \in Proc, Fill(self)
  PROVE  Offered'
<1> USE DEF request, memory, work, Goto
<1>1. \A q \in PartNumber : Complete(q) => Complete(q)'
  <2>1. \/ UNCHANGED storeVars
        \/ \E f \in File : WriteFile(arg[self], f) \/ TearFile(arg[self], f)
    <3>1. NextFiles(self) \subseteq File
      BY DEF NextFiles, TypeOK
    <3> QED BY <3>1 DEF Fill, WriteMediaFile, WriteTruncates, WriteCollides, WriteFails,
                        WriteDone, RegisterMediaSet, RegisterRefused
  <2>2. CASE UNCHANGED storeVars
    BY <2>2 DEF storeVars, Complete
  <2>3. ASSUME NEW f \in File, WriteFile(arg[self], f) \/ TearFile(arg[self], f)
        PROVE  \A q \in PartNumber : Complete(q) => Complete(q)'
    BY <2>3, WriteArgument, FillKeepsComplete DEF TypeOK
  <2> QED BY <2>1, <2>2, <2>3
<1>2. ASSUME NEW f \in File, WriteMediaFile(self, f) \/ WriteTruncates(self, f)
      PROVE  Offered'
  <2>1. \A other \in Proc : /\ other = self
                            /\ pc'[other] = "writing"
                            /\ check'[other] = check[other]
                            /\ arg'[other] = arg[other]
                            /\ info'[other] = info[other]
    BY <1>2 DEF WriteMediaFile, WriteTruncates, Exclusive
  <2>2. arg[self] \in PartNumber
    BY <1>2, WriteArgument DEF WriteMediaFile, WriteTruncates, TypeOK
  <2>3. ASSUME NEW g \in DataFile, g \notin toWrite'[self]
        PROVE  file'[arg[self]][g] = "ok"
    <3>1. g \in File /\ (f \in ListFile => g # f)
      BY StoreAssumption DEF File
    <3>2. g = f \/ g \notin toWrite[self]
      BY <1>2, <2>3 DEF WriteMediaFile, WriteTruncates, TypeOK
    <3>3. CASE g = f
      BY <1>2, <2>2, <3>1, <3>3
      DEF WriteMediaFile, WriteTruncates, WriteFile, TypeOK, StoreTypeOK
    <3>4. CASE g # f
      <4>1. file[arg[self]][g] = "ok"
        BY <1>2, <3>2, <3>4 DEF WriteMediaFile, WriteTruncates, Offered, Filled
      <4> QED BY <1>2, <2>2, <3>1, <3>4, <4>1
              DEF WriteMediaFile, WriteTruncates, WriteFile, TearFile, TypeOK, StoreTypeOK
    <3> QED BY <3>3, <3>4
  <2> QED BY <1>1, <2>1, <2>3 DEF Offered, OffersStored, Filled, Forgotten, Blank, TypeOK
<1>3. CASE WriteCollides(self, "saved") \/ WriteFails(self, "saved")
           \/ RegisterRefused(self, "saved")
  <2>1. PICK from : Throw(self, from, "saved")
    BY <1>3 DEF WriteCollides, WriteFails, RegisterRefused
  <2> QED BY <1>1, <2>1, ThrowOffered
<1>4. CASE WriteDone(self)
  <2>1. \A other \in Proc : /\ other = self
                            /\ pc[other] = "writing"
                            /\ pc'[other] = "registering"
                            /\ check'[other] = check[other]
                            /\ info'[other] = info[other]
    BY <1>4 DEF WriteDone, Exclusive, TypeOK
  <2>2. Filled(self)'
    BY <1>4, <2>1 DEF WriteDone, Offered, Filled, storeVars
  <2> QED BY <1>1, <2>1, <2>2 DEF Offered, OffersStored, Forgotten, Blank, TypeOK
<1>5. CASE RegisterMediaSet(self)
  <2>1. arg[self] \in PartNumber /\ \A p \in PartNumber : p = arg[self] => Complete(p)'
    BY <1>5 DEF RegisterMediaSet, Decompiles, ListFilesDecode, FilesIntact, Offered, Filled, Complete, File, storeVars,
                TypeOK, StoreTypeOK
  <2>2. \A other \in Proc : /\ other = self
                            /\ pc'[other] = "saving"
                            /\ check'[other] = check[other]
                            /\ info'[other] = info[other] \cup {arg[other]}
    BY <1>5 DEF RegisterMediaSet, Exclusive, TypeOK
  <2> QED BY <1>1, <2>1, <2>2 DEF Offered, OffersStored, Filled, Forgotten, Blank, TypeOK
<1> QED BY <1>2, <1>3, <1>4, <1>5 DEF Fill

LEMMA EmptyOffered ==
  ASSUME Exclusive, TypeOK, Offered, NEW self \in Proc, Empty(self)
  PROVE  Offered'
<1> USE DEF request, memory, work, Goto
<1>1. pc[self] = "erasing" /\ arg[self] \notin info[self]
  BY DEF Empty, EraseMediaFile, EraseMediaSetDirectory, EraseFails, Throw, Offered, Forgotten
<1>2. CASE EraseFails(self, "closing")
  <2>1. \A q \in PartNumber : Complete(q) => Complete(q)'
    BY <1>2 DEF EraseFails, storeVars, Complete
  <2> QED BY <1>2, <2>1, ThrowOffered DEF EraseFails
<1>3. ASSUME NEW f \in File,
             EraseMediaFile(self, f) \/ EraseMediaSetDirectory(self, "saving")
      PROVE  Offered'
  <2>1. \A q \in PartNumber : q # arg[self] /\ Complete(q) => Complete(q)'
    BY <1>3, EmptyKeepsComplete DEF EraseMediaFile, EraseMediaSetDirectory, TypeOK
  <2>2. \A other \in Proc : /\ other = self
                            /\ pc'[other] \in {"erasing", "saving"}
                            /\ check'[other] = check[other]
                            /\ arg'[other] = arg[other]
                            /\ info'[other] = info[other]
    BY <1>1, <1>3 DEF EraseMediaFile, EraseMediaSetDirectory, Exclusive, TypeOK
  <2> QED BY <1>1, <2>1, <2>2 DEF Offered, OffersStored, Filled, Forgotten, Blank, TypeOK
<1>4. \E f \in File : TRUE
  BY StoreAssumption DEF File
<1> QED BY <1>2, <1>3, <1>4 DEF Empty

LEMMA SaveOffered ==
  ASSUME Exclusive, TypeOK, Offered, NEW self \in Proc, Save(self) \/ SessionFinished(self)
  PROVE  Offered'
<1> USE DEF request, memory, work, Goto
<1>1. UNCHANGED storeVars
  BY DEF Save, OpenConfiguration, FlushConfiguration, SaveFails, DestructorOpens,
         DestructorFlushes, DestructorFails, SessionFinished
<1>2. \A q \in PartNumber : Complete(q) => Complete(q)'
  BY <1>1 DEF storeVars, Complete
<1>3. CASE DestructorFlushes(self) \/ DestructorFails(self)
  BY <1>3, TerminateOffered DEF DestructorFlushes, DestructorFails
<1>4. CASE SaveFails(self, SaveHandler(self))
  BY <1>2, <1>4, ThrowOffered DEF SaveFails, SaveHandler
<1>5. CASE OpenConfiguration(self, "saving", "flushing") \/ DestructorOpens(self)
           \/ FlushConfiguration(self, "flushing", "saved")
  <2>1. /\ pc'[self] \in {"flushing", "closingFlush", "saved"}
        /\ check' = check /\ info' = info
    BY <1>5 DEF OpenConfiguration, DestructorOpens, FlushConfiguration, TypeOK
  <2> QED BY <1>2, <2>1, OfferedKept
<1>6. CASE SessionFinished(self)
  <2>1. pc'[self] = "ready" /\ check'[self] = check[self] /\ info' = info
    BY <1>6 DEF SessionFinished, Begin, Request, TypeOK
  <2> QED BY <1>2, <2>1, OfferedKept
<1> QED BY <1>3, <1>4, <1>5, <1>6 DEF Save

LEMMA CrashOffered ==
  ASSUME Exclusive, TypeOK, NEW self \in Proc, Crash(self)
  PROVE  Offered'
BY TerminateOffered DEF Crash

(* With one session at a time, every media set that a session opened with  *)
(* the integrity check offers has all of its files in the repository, at   *)
(* any point of any operation and after any failure.                       *)
THEOREM CheckedSessionsStored ==
  ASSUME Exclusive
  PROVE  Spec => []CheckedSessionStored
<1>1. Init => Offered
  BY DEF Init, Offered, OffersStored, Filled, Forgotten, Blank
<1>2. TypeOK /\ Offered /\ [Next]_vars => Offered'
  <2> SUFFICES ASSUME TypeOK, Offered, [Next]_vars
               PROVE  Offered'
    OBVIOUS
  <2>1. CASE UNCHANGED vars
    BY <2>1 DEF vars, storeVars, request, memory, work, Offered, OffersStored, Filled,
                Forgotten, Blank, Complete
  <2>2. ASSUME NEW self \in Proc, User(self) \/ Step(self) \/ Crash(self)
        PROVE  Offered'
    BY <2>2, UserOffered, LoadOffered, FillOffered, EmptyOffered, SaveOffered,
       CrashOffered DEF Step
  <2> QED BY <2>1, <2>2 DEF Next
<1>3. Offered => CheckedSessionStored
  BY DEF Offered, OffersStored, CheckedSessionStored
<1> QED BY <1>1, <1>2, <1>3, Typing, PTL DEF Spec

-----------------------------------------------------------------------------
(* Memory and configuration.                                               *)

(* The two maps of a manager have the same keys, and a manager loads what  *)
(* the configuration names. From then on it agrees with the configuration, *)
(* except between a change in memory and the end of the save that follows. *)
(* A failed save would end that agreement, hence the last condition.       *)
Agrees(self) ==
  /\ info[self] = paths[self]
  /\ pc[self] \in {"idle", "creating", "reading"} => paths[self] = {}
  /\ pc[self] = "loading" =>
       /\ Readable
       /\ settings[self] = config.defaults
       /\ toLoad[self] \subseteq config.sets
       /\ paths[self] = config.sets \ toLoad[self]
  /\ ~DiskErrors /\ pc[self] \in {"ready", "writing", "registering", "saved"} =>
       config = Written(paths[self], settings[self])

Agreement == \A self \in Proc : Agrees(self)

LEMMA TerminateAgreement ==
  ASSUME Exclusive, TypeOK, NEW self \in Proc, Terminate(self)
  PROVE  Agreement'
<1>1. \A other \in Proc : pc'[other] = "idle" /\ info'[other] = {} /\ paths'[other] = {}
  BY DEF Exclusive, TypeOK, Terminate, Goto
<1> QED BY <1>1 DEF Agreement, Agrees

(* A step within the settled part of the program that leaves configuration *)
(* and memory alone; and one that goes where nothing is promised.          *)
LEMMA QuietAgreement ==
  ASSUME Exclusive, TypeOK, Agreement, NEW self \in Proc,
         pc[self] \in {"ready", "writing", "registering", "saved"},
         pc'[self] \notin {"idle", "creating", "reading", "loading"},
         UNCHANGED <<config, memory>>
  PROVE  Agreement'
BY DEF Exclusive, Agreement, Agrees, memory

LEMMA UnsettledAgreement ==
  ASSUME Exclusive, TypeOK, Agreement, NEW self \in Proc, info'[self] = paths'[self],
         pc'[self] \in {"saving", "flushing", "erasing", "closing", "closingFlush"}
  PROVE  Agreement'
BY DEF Exclusive, Agreement, Agrees

LEMMA UserAgreement ==
  ASSUME Exclusive, TypeOK, Agreement, NEW self \in Proc, User(self)
  PROVE  Agreement'
<1> USE DEF Goto, Request, Begin, Waiting
<1>1. CASE StartSession(self)
  <2>1. /\ pc[self] = "idle" /\ pc'[self] \in {"creating", "reading"}
        /\ UNCHANGED memory
    BY <1>1 DEF StartSession, CreateRepository, TypeOK
  <2> QED BY <2>1 DEF Exclusive, Agreement, Agrees, memory
<1>2. ASSUME NEW p \in PartNumber, SessionRemove(self, p)
      PROVE  Agreement'
  <2>1. info'[self] = paths'[self] /\ pc'[self] = "erasing"
    BY <1>2 DEF SessionRemove, DeregisterMediaSet, Agreement, Agrees, TypeOK
  <2> QED BY <2>1, UnsettledAgreement
<1>3. ASSUME NEW p \in PartNumber, NEW v \in BOOLEAN,
             SessionImport(self, p, v) \/ SessionImportXml(self, p, v)
      PROVE  Agreement'
  <2>1. pc[self] = "ready" /\ pc'[self] = "writing" /\ UNCHANGED <<config, memory>>
    BY <1>3 DEF SessionImport, SessionImportXml, TypeOK
  <2> QED BY <2>1, QuietAgreement
<1>4. ASSUME NEW d \in Defaults, SessionSettings(self, d)
      PROVE  Agreement'
  <2>1. info'[self] = paths'[self] /\ pc'[self] = "saving"
    BY <1>4 DEF SessionSettings, Agreement, Agrees, TypeOK
  <2> QED BY <2>1, UnsettledAgreement
<1>5. CASE CloseWindow(self)
  <2>1. pc[self] = "ready" /\ pc'[self] = "closing" /\ UNCHANGED <<config, memory>>
    BY <1>5 DEF CloseWindow, TypeOK
  <2> QED BY <2>1, QuietAgreement
<1> QED BY <1>1, <1>2, <1>3, <1>4, <1>5 DEF User

LEMMA LoadAgreement ==
  ASSUME Exclusive, TypeOK, Agreement, NEW self \in Proc, Load(self)
  PROVE  Agreement'
<1> USE DEF Goto
<1>1. CASE Terminate(self)
  BY <1>1, TerminateAgreement
<1>2. CASE WriteNewConfiguration(self)
  <2>1. /\ pc[self] = "creating" /\ pc'[self] = "reading"
        /\ UNCHANGED memory
    BY <1>2 DEF WriteNewConfiguration, TypeOK
  <2> QED BY <2>1 DEF Exclusive, Agreement, Agrees, memory
<1>3. CASE ReadConfiguration(self)
  <2>1. /\ pc[self] = "reading" /\ pc'[self] = "loading" /\ Readable
        /\ toLoad'[self] = config.sets /\ settings'[self] = config.defaults
        /\ UNCHANGED <<config, info, paths>>
    BY <1>3 DEF ReadConfiguration, TypeOK
  <2> QED BY <2>1 DEF Exclusive, Agreement, Agrees, Readable
<1>4. ASSUME NEW p \in PartNumber, LoadMediaSet(self, p)
      PROVE  Agreement'
  <2>1. /\ pc[self] = "loading" /\ p \in toLoad[self]
        /\ toLoad'[self] = toLoad[self] \ {p}
        /\ info'[self] = info[self] \cup {p} /\ paths'[self] = paths[self] \cup {p}
        /\ UNCHANGED <<pc, config, settings>>
    BY <1>4 DEF LoadMediaSet, TypeOK
  <2>2. /\ info[self] = paths[self] /\ Readable /\ settings[self] = config.defaults
        /\ toLoad[self] \subseteq config.sets
        /\ paths[self] = config.sets \ toLoad[self]
    BY <2>1 DEF Agreement, Agrees
  <2>3. paths'[self] = config.sets \ toLoad'[self]
    BY <2>1, <2>2
  <2>4. Agrees(self)'
    BY <2>1, <2>2, <2>3 DEF Agrees, Readable
  <2> QED BY <2>4 DEF Exclusive, Agreement
<1>5. CASE Loaded(self)
  <2>1. /\ pc[self] = "loading" /\ pc'[self] = "ready" /\ toLoad[self] = {}
        /\ UNCHANGED <<config, memory>>
    BY <1>5 DEF Loaded, TypeOK
  <2>2. config = Written(config.sets, config.defaults)
    BY <2>1 DEF Agreement, Agrees, Readable, Written, TypeOK, Configuration
  <2> QED BY <2>1, <2>2 DEF Exclusive, Agreement, Agrees, memory
<1> QED BY <1>1, <1>2, <1>3, <1>4, <1>5
        DEF Load, CreationFails, ConfigurationUnreadable, LoadFails

LEMMA FillAgreement ==
  ASSUME Exclusive, TypeOK, Agreement, NEW self \in Proc, Fill(self)
  PROVE  Agreement'
<1> USE DEF Goto
<1>1. CASE RegisterMediaSet(self)
  <2>1. info'[self] = paths'[self] /\ pc'[self] = "saving"
    BY <1>1 DEF RegisterMediaSet, Agreement, Agrees, TypeOK
  <2> QED BY <2>1, UnsettledAgreement
<1>2. CASE ~RegisterMediaSet(self)
  <2>1. /\ pc[self] \in {"writing", "registering"}
        /\ pc'[self] \in {"writing", "registering", "saved"}
        /\ UNCHANGED <<config, memory>>
    BY <1>2 DEF Fill, WriteMediaFile, WriteTruncates, WriteCollides, WriteFails, WriteDone,
                RegisterRefused, Throw, TypeOK
  <2> QED BY <2>1, QuietAgreement
<1> QED BY <1>1, <1>2

LEMMA EmptyAgreement ==
  ASSUME Exclusive, TypeOK, Agreement, NEW self \in Proc, Empty(self)
  PROVE  Agreement'
<1>1. /\ pc'[self] \in {"erasing", "saving", "closing"}
      /\ UNCHANGED memory
  BY DEF Empty, EraseMediaFile, EraseMediaSetDirectory, EraseFails, Throw, Goto, TypeOK
<1> QED BY <1>1, UnsettledAgreement DEF Agreement, Agrees, memory

LEMMA SaveAgreement ==
  ASSUME Exclusive, TypeOK, Agreement, NEW self \in Proc, Save(self) \/ SessionFinished(self)
  PROVE  Agreement'
<1> USE DEF Goto
<1>1. CASE DestructorFlushes(self) \/ DestructorFails(self)
  BY <1>1, TerminateAgreement DEF DestructorFlushes, DestructorFails
<1>2. CASE OpenConfiguration(self, "saving", "flushing") \/ DestructorOpens(self)
  <2>1. pc'[self] \in {"flushing", "closingFlush"} /\ UNCHANGED memory
    BY <1>2 DEF OpenConfiguration, DestructorOpens, TypeOK
  <2> QED BY <2>1, UnsettledAgreement DEF Agreement, Agrees, memory
<1>3. CASE FlushConfiguration(self, "flushing", "saved")
  <2>1. /\ pc'[self] = "saved" /\ config' = Written(paths[self], settings[self])
        /\ UNCHANGED memory
    BY <1>3 DEF FlushConfiguration, TypeOK
  <2> QED BY <2>1 DEF Exclusive, Agreement, Agrees, memory, Written
<1>4. CASE SaveFails(self, SaveHandler(self))
  <2>1. DiskErrors /\ pc'[self] \in {"saved", "closing"} /\ UNCHANGED memory
    BY <1>4 DEF SaveFails, SaveHandler, Throw, TypeOK
  <2> QED BY <2>1 DEF Exclusive, Agreement, Agrees, memory
<1>5. CASE SessionFinished(self)
  <2>1. /\ pc[self] = "saved" /\ pc'[self] = "ready"
        /\ UNCHANGED <<config, memory>>
    BY <1>5 DEF SessionFinished, Begin, TypeOK
  <2> QED BY <2>1, QuietAgreement
<1> QED BY <1>1, <1>2, <1>3, <1>4, <1>5 DEF Save

(* With one session at a time, the memory of a manager and the             *)
(* configuration agree as Agreement says.                                  *)
THEOREM MemoryAgrees ==
  ASSUME Exclusive
  PROVE  Spec => []Agreement
<1>1. Init => Agreement
  BY DEF Init, Agreement, Agrees
<1>2. TypeOK /\ Agreement /\ [Next]_vars => Agreement'
  <2> SUFFICES ASSUME TypeOK, Agreement, [Next]_vars
               PROVE  Agreement'
    OBVIOUS
  <2>1. CASE UNCHANGED vars
    BY <2>1 DEF vars, memory, work, Agreement, Agrees, Readable
  <2>2. ASSUME NEW self \in Proc, User(self) \/ Step(self) \/ Crash(self)
        PROVE  Agreement'
    BY <2>2, UserAgreement, LoadAgreement, FillAgreement, EmptyAgreement, SaveAgreement,
       TerminateAgreement DEF Step, Crash
  <2> QED BY <2>1, <2>2 DEF Next
<1> QED BY <1>1, <1>2, Typing, PTL DEF Spec

(* As long as the disk does not fail, a session that waits for the user    *)
(* shows what a restart would find.                                        *)
THEOREM WaitingSaved ==
  ASSUME Exclusive, ~DiskErrors
  PROVE  Spec => []WaitingIsSaved
<1>1. Agreement => WaitingIsSaved
  BY DEF Agreement, Agrees, WaitingIsSaved, Waiting
<1> QED BY <1>1, MemoryAgrees, PTL

-----------------------------------------------------------------------------
(* Orphans.                                                                *)

LEMMA UserStuck ==
  ASSUME Exclusive, TypeOK, Agreement, NEW p \in PartNumber, Stuck(p), NEW self \in Proc,
         User(self)
  PROVE  Stuck(p)'
<1> USE DEF Goto, Request, Begin, Waiting, memory
<1>1. Occupied(p)'
  BY DEF User, StartSession, CreateRepository, SessionRemove, DeregisterMediaSet,
         SessionImport, SessionImportXml, CreateNewDirectory, CreateDirectory,
         SessionSettings, CloseWindow, Occupied, Stuck, storeVars
<1>2. CASE StartSession(self)
  <2>1. paths' = paths /\ pc'[self] \in {"creating", "reading"}
    BY <1>2 DEF StartSession, CreateRepository, TypeOK
  <2>2. config' = config \/ config'.sets = {}
    BY <1>2 DEF StartSession, CreateRepository, Torn
  <2>3. p \notin paths'[self]
    BY <2>1 DEF Stuck
  <2> QED BY <1>1, <2>1, <2>2, <2>3, StuckKept
<1>3. ASSUME NEW q \in PartNumber, SessionRemove(self, q)
      PROVE  Stuck(p)'
  <2>1. p # q
    BY <1>3 DEF SessionRemove, DeregisterMediaSet, Stuck, Agreement, Agrees
  <2>2. /\ arg'[self] = q /\ config' = config
        /\ paths'[self] \subseteq paths[self]
    BY <1>3 DEF SessionRemove, DeregisterMediaSet, TypeOK
  <2>3. p \notin paths'[self]
    BY <2>2 DEF Stuck
  <2> QED BY <1>1, <2>1, <2>2, <2>3, StuckKept
<1>4. ASSUME NEW q \in PartNumber, NEW v \in BOOLEAN, SessionImport(self, q, v)
      PROVE  Stuck(p)'
  <2>1. p # q
    BY <1>4 DEF SessionImport, CreateNewDirectory, Stuck, Occupied
  <2>2. arg'[self] = q /\ config' = config /\ paths' = paths
    BY <1>4 DEF SessionImport, TypeOK
  <2>3. p \notin paths'[self]
    BY <2>2 DEF Stuck
  <2> QED BY <1>1, <2>1, <2>2, <2>3, StuckKept
<1>5. ASSUME NEW q \in PartNumber, NEW v \in BOOLEAN, SessionImportXml(self, q, v)
      PROVE  Stuck(p)'
  <2>1. /\ pc'[self] = "writing" /\ toWrite'[self] = File /\ file' = file
        /\ UNCHANGED <<config, paths>>
    BY <1>5 DEF SessionImportXml, CreateDirectory, TypeOK
  <2>2. \E f \in toWrite'[self] : file'[p][f] # "missing"
    BY <2>1 DEF Stuck, Occupied
  <2> QED BY <1>1, <2>1, <2>2 DEF Exclusive, Stuck
<1>6. ASSUME NEW d \in Defaults, SessionSettings(self, d)
      PROVE  Stuck(p)'
  <2>1. arg'[self] = None /\ config' = config /\ paths' = paths
    BY <1>6 DEF SessionSettings, TypeOK
  <2>2. p \notin paths'[self] /\ p # None
    BY <2>1, ManagerAssumption DEF Stuck
  <2> QED BY <1>1, <2>1, <2>2, StuckKept
<1>7. CASE CloseWindow(self)
  <2>1. pc'[self] = "closing" /\ config' = config /\ paths' = paths
    BY <1>7 DEF CloseWindow, TypeOK
  <2>2. p \notin paths'[self]
    BY <2>1 DEF Stuck
  <2> QED BY <1>1, <2>1, <2>2, StuckKept
<1> QED BY <1>2, <1>3, <1>4, <1>5, <1>6, <1>7 DEF User

LEMMA StuckStep ==
  ASSUME Exclusive, TypeOK, Agreement, NEW p \in PartNumber, Stuck(p), [Next]_vars
  PROVE  Stuck(p)'
<1>1. CASE UNCHANGED vars
  BY <1>1 DEF vars, storeVars, request, memory, work, Stuck, Occupied
<1>2. ASSUME NEW self \in Proc, User(self) \/ Step(self) \/ Crash(self)
      PROVE  Stuck(p)'
  <2>1. CASE Load(self)
    BY <2>1, LoadStuck DEF Load, Agreement, Agrees
  <2>2. CASE Fill(self)
    BY <2>2, FillStuck DEF Fill
  <2>3. CASE Empty(self)
    BY <2>3, EmptyStuck DEF Empty
  <2>4. CASE Save(self)
    <3>1. SaveHandler(self) \in {"closing", "saved"}
      BY DEF SaveHandler
    <3> QED BY <2>4, <3>1, SaveStuck DEF Save
  <2>5. CASE SessionFinished(self)
    <3>1. pc'[self] = "ready" /\ UNCHANGED <<storeVars, config, paths>>
      BY <2>5 DEF SessionFinished, Begin, Goto, memory, TypeOK
    <3>2. p \notin paths'[self] /\ Occupied(p)'
      BY <3>1 DEF Stuck, Occupied, storeVars
    <3> QED BY <3>1, <3>2, StuckKept
  <2> QED BY <1>2, <2>1, <2>2, <2>3, <2>4, <2>5, UserStuck, CrashStuck DEF Step
<1> QED BY <1>1, <1>2 DEF Next

(* A directory left behind by an interrupted operation is never adopted by *)
(* a session either, although its import wizard copies before it looks.    *)
THEOREM OrphansStayOut ==
  ASSUME Exclusive
  PROVE  Spec => OrphanNeverAdopted
<1> SUFFICES ASSUME NEW p \in PartNumber
             PROVE  Spec => [](Orphan(p) => [](p \notin config.sets))
  BY DEF OrphanNeverAdopted
<1>1. TypeOK /\ Agreement /\ Stuck(p) /\ [Next]_vars => Stuck(p)'
  BY StuckStep
<1>2. Orphan(p) => Stuck(p)
  BY OrphanStuck
<1>3. Stuck(p) => p \notin config.sets
  BY DEF Stuck
<1> QED BY <1>1, <1>2, <1>3, Typing, MemoryAgrees, PTL DEF Spec

=============================================================================
