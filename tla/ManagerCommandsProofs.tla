----------------------- MODULE ManagerCommandsProofs -----------------------
(***************************************************************************)
(* Theorems about the command line programs. Type correctness holds for    *)
(* any number of programs at once. The safety theorems are about a         *)
(* repository that one program at a time works on (Exclusive): nothing     *)
(* locks it, and two programs can do it harm. They hold for every number   *)
(* of media sets and files, with crashes and disk errors at every step.    *)
(***************************************************************************)
EXTENDS ManagerCommands, MediaSetManagerProofs

USE DEF Location, Operation, MediaSetOperation

(* Every reachable state is well typed, whatever programs run together.    *)
THEOREM Typing == Spec => []TypeOK
<1>1. Init => TypeOK
  BY InitTyping
<1>2. TypeOK /\ [Next]_vars => TypeOK'
  <2> SUFFICES ASSUME TypeOK, [Next]_vars
               PROVE  TypeOK'
    OBVIOUS
  <2>1. CASE UNCHANGED vars
    BY <2>1 DEF vars, storeVars, request, memory, work, TypeOK, StoreTypeOK
  <2>2. ASSUME NEW self \in Proc, Start(self)
        PROVE  TypeOK'
    <3>1. CASE StartCreate(self)
      BY <3>1, CreateTyping DEF StartCreate
    <3>2. ASSUME NEW c \in BOOLEAN, StartCommand(self, "list", None, c, FALSE)
          PROVE  TypeOK'
      BY <3>2, ManagerAssumption
      DEF StartCommand, Goto, Request, storeVars, memory, work, TypeOK, StoreTypeOK
    <3>3. ASSUME NEW o \in {"import", "importXml", "remove"}, NEW p \in PartNumber,
                 NEW c \in BOOLEAN, NEW v \in BOOLEAN, StartCommand(self, o, p, c, v)
          PROVE  TypeOK'
      BY <3>3 DEF StartCommand, Goto, Request, storeVars, memory, work, TypeOK, StoreTypeOK
    <3> QED BY <2>2, <3>1, <3>2, <3>3 DEF Start
  <2>3. ASSUME NEW self \in Proc, Load(self)
        PROVE  TypeOK'
    BY <2>3, LoadTyping DEF Load
  <2>4. ASSUME NEW self \in Proc, Decide(self)
        PROVE  TypeOK'
    <3> USE DEF storeVars, request, memory, work, Goto
    <3>1. CASE List(self)
      BY <3>1 DEF List, TypeOK, StoreTypeOK
    <3>2. CASE RemoveMediaSet(self)
      BY <3>2 DEF RemoveMediaSet, DeregisterMediaSet, TypeOK, StoreTypeOK
    <3>3. CASE RemoveRefused(self) \/ ImportRefused(self) \/ ImportXmlRefused(self)
      <4>1. StoreTypeOK' /\ Throw(self, "ready", "closing")
        BY <3>3 DEF RemoveRefused, ImportRefused, ImportXmlRefused, TypeOK, StoreTypeOK
      <4> QED BY <4>1, ThrowTyping
    <3>4. CASE ImportMediaSet(self)
      <4>1. arg[self] \in PartNumber
        BY <3>4 DEF ImportMediaSet, Command, TypeOK
      <4> QED BY <3>4, <4>1 DEF ImportMediaSet, CreateNewDirectory, TypeOK, StoreTypeOK
    <3>5. CASE ImportMediaSetXml(self)
      <4>1. arg[self] \in PartNumber
        BY <3>5 DEF ImportMediaSetXml, Command, TypeOK
      <4> QED BY <3>5, <4>1 DEF ImportMediaSetXml, CreateDirectory, TypeOK, StoreTypeOK
    <3>6. ASSUME NEW p \in PartNumber, NextXmlFile(self, p)
          PROVE  TypeOK'
      BY <3>6 DEF NextXmlFile, TypeOK, StoreTypeOK
    <3>7. CASE NoMoreXmlFiles(self)
      BY <3>7 DEF NoMoreXmlFiles, TypeOK, StoreTypeOK
    <3> QED BY <2>4, <3>1, <3>2, <3>3, <3>4, <3>5, <3>6, <3>7 DEF Decide
  <2>5. ASSUME NEW self \in Proc, Fill(self)
        PROVE  TypeOK'
    BY <2>5, FillTyping DEF Fill
  <2>6. ASSUME NEW self \in Proc, Empty(self)
        PROVE  TypeOK'
    BY <2>6, EmptyTyping DEF Empty
  <2>7. ASSUME NEW self \in Proc, Save(self)
        PROVE  TypeOK'
    <3>1. AfterSave(self) \in Location
      BY DEF AfterSave
    <3> QED BY <2>7, <3>1, SaveTyping DEF Save
  <2>8. ASSUME NEW self \in Proc, Crash(self)
        PROVE  TypeOK'
    BY <2>8, CrashTyping
  <2> QED BY <2>1, <2>2, <2>3, <2>4, <2>5, <2>6, <2>7, <2>8 DEF Next, Step
<1> QED BY <1>1, <1>2, PTL DEF Spec

-----------------------------------------------------------------------------

(* The inductive invariant. A media set is sound when it is complete and   *)
(* the decompiler does not reject it.                                      *)
Sound(p) == Complete(p) /\ p \notin Broken

(* Whatever the configuration names is sound.                              *)
ConfigurationSound == \A p \in config.sets : Sound(p)

(* So is whatever a manager holds, and its two maps have the same keys.    *)
MemorySound ==
  \A self \in Proc : info[self] = paths[self] /\ \A p \in paths[self] : Sound(p)

(* A manager under construction loads what the configuration names.        *)
LoadsConfigured ==
  \A self \in Proc : pc[self] = "loading" => toLoad[self] \subseteq config.sets

(* What an import has done so far: the data files it need not write any    *)
(* more are there. (A list file may be torn without notice.)     *)
WrittenSoFar ==
  \A self \in Proc :
    /\ pc[self] \in {"writing", "registering"} =>
         op[self] \in {"import", "importXml"} /\ \A f \in DataFile : f \in toWrite[self] \/ file[arg[self]][f] = "ok"
    /\ pc[self] = "registering" => toWrite[self] = {}

(* A removal has left the memory before it saves and erases.               *)
RemovalForgets ==
  \A self \in Proc :
    op[self] = "remove" /\ pc[self] \in {"saving", "flushing", "erasing"} =>
      arg[self] \notin paths[self]

(* Only a removal erases, and it has saved before.                         *)
ErasingSaved ==
  \A self \in Proc :
    pc[self] = "erasing" =>
      /\ op[self] = "remove"
      /\ Readable
      /\ arg[self] \notin config.sets

Consistent ==
  /\ ConfigurationSound
  /\ MemorySound
  /\ LoadsConfigured
  /\ WrittenSoFar
  /\ RemovalForgets
  /\ ErasingSaved

-----------------------------------------------------------------------------
(* Steps that keep the invariant whatever operation they belong to.        *)

(* Soundness depends on the directories only.                              *)
LEMMA FillKeepsSound ==
  ASSUME StoreTypeOK, NEW p \in PartNumber, NEW f \in File,
         WriteFile(p, f) \/ TearFile(p, f)
  PROVE  \A q \in PartNumber : Sound(q) => Sound(q)' /\ file'[q] = file[q]
BY FillKeepsComplete DEF Sound

LEMMA EmptyKeepsSound ==
  ASSUME StoreTypeOK, NEW p, NEW f \in File, EraseFile(p, f) \/ EraseDirectory(p)
  PROVE  \A q \in PartNumber : q # p /\ Sound(q) => Sound(q)' /\ file'[q] = file[q]
BY EmptyKeepsComplete DEF Sound

(* The end of a program keeps the invariant if the configuration is sound. *)
LEMMA TerminateConsistent ==
  ASSUME Exclusive, TypeOK, NEW self \in Proc, Terminate(self), ConfigurationSound'
  PROVE  Consistent'
<1>1. \A other \in Proc :
        pc'[other] = "idle" /\ info'[other] = {} /\ paths'[other] = {}
  BY DEF Exclusive, TypeOK, Terminate, Goto
<1> QED BY <1>1 DEF Consistent, MemorySound, LoadsConfigured, WrittenSoFar,
                    RemovalForgets, ErasingSaved

(* So does an operation that throws, if no sound media set is harmed.      *)
LEMMA ThrowConsistent ==
  ASSUME Exclusive, TypeOK, Consistent, NEW self \in Proc, NEW from,
         NEW handler \in {"closing", "saved"}, Throw(self, from, handler),
         \A q \in PartNumber : Sound(q) => Sound(q)'
  PROVE  Consistent'
<1>1. \A other \in Proc :
        /\ pc'[other] = handler
        /\ info'[other] = info[other] /\ paths'[other] = paths[other]
  BY DEF Exclusive, TypeOK, Throw, Goto, memory
<1>2. config' = config
  BY DEF Throw
<1>3. ConfigurationSound'
  BY <1>2 DEF Consistent, ConfigurationSound, TypeOK, Configuration
<1>4. MemorySound'
  BY <1>1 DEF Consistent, MemorySound, TypeOK
<1> QED BY <1>1, <1>3, <1>4 DEF Consistent, LoadsConfigured, WrittenSoFar,
                                RemovalForgets, ErasingSaved

-----------------------------------------------------------------------------
(* One lemma for each group of steps.                                      *)

LEMMA StartConsistent ==
  ASSUME Exclusive, TypeOK, Consistent, NEW self \in Proc, Start(self)
  PROVE  Consistent'
<1>1. UNCHANGED storeVars /\ UNCHANGED memory /\ (config' = config \/ config' = Torn)
  BY DEF Start, StartCreate, StartCommand, CreateRepository
<1>2. pc'[self] \in {"creating", "reading"}
  BY DEF Start, StartCreate, StartCommand, CreateRepository, Goto, TypeOK
<1>3. \A other \in Proc : pc'[other] \in {"creating", "reading"}
  BY <1>2 DEF Exclusive
<1>4. \A q \in PartNumber : Sound(q) => Sound(q)'
  BY <1>1 DEF Sound, Complete, storeVars
<1>5. ConfigurationSound'
  BY <1>1, <1>4 DEF Consistent, ConfigurationSound, TypeOK, Configuration, Torn
<1>6. MemorySound'
  BY <1>1, <1>4 DEF Consistent, MemorySound, memory, TypeOK
<1> QED BY <1>3, <1>5, <1>6 DEF Consistent, LoadsConfigured, WrittenSoFar,
                                RemovalForgets, ErasingSaved

LEMMA LoadConsistent ==
  ASSUME Exclusive, TypeOK, Consistent, NEW self \in Proc, Load(self)
  PROVE  Consistent'
<1>1. UNCHANGED storeVars
  BY DEF Load, WriteNewConfiguration, CreationFails, ReadConfiguration,
         ConfigurationUnreadable, LoadMediaSet, LoadFails, Loaded
<1>2. \A q \in PartNumber : Sound(q) => Sound(q)'
  BY <1>1 DEF Sound, Complete, storeVars
<1>3. config' = config \/ config'.sets = {}
  BY DEF Load, WriteNewConfiguration, CreationFails, ReadConfiguration,
         ConfigurationUnreadable, LoadMediaSet, LoadFails, Loaded, Written
<1>4. ConfigurationSound'
  BY <1>2, <1>3 DEF Consistent, ConfigurationSound, TypeOK, Configuration
<1>5. CASE Terminate(self)
  BY <1>4, <1>5, TerminateConsistent
<1>6. CASE WriteNewConfiguration(self)
  <2>1. \A other \in Proc : pc'[other] = "reading"
    BY <1>6 DEF WriteNewConfiguration, Goto, Exclusive, TypeOK
  <2>2. MemorySound'
    BY <1>2, <1>6 DEF WriteNewConfiguration, Consistent, MemorySound, memory, TypeOK
  <2> QED BY <1>4, <2>1, <2>2 DEF Consistent, LoadsConfigured, WrittenSoFar,
                                  RemovalForgets, ErasingSaved
<1>7. CASE ReadConfiguration(self)
  <2>1. \A other \in Proc :
          pc'[other] = "loading" /\ toLoad'[other] = config'.sets
    BY <1>7 DEF ReadConfiguration, Goto, Exclusive, TypeOK
  <2>2. MemorySound'
    BY <1>2, <1>7 DEF ReadConfiguration, Consistent, MemorySound, TypeOK
  <2> QED BY <1>4, <2>1, <2>2 DEF Consistent, LoadsConfigured, WrittenSoFar,
                                  RemovalForgets, ErasingSaved
<1>8. ASSUME NEW p \in PartNumber, LoadMediaSet(self, p)
      PROVE  Consistent'
  <2>1. Sound(p)'
    BY <1>2, <1>8 DEF LoadMediaSet, Consistent, LoadsConfigured, ConfigurationSound
  <2>2. MemorySound'
    BY <1>2, <1>8, <2>1 DEF LoadMediaSet, Consistent, MemorySound, Exclusive, TypeOK
  <2>3. LoadsConfigured'
    BY <1>8 DEF LoadMediaSet, Consistent, LoadsConfigured, Exclusive, TypeOK
  <2>4. \A other \in Proc : pc'[other] = "loading"
    BY <1>8 DEF LoadMediaSet, Exclusive
  <2> QED BY <1>4, <2>2, <2>3, <2>4 DEF Consistent, WrittenSoFar, RemovalForgets,
                                        ErasingSaved
<1>9. CASE Loaded(self)
  <2>1. \A other \in Proc : pc'[other] = "ready"
    BY <1>9 DEF Loaded, Goto, Exclusive, TypeOK
  <2>2. MemorySound'
    BY <1>2, <1>9 DEF Loaded, Consistent, MemorySound, memory, TypeOK
  <2> QED BY <1>4, <2>1, <2>2 DEF Consistent, LoadsConfigured, WrittenSoFar,
                                  RemovalForgets, ErasingSaved
<1> QED BY <1>5, <1>6, <1>7, <1>8, <1>9
        DEF Load, CreationFails, ConfigurationUnreadable, LoadFails

LEMMA DecideConsistent ==
  ASSUME Exclusive, TypeOK, Consistent, NEW self \in Proc, Decide(self)
  PROVE  Consistent'
<1> USE DEF request, memory, work
<1>1. config' = config
  BY DEF Decide, List, RemoveMediaSet, RemoveRefused, ImportMediaSet, ImportRefused,
         ImportMediaSetXml, ImportXmlRefused, NextXmlFile, NoMoreXmlFiles,
         DeregisterMediaSet, Throw
<1>2. \A q \in PartNumber : Sound(q) => Sound(q)'
  BY DEF Decide, List, RemoveMediaSet, RemoveRefused, ImportMediaSet, ImportRefused,
         ImportMediaSetXml, ImportXmlRefused, NextXmlFile, NoMoreXmlFiles,
         DeregisterMediaSet, CreateNewDirectory, CreateDirectory, Sound, Complete,
         storeVars
<1>3. ConfigurationSound'
  BY <1>1, <1>2 DEF Consistent, ConfigurationSound, TypeOK, Configuration
<1>4. CASE List(self) \/ NoMoreXmlFiles(self) \/ \E p \in PartNumber : NextXmlFile(self, p)
  <2>1. \A other \in Proc : pc'[other] \in {"closing", "ready"}
    BY <1>4 DEF List, NoMoreXmlFiles, NextXmlFile, Goto, Exclusive, TypeOK
  <2>2. MemorySound'
    BY <1>2, <1>4 DEF List, NoMoreXmlFiles, NextXmlFile, Consistent, MemorySound, TypeOK
  <2> QED BY <1>3, <2>1, <2>2 DEF Consistent, LoadsConfigured, WrittenSoFar,
                                  RemovalForgets, ErasingSaved
<1>5. CASE RemoveMediaSet(self)
  <2>1. \A other \in Proc : pc'[other] = "saving" /\ arg'[other] \notin paths'[other]
    BY <1>5 DEF RemoveMediaSet, DeregisterMediaSet, Goto, Exclusive, TypeOK
  <2>2. MemorySound'
    BY <1>2, <1>5 DEF RemoveMediaSet, DeregisterMediaSet, Consistent, MemorySound, TypeOK
  <2> QED BY <1>3, <2>1, <2>2 DEF Consistent, LoadsConfigured, WrittenSoFar,
                                  RemovalForgets, ErasingSaved
<1>6. CASE RemoveRefused(self) \/ ImportRefused(self) \/ ImportXmlRefused(self)
  BY <1>2, <1>6, ThrowConsistent DEF RemoveRefused, ImportRefused, ImportXmlRefused
<1>7. CASE ImportMediaSet(self) \/ ImportMediaSetXml(self)
  <2>1. \A other \in Proc : /\ pc'[other] = "writing"
                              /\ op'[other] \in {"import", "importXml"}
                              /\ toWrite'[other] = File
    BY <1>7 DEF ImportMediaSet, ImportMediaSetXml, Command, Goto, Exclusive, TypeOK
  <2>2. MemorySound'
    BY <1>2, <1>7 DEF ImportMediaSet, ImportMediaSetXml, Consistent, MemorySound, TypeOK
  <2> QED BY <1>3, <2>1, <2>2 DEF Consistent, LoadsConfigured, WrittenSoFar,
                                  RemovalForgets, ErasingSaved, File
<1> QED BY <1>4, <1>5, <1>6, <1>7 DEF Decide

LEMMA FillConsistent ==
  ASSUME Exclusive, TypeOK, Consistent, NEW self \in Proc, Fill(self)
  PROVE  Consistent'
<1> USE DEF request, memory, work
<1>1. config' = config
  BY DEF Fill, WriteMediaFile, WriteTruncates, WriteCollides, WriteFails, WriteDone,
         RegisterMediaSet, RegisterRefused, Throw
<1>2. \A q \in PartNumber : Sound(q) => Sound(q)'
  <2>1. \/ UNCHANGED storeVars
        \/ \E f \in File : WriteFile(arg[self], f) \/ TearFile(arg[self], f)
    <3>1. NextFiles(self) \subseteq File
      BY DEF NextFiles, TypeOK
    <3> QED BY <3>1 DEF Fill, WriteMediaFile, WriteTruncates, WriteCollides, WriteFails,
                        WriteDone, RegisterMediaSet, RegisterRefused
  <2>2. CASE UNCHANGED storeVars
    BY <2>2 DEF storeVars, Sound, Complete
  <2>3. ASSUME NEW f \in File, WriteFile(arg[self], f) \/ TearFile(arg[self], f)
        PROVE  \A q \in PartNumber : Sound(q) => Sound(q)'
    BY <2>3, WriteArgument, FillKeepsSound DEF TypeOK
  <2> QED BY <2>1, <2>2, <2>3
<1>3. ConfigurationSound'
  BY <1>1, <1>2 DEF Consistent, ConfigurationSound, TypeOK, Configuration
<1>4. ASSUME NEW f \in File, WriteMediaFile(self, f) \/ WriteTruncates(self, f)
      PROVE  Consistent'
  <2>1. \A other \in Proc : other = self /\ pc'[other] = "writing"
    BY <1>4 DEF WriteMediaFile, WriteTruncates, Exclusive
  <2>2. MemorySound'
    BY <1>2, <1>4 DEF WriteMediaFile, WriteTruncates, Consistent, MemorySound, TypeOK
  <2>3. WrittenSoFar'
    <3>1. arg[self] \in PartNumber
      BY <1>4, WriteArgument DEF WriteMediaFile, WriteTruncates, TypeOK
    <3>2. ASSUME NEW g \in DataFile, g \notin toWrite'[self]
          PROVE  file'[arg[self]][g] = "ok"
      <4>1. g \in File /\ (f \in ListFile => g # f)
        BY StoreAssumption DEF File
      <4>2. g = f \/ g \notin toWrite[self]
        BY <1>4, <3>2 DEF WriteMediaFile, WriteTruncates, TypeOK
      <4>3. CASE g = f
        BY <1>4, <3>1, <4>1, <4>3
        DEF WriteMediaFile, WriteTruncates, WriteFile, TypeOK, StoreTypeOK
      <4>4. CASE g # f
        <5>1. file[arg[self]][g] = "ok"
          BY <1>4, <4>2, <4>4
          DEF WriteMediaFile, WriteTruncates, Consistent, WrittenSoFar
        <5> QED BY <1>4, <3>1, <4>1, <4>4, <5>1
                DEF WriteMediaFile, WriteTruncates, WriteFile, TearFile, TypeOK, StoreTypeOK
      <4> QED BY <4>3, <4>4
    <3> QED BY <1>4, <2>1, <3>2
            DEF WriteMediaFile, WriteTruncates, Consistent, WrittenSoFar
  <2> QED BY <1>3, <2>1, <2>2, <2>3 DEF Consistent, LoadsConfigured, RemovalForgets,
                                        ErasingSaved
<1>5. CASE WriteCollides(self, "closing") \/ WriteFails(self, "closing")
           \/ RegisterRefused(self, "closing")
  <2>1. PICK from : Throw(self, from, "closing")
    BY <1>5 DEF WriteCollides, WriteFails, RegisterRefused
  <2> QED BY <1>2, <2>1, ThrowConsistent
<1>6. CASE WriteDone(self)
  <2>1. \A other \in Proc : pc'[other] = "registering"
    BY <1>6 DEF WriteDone, Goto, Exclusive, TypeOK
  <2>2. MemorySound'
    BY <1>2, <1>6 DEF WriteDone, Consistent, MemorySound, TypeOK
  <2>3. WrittenSoFar'
    BY <1>6 DEF WriteDone, Consistent, WrittenSoFar, Exclusive, storeVars
  <2> QED BY <1>3, <2>1, <2>2, <2>3 DEF Consistent, LoadsConfigured, RemovalForgets,
                                        ErasingSaved
<1>7. CASE RegisterMediaSet(self)
  <2>1. \A other \in Proc : pc'[other] = "saving"
    BY <1>7 DEF RegisterMediaSet, Goto, Exclusive, TypeOK
  <2>2. Sound(arg[self])'
    BY <1>7 DEF RegisterMediaSet, Decompiles, ListFilesDecode, FilesIntact, Consistent, WrittenSoFar, Sound, Complete,
                File, storeVars
  <2>3. MemorySound'
    BY <1>2, <1>7, <2>2 DEF RegisterMediaSet, Consistent, MemorySound, Exclusive, TypeOK
  <2>4. op[self] # "remove"
    BY <1>7 DEF RegisterMediaSet, Consistent, WrittenSoFar
  <2> QED BY <1>3, <1>7, <2>1, <2>3, <2>4
          DEF RegisterMediaSet, Consistent, LoadsConfigured, WrittenSoFar, RemovalForgets,
              ErasingSaved, Exclusive
<1> QED BY <1>4, <1>5, <1>6, <1>7 DEF Fill

LEMMA EmptyConsistent ==
  ASSUME Exclusive, TypeOK, Consistent, NEW self \in Proc, Empty(self)
  PROVE  Consistent'
<1> USE DEF request, memory, work
<1>1. config' = config
  BY DEF Empty, EraseMediaFile, EraseMediaSetDirectory, EraseFails, Throw
<1>2. /\ pc[self] = "erasing"
      /\ arg[self] \notin config.sets
      /\ arg[self] \notin paths[self]
  BY DEF Empty, EraseMediaFile, EraseMediaSetDirectory, EraseFails, Throw, Consistent,
         ErasingSaved, RemovalForgets
<1>3. CASE EraseFails(self, "closing")
  <2>1. \A q \in PartNumber : Sound(q) => Sound(q)'
    BY <1>3 DEF EraseFails, storeVars, Sound, Complete
  <2> QED BY <1>3, <2>1, ThrowConsistent DEF EraseFails
<1>4. ASSUME NEW to \in {"erasing", "closing"}, pc' = [pc EXCEPT ![self] = to],
             UNCHANGED <<config, request, memory, work>>,
             \A q \in PartNumber : q # arg[self] /\ Sound(q) => Sound(q)'
      PROVE  Consistent'
  <2>1. ConfigurationSound'
    BY <1>2, <1>4 DEF Consistent, ConfigurationSound, TypeOK, Configuration
  <2>2. MemorySound'
    BY <1>2, <1>4 DEF Consistent, MemorySound, Exclusive, TypeOK
  <2>3. \A other \in Proc : other = self /\ pc'[other] = to
    BY <1>4 DEF Exclusive, TypeOK
  <2> QED BY <1>2, <1>4, <2>1, <2>2, <2>3
          DEF Consistent, LoadsConfigured, WrittenSoFar, RemovalForgets, ErasingSaved, Readable
<1>5. ASSUME NEW f \in File, EraseMediaFile(self, f)
      PROVE  Consistent'
  <2>1. pc' = [pc EXCEPT ![self] = "erasing"]
    BY <1>2, <1>5 DEF EraseMediaFile, TypeOK
  <2> QED BY <1>4, <1>5, <2>1, EmptyKeepsSound DEF EraseMediaFile, TypeOK
<1>6. CASE EraseMediaSetDirectory(self, "closing")
  <2>1. \A q \in PartNumber : q # arg[self] /\ Sound(q) => Sound(q)'
    BY <1>6 DEF EraseMediaSetDirectory, EraseDirectory, Sound, Complete
  <2> QED BY <1>4, <1>6, <2>1 DEF EraseMediaSetDirectory, Goto
<1> QED BY <1>3, <1>5, <1>6 DEF Empty

LEMMA SaveConsistent ==
  ASSUME Exclusive, TypeOK, Consistent, NEW self \in Proc, Save(self)
  PROVE  Consistent'
<1> USE DEF request, memory, work
<1>1. UNCHANGED storeVars
  BY DEF Save, OpenConfiguration, FlushConfiguration, SaveFails, DestructorOpens,
         DestructorFlushes, DestructorFails
<1>2. \A q \in PartNumber : Sound(q) => Sound(q)'
  BY <1>1 DEF storeVars, Sound, Complete
<1>3. config' = config \/ config'.sets = {} \/ config'.sets = paths[self]
  BY DEF Save, OpenConfiguration, FlushConfiguration, SaveFails, DestructorOpens,
         DestructorFlushes, DestructorFails, Throw, Torn, Written
<1>4. ConfigurationSound'
  BY <1>2, <1>3 DEF Consistent, ConfigurationSound, MemorySound, TypeOK, Configuration
<1>5. CASE DestructorFlushes(self) \/ DestructorFails(self)
  BY <1>4, <1>5, TerminateConsistent DEF DestructorFlushes, DestructorFails
<1>6. CASE SaveFails(self, "closing")
  BY <1>2, <1>6, ThrowConsistent DEF SaveFails
<1>7. CASE OpenConfiguration(self, "saving", "flushing") \/ DestructorOpens(self)
  <2>1. \A other \in Proc : /\ other = self
                            /\ pc'[other] \in {"flushing", "closingFlush"}
                            /\ pc'[other] = "flushing" => pc[other] = "saving"
    BY <1>7 DEF OpenConfiguration, DestructorOpens, Goto, Exclusive, TypeOK
  <2>2. MemorySound'
    BY <1>2, <1>7 DEF OpenConfiguration, DestructorOpens, Consistent, MemorySound, TypeOK
  <2> QED BY <1>4, <1>7, <2>1, <2>2
          DEF OpenConfiguration, DestructorOpens, Consistent, LoadsConfigured,
              WrittenSoFar, RemovalForgets, ErasingSaved
<1>8. CASE FlushConfiguration(self, "flushing", AfterSave(self))
  <2>1. \A other \in Proc : /\ other = self
                            /\ pc[other] = "flushing"
                            /\ pc'[other] \in {"erasing", "saved", "closing"}
                            /\ pc'[other] = "erasing" => op[other] = "remove"
    BY <1>8 DEF FlushConfiguration, AfterSave, Goto, Exclusive, TypeOK
  <2>2. MemorySound'
    BY <1>2, <1>8 DEF FlushConfiguration, Consistent, MemorySound, TypeOK
  <2>3. config'.state = "ok" /\ config'.sets = paths[self]
    BY <1>8 DEF FlushConfiguration, Written
  <2> QED BY <1>4, <1>8, <2>1, <2>2, <2>3
          DEF FlushConfiguration, Consistent, LoadsConfigured, WrittenSoFar,
              RemovalForgets, ErasingSaved, Readable
<1> QED BY <1>5, <1>6, <1>7, <1>8 DEF Save

LEMMA CrashConsistent ==
  ASSUME Exclusive, TypeOK, Consistent, NEW self \in Proc, Crash(self)
  PROVE  Consistent'
<1>1. \A q \in PartNumber : Sound(q) => Sound(q)'
  <2>1. CASE UNCHANGED storeVars
    BY <2>1 DEF storeVars, Sound, Complete
  <2>2. ASSUME NEW f \in toWrite[self], TearFile(arg[self], f)
        PROVE  \A q \in PartNumber : Sound(q) => Sound(q)'
    <3>1. f \in File
      BY DEF TypeOK
    <3> QED BY <2>2, <3>1, WriteArgument, FillKeepsSound DEF TypeOK
  <2> QED BY <2>1, <2>2 DEF Crash
<1>2. ConfigurationSound'
  BY <1>1 DEF Crash, Consistent, ConfigurationSound, TypeOK, Configuration
<1> QED BY <1>2, TerminateConsistent DEF Crash

-----------------------------------------------------------------------------
(* The invariant, and what follows from it.                                *)

(* With one program at a time, Consistent is an invariant.                 *)
THEOREM Consistency ==
  ASSUME Exclusive
  PROVE  Spec => []Consistent
<1>1. Init => Consistent
  BY DEF Init, StoreInit, Absent, Consistent, ConfigurationSound, MemorySound,
         LoadsConfigured, WrittenSoFar, RemovalForgets, ErasingSaved
<1>2. TypeOK /\ Consistent /\ [Next]_vars => Consistent'
  <2> SUFFICES ASSUME TypeOK, Consistent, [Next]_vars
               PROVE  Consistent'
    OBVIOUS
  <2>1. CASE UNCHANGED vars
    BY <2>1 DEF vars, storeVars, request, memory, work, Consistent, ConfigurationSound,
                MemorySound, LoadsConfigured, WrittenSoFar, RemovalForgets, ErasingSaved,
                Sound, Complete, Readable
  <2>2. ASSUME NEW self \in Proc, Start(self) \/ Step(self) \/ Crash(self)
        PROVE  Consistent'
    BY <2>2, StartConsistent, LoadConsistent, DecideConsistent, FillConsistent,
       EmptyConsistent, SaveConsistent, CrashConsistent DEF Step
  <2> QED BY <2>1, <2>2 DEF Next
<1> QED BY <1>1, <1>2, Typing, PTL DEF Spec

(* Every media set a readable configuration names is stored with all of    *)
(* its files and opens again.                                              *)
THEOREM CatalogueIsStored ==
  ASSUME Exclusive
  PROVE  Spec => []CatalogueStored
<1>1. Consistent => CatalogueStored
  BY DEF Consistent, ConfigurationSound, Sound, Complete, CatalogueStored, Decompiles, ListFilesDecode, FilesIntact, File
<1> QED BY <1>1, Consistency, PTL

(* Files are erased only when the configuration on disk no longer names    *)
(* their media set.                                                        *)
THEOREM OnlyForgottenErased ==
  ASSUME Exclusive
  PROVE  Spec => []ErasesOnlyForgotten
<1>1. Consistent => ErasesOnlyForgotten
  BY DEF Consistent, ErasingSaved, ErasesOnlyForgotten
<1> QED BY <1>1, Consistency, PTL

(* No step alters a file of a media set that a readable configuration      *)
(* names.                                                                  *)
THEOREM RegisteredUntouched ==
  ASSUME Exclusive
  PROVE  Spec => RegisteredFilesUntouched
<1>1. TypeOK /\ Consistent /\ [Next]_vars
        => (\A p \in config.sets : Readable => file'[p] = file[p])
  <2> SUFFICES ASSUME TypeOK, Consistent, [Next]_vars, NEW p \in config.sets
               PROVE  file'[p] = file[p]
    OBVIOUS
  <2>1. p \in PartNumber /\ Sound(p)
    BY DEF Consistent, ConfigurationSound, TypeOK, Configuration
  <2>2. CASE UNCHANGED storeVars
    BY <2>2 DEF storeVars
  <2>3. ASSUME NEW self \in Proc, NEW f \in File,
               WriteFile(arg[self], f) \/ TearFile(arg[self], f)
        PROVE  file'[p] = file[p]
    BY <2>1, <2>3, WriteArgument, FillKeepsSound DEF TypeOK
  <2>4. ASSUME NEW self \in Proc, Decide(self)
        PROVE  file'[p] = file[p]
    BY <2>4 DEF Decide, List, RemoveMediaSet, RemoveRefused, ImportMediaSet,
                ImportRefused, ImportMediaSetXml, ImportXmlRefused, NextXmlFile,
                NoMoreXmlFiles, DeregisterMediaSet, CreateNewDirectory, CreateDirectory,
                storeVars
  <2>5. ASSUME NEW self \in Proc, Empty(self)
        PROVE  file'[p] = file[p]
    <3>1. arg[self] # p
      BY <2>5 DEF Empty, EraseMediaFile, EraseMediaSetDirectory, EraseFails, Throw,
                  Consistent, ErasingSaved
    <3> QED BY <2>1, <2>5, <3>1, EmptyKeepsSound
            DEF Empty, EraseMediaFile, EraseMediaSetDirectory, EraseDirectory,
                EraseFails, TypeOK, storeVars
  <2>6. ASSUME NEW self \in Proc, Fill(self) \/ Crash(self)
        PROVE  \/ UNCHANGED storeVars
               \/ \E f \in File : WriteFile(arg[self], f) \/ TearFile(arg[self], f)
    <3>1. NextFiles(self) \subseteq File /\ toWrite[self] \subseteq File
      BY DEF NextFiles, TypeOK
    <3> QED BY <2>6, <3>1
            DEF Fill, WriteMediaFile, WriteTruncates, WriteCollides, WriteFails,
                WriteDone, RegisterMediaSet, RegisterRefused, Crash
  <2>7. ASSUME NEW self \in Proc, Start(self) \/ Load(self) \/ Save(self)
        PROVE  UNCHANGED storeVars
    BY <2>7 DEF Start, StartCreate, StartCommand, CreateRepository, Load,
                WriteNewConfiguration, CreationFails, ReadConfiguration,
                ConfigurationUnreadable, LoadMediaSet, LoadFails, Loaded, Save,
                OpenConfiguration, FlushConfiguration, SaveFails, DestructorOpens,
                DestructorFlushes, DestructorFails
  <2>8. CASE UNCHANGED vars
    BY <2>8 DEF vars, storeVars
  <2> QED BY <2>2, <2>3, <2>4, <2>5, <2>6, <2>7, <2>8 DEF Next, Step
<1>2. TypeOK /\ Consistent /\ [Next]_vars
        => [\A p \in config.sets : Readable => file'[p] = file[p]]_vars
  BY <1>1
<1> QED BY <1>2, Typing, Consistency, PTL DEF Spec, RegisteredFilesUntouched

-----------------------------------------------------------------------------
(* Orphans.                                                                *)

LEMMA StartStuck ==
  ASSUME Exclusive, TypeOK, NEW p \in PartNumber, Stuck(p), NEW self \in Proc, Start(self)
  PROVE  Stuck(p)'
<1>1. UNCHANGED <<storeVars, memory>> /\ (config' = config \/ config' = Torn)
  BY DEF Start, StartCreate, StartCommand, CreateRepository
<1>2. config' = config \/ config'.sets = {}
  BY <1>1 DEF Torn
<1>3. pc'[self] \in {"creating", "reading"}
  BY DEF Start, StartCreate, StartCommand, CreateRepository, Goto, TypeOK
<1>4. Occupied(p)' /\ p \notin paths'[self]
  BY <1>1 DEF storeVars, memory, Occupied, Stuck
<1> QED BY <1>2, <1>3, <1>4, StuckKept

LEMMA DecideStuck ==
  ASSUME Exclusive, TypeOK, Consistent, NEW p \in PartNumber, Stuck(p), NEW self \in Proc,
         Decide(self)
  PROVE  Stuck(p)'
<1> USE DEF Goto, memory, request
<1>1. Occupied(p)'
  BY DEF Decide, List, RemoveMediaSet, RemoveRefused, ImportMediaSet, ImportRefused,
         ImportMediaSetXml, ImportXmlRefused, NextXmlFile, NoMoreXmlFiles,
         DeregisterMediaSet, CreateNewDirectory, CreateDirectory, Occupied, Stuck, storeVars
<1>2. CASE List(self) \/ NoMoreXmlFiles(self) \/ \E q \in PartNumber : NextXmlFile(self, q)
  <2>1. pc'[self] \in {"closing", "ready"} /\ config' = config /\ paths' = paths
    BY <1>2 DEF List, NoMoreXmlFiles, NextXmlFile, TypeOK
  <2>2. p \notin paths'[self]
    BY <2>1 DEF Stuck
  <2> QED BY <1>1, <2>1, <2>2, StuckKept
<1>3. CASE RemoveMediaSet(self)
  <2>1. p \notin info[self]
    BY DEF Stuck, Consistent, MemorySound
  <2>2. /\ arg' = arg /\ arg[self] # p /\ config' = config
        /\ paths'[self] \subseteq paths[self]
    BY <1>3, <2>1 DEF RemoveMediaSet, DeregisterMediaSet, TypeOK
  <2>3. p \notin paths'[self]
    BY <2>2 DEF Stuck
  <2> QED BY <1>1, <2>2, <2>3, StuckKept
<1>4. CASE RemoveRefused(self) \/ ImportRefused(self) \/ ImportXmlRefused(self)
  BY <1>1, <1>4, ThrowStuck DEF RemoveRefused, ImportRefused, ImportXmlRefused
<1>5. CASE ImportMediaSet(self)
  <2>1. arg' = arg /\ arg[self] # p /\ config' = config /\ paths' = paths
    BY <1>5 DEF ImportMediaSet, CreateNewDirectory, Stuck, Occupied
  <2>2. p \notin paths'[self]
    BY <2>1 DEF Stuck
  <2> QED BY <1>1, <2>1, <2>2, StuckKept
<1>6. CASE ImportMediaSetXml(self)
  <2>1. /\ pc'[self] = "writing" /\ toWrite'[self] = File /\ file' = file
        /\ UNCHANGED <<arg, config, paths>>
    BY <1>6 DEF ImportMediaSetXml, CreateDirectory, TypeOK
  <2>2. \E f \in toWrite'[self] : file'[p][f] # "missing"
    BY <2>1 DEF Stuck, Occupied
  <2> QED BY <1>1, <2>1, <2>2 DEF Exclusive, Stuck
<1> QED BY <1>2, <1>3, <1>4, <1>5, <1>6 DEF Decide

LEMMA StuckStep ==
  ASSUME Exclusive, TypeOK, Consistent, NEW p \in PartNumber, Stuck(p), [Next]_vars
  PROVE  Stuck(p)'
<1>1. CASE UNCHANGED vars
  BY <1>1 DEF vars, storeVars, request, memory, work, Stuck, Occupied
<1>2. ASSUME NEW self \in Proc, Start(self) \/ Step(self) \/ Crash(self)
      PROVE  Stuck(p)'
  <2>1. CASE Load(self)
    BY <2>1, LoadStuck DEF Load, Consistent, LoadsConfigured
  <2>2. CASE Fill(self)
    BY <2>2, FillStuck DEF Fill
  <2>3. CASE Empty(self)
    BY <2>3, EmptyStuck DEF Empty
  <2>4. CASE Save(self)
    BY <2>4, SaveStuck DEF Save
  <2> QED BY <1>2, <2>1, <2>2, <2>3, <2>4, StartStuck, DecideStuck, CrashStuck DEF Step
<1> QED BY <1>1, <1>2 DEF Next

(* A directory left behind by an interrupted command is never adopted: no  *)
(* later import of its media set succeeds.                                 *)
THEOREM OrphansStayOut ==
  ASSUME Exclusive
  PROVE  Spec => OrphanNeverAdopted
<1> SUFFICES ASSUME NEW p \in PartNumber
             PROVE  Spec => [](Orphan(p) => [](p \notin config.sets))
  BY DEF OrphanNeverAdopted
<1>1. TypeOK /\ Consistent /\ Stuck(p) /\ [Next]_vars => Stuck(p)'
  BY StuckStep
<1>2. Orphan(p) => Stuck(p)
  BY OrphanStuck
<1>3. Stuck(p) => p \notin config.sets
  BY DEF Stuck
<1> QED BY <1>1, <1>2, <1>3, Typing, Consistency, PTL DEF Spec

-----------------------------------------------------------------------------
(* The command line programs implement MediaSetRegistry: with one program  *)
(* at a time, whatever fails and whenever it is killed, every step of a    *)
(* program is one step of the registry, or none.                           *)

USE DEF Configuration

(* Where a program stands between the memory of its manager and the        *)
(* configuration: the two differ by one media set at most while the        *)
(* configuration is in order, and memory stands in for it while it is not. *)
Mirrors(self) ==
  /\ pc[self] \in {"creating", "flushing", "closingFlush"} => config.state = "torn"
  /\ pc[self] \in {"loading", "ready", "writing", "registering", "saving", "saved",
                   "erasing"} => Readable
  /\ pc[self] = "closing" => config.state # "absent"
  /\ pc[self] \in {"idle", "creating", "reading"} => paths[self] = {}
  /\ pc[self] = "loading" => paths[self] = config.sets \ toLoad[self]
  /\ pc[self] \in {"ready", "writing", "registering", "saved", "erasing"} =>
       paths[self] = config.sets
  /\ pc[self] \in {"saving", "closing"} /\ Readable =>
       \/ paths[self] = config.sets
       \/ \E p \in PartNumber : paths[self] \in {config.sets \cup {p}, config.sets \ {p}}

Mirror == \A self \in Proc : Mirrors(self)

-----------------------------------------------------------------------------
(* Mirror is an invariant.                                                 *)

(* An operation in progress that has changed neither memory nor            *)
(* configuration yet goes on, or is given up.                              *)
LEMMA QuietMirror ==
  ASSUME Exclusive, Mirror, NEW self \in Proc,
         pc[self] \in {"ready", "writing", "registering", "saved", "erasing"},
         pc'[self] \in {"ready", "writing", "registering", "saved", "erasing", "closing"},
         UNCHANGED <<config, paths>>
  PROVE  Mirror'
<1>1. Readable /\ paths[self] = config.sets
  BY DEF Mirror, Mirrors
<1>2. Mirrors(self)'
  BY <1>1 DEF Mirrors, Readable
<1> QED BY <1>2 DEF Exclusive, Mirror

LEMMA TerminateMirror ==
  ASSUME Exclusive, TypeOK, NEW self \in Proc, Terminate(self)
  PROVE  Mirror'
<1>1. pc'[self] = "idle" /\ paths'[self] = {}
  BY DEF TypeOK, Terminate, Goto
<1>2. Mirrors(self)'
  BY <1>1 DEF Mirrors
<1> QED BY <1>2 DEF Exclusive, Mirror

LEMMA StartMirror ==
  ASSUME Exclusive, TypeOK, Mirror, NEW self \in Proc, Start(self)
  PROVE  Mirror'
<1>1. /\ pc[self] = "idle" /\ paths' = paths
      /\ \/ pc'[self] = "reading"
         \/ pc'[self] = "creating" /\ config' = Torn
  BY DEF Start, StartCreate, StartCommand, CreateRepository, Goto, memory, TypeOK
<1>2. Mirrors(self)'
  BY <1>1 DEF Mirror, Mirrors, Torn
<1> QED BY <1>2 DEF Exclusive, Mirror

LEMMA LoadMirror ==
  ASSUME Exclusive, TypeOK, Consistent, Mirror, NEW self \in Proc, Load(self)
  PROVE  Mirror'
<1> USE DEF Goto, memory
<1>1. CASE Terminate(self)
  BY <1>1, TerminateMirror
<1>2. CASE WriteNewConfiguration(self)
  <2>1. pc[self] = "creating" /\ pc'[self] = "reading" /\ paths' = paths
    BY <1>2 DEF WriteNewConfiguration, TypeOK
  <2> QED BY <2>1 DEF Exclusive, Mirror, Mirrors
<1>3. CASE ReadConfiguration(self)
  <2>1. /\ pc[self] = "reading" /\ pc'[self] = "loading" /\ Readable
        /\ toLoad'[self] = config.sets /\ UNCHANGED <<config, paths>>
    BY <1>3 DEF ReadConfiguration, TypeOK
  <2>2. Mirrors(self)'
    BY <2>1 DEF Mirror, Mirrors, Readable
  <2> QED BY <2>2 DEF Exclusive, Mirror
<1>4. ASSUME NEW p \in PartNumber, LoadMediaSet(self, p)
      PROVE  Mirror'
  <2>1. /\ pc[self] = "loading" /\ pc'[self] = "loading"
        /\ p \in toLoad[self] /\ toLoad'[self] = toLoad[self] \ {p}
        /\ paths'[self] = paths[self] \cup {p} /\ config' = config
    BY <1>4 DEF LoadMediaSet, TypeOK
  <2>2. /\ Readable /\ paths[self] = config.sets \ toLoad[self]
        /\ toLoad[self] \subseteq config.sets
    BY <2>1 DEF Mirror, Mirrors, Consistent, LoadsConfigured
  <2>3. paths'[self] = config.sets \ toLoad'[self]
    BY <2>1, <2>2
  <2>4. Mirrors(self)'
    BY <2>1, <2>2, <2>3 DEF Mirrors, Readable
  <2> QED BY <2>4 DEF Exclusive, Mirror
<1>5. CASE Loaded(self)
  <2>1. /\ pc[self] = "loading" /\ pc'[self] = "ready" /\ toLoad[self] = {}
        /\ UNCHANGED <<config, paths>>
    BY <1>5 DEF Loaded, TypeOK
  <2>2. Readable /\ paths[self] = config.sets
    BY <2>1 DEF Mirror, Mirrors
  <2>3. Mirrors(self)'
    BY <2>1, <2>2 DEF Mirrors, Readable
  <2> QED BY <2>3 DEF Exclusive, Mirror
<1> QED BY <1>1, <1>2, <1>3, <1>4, <1>5
        DEF Load, CreationFails, ConfigurationUnreadable, LoadFails

(* Memory changes by one media set, and is then to be saved. *)
LEMMA ChangeMirror ==
  ASSUME Exclusive, TypeOK, Mirror, NEW self \in Proc,
         pc[self] \in {"ready", "registering"}, pc'[self] = "saving",
         NEW p \in PartNumber, paths'[self] \in {paths[self] \cup {p}, paths[self] \ {p}},
         config' = config
  PROVE  Mirror'
<1>1. Readable /\ paths[self] = config.sets
  BY DEF Mirror, Mirrors
<1>2. Mirrors(self)'
  BY <1>1 DEF Mirrors, Readable
<1> QED BY <1>2 DEF Exclusive, Mirror

LEMMA DecideMirror ==
  ASSUME Exclusive, TypeOK, Mirror, NEW self \in Proc, Decide(self)
  PROVE  Mirror'
<1> USE DEF Goto, memory, Command
<1>1. CASE RemoveMediaSet(self)
  <2>1. /\ pc[self] = "ready" /\ pc'[self] = "saving" /\ config' = config
        /\ arg[self] \in PartNumber /\ paths'[self] = paths[self] \ {arg[self]}
    BY <1>1 DEF RemoveMediaSet, DeregisterMediaSet, TypeOK
  <2> QED BY <2>1, ChangeMirror
<1>2. CASE ~RemoveMediaSet(self)
  <2>1. /\ pc[self] \in {"ready", "saved"} /\ UNCHANGED <<config, paths>>
        /\ pc'[self] \in {"ready", "writing", "closing"}
    BY <1>2 DEF Decide, List, RemoveRefused, ImportMediaSet, ImportRefused,
                ImportMediaSetXml, ImportXmlRefused, NextXmlFile, NoMoreXmlFiles, Throw, TypeOK
  <2> QED BY <2>1, QuietMirror
<1> QED BY <1>1, <1>2

LEMMA FillMirror ==
  ASSUME Exclusive, TypeOK, Mirror, NEW self \in Proc, Fill(self)
  PROVE  Mirror'
<1> USE DEF Goto, memory
<1>1. CASE RegisterMediaSet(self)
  <2>1. arg[self] \in PartNumber
    BY <1>1 DEF RegisterMediaSet, Decompiles, TypeOK, StoreTypeOK
  <2>2. /\ pc[self] = "registering" /\ pc'[self] = "saving" /\ config' = config
        /\ paths'[self] = paths[self] \cup {arg[self]}
    BY <1>1 DEF RegisterMediaSet, TypeOK
  <2> QED BY <2>1, <2>2, ChangeMirror
<1>2. CASE ~RegisterMediaSet(self)
  <2>1. /\ pc[self] \in {"writing", "registering"} /\ UNCHANGED <<config, paths>>
        /\ pc'[self] \in {"writing", "registering", "closing"}
    BY <1>2 DEF Fill, WriteMediaFile, WriteTruncates, WriteCollides, WriteFails, WriteDone,
                RegisterRefused, Throw, TypeOK
  <2> QED BY <2>1, QuietMirror
<1> QED BY <1>1, <1>2

LEMMA EmptyMirror ==
  ASSUME Exclusive, TypeOK, Mirror, NEW self \in Proc, Empty(self)
  PROVE  Mirror'
<1>1. /\ pc[self] = "erasing" /\ pc'[self] \in {"erasing", "closing"}
      /\ UNCHANGED <<config, paths>>
  BY DEF Empty, EraseMediaFile, EraseMediaSetDirectory, EraseFails, Throw, Goto, memory, TypeOK
<1> QED BY <1>1, QuietMirror

LEMMA SaveMirror ==
  ASSUME Exclusive, TypeOK, Mirror, NEW self \in Proc, Save(self)
  PROVE  Mirror'
<1> USE DEF Goto, memory
<1>1. CASE DestructorFlushes(self) \/ DestructorFails(self)
  BY <1>1, TerminateMirror DEF DestructorFlushes, DestructorFails
<1>2. CASE OpenConfiguration(self, "saving", "flushing") \/ DestructorOpens(self)
  <2>1. pc'[self] \in {"flushing", "closingFlush"} /\ config'.state = "torn"
    BY <1>2 DEF OpenConfiguration, DestructorOpens, Torn, TypeOK
  <2>2. Mirrors(self)'
    BY <2>1 DEF Mirrors, Readable
  <2> QED BY <2>2 DEF Exclusive, Mirror
<1>3. CASE FlushConfiguration(self, "flushing", AfterSave(self))
  <2>1. /\ pc'[self] \in {"erasing", "saved", "closing"}
        /\ config'.state = "ok" /\ config'.sets = paths'[self]
    BY <1>3 DEF FlushConfiguration, AfterSave, Written, TypeOK
  <2>2. Mirrors(self)'
    BY <2>1 DEF Mirrors, Readable
  <2> QED BY <2>2 DEF Exclusive, Mirror
<1>4. CASE SaveFails(self, "closing")
  <2>1. /\ pc[self] \in {"saving", "flushing"} /\ pc'[self] = "closing"
        /\ UNCHANGED <<config, paths>>
    BY <1>4 DEF SaveFails, Throw, TypeOK
  <2>2. Mirrors(self)
    BY DEF Mirror
  <2>3. Mirrors(self)'
    BY <2>1, <2>2 DEF Mirrors, Readable
  <2> QED BY <2>3 DEF Exclusive, Mirror
<1> QED BY <1>1, <1>2, <1>3, <1>4 DEF Save

(* With one program at a time, Mirror is an invariant.                     *)
THEOREM Mirroring ==
  ASSUME Exclusive
  PROVE  Spec => []Mirror
<1>1. Init => Mirror
  BY DEF Init, Mirror, Mirrors
<1>2. TypeOK /\ Consistent /\ Mirror /\ [Next]_vars => Mirror'
  <2> SUFFICES ASSUME TypeOK, Consistent, Mirror, [Next]_vars
               PROVE  Mirror'
    OBVIOUS
  <2>1. CASE UNCHANGED vars
    BY <2>1 DEF vars, memory, work, Mirror, Mirrors, Readable
  <2>2. ASSUME NEW self \in Proc, Start(self) \/ Step(self) \/ Crash(self)
        PROVE  Mirror'
    BY <2>2, StartMirror, LoadMirror, DecideMirror, FillMirror, EmptyMirror, SaveMirror,
       TerminateMirror DEF Step, Crash
  <2> QED BY <2>1, <2>2 DEF Next
<1> QED BY <1>1, <1>2, Typing, Consistency, PTL DEF Spec

-----------------------------------------------------------------------------
(* The registry that the repository shows, before and after a step.        *)

StepOfRegistry == [Registry!Next]_(Registry!registryVars)

(* With one program, what is shown depends on the configuration and on     *)
(* where that program is.                                                  *)
Shown(self) ==
  /\ Catalogue = IF Readable THEN config.sets ELSE IF HasManager(self) THEN paths[self] ELSE {}
  /\ Status = IF Readable \/ HasManager(self) THEN "open"
              ELSE IF config.state = "absent" \/ pc[self] = "creating" THEN "none"
              ELSE "lost"

LEMMA ShownByOne ==
  ASSUME Exclusive, NEW self \in Proc
  PROVE  Shown(self) /\ Shown(self)'
<1>1. Proc = {self}
  BY DEF Exclusive
<1>2. /\ Catalogue = IF Readable THEN config.sets
                     ELSE IF HasManager(self) THEN paths[self] ELSE {}
      /\ Catalogue' = IF Readable' THEN config'.sets
                      ELSE IF HasManager(self)' THEN paths'[self] ELSE {}
  BY <1>1 DEF Catalogue, Readable, HasManager
<1>3. /\ Status = IF Readable \/ HasManager(self) THEN "open"
                  ELSE IF config.state = "absent" \/ pc[self] = "creating" THEN "none"
                  ELSE "lost"
      /\ Status' = IF Readable' \/ HasManager(self)' THEN "open"
                   ELSE IF config'.state = "absent" \/ pc'[self] = "creating" THEN "none"
                   ELSE "lost"
  BY <1>1 DEF Status, Readable, HasManager
<1> QED BY <1>2, <1>3 DEF Shown

(* The media sets that are stored, after each kind of step on the          *)
(* directories.                                                            *)
LEMMA StoredSame ==
  ASSUME UNCHANGED storeVars
  PROVE  Stored' = Stored
BY DEF storeVars, Stored, Complete

LEMMA StoredByWriting ==
  ASSUME StoreTypeOK, NEW p, NEW f \in File, WriteFile(p, f) \/ TearFile(p, f)
  PROVE  p \in PartNumber /\ Stored' \in {Stored, Stored \cup {p}}
<1>1. p \in PartNumber
  BY WriteArgument
<1>2. \A q \in PartNumber : Complete(q) => Complete(q)'
  BY <1>1, FillKeepsComplete
<1>3. \A q \in PartNumber : q # p /\ Complete(q)' => Complete(q)
  BY <1>1 DEF StoreTypeOK, WriteFile, TearFile, Complete
<1> QED BY <1>1, <1>2, <1>3 DEF Stored

LEMMA StoredByTearing ==
  ASSUME StoreTypeOK, NEW p, NEW f \in File, TearFile(p, f)
  PROVE  Stored' = Stored
<1>1. p \in PartNumber /\ Stored' \in {Stored, Stored \cup {p}}
  BY StoredByWriting
<1>2. ~Complete(p)'
  BY <1>1 DEF StoreTypeOK, TearFile, Complete
<1> QED BY <1>1, <1>2 DEF Stored

LEMMA StoredByCreating ==
  ASSUME StoreTypeOK, NEW p \in PartNumber, CreateNewDirectory(p) \/ CreateDirectory(p)
  PROVE  Stored' \in {Stored, Stored \cup {p}}
BY DEF CreateNewDirectory, CreateDirectory, Stored, Complete

LEMMA StoredByErasing ==
  ASSUME StoreTypeOK, NEW p, NEW f \in File, EraseFile(p, f) \/ EraseDirectory(p)
  PROVE  Stored' \in {Stored, Stored \ {p}}
<1>1. \A q \in PartNumber : q # p => (Complete(q)' <=> Complete(q))
  BY DEF StoreTypeOK, EraseFile, EraseDirectory, Complete
<1>2. \A q \in PartNumber : Complete(q)' => Complete(q)
  BY DEF StoreTypeOK, EraseFile, EraseDirectory, Complete
<1> QED BY <1>1, <1>2 DEF Stored

-----------------------------------------------------------------------------
(* Each step is a step of the registry.                                    *)

(* As long as the configuration stays in order, only what is stored can    *)
(* change.                                                                 *)
LEMMA SteadyStep ==
  ASSUME Exclusive, NEW self \in Proc, Readable, config' = config, NEW p \in PartNumber,
         \/ Stored' \in {Stored, Stored \cup {p}}
         \/ p \notin config.sets /\ Stored' \in {Stored, Stored \ {p}}
  PROVE  StepOfRegistry
<1>1. /\ Status = "open" /\ Status' = "open"
      /\ Catalogue = config.sets /\ Catalogue' = config.sets
  BY ShownByOne DEF Shown, Readable
<1> QED BY <1>1 DEF StepOfRegistry, Registry!Next, Registry!Store, Registry!Discard,
                    Registry!registryVars

LEMMA SteadyUnstored ==
  ASSUME Exclusive, NEW self \in Proc, Readable, config' = config, UNCHANGED storeVars
  PROVE  StepOfRegistry
<1>1. /\ Status = "open" /\ Status' = "open"
      /\ Catalogue = config.sets /\ Catalogue' = config.sets /\ Stored' = Stored
  BY ShownByOne, StoredSame DEF Shown, Readable
<1> QED BY <1>1 DEF StepOfRegistry, Registry!registryVars

(* The end of a program: the registry is lost with the program that had    *)
(* the configuration file open, and with no other.                         *)
LEMMA TerminateStep ==
  ASSUME Exclusive, TypeOK, Mirror, NEW self \in Proc, pc[self] # "idle", Terminate(self),
         config' = config, Stored' = Stored
  PROVE  StepOfRegistry
<1>1. pc'[self] = "idle"
  BY DEF Terminate, Goto, TypeOK
<1>2. ~HasManager(self)'
  BY <1>1 DEF HasManager
<1>3. CASE Readable
  <2>1. /\ Status = "open" /\ Status' = "open"
        /\ Catalogue = config.sets /\ Catalogue' = config.sets
    BY <1>3, ShownByOne DEF Shown, Readable
  <2> QED BY <2>1 DEF StepOfRegistry, Registry!registryVars
<1>4. CASE ~Readable /\ config.state = "absent"
  <2>1. pc[self] \in {"reading"}
    BY <1>4 DEF Mirror, Mirrors, TypeOK
  <2>2. /\ Status = "none" /\ Status' = "none"
        /\ Catalogue = {} /\ Catalogue' = {}
    BY <1>2, <1>4, <2>1, ShownByOne DEF Shown, Readable, HasManager
  <2> QED BY <2>2 DEF StepOfRegistry, Registry!registryVars
<1>5. CASE ~Readable /\ config.state # "absent"
  <2>1. Status' = "lost" /\ Catalogue' = {}
    BY <1>1, <1>2, <1>5, ShownByOne DEF Shown, Readable
  <2> QED BY <2>1 DEF StepOfRegistry, Registry!Next, Registry!Lose
<1> QED BY <1>3, <1>4, <1>5

LEMMA StartStep ==
  ASSUME Exclusive, TypeOK, Mirror, NEW self \in Proc, Start(self)
  PROVE  StepOfRegistry
<1>1. UNCHANGED storeVars /\ pc[self] = "idle" /\ paths[self] = {}
  BY DEF Start, StartCreate, StartCommand, CreateRepository, Mirror, Mirrors
<1>2. Stored' = Stored
  BY <1>1, StoredSame
<1>3. CASE config' = config /\ pc'[self] = "reading"
  <2>1. Status' = Status /\ Catalogue' = Catalogue
    BY <1>1, <1>3, ShownByOne DEF Shown, Readable, HasManager
  <2> QED BY <1>2, <2>1 DEF StepOfRegistry, Registry!registryVars
<1>4. CASE config.state = "absent" /\ config' = Torn /\ pc'[self] = "creating"
  <2>1. Status' = Status /\ Catalogue' = Catalogue
    BY <1>1, <1>4, ShownByOne DEF Shown, Readable, HasManager, Torn
  <2> QED BY <1>2, <2>1 DEF StepOfRegistry, Registry!registryVars
<1> QED BY <1>3, <1>4
        DEF Start, StartCreate, StartCommand, CreateRepository, EmptyRepository, Goto, TypeOK

LEMMA LoadStep ==
  ASSUME Exclusive, TypeOK, Mirror, NEW self \in Proc, Load(self)
  PROVE  StepOfRegistry
<1>1. UNCHANGED storeVars
  BY DEF Load, WriteNewConfiguration, CreationFails, ReadConfiguration,
         ConfigurationUnreadable, LoadMediaSet, LoadFails, Loaded
<1>2. Stored' = Stored
  BY <1>1, StoredSame
<1>3. CASE WriteNewConfiguration(self)
  <2>1. /\ pc[self] = "creating" /\ config.state = "torn"
        /\ config'.state = "ok" /\ config'.sets = {}
    BY <1>3 DEF WriteNewConfiguration, Written, Mirror, Mirrors
  <2>2. /\ Status = "none" /\ Status' = "open"
        /\ Catalogue = {} /\ Catalogue' = {}
    BY <2>1, ShownByOne DEF Shown, Readable, HasManager
  <2> QED BY <1>2, <2>2 DEF StepOfRegistry, Registry!Next, Registry!Create
<1>4. CASE CreationFails(self) \/ ConfigurationUnreadable(self) \/ LoadFails(self)
  BY <1>2, <1>4, TerminateStep DEF CreationFails, ConfigurationUnreadable, LoadFails
<1>5. CASE \/ ReadConfiguration(self) \/ Loaded(self)
           \/ \E p \in PartNumber : LoadMediaSet(self, p)
  <2>1. Readable /\ config' = config
    BY <1>5 DEF ReadConfiguration, LoadMediaSet, Loaded, Mirror, Mirrors
  <2> QED BY <1>1, <2>1, SteadyUnstored
<1> QED BY <1>3, <1>4, <1>5 DEF Load

LEMMA DecideStep ==
  ASSUME Exclusive, TypeOK, Mirror, NEW self \in Proc, Decide(self)
  PROVE  StepOfRegistry
<1> USE DEF Command
<1>1. Readable /\ config' = config
  <2>1. pc[self] \in {"ready", "saved"} /\ config' = config
    BY DEF Decide, List, RemoveMediaSet, RemoveRefused, ImportMediaSet, ImportRefused,
           ImportMediaSetXml, ImportXmlRefused, NextXmlFile, NoMoreXmlFiles, Throw,
           DeregisterMediaSet
  <2> QED BY <2>1 DEF Mirror, Mirrors
<1>2. CASE ImportMediaSet(self) \/ ImportMediaSetXml(self)
  <2>1. arg[self] \in PartNumber
    BY <1>2 DEF ImportMediaSet, ImportMediaSetXml, TypeOK
  <2>2. CreateNewDirectory(arg[self]) \/ CreateDirectory(arg[self])
    BY <1>2 DEF ImportMediaSet, ImportMediaSetXml
  <2>3. Stored' \in {Stored, Stored \cup {arg[self]}}
    BY <2>1, <2>2, StoredByCreating DEF TypeOK
  <2> QED BY <1>1, <2>1, <2>3, SteadyStep
<1>3. CASE ~(ImportMediaSet(self) \/ ImportMediaSetXml(self))
  <2>1. UNCHANGED storeVars
    BY <1>3 DEF Decide, List, RemoveMediaSet, RemoveRefused, ImportRefused, ImportXmlRefused,
                NextXmlFile, NoMoreXmlFiles, DeregisterMediaSet
  <2> QED BY <1>1, <2>1, SteadyUnstored
<1> QED BY <1>2, <1>3

LEMMA FillStep ==
  ASSUME Exclusive, TypeOK, Mirror, NEW self \in Proc, Fill(self)
  PROVE  StepOfRegistry
<1>1. Readable /\ config' = config
  <2>1. pc[self] \in {"writing", "registering"} /\ config' = config
    BY DEF Fill, WriteMediaFile, WriteTruncates, WriteCollides, WriteFails, WriteDone,
           RegisterMediaSet, RegisterRefused, Throw
  <2> QED BY <2>1 DEF Mirror, Mirrors
<1>2. \/ UNCHANGED storeVars
      \/ \E f \in File : WriteFile(arg[self], f) \/ TearFile(arg[self], f)
  <2>1. NextFiles(self) \subseteq File
    BY DEF NextFiles, TypeOK
  <2> QED BY <2>1 DEF Fill, WriteMediaFile, WriteTruncates, WriteCollides, WriteFails,
                      WriteDone, RegisterMediaSet, RegisterRefused
<1>3. ASSUME NEW f \in File, WriteFile(arg[self], f) \/ TearFile(arg[self], f)
      PROVE  StepOfRegistry
  <2>1. arg[self] \in PartNumber /\ Stored' \in {Stored, Stored \cup {arg[self]}}
    BY <1>3, StoredByWriting DEF TypeOK
  <2> QED BY <1>1, <2>1, SteadyStep
<1> QED BY <1>1, <1>2, <1>3, SteadyUnstored

LEMMA EmptyStep ==
  ASSUME Exclusive, TypeOK, Consistent, Mirror, NEW self \in Proc, Empty(self)
  PROVE  StepOfRegistry
<1>1. Readable /\ config' = config /\ arg[self] \notin config.sets /\ op[self] = "remove"
  BY DEF Empty, EraseMediaFile, EraseMediaSetDirectory, EraseFails, Throw, Consistent,
         ErasingSaved
<1>2. arg[self] \in PartNumber
  BY <1>1 DEF TypeOK
<1>3. \/ UNCHANGED storeVars
      \/ \E f \in File : EraseFile(arg[self], f) \/ EraseDirectory(arg[self])
  <2>1. \E f \in File : TRUE
    BY StoreAssumption DEF File
  <2> QED BY <2>1 DEF Empty, EraseMediaFile, EraseMediaSetDirectory, EraseFails
<1>4. ASSUME NEW f \in File, EraseFile(arg[self], f) \/ EraseDirectory(arg[self])
      PROVE  StepOfRegistry
  <2>1. Stored' \in {Stored, Stored \ {arg[self]}}
    BY <1>4, StoredByErasing DEF TypeOK
  <2> QED BY <1>1, <1>2, <2>1, SteadyStep
<1> QED BY <1>1, <1>3, <1>4, SteadyUnstored

(* Opening the configuration file is what changes the catalogue: from then *)
(* on memory stands in for it.                                             *)
LEMMA OpenStep ==
  ASSUME Exclusive, TypeOK, Consistent, Mirror, NEW self \in Proc,
         NEW from \in {"saving", "closing"}, NEW to \in {"flushing", "closingFlush"},
         OpenConfiguration(self, from, to)
  PROVE  StepOfRegistry
<1>1. /\ pc[self] = from /\ pc'[self] = to /\ config'.state = "torn"
      /\ paths' = paths /\ UNCHANGED storeVars
  BY DEF OpenConfiguration, Goto, Torn, memory, TypeOK
<1>2. /\ Status = "open" /\ Status' = "open" /\ Catalogue' = paths[self]
      /\ Catalogue = IF Readable THEN config.sets ELSE paths[self]
      /\ Stored' = Stored
  BY <1>1, ShownByOne, StoredSame DEF Shown, Readable, HasManager
<1>3. CASE ~Readable \/ paths[self] = config.sets
  BY <1>2, <1>3 DEF StepOfRegistry, Registry!registryVars
<1>4. CASE Readable /\ paths[self] # config.sets
  <2>1. PICK p \in PartNumber : paths[self] \in {config.sets \cup {p}, config.sets \ {p}}
    BY <1>1, <1>4 DEF Mirror, Mirrors
  <2>2. CASE paths[self] = config.sets \cup {p}
    <3>1. p \in Stored
      BY <2>2 DEF Consistent, MemorySound, Sound, Stored
    <3>2. Registry!Register(p)
      BY <1>2, <1>4, <2>2, <3>1 DEF Registry!Register
    <3> QED BY <3>2 DEF StepOfRegistry, Registry!Next
  <2>3. CASE paths[self] = config.sets \ {p}
    <3>1. Registry!Deregister(p)
      BY <1>2, <1>4, <2>3 DEF Registry!Deregister
    <3> QED BY <3>1 DEF StepOfRegistry, Registry!Next
  <2> QED BY <2>1, <2>2, <2>3
<1> QED BY <1>3, <1>4

LEMMA SaveStep ==
  ASSUME Exclusive, TypeOK, Consistent, Mirror, NEW self \in Proc, Save(self)
  PROVE  StepOfRegistry
<1> USE DEF Goto, memory
<1>1. UNCHANGED storeVars /\ Stored' = Stored
  BY StoredSame DEF Save, OpenConfiguration, FlushConfiguration, SaveFails, DestructorOpens,
                    DestructorFlushes, DestructorFails
<1>2. CASE OpenConfiguration(self, "saving", "flushing") \/ DestructorOpens(self)
  BY <1>2, OpenStep DEF DestructorOpens
<1>3. CASE FlushConfiguration(self, "flushing", AfterSave(self)) \/ DestructorFlushes(self)
  <2>1. /\ pc[self] \in {"flushing", "closingFlush"}
        /\ config'.state = "ok" /\ config'.sets = paths[self]
    BY <1>3 DEF FlushConfiguration, DestructorFlushes, Written
  <2>2. config.state = "torn"
    BY <2>1 DEF Mirror, Mirrors
  <2>3. /\ Status = "open" /\ Status' = "open"
        /\ Catalogue = paths[self] /\ Catalogue' = paths[self]
    BY <2>1, <2>2, ShownByOne DEF Shown, Readable, HasManager
  <2> QED BY <1>1, <2>3 DEF StepOfRegistry, Registry!registryVars
<1>4. CASE SaveFails(self, "closing")
  <2>1. /\ pc[self] \in {"saving", "flushing"} /\ pc'[self] = "closing"
        /\ UNCHANGED <<config, paths>>
    BY <1>4 DEF SaveFails, Throw, TypeOK
  <2>2. Status' = Status /\ Catalogue' = Catalogue
    BY <2>1, ShownByOne DEF Shown, Readable, HasManager
  <2> QED BY <1>1, <2>2 DEF StepOfRegistry, Registry!registryVars
<1>5. CASE DestructorFails(self)
  BY <1>1, <1>5, TerminateStep DEF DestructorFails
<1> QED BY <1>2, <1>3, <1>4, <1>5 DEF Save

LEMMA CrashStep ==
  ASSUME Exclusive, TypeOK, Mirror, NEW self \in Proc, Crash(self)
  PROVE  StepOfRegistry
<1>1. Stored' = Stored
  <2>1. ASSUME NEW f \in toWrite[self], TearFile(arg[self], f)
        PROVE  Stored' = Stored
    <3>1. f \in File
      BY DEF TypeOK
    <3> QED BY <2>1, <3>1, StoredByTearing DEF TypeOK
  <2> QED BY <2>1, StoredSame DEF Crash
<1> QED BY <1>1, TerminateStep DEF Crash

(* The repository of the command line programs implements the registry:    *)
(* the catalogue changes durably by one media set at a time, and only to   *)
(* media sets that are stored; files of a registered media set stay; and   *)
(* the catalogue is lost as a whole or not at all.                         *)
THEOREM RegistryImplemented ==
  ASSUME Exclusive
  PROVE  Spec => ImplementsRegistry
<1>1. Init => Registry!Init
  <2> SUFFICES ASSUME Init
               PROVE  Registry!Init
    OBVIOUS
  <2>1. Status = "none"
    BY DEF Init, Absent, Status, HasManager
  <2>2. Catalogue = {}
    BY DEF Init, Absent, Catalogue, Readable, HasManager
  <2>3. Stored = {}
    BY DEF Init, StoreInit, Stored, Complete
  <2> QED BY <2>1, <2>2, <2>3 DEF Registry!Init
<1>2. TypeOK /\ Consistent /\ Mirror /\ [Next]_vars => StepOfRegistry
  <2> SUFFICES ASSUME TypeOK, Consistent, Mirror, [Next]_vars
               PROVE  StepOfRegistry
    OBVIOUS
  <2>1. CASE UNCHANGED vars
    BY <2>1 DEF vars, storeVars, memory, StepOfRegistry, Registry!registryVars, Status,
                Catalogue, Stored, Complete, Readable, HasManager
  <2>2. ASSUME NEW self \in Proc, Start(self) \/ Step(self) \/ Crash(self)
        PROVE  StepOfRegistry
    BY <2>2, StartStep, LoadStep, DecideStep, FillStep, EmptyStep, SaveStep, CrashStep DEF Step
  <2> QED BY <2>1, <2>2 DEF Next
<1>3. TypeOK /\ Consistent /\ Mirror /\ [Next]_vars
        => [Registry!Next]_(Registry!registryVars)
  BY <1>2 DEF StepOfRegistry
<1> QED BY <1>1, <1>3, Typing, Consistency, Mirroring, PTL
        DEF Spec, ImplementsRegistry, Registry!Spec
=============================================================================
