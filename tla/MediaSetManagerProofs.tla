----------------------- MODULE MediaSetManagerProofs -----------------------
(***************************************************************************)
(* Lemmas about the steps every program takes on the repository, for any   *)
(* number of programs, media sets and files. The theorems about the        *)
(* command line and the graphical programs cite them.                      *)
(***************************************************************************)
EXTENDS MediaSetManager, TLAPS

USE DEF Content, Location, Operation, MediaSetOperation, Configuration

(* The initial state is well typed.                                        *)
LEMMA InitTyping == Init => TypeOK
BY StoreAssumption, ManagerAssumption
DEF Init, StoreInit, TypeOK, StoreTypeOK, Absent

(* The file-system steps keep the directories well typed.                  *)
LEMMA StoreTyping ==
  ASSUME StoreTypeOK, NEW p \in PartNumber, NEW f \in File,
         \/ CreateNewDirectory(p) \/ CreateDirectory(p)
         \/ WriteFile(p, f) \/ TearFile(p, f)
         \/ EraseFile(p, f) \/ EraseDirectory(p)
  PROVE  StoreTypeOK'
BY DEF StoreTypeOK, CreateNewDirectory, CreateDirectory, WriteFile, TearFile,
       EraseFile, EraseDirectory

(* A directory that exists, or a file in it, belongs to a media set: the   *)
(* argument of a step on it is a part number.                              *)
LEMMA WriteArgument ==
  ASSUME StoreTypeOK, NEW p, NEW f,
         WriteFile(p, f) \/ TearFile(p, f) \/ EraseFile(p, f)
  PROVE  p \in PartNumber
BY DEF StoreTypeOK, WriteFile, TearFile, EraseFile, Writable

(* A program that ends, for whatever reason, leaves typed state behind.    *)
LEMMA TerminateTyping ==
  ASSUME TypeOK, NEW self \in Proc, Terminate(self),
         StoreTypeOK', config' \in Configuration
  PROVE  TypeOK'
BY ManagerAssumption DEF TypeOK, Terminate, Goto, Request

(* So does an operation that throws.                                       *)
LEMMA ThrowTyping ==
  ASSUME TypeOK, NEW self \in Proc, NEW from, NEW handler \in Location,
         Throw(self, from, handler), StoreTypeOK'
  PROVE  TypeOK'
BY DEF TypeOK, Throw, Goto, request, memory

(* Creating a repository and loading a manager.                            *)
LEMMA CreateTyping ==
  ASSUME TypeOK, NEW self \in Proc, NEW o \in {"create", "session"}, CreateRepository(self, o)
  PROVE  TypeOK'
BY ManagerAssumption
DEF TypeOK, CreateRepository, Goto, Request, StoreTypeOK, storeVars, memory, work, Torn

LEMMA LoadTyping ==
  ASSUME TypeOK, NEW self \in Proc,
         \/ WriteNewConfiguration(self) \/ CreationFails(self)
         \/ ReadConfiguration(self) \/ ConfigurationUnreadable(self)
         \/ \E p \in PartNumber : LoadMediaSet(self, p)
         \/ LoadFails(self) \/ Loaded(self)
  PROVE  TypeOK'
<1> USE DEF storeVars, request, memory, work
<1>1. CASE WriteNewConfiguration(self)
  BY <1>1, ManagerAssumption DEF WriteNewConfiguration, TypeOK, StoreTypeOK, Goto, Written
<1>2. CASE CreationFails(self) \/ ConfigurationUnreadable(self) \/ LoadFails(self)
  <2>1. Terminate(self) /\ UNCHANGED <<storeVars, config>>
    BY <1>2 DEF CreationFails, ConfigurationUnreadable, LoadFails
  <2>2. StoreTypeOK' /\ config' \in Configuration
    BY <2>1 DEF TypeOK, StoreTypeOK
  <2> QED BY <2>1, <2>2, TerminateTyping
<1>3. CASE ReadConfiguration(self)
  BY <1>3 DEF ReadConfiguration, TypeOK, StoreTypeOK, Goto
<1>4. ASSUME NEW p \in PartNumber, LoadMediaSet(self, p)
      PROVE  TypeOK'
  BY <1>4 DEF LoadMediaSet, TypeOK, StoreTypeOK
<1>5. CASE Loaded(self)
  BY <1>5 DEF Loaded, TypeOK, StoreTypeOK, Goto
<1> QED BY <1>1, <1>2, <1>3, <1>4, <1>5

(* Filling and emptying the directory of a media set.                      *)
LEMMA FillTyping ==
  ASSUME TypeOK, NEW self \in Proc, NEW handler \in Location,
         \/ \E f \in File : WriteMediaFile(self, f) \/ WriteTruncates(self, f)
         \/ WriteCollides(self, handler) \/ WriteFails(self, handler)
         \/ WriteDone(self)
         \/ RegisterMediaSet(self) \/ RegisterRefused(self, handler)
  PROVE  TypeOK'
<1> USE DEF storeVars, request, memory, work
<1>1. ASSUME NEW f \in File, WriteMediaFile(self, f) \/ WriteTruncates(self, f)
      PROVE  TypeOK'
  <2>1. WriteFile(arg[self], f) \/ TearFile(arg[self], f)
    BY <1>1 DEF WriteMediaFile, WriteTruncates
  <2>2. StoreTypeOK'
    BY <2>1, WriteArgument, StoreTyping DEF TypeOK
  <2> QED BY <1>1, <2>2 DEF WriteMediaFile, WriteTruncates, TypeOK
<1>2. CASE WriteCollides(self, handler) \/ RegisterRefused(self, handler)
  <2>1. StoreTypeOK'
    BY <1>2 DEF WriteCollides, RegisterRefused, TypeOK, StoreTypeOK
  <2> QED BY <1>2, <2>1, ThrowTyping DEF WriteCollides, RegisterRefused
<1>3. CASE WriteFails(self, handler)
  <2>1. PICK f \in NextFiles(self) : UNCHANGED storeVars \/ TearFile(arg[self], f)
    BY <1>3 DEF WriteFails
  <2>2. f \in File
    BY <2>1 DEF NextFiles, TypeOK
  <2>3. StoreTypeOK'
    <3>1. CASE UNCHANGED storeVars
      BY <3>1 DEF TypeOK, StoreTypeOK
    <3>2. CASE TearFile(arg[self], f)
      BY <3>2, <2>2, WriteArgument, StoreTyping DEF TypeOK
    <3> QED BY <2>1, <3>1, <3>2
  <2> QED BY <1>3, <2>3, ThrowTyping DEF WriteFails
<1>4. CASE WriteDone(self)
  BY <1>4 DEF WriteDone, TypeOK, StoreTypeOK, Goto
<1>5. CASE RegisterMediaSet(self)
  <2>1. arg[self] \in PartNumber
    BY <1>5 DEF RegisterMediaSet, Decompiles, ListFilesDecode, FilesIntact, TypeOK, StoreTypeOK
  <2> QED BY <1>5, <2>1 DEF RegisterMediaSet, TypeOK, StoreTypeOK, Goto
<1> QED BY <1>1, <1>2, <1>3, <1>4, <1>5

LEMMA EmptyTyping ==
  ASSUME TypeOK, NEW self \in Proc, NEW to \in Location, NEW handler \in Location,
         \/ \E f \in File : EraseMediaFile(self, f)
         \/ EraseMediaSetDirectory(self, to) \/ EraseFails(self, handler)
  PROVE  TypeOK'
<1> USE DEF storeVars, request, memory, work
<1>1. ASSUME NEW f \in File, EraseMediaFile(self, f)
      PROVE  TypeOK'
  <2>1. StoreTypeOK'
    BY <1>1, WriteArgument, StoreTyping DEF EraseMediaFile, TypeOK
  <2> QED BY <1>1, <2>1 DEF EraseMediaFile, TypeOK
<1>2. CASE EraseMediaSetDirectory(self, to)
  BY <1>2 DEF EraseMediaSetDirectory, EraseDirectory, TypeOK, StoreTypeOK, Goto
<1>3. CASE EraseFails(self, handler)
  <2>1. StoreTypeOK'
    BY <1>3 DEF EraseFails, TypeOK, StoreTypeOK
  <2> QED BY <1>3, <2>1, ThrowTyping DEF EraseFails
<1> QED BY <1>1, <1>2, <1>3

(* Saving the configuration, on request or in the destructor.              *)
LEMMA SaveTyping ==
  ASSUME TypeOK, NEW self \in Proc, NEW to \in Location, NEW handler \in Location,
         \/ OpenConfiguration(self, "saving", "flushing")
         \/ FlushConfiguration(self, "flushing", to)
         \/ SaveFails(self, handler)
         \/ DestructorOpens(self) \/ DestructorFlushes(self) \/ DestructorFails(self)
  PROVE  TypeOK'
<1> USE DEF storeVars, request, memory, work
<1>1. ASSUME NEW from, NEW loc \in Location, OpenConfiguration(self, from, loc)
      PROVE  TypeOK'
  BY <1>1, ManagerAssumption DEF OpenConfiguration, TypeOK, StoreTypeOK, Goto, Torn
<1>2. CASE FlushConfiguration(self, "flushing", to)
  BY <1>2 DEF FlushConfiguration, TypeOK, StoreTypeOK, Goto, Written
<1>3. CASE SaveFails(self, handler)
  <2>1. StoreTypeOK'
    BY <1>3 DEF SaveFails, TypeOK, StoreTypeOK
  <2> QED BY <1>3, <2>1, ThrowTyping DEF SaveFails
<1>4. CASE DestructorFlushes(self) \/ DestructorFails(self)
  <2>1. StoreTypeOK' /\ config' \in Configuration
    BY <1>4 DEF DestructorFlushes, DestructorFails, TypeOK, StoreTypeOK, Written
  <2> QED BY <1>4, <2>1, TerminateTyping DEF DestructorFlushes, DestructorFails
<1> QED BY <1>1, <1>2, <1>3, <1>4 DEF DestructorOpens

(* A program killed at any moment.                                         *)
LEMMA CrashTyping ==
  ASSUME TypeOK, NEW self \in Proc, Crash(self)
  PROVE  TypeOK'
<1>1. StoreTypeOK'
  <2>1. CASE UNCHANGED storeVars
    BY <2>1 DEF TypeOK, StoreTypeOK, storeVars
  <2>2. ASSUME NEW f \in toWrite[self], TearFile(arg[self], f)
        PROVE  StoreTypeOK'
    <3>1. f \in File
      BY DEF TypeOK
    <3> QED BY <2>2, <3>1, WriteArgument, StoreTyping DEF TypeOK
  <2> QED BY <2>1, <2>2 DEF Crash
<1>2. config' \in Configuration
  BY DEF Crash, TypeOK
<1> QED BY <1>1, <1>2, TerminateTyping DEF Crash

-----------------------------------------------------------------------------
(* The steps on the directories, and what becomes of complete media sets.  *)

(* Filling any directory keeps every complete media set: no file of it is  *)
(* missing, so none can be written.                                        *)
LEMMA FillKeepsComplete ==
  ASSUME StoreTypeOK, NEW p \in PartNumber, NEW f \in File,
         WriteFile(p, f) \/ TearFile(p, f),
         NEW q \in PartNumber, Complete(q)
  PROVE  Complete(q)' /\ file'[q] = file[q]
<1>1. \A g \in File : file'[q][g] = file[q][g]
  BY DEF StoreTypeOK, WriteFile, TearFile, Writable, Complete
<1>2. file' \in [PartNumber -> [File -> Content]]
  BY DEF StoreTypeOK, WriteFile, TearFile
<1>3. file'[q] = file[q]
  BY <1>1, <1>2 DEF StoreTypeOK
<1> QED BY <1>1, <1>3 DEF Complete, WriteFile, TearFile

(* Emptying a directory keeps the media sets in the others.                *)
LEMMA EmptyKeepsComplete ==
  ASSUME StoreTypeOK, NEW p, NEW f \in File, EraseFile(p, f) \/ EraseDirectory(p),
         NEW q \in PartNumber, q # p, Complete(q)
  PROVE  Complete(q)' /\ file'[q] = file[q]
BY DEF StoreTypeOK, EraseFile, EraseDirectory, Complete

-----------------------------------------------------------------------------

(* One program at a time: there are other programs, one after the other,   *)
(* as an ended program may be started again, but no two at once.           *)
Exclusive == \A self, other \in Proc : self = other

-----------------------------------------------------------------------------
(* What an interrupted operation leaves behind.                            *)

(* A media set directory that holds some file, but that no manager and no  *)
(* configuration knows. A program may be compiling into it, but then it    *)
(* has still to write a file that is there already.                        *)
Stuck(p) ==
  /\ Occupied(p)
  /\ p \notin config.sets
  /\ \A self \in Proc :
       /\ p \notin paths[self]
       /\ arg[self] = p =>
            /\ pc[self] \notin {"registering", "saving", "flushing", "erasing"}
            /\ pc[self] = "writing" => \E f \in toWrite[self] : file[p][f] # "missing"

LEMMA OrphanStuck ==
  ASSUME NEW p, Orphan(p)
  PROVE  Stuck(p)
BY DEF Orphan, Stuck

(* A step after which no operation on p is under way.                      *)
LEMMA StuckKept ==
  ASSUME Exclusive, NEW p \in PartNumber, Stuck(p), NEW self \in Proc,
         Occupied(p)', config' = config \/ config'.sets \in {{}, paths[self]},
         p \notin paths'[self],
         arg'[self] = p =>
           pc'[self] \notin {"writing", "registering", "saving", "flushing", "erasing"}
  PROVE  Stuck(p)'
<1>1. p \notin config'.sets
  BY DEF Stuck
<1> QED BY <1>1 DEF Exclusive, Stuck

LEMMA TerminateStuck ==
  ASSUME Exclusive, TypeOK, NEW p \in PartNumber, Stuck(p), NEW self \in Proc, Terminate(self),
         Occupied(p)', config' = config \/ config'.sets \in {{}, paths[self]}
  PROVE  Stuck(p)'
<1>1. paths'[self] = {} /\ pc'[self] = "idle"
  BY DEF Terminate, Goto, TypeOK
<1> QED BY <1>1, StuckKept

LEMMA ThrowStuck ==
  ASSUME Exclusive, TypeOK, NEW p \in PartNumber, Stuck(p), NEW self \in Proc, NEW from,
         NEW handler \in {"closing", "saved"}, Throw(self, from, handler), Occupied(p)'
  PROVE  Stuck(p)'
<1>1. config' = config /\ paths' = paths /\ pc'[self] = handler
  BY DEF Throw, Goto, memory, TypeOK
<1>2. p \notin paths'[self]
  BY <1>1 DEF Stuck
<1> QED BY <1>1, <1>2, StuckKept

(* A manager loads only what the configuration names. *)
LEMMA LoadStuck ==
  ASSUME Exclusive, TypeOK, NEW p \in PartNumber, Stuck(p), NEW self \in Proc,
         pc[self] = "loading" => toLoad[self] \subseteq config.sets,
         \/ WriteNewConfiguration(self) \/ CreationFails(self)
         \/ ReadConfiguration(self) \/ ConfigurationUnreadable(self)
         \/ \E q \in PartNumber : LoadMediaSet(self, q)
         \/ LoadFails(self) \/ Loaded(self)
  PROVE  Stuck(p)'
<1> USE DEF Goto, memory
<1>1. UNCHANGED storeVars /\ Occupied(p)'
  BY DEF WriteNewConfiguration, CreationFails, ReadConfiguration, ConfigurationUnreadable,
         LoadMediaSet, LoadFails, Loaded, storeVars, Stuck, Occupied
<1>2. CASE CreationFails(self) \/ ConfigurationUnreadable(self) \/ LoadFails(self)
  <2>1. Terminate(self) /\ config' = config
    BY <1>2 DEF CreationFails, ConfigurationUnreadable, LoadFails
  <2> QED BY <1>1, <2>1, TerminateStuck
<1>3. CASE WriteNewConfiguration(self) \/ ReadConfiguration(self) \/ Loaded(self)
  <2>1. /\ paths' = paths
        /\ pc'[self] \in {"reading", "loading", "ready"}
        /\ config' = config \/ config'.sets = {}
    BY <1>3 DEF WriteNewConfiguration, ReadConfiguration, Loaded, Written, TypeOK
  <2>2. p \notin paths'[self]
    BY <2>1 DEF Stuck
  <2> QED BY <1>1, <2>1, <2>2, StuckKept
<1>4. ASSUME NEW q \in PartNumber, LoadMediaSet(self, q)
      PROVE  Stuck(p)'
  <2>1. q # p
    BY <1>4 DEF LoadMediaSet, Stuck
  <2>2. /\ paths'[self] = paths[self] \cup {q} /\ pc'[self] = "loading" /\ config' = config
    BY <1>4 DEF LoadMediaSet, TypeOK
  <2>3. p \notin paths'[self]
    BY <2>1, <2>2 DEF Stuck
  <2> QED BY <1>1, <2>2, <2>3, StuckKept
<1> QED BY <1>2, <1>3, <1>4

(* Nothing is written over a file that is there, so the compilation that   *)
(* meets one does not end well.                                            *)
LEMMA FillStuck ==
  ASSUME Exclusive, TypeOK, NEW p \in PartNumber, Stuck(p), NEW self \in Proc,
         NEW handler \in {"closing", "saved"},
         \/ \E f \in File : WriteMediaFile(self, f) \/ WriteTruncates(self, f)
         \/ WriteCollides(self, handler) \/ WriteFails(self, handler)
         \/ WriteDone(self)
         \/ RegisterMediaSet(self) \/ RegisterRefused(self, handler)
  PROVE  Stuck(p)'
<1> USE DEF Goto, memory, request
<1>1. Occupied(p)'
  <2>1. NextFiles(self) \subseteq File
    BY DEF NextFiles, TypeOK
  <2>2. \/ UNCHANGED storeVars
        \/ \E f \in File : WriteFile(arg[self], f) \/ TearFile(arg[self], f)
    BY <2>1 DEF WriteMediaFile, WriteTruncates, WriteCollides, WriteFails, WriteDone,
                RegisterMediaSet, RegisterRefused
  <2>3. ASSUME NEW f \in File, WriteFile(arg[self], f) \/ TearFile(arg[self], f)
        PROVE  Occupied(p)'
    BY <2>3, WriteArgument DEF WriteFile, TearFile, Occupied, Stuck, TypeOK, StoreTypeOK
  <2> QED BY <2>2, <2>3 DEF storeVars, Stuck, Occupied
<1>2. ASSUME NEW f \in File, WriteMediaFile(self, f) \/ WriteTruncates(self, f)
      PROVE  Stuck(p)'
  <2>1. /\ pc[self] = "writing" /\ file[arg[self]][f] = "missing"
        /\ WriteFile(arg[self], f) \/ TearFile(arg[self], f)
        /\ toWrite'[self] = toWrite[self] \ {f}
        /\ UNCHANGED <<config, pc, arg, paths>>
    BY <1>2 DEF WriteMediaFile, WriteTruncates, WriteFile, TearFile, Writable, TypeOK
  <2>2. ASSUME arg[self] = p
        PROVE  \E g \in toWrite'[self] : file'[p][g] # "missing"
    <3>1. PICK g \in toWrite[self] : file[p][g] # "missing"
      BY <2>1, <2>2 DEF Stuck
    <3>2. g # f /\ g \in File
      BY <2>1, <2>2, <3>1 DEF TypeOK
    <3>3. file'[p][g] = file[p][g]
      BY <2>1, <2>2, <3>2 DEF WriteFile, TearFile, TypeOK, StoreTypeOK
    <3> QED BY <2>1, <3>1, <3>2, <3>3
  <2> QED BY <1>1, <2>1, <2>2 DEF Exclusive, Stuck
<1>3. CASE WriteCollides(self, handler) \/ WriteFails(self, handler)
           \/ RegisterRefused(self, handler)
  <2>1. PICK from : Throw(self, from, handler)
    BY <1>3 DEF WriteCollides, WriteFails, RegisterRefused
  <2> QED BY <1>1, <2>1, ThrowStuck
<1>4. CASE WriteDone(self)
  <2>1. arg[self] # p
    BY <1>4 DEF WriteDone, Stuck
  <2>2. arg' = arg /\ paths' = paths /\ config' = config
    BY <1>4 DEF WriteDone
  <2>3. p \notin paths'[self]
    BY <2>2 DEF Stuck
  <2> QED BY <1>1, <2>1, <2>2, <2>3, StuckKept
<1>5. CASE RegisterMediaSet(self)
  <2>1. arg[self] # p
    BY <1>5 DEF RegisterMediaSet, Stuck
  <2>2. arg' = arg /\ paths'[self] = paths[self] \cup {arg[self]} /\ config' = config
    BY <1>5 DEF RegisterMediaSet, TypeOK
  <2>3. p \notin paths'[self]
    BY <2>1, <2>2 DEF Stuck
  <2> QED BY <1>1, <2>1, <2>2, <2>3, StuckKept
<1> QED BY <1>2, <1>3, <1>4, <1>5

(* A removal erases another directory. *)
LEMMA EmptyStuck ==
  ASSUME Exclusive, TypeOK, NEW p \in PartNumber, Stuck(p), NEW self \in Proc,
         NEW to \in {"closing", "saving"},
         \/ \E f \in File : EraseMediaFile(self, f)
         \/ EraseMediaSetDirectory(self, to) \/ EraseFails(self, "closing")
  PROVE  Stuck(p)'
<1> USE DEF memory, request
<1>1. arg[self] # p
  BY DEF EraseMediaFile, EraseMediaSetDirectory, EraseFails, Throw, Stuck
<1>2. Occupied(p)'
  BY <1>1 DEF EraseMediaFile, EraseMediaSetDirectory, EraseFails, EraseFile, EraseDirectory,
              storeVars, Occupied, Stuck, TypeOK, StoreTypeOK
<1>3. arg' = arg /\ paths' = paths /\ config' = config
  BY DEF EraseMediaFile, EraseMediaSetDirectory, EraseFails, Throw
<1>4. p \notin paths'[self]
  BY <1>3 DEF Stuck
<1> QED BY <1>1, <1>2, <1>3, <1>4, StuckKept

LEMMA SaveStuck ==
  ASSUME Exclusive, TypeOK, NEW p \in PartNumber, Stuck(p), NEW self \in Proc,
         NEW to, NEW handler \in {"closing", "saved"},
         \/ OpenConfiguration(self, "saving", "flushing")
         \/ FlushConfiguration(self, "flushing", to)
         \/ SaveFails(self, handler)
         \/ DestructorOpens(self) \/ DestructorFlushes(self) \/ DestructorFails(self)
  PROVE  Stuck(p)'
<1> USE DEF memory, request
<1>1. Occupied(p)'
  BY DEF OpenConfiguration, FlushConfiguration, SaveFails, DestructorOpens,
         DestructorFlushes, DestructorFails, storeVars, Stuck, Occupied
<1>2. config' = config \/ config'.sets \in {{}, paths[self]}
  BY DEF OpenConfiguration, FlushConfiguration, SaveFails, DestructorOpens,
         DestructorFlushes, DestructorFails, Throw, Torn, Written
<1>3. CASE DestructorFlushes(self) \/ DestructorFails(self)
  BY <1>1, <1>2, <1>3, TerminateStuck DEF DestructorFlushes, DestructorFails
<1>4. CASE SaveFails(self, handler)
  BY <1>1, <1>4, ThrowStuck DEF SaveFails
<1>5. CASE OpenConfiguration(self, "saving", "flushing") \/ FlushConfiguration(self, "flushing", to)
  <2>1. arg[self] # p /\ arg' = arg /\ paths' = paths
    BY <1>5 DEF OpenConfiguration, FlushConfiguration, Stuck
  <2>2. p \notin paths'[self]
    BY <2>1 DEF Stuck
  <2> QED BY <1>1, <1>2, <2>1, <2>2, StuckKept
<1>6. CASE DestructorOpens(self)
  <2>1. paths' = paths /\ pc'[self] = "closingFlush"
    BY <1>6 DEF DestructorOpens, OpenConfiguration, Goto, TypeOK
  <2>2. p \notin paths'[self]
    BY <2>1 DEF Stuck
  <2> QED BY <1>1, <1>2, <2>1, <2>2, StuckKept
<1> QED BY <1>3, <1>4, <1>5, <1>6

LEMMA CrashStuck ==
  ASSUME Exclusive, TypeOK, NEW p \in PartNumber, Stuck(p), NEW self \in Proc, Crash(self)
  PROVE  Stuck(p)'
<1>1. Occupied(p)'
  <2>1. ASSUME NEW f \in toWrite[self], TearFile(arg[self], f)
        PROVE  Occupied(p)'
    <3>1. f \in File
      BY DEF TypeOK
    <3> QED BY <2>1, <3>1, WriteArgument DEF TearFile, Occupied, Stuck, TypeOK, StoreTypeOK
  <2> QED BY <2>1 DEF Crash, storeVars, Occupied, Stuck
<1> QED BY <1>1, TerminateStuck DEF Crash

=============================================================================
