-------------------------- MODULE ManagerCommands --------------------------
(***************************************************************************)
(* The command line programs of the Media Set Manager. Each run of a       *)
(* program carries out one command: create, list (of media sets, loads or  *)
(* batches), import, import of XML descriptions, remove. Whatever a        *)
(* command throws is printed, and then the manager is destroyed.           *)
(***************************************************************************)
EXTENDS MediaSetManager

StartCreate(self) == CreateRepository(self, "create")

StartCommand(self, o, p, c, v) ==
  /\ pc[self] = "idle"
  /\ Goto(self, "reading")
  /\ Request(self, o, p, c, v)
  /\ UNCHANGED <<storeVars, config, memory, work>>

Start(self) ==
  \/ StartCreate(self)
  \/ \E c \in BOOLEAN :
       \/ StartCommand(self, "list", None, c, FALSE)
       \/ \E p \in PartNumber :
            \/ StartCommand(self, "remove", p, c, FALSE)
            \/ \E v \in BOOLEAN, o \in {"import", "importXml"} :
                 StartCommand(self, o, p, c, v)

-----------------------------------------------------------------------------

Command(self, o) == pc[self] = "ready" /\ op[self] = o

(* Prints what the manager holds; create has nothing left to do.           *)
List(self) ==
  /\ Command(self, "list") \/ Command(self, "create")
  /\ Goto(self, "closing")
  /\ UNCHANGED <<storeVars, config, request, memory, work>>

(* Mutant: the files go before the configuration is saved.                 *)
RemoveMediaSetUnsaved(self) ==
  /\ Command(self, "remove")
  /\ DeregisterMediaSet(self, arg[self])
  /\ Goto(self, "erasing")
  /\ UNCHANGED <<request, work>>

(* Removal: out of the memory, out of the configuration, then the files.   *)
RemoveMediaSet(self) ==
  /\ Command(self, "remove")
  /\ DeregisterMediaSet(self, arg[self])
  /\ Goto(self, "saving")
  /\ UNCHANGED <<request, work>>

RemoveRefused(self) ==
  /\ op[self] = "remove"
  /\ arg[self] \notin info[self]
  /\ Throw(self, "ready", "closing")
  /\ UNCHANGED storeVars

(* Import: the source is decompiled first, and a media set that is known   *)
(* or whose directory exists is refused.                                   *)
ImportMediaSet(self) ==
  /\ Command(self, "import")
  /\ SourceDecompiles(arg[self], verify[self])
  /\ arg[self] \notin info[self]
  /\ CreateNewDirectory(arg[self])
  /\ toWrite' = [toWrite EXCEPT ![self] = File]
  /\ Goto(self, "writing")
  /\ UNCHANGED <<config, request, memory, toLoad>>

ImportRefused(self) ==
  /\ op[self] = "import"
  /\ \/ ~SourceDecompiles(arg[self], verify[self])
     \/ arg[self] \in info[self]
     \/ arg[self] \in dir
  /\ Throw(self, "ready", "closing")
  /\ UNCHANGED storeVars

(* Import of an XML description: compiled straight into the repository,    *)
(* without asking whether the media set is known. It is one whose media    *)
(* the compiler can number (see CompilesWhatItCan of MediaSetTransport).   *)
ImportMediaSetXml(self) ==
  /\ Command(self, "importXml")
  /\ CreateDirectory(arg[self])
  /\ toWrite' = [toWrite EXCEPT ![self] = File]
  /\ Goto(self, "writing")
  /\ UNCHANGED <<config, request, memory, toLoad>>

(* The description cannot be read, or a parameter is missing.              *)
ImportXmlRefused(self) ==
  /\ op[self] = "importXml"
  /\ Throw(self, "ready", "closing")
  /\ UNCHANGED storeVars

AfterSave(self) ==
  IF op[self] = "remove" THEN "erasing"
  ELSE IF op[self] = "importXml" THEN "saved"
  ELSE "closing"

(* The command takes any number of XML descriptions, one after the other.  *)
NextXmlFile(self, p) ==
  /\ pc[self] = "saved"
  /\ Goto(self, "ready")
  /\ arg' = [arg EXCEPT ![self] = p]
  /\ UNCHANGED <<storeVars, config, op, check, verify, memory, work>>

NoMoreXmlFiles(self) ==
  /\ pc[self] = "saved"
  /\ Goto(self, "closing")
  /\ UNCHANGED <<storeVars, config, request, memory, work>>

-----------------------------------------------------------------------------

Load(self) ==
  \/ WriteNewConfiguration(self)
  \/ CreationFails(self)
  \/ ReadConfiguration(self)
  \/ ConfigurationUnreadable(self)
  \/ \E p \in PartNumber : LoadMediaSet(self, p)
  \/ LoadFails(self)
  \/ Loaded(self)

Decide(self) ==
  \/ List(self)
  \/ RemoveMediaSet(self)
  \/ RemoveRefused(self)
  \/ ImportMediaSet(self)
  \/ ImportRefused(self)
  \/ ImportMediaSetXml(self)
  \/ ImportXmlRefused(self)
  \/ \E p \in PartNumber : NextXmlFile(self, p)
  \/ NoMoreXmlFiles(self)

Fill(self) ==
  \/ \E f \in File : WriteMediaFile(self, f) \/ WriteTruncates(self, f)
  \/ WriteCollides(self, "closing")
  \/ WriteFails(self, "closing")
  \/ WriteDone(self)
  \/ RegisterMediaSet(self)
  \/ RegisterRefused(self, "closing")

Empty(self) ==
  \/ \E f \in File : EraseMediaFile(self, f)
  \/ EraseMediaSetDirectory(self, "closing")
  \/ EraseFails(self, "closing")

Save(self) ==
  \/ OpenConfiguration(self, "saving", "flushing")
  \/ FlushConfiguration(self, "flushing", AfterSave(self))
  \/ SaveFails(self, "closing")
  \/ DestructorOpens(self)
  \/ DestructorFlushes(self)
  \/ DestructorFails(self)

Step(self) == Load(self) \/ Decide(self) \/ Fill(self) \/ Empty(self) \/ Save(self)

Next == \E self \in Proc : Start(self) \/ Step(self) \/ Crash(self)

(* A program that was started is scheduled until it ends.                  *)
Fairness == \A self \in Proc : WF_vars(Step(self))

Spec == Init /\ [][Next]_vars

FairSpec == Spec /\ Fairness

-----------------------------------------------------------------------------
(* Properties of the commands.                                             *)

(* Files are erased only once the configuration on disk no longer names    *)
(* the media set (RemoveMediaSetCommand saves before it removes).          *)
ErasesOnlyForgotten ==
  \A self \in Proc :
    pc[self] = "erasing" => Readable /\ arg[self] \notin config.sets

(* A listing forgets no media set: the configuration it leaves behind      *)
(* names every complete media set that no other program is working on. Its *)
(* help text says that it lists; but the destructor of the manager writes  *)
(* back what the command has loaded.                                       *)
ListingForgetsNothing ==
  [][\A self \in Proc :
       op[self] = "list" /\ pc[self] = "closingFlush" /\ pc'[self] = "idle" =>
         \A p \in Stored :
           p \in config'.sets \/ \E other \in Proc : arg[other] = p]_vars

(* Every command ends, however its steps fail.                             *)
CommandEnds == \A self \in Proc : pc[self] # "idle" ~> pc[self] = "idle"

=============================================================================
