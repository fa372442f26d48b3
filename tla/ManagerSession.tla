--------------------------- MODULE ManagerSession ---------------------------
(***************************************************************************)
(* The graphical program of the Media Set Manager. A session opens the     *)
(* repository once and then carries out the operations the user asks for,  *)
(* one after the other, on the same manager object, until the window is    *)
(* closed. A failing operation is reported; the session goes on if the     *)
(* operation has caught the exception, and unwinds to the end of the       *)
(* program, through the manager's destructor, if it has not.               *)
(***************************************************************************)
EXTENDS MediaSetManager

(* loadOrCreate on the directory the user chose.                           *)
StartSession(self) ==
  \/ CreateRepository(self, "session")
  \/ /\ pc[self] = "idle"
     /\ ~EmptyRepository
     /\ Goto(self, "reading")
     /\ \E c \in BOOLEAN : Request(self, "session", None, c, FALSE)
     /\ UNCHANGED <<storeVars, config, memory, work>>

Waiting(self) == pc[self] = "ready" /\ op[self] = "session"

Begin(self, o, p, v, loc) ==
  /\ Request(self, o, p, check[self], v)
  /\ Goto(self, loc)

(* Mutant: the files go while the manager still knows the media set.       *)
SessionRemoveRegistered(self, p) ==
  /\ Waiting(self)
  /\ p \in info[self]
  /\ Begin(self, "sessionRemove", p, FALSE, "erasing")
  /\ UNCHANGED <<storeVars, config, memory, work>>

(* Removal: out of the memory, then the files, then the configuration.     *)
SessionRemove(self, p) ==
  /\ Waiting(self)
  /\ DeregisterMediaSet(self, p)
  /\ Begin(self, "sessionRemove", p, FALSE, "erasing")
  /\ UNCHANGED work

(* Import: the source is not decompiled, only its list of files is read.   *)
SessionImport(self, p, v) ==
  /\ Waiting(self)
  /\ p \notin info[self]
  /\ CreateNewDirectory(p)
  /\ toWrite' = [toWrite EXCEPT ![self] = File]
  /\ Begin(self, "sessionImport", p, v, "writing")
  /\ UNCHANGED <<config, memory, toLoad>>

SessionImportXml(self, p, v) ==
  /\ Waiting(self)
  /\ CreateDirectory(p)
  /\ toWrite' = [toWrite EXCEPT ![self] = File]
  /\ Begin(self, "sessionImportXml", p, v, "writing")
  /\ UNCHANGED <<config, memory, toLoad>>

(* Mutant: new settings wait for the next save.                            *)
SessionSettingsUnsaved(self, d) ==
  /\ Waiting(self)
  /\ settings' = [settings EXCEPT ![self] = d]
  /\ Begin(self, "sessionSettings", None, FALSE, "saved")
  /\ UNCHANGED <<storeVars, config, info, paths, work>>

SessionSettings(self, d) ==
  /\ Waiting(self)
  /\ settings' = [settings EXCEPT ![self] = d]
  /\ Begin(self, "sessionSettings", None, FALSE, "saving")
  /\ UNCHANGED <<storeVars, config, info, paths, work>>

(* The operation is over, and the table of media sets is filled again.     *)
SessionFinished(self) ==
  /\ pc[self] = "saved"
  /\ Begin(self, "session", None, FALSE, "ready")
  /\ UNCHANGED <<storeVars, config, memory, work>>

CloseWindow(self) ==
  /\ Waiting(self)
  /\ Goto(self, "closing")
  /\ UNCHANGED <<storeVars, config, request, memory, work>>

(* The import wizards catch every exception around the save as well; the   *)
(* removal saves outside of its try block, and the settings have none.     *)
SaveHandler(self) ==
  IF op[self] \in {"sessionImport", "sessionImportXml"} THEN "saved" ELSE "closing"

-----------------------------------------------------------------------------

Load(self) ==
  \/ WriteNewConfiguration(self)
  \/ CreationFails(self)
  \/ ReadConfiguration(self)
  \/ ConfigurationUnreadable(self)
  \/ \E p \in PartNumber : LoadMediaSet(self, p)
  \/ LoadFails(self)
  \/ Loaded(self)

Fill(self) ==
  \/ \E f \in File : WriteMediaFile(self, f) \/ WriteTruncates(self, f)
  \/ WriteCollides(self, "saved")
  \/ WriteFails(self, "saved")
  \/ WriteDone(self)
  \/ RegisterMediaSet(self)
  \/ RegisterRefused(self, "saved")

(* RemoveMediaSetAction catches Arinc665Exception, which the remover does  *)
(* not throw when a file cannot be deleted.                                *)
Empty(self) ==
  \/ \E f \in File : EraseMediaFile(self, f)
  \/ EraseMediaSetDirectory(self, "saving")
  \/ EraseFails(self, "closing")

Save(self) ==
  \/ OpenConfiguration(self, "saving", "flushing")
  \/ FlushConfiguration(self, "flushing", "saved")
  \/ SaveFails(self, SaveHandler(self))
  \/ DestructorOpens(self)
  \/ DestructorFlushes(self)
  \/ DestructorFails(self)

Step(self) ==
  Load(self) \/ Fill(self) \/ Empty(self) \/ Save(self) \/ SessionFinished(self)

User(self) ==
  \/ StartSession(self)
  \/ \E p \in PartNumber :
       \/ SessionRemove(self, p)
       \/ \E v \in BOOLEAN : SessionImport(self, p, v) \/ SessionImportXml(self, p, v)
  \/ \E d \in Defaults : SessionSettings(self, d)
  \/ CloseWindow(self)

Next == \E self \in Proc : User(self) \/ Step(self) \/ Crash(self)

(* The program goes on while it has something to do; the user need not.    *)
Fairness == \A self \in Proc : WF_vars(Step(self))

Spec == Init /\ [][Next]_vars

FairSpec == Spec /\ Fairness

-----------------------------------------------------------------------------
(* Properties of the sessions.                                             *)

(* A session opened with the integrity check offers only media sets whose  *)
(* files are all there, at any point of any operation: a removal forgets   *)
(* the media set before its first file goes, an import registers it after  *)
(* its last file has come (registerMediaSet, RemoveMediaSetAction::start). *)
CheckedSessionStored ==
  \A self \in Proc :
    HasManager(self) /\ check[self] => \A p \in info[self] : Complete(p)

(* No media set that the decompiler rejects is registered, in memory or in *)
(* the configuration, although the wizard copies before it decompiles.     *)
NothingBrokenRegistered ==
  /\ config.sets \cap Broken = {}
  /\ \A self \in Proc : (info[self] \cup paths[self]) \cap Broken = {}

(* A session that waits for the user shows what a restart would find: the  *)
(* configuration names the media sets in its memory and holds its          *)
(* settings, whatever operations succeeded or were refused before (as long *)
(* as the disk does not fail).                                             *)
WaitingIsSaved ==
  \A self \in Proc :
    Waiting(self) => /\ config = Written(paths[self], settings[self])
                     /\ info[self] = paths[self]

(* The repository opens again: when no program runs, every media set that  *)
(* the configuration names is stored beneath the repository directory and  *)
(* decompiles, so that loading it cannot fail.                             *)
Reopens ==
  Readable /\ (\A self \in Proc : pc[self] = "idle") =>
    \A p \in config.sets : Decompiles(p, FALSE)

(* An operation the user started comes to an end: the session waits for    *)
(* the next one, or the program is over.                                   *)
OperationEnds ==
  \A self \in Proc :
    pc[self] \in {"writing", "registering", "saving", "flushing", "erasing"}
      ~> Waiting(self) \/ pc[self] = "idle"

=============================================================================
