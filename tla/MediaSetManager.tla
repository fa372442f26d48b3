-------------------------- MODULE MediaSetManager --------------------------
(***************************************************************************)
(* The Media Set Manager: the configuration file of a repository, the      *)
(* manager object that each running program keeps in memory, and the steps *)
(* every program takes on them, whatever its user interface.               *)
(*                                                                         *)
(* A program is an element of Proc. It loads the repository, works on its  *)
(* own copy of the catalogue and writes the whole configuration back: when *)
(* an operation asks for it, and once more when the manager is destroyed.  *)
(* Nothing locks the repository.                                           *)
(*                                                                         *)
(* The steps are parameterised by the control locations they lead to;      *)
(* ManagerCommands and ManagerSession say how the command line and the     *)
(* graphical programs string them together.                                *)
(***************************************************************************)
EXTENDS MediaSetStore

CONSTANTS
  Proc,             \* the programs that may run on the repository
  Defaults,         \* values of the media set defaults
  BuiltinDefaults,  \* the value a new configuration starts with
  None,             \* no operation, or no media set
  Crashes,          \* TRUE when a program may be killed at any moment
  DiskErrors        \* TRUE when file-system operations may fail

(* What a program is asked to do, to a media set or to none.               *)
MediaSetOperation ==
  {"import", "importXml", "remove",
   "sessionImport", "sessionImportXml", "sessionRemove"}

ASSUME ManagerAssumption ==
  /\ BuiltinDefaults \in Defaults
  /\ None \notin PartNumber \cup MediaSetOperation
  /\ {Crashes, DiskErrors} \subseteq BOOLEAN

VARIABLES
  config,    \* the configuration file
  pc,        \* where each program is
  op,        \* the operation it carries out
  arg,       \* the media set the operation is about
  check,     \* is the integrity checked when the manager is loaded?
  verify,    \* is the integrity checked when a media set is imported?
  info,      \* mediaSetsInformationV: the media sets by part number
  paths,     \* mediaSetsPathsV: their paths by part number
  settings,  \* mediaSetDefaultsV
  toLoad,    \* configured media sets the constructor has still to load
  toWrite    \* files a copy or a compilation has still to write

request == <<op, arg, check, verify>>
memory == <<info, paths, settings>>
work == <<toLoad, toWrite>>
vars == <<storeVars, config, pc, request, memory, work>>

Location ==
  {"idle", "creating", "reading", "loading", "ready", "writing", "registering",
   "saving", "flushing", "saved", "erasing", "closing", "closingFlush"}

Operation ==
  MediaSetOperation \cup {None, "create", "list", "session", "sessionSettings"}

(* A configuration file is absent, torn (opened for writing and truncated, *)
(* but not yet written) or ok.                                             *)
Absent == [state |-> "absent", sets |-> {}, defaults |-> BuiltinDefaults]
Torn == [state |-> "torn", sets |-> {}, defaults |-> BuiltinDefaults]
Written(S, d) == [state |-> "ok", sets |-> S, defaults |-> d]

Readable == config.state = "ok"

Configuration ==
  [state : {"absent", "torn", "ok"}, sets : SUBSET PartNumber, defaults : Defaults]

TypeOK ==
  /\ StoreTypeOK
  /\ config \in Configuration
  /\ pc \in [Proc -> Location]
  /\ op \in [Proc -> Operation]
  /\ arg \in [Proc -> PartNumber \cup {None}]
  /\ check \in [Proc -> BOOLEAN]
  /\ verify \in [Proc -> BOOLEAN]
  /\ info \in [Proc -> SUBSET PartNumber]
  /\ paths \in [Proc -> SUBSET PartNumber]
  /\ settings \in [Proc -> Defaults]
  /\ toLoad \in [Proc -> SUBSET PartNumber]
  /\ toWrite \in [Proc -> SUBSET File]
  /\ \A self \in Proc : op[self] \in MediaSetOperation => arg[self] \in PartNumber

Init ==
  /\ StoreInit
  /\ config = Absent
  /\ pc = [self \in Proc |-> "idle"]
  /\ op = [self \in Proc |-> None]
  /\ arg = [self \in Proc |-> None]
  /\ check = [self \in Proc |-> FALSE]
  /\ verify = [self \in Proc |-> FALSE]
  /\ info = [self \in Proc |-> {}]
  /\ paths = [self \in Proc |-> {}]
  /\ settings = [self \in Proc |-> BuiltinDefaults]
  /\ toLoad = [self \in Proc |-> {}]
  /\ toWrite = [self \in Proc |-> {}]

-----------------------------------------------------------------------------

Goto(self, loc) == pc' = [pc EXCEPT ![self] = loc]

Request(self, o, p, c, v) ==
  /\ op' = [op EXCEPT ![self] = o]
  /\ arg' = [arg EXCEPT ![self] = p]
  /\ check' = [check EXCEPT ![self] = c]
  /\ verify' = [verify EXCEPT ![self] = v]

(* Mutant: the end of a program leaves its operation behind.               *)
TerminateWithoutReset(self) ==
  /\ Goto(self, "idle")
  /\ Request(self, op[self], None, FALSE, FALSE)
  /\ info' = [info EXCEPT ![self] = {}]
  /\ paths' = [paths EXCEPT ![self] = {}]
  /\ settings' = [settings EXCEPT ![self] = BuiltinDefaults]
  /\ toLoad' = [toLoad EXCEPT ![self] = {}]
  /\ toWrite' = [toWrite EXCEPT ![self] = {}]

(* The program is gone, and everything it held in memory with it.          *)
Terminate(self) ==
  /\ Goto(self, "idle")
  /\ Request(self, None, None, FALSE, FALSE)
  /\ info' = [info EXCEPT ![self] = {}]
  /\ paths' = [paths EXCEPT ![self] = {}]
  /\ settings' = [settings EXCEPT ![self] = BuiltinDefaults]
  /\ toLoad' = [toLoad EXCEPT ![self] = {}]
  /\ toWrite' = [toWrite EXCEPT ![self] = {}]

(* Killed by the user or the system; a file being copied may be left torn. *)
Crash(self) ==
  /\ Crashes
  /\ pc[self] # "idle"
  /\ \/ UNCHANGED storeVars
     \/ /\ pc[self] = "writing"
        /\ \E f \in toWrite[self] : TearFile(arg[self], f)
  /\ Terminate(self)
  /\ UNCHANGED config

(* The step of an operation throws: control moves to its handler.          *)
Throw(self, from, handler) ==
  /\ pc[self] = from
  /\ Goto(self, handler)
  /\ toWrite' = [toWrite EXCEPT ![self] = {}]
  /\ UNCHANGED <<config, request, memory, toLoad>>

-----------------------------------------------------------------------------
(* MediaSetManager::create.                                                *)

(* The directory must be absent or empty. The configuration file is        *)
(* opened, written in a later step, and then loaded without integrity      *)
(* check like any other.                                                   *)
EmptyRepository == config.state = "absent" /\ dir = {}

CreateRepository(self, o) ==
  /\ pc[self] = "idle"
  /\ EmptyRepository
  /\ config' = Torn
  /\ Goto(self, "creating")
  /\ Request(self, o, None, FALSE, FALSE)
  /\ UNCHANGED <<storeVars, memory, work>>

WriteNewConfiguration(self) ==
  /\ pc[self] = "creating"
  /\ config' = Written({}, BuiltinDefaults)
  /\ Goto(self, "reading")
  /\ UNCHANGED <<storeVars, request, memory, work>>

CreationFails(self) ==
  /\ DiskErrors
  /\ pc[self] = "creating"
  /\ Terminate(self)
  /\ UNCHANGED <<storeVars, config>>

-----------------------------------------------------------------------------
(* MediaSetManager::load: the constructor of MediaSetManagerImpl. When it  *)
(* throws there is no manager, hence no destructor that would save.        *)

ReadConfiguration(self) ==
  /\ pc[self] = "reading"
  /\ Readable
  /\ toLoad' = [toLoad EXCEPT ![self] = config.sets]
  /\ settings' = [settings EXCEPT ![self] = config.defaults]
  /\ Goto(self, "loading")
  /\ UNCHANGED <<storeVars, config, request, info, paths, toWrite>>

ConfigurationUnreadable(self) ==
  /\ pc[self] = "reading"
  /\ ~Readable
  /\ Terminate(self)
  /\ UNCHANGED <<storeVars, config>>

(* Mutant: the constructor fills mediaSetsInformationV only.               *)
LoadMediaSetWithoutPaths(self, p) ==
  /\ pc[self] = "loading"
  /\ p \in toLoad[self]
  /\ Decompiles(p, check[self])
  /\ toLoad' = [toLoad EXCEPT ![self] = @ \ {p}]
  /\ info' = [info EXCEPT ![self] = @ \cup {p}]
  /\ UNCHANGED <<storeVars, config, pc, request, paths, settings, toWrite>>

(* Mutant: the loop over the configured media sets does not advance.       *)
LoadMediaSetAgain(self, p) ==
  /\ pc[self] = "loading"
  /\ p \in toLoad[self]
  /\ Decompiles(p, check[self])
  /\ info' = [info EXCEPT ![self] = @ \cup {p}]
  /\ paths' = [paths EXCEPT ![self] = @ \cup {p}]
  /\ UNCHANGED <<storeVars, config, pc, request, settings, work>>

LoadMediaSet(self, p) ==
  /\ pc[self] = "loading"
  /\ p \in toLoad[self]
  /\ Decompiles(p, check[self])
  /\ toLoad' = [toLoad EXCEPT ![self] = @ \ {p}]
  /\ info' = [info EXCEPT ![self] = @ \cup {p}]
  /\ paths' = [paths EXCEPT ![self] = @ \cup {p}]
  /\ UNCHANGED <<storeVars, config, pc, request, settings, toWrite>>

LoadFails(self) ==
  /\ pc[self] = "loading"
  /\ \E p \in toLoad[self] : ~Decompiles(p, check[self])
  /\ Terminate(self)
  /\ UNCHANGED <<storeVars, config>>

Loaded(self) ==
  /\ pc[self] = "loading"
  /\ toLoad[self] = {}
  /\ Goto(self, "ready")
  /\ UNCHANGED <<storeVars, config, request, memory, work>>

-----------------------------------------------------------------------------
(* registerMediaSet, deregisterMediaSet and saveConfiguration.             *)

(* Mutant: registration trusts the copy and does not decompile it.         *)
RegisterMediaSetUnread(self) ==
  /\ pc[self] = "registering"
  /\ arg[self] \notin info[self]
  /\ info' = [info EXCEPT ![self] = @ \cup {arg[self]}]
  /\ paths' = [paths EXCEPT ![self] = @ \cup {arg[self]}]
  /\ Goto(self, "saving")
  /\ UNCHANGED <<storeVars, config, request, settings, work>>

RegisterMediaSet(self) ==
  /\ pc[self] = "registering"
  /\ Decompiles(arg[self], verify[self])
  /\ arg[self] \notin info[self]
  /\ info' = [info EXCEPT ![self] = @ \cup {arg[self]}]
  /\ paths' = [paths EXCEPT ![self] = @ \cup {arg[self]}]
  /\ Goto(self, "saving")
  /\ UNCHANGED <<storeVars, config, request, settings, work>>

(* Mutant: no way out for a media set that does not decompile.             *)
RegisterRefusedKnown(self, handler) ==
  /\ arg[self] \in info[self]
  /\ Throw(self, "registering", handler)
  /\ UNCHANGED storeVars

RegisterRefused(self, handler) ==
  /\ \/ ~Decompiles(arg[self], verify[self])
     \/ arg[self] \in info[self]
  /\ Throw(self, "registering", handler)
  /\ UNCHANGED storeVars

DeregisterMediaSet(self, p) ==
  /\ p \in info[self]
  /\ info' = [info EXCEPT ![self] = @ \ {p}]
  /\ paths' = [paths EXCEPT ![self] = @ \ {p}]
  /\ UNCHANGED <<storeVars, config, settings>>

(* write_json truncates the file when it opens it and writes the new text  *)
(* in a later step. The text is made from mediaSetsPathsV.                 *)
OpenConfiguration(self, from, to) ==
  /\ pc[self] = from
  /\ config' = Torn
  /\ Goto(self, to)
  /\ UNCHANGED <<storeVars, request, memory, work>>

FlushConfiguration(self, from, to) ==
  /\ pc[self] = from
  /\ config' = Written(paths[self], settings[self])
  /\ Goto(self, to)
  /\ UNCHANGED <<storeVars, request, memory, work>>

SaveFails(self, handler) ==
  /\ DiskErrors
  /\ \E from \in {"saving", "flushing"} : Throw(self, from, handler)
  /\ UNCHANGED storeVars

(* The destructor saves once more, whatever the program was started for,   *)
(* and swallows the failure to do so.                                      *)
DestructorOpens(self) == OpenConfiguration(self, "closing", "closingFlush")

DestructorFlushes(self) ==
  /\ pc[self] = "closingFlush"
  /\ config' = Written(paths[self], settings[self])
  /\ Terminate(self)
  /\ UNCHANGED storeVars

DestructorFails(self) ==
  /\ DiskErrors
  /\ pc[self] \in {"closing", "closingFlush"}
  /\ Terminate(self)
  /\ UNCHANGED <<storeVars, config>>

-----------------------------------------------------------------------------
(* Filling a media set directory, by the copier or by the compiler.        *)

Compiling(self) == op[self] \in {"importXml", "sessionImportXml"}

(* The copier lists the source directories in any order; the compiler      *)
(* writes the list files after the files they describe.                    *)
NextFiles(self) ==
  IF Compiling(self) /\ toWrite[self] \cap DataFile # {}
    THEN toWrite[self] \cap DataFile
    ELSE toWrite[self]

WriteMediaFile(self, f) ==
  /\ pc[self] = "writing"
  /\ f \in NextFiles(self)
  /\ WriteFile(arg[self], f)
  /\ toWrite' = [toWrite EXCEPT ![self] = @ \ {f}]
  /\ UNCHANGED <<config, pc, request, memory, toLoad>>

WriteCollides(self, handler) ==
  /\ \E f \in NextFiles(self) : ~Writable(arg[self], f)
  /\ Throw(self, "writing", handler)
  /\ UNCHANGED storeVars

WriteFails(self, handler) ==
  /\ DiskErrors
  /\ \E f \in NextFiles(self) : UNCHANGED storeVars \/ TearFile(arg[self], f)
  /\ Throw(self, "writing", handler)

(* The compiler does not look at the stream after it has written a list    *)
(* file: a full disk truncates the file, and the compilation goes on.      *)
WriteTruncates(self, f) ==
  /\ DiskErrors
  /\ pc[self] = "writing"
  /\ Compiling(self)
  /\ f \in NextFiles(self) \cap ListFile
  /\ TearFile(arg[self], f)
  /\ toWrite' = [toWrite EXCEPT ![self] = @ \ {f}]
  /\ UNCHANGED <<config, pc, request, memory, toLoad>>

WriteDone(self) ==
  /\ pc[self] = "writing"
  /\ toWrite[self] = {}
  /\ Goto(self, "registering")
  /\ UNCHANGED <<storeVars, config, request, memory, work>>

(* Emptying one, by the remover. A failure surfaces as the exception of    *)
(* the file-system library.                                                *)
EraseMediaFile(self, f) ==
  /\ pc[self] = "erasing"
  /\ EraseFile(arg[self], f)
  /\ UNCHANGED <<config, pc, request, memory, work>>

EraseMediaSetDirectory(self, to) ==
  /\ pc[self] = "erasing"
  /\ EraseDirectory(arg[self])
  /\ Goto(self, to)
  /\ UNCHANGED <<config, request, memory, work>>

EraseFails(self, handler) ==
  /\ DiskErrors
  /\ Throw(self, "erasing", handler)
  /\ UNCHANGED storeVars

-----------------------------------------------------------------------------
(* What the repository looks like from outside.                            *)

(* The program has a manager object.                                       *)
HasManager(self) ==
  pc[self] \notin {"idle", "creating", "reading", "loading"}

(* While a manager rewrites the configuration, its memory stands for it.   *)
Catalogue ==
  IF Readable THEN config.sets
              ELSE UNION {paths[self] : self \in {q \in Proc : HasManager(q)}}

Status ==
  IF config.state = "ok" \/ \E self \in Proc : HasManager(self)
    THEN "open"
  ELSE IF config.state = "absent" \/ \E self \in Proc : pc[self] = "creating"
    THEN "none"
  ELSE "lost"

Stored == {p \in PartNumber : Complete(p)}

Registry == INSTANCE MediaSetRegistry
  WITH status <- Status, catalogue <- Catalogue, stored <- Stored

(* No program works on p, knows it or finds it in the configuration, but   *)
(* some of its files are there: what an interrupted import or removal      *)
(* leaves behind.                                                          *)
Orphan(p) ==
  /\ Occupied(p)
  /\ p \notin config.sets
  /\ \A self \in Proc :
       /\ p \notin paths[self]
       /\ arg[self] = p =>
            pc[self] \in {"idle", "reading", "loading", "ready", "closing", "closingFlush"}

-----------------------------------------------------------------------------
(* Properties of the repository.                                           *)

(* Every media set named by a readable configuration is in the repository  *)
(* with all of its files, and opens without integrity check: the order of  *)
(* file and configuration updates in the import and remove operations.     *)
CatalogueStored ==
  Readable => \A p \in config.sets : Complete(p) /\ Decompiles(p, FALSE)

(* No step alters the files of a media set that a readable configuration   *)
(* names, not even an import of the same part number over it.              *)
RegisteredFilesUntouched ==
  [][\A p \in config.sets : Readable => file'[p] = file[p]]_vars

(* A media set directory left behind by an interrupted operation is never  *)
(* adopted: no later import of that media set succeeds. Copier and         *)
(* compiler refuse what is there, and nothing removes it.                  *)
OrphanNeverAdopted ==
  \A p \in PartNumber : [](Orphan(p) => [](p \notin config.sets))

(* The repository implements the registry: each durable change of the      *)
(* catalogue is the registration or deregistration of one media set.       *)
ImplementsRegistry == Registry!Spec

=============================================================================
