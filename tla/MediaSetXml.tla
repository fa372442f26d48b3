----------------------------- MODULE MediaSetXml -----------------------------
(***************************************************************************)
(* The XML description of a media set: written by Arinc665XmlSaveImpl,     *)
(* perhaps edited by hand, and read by Arinc665XmlLoadImpl. The nesting of *)
(* the elements is kept, the order of the elements within an element is    *)
(* left open: readers get documents with any order. Part numbers, target   *)
(* hardware and comments stand in the identity of the element.             *)
(***************************************************************************)
EXTENDS MediaModel

CONSTANTS
  Described,   \* bound: the media sets that are saved
  Reserved,    \* names that no addition takes: "." and ".."
  LoadType,    \* types of loads
  Unnamed,     \* the one among them whose description is empty
  SourcePath,  \* where the content of files comes from
  MaxEdits     \* bound: how many edits are made by hand

Ordinary(ms) == \A e \in Entity : InSet(ms, e) => ms.name[e] \notin Reserved

ASSUME XmlAssumption ==
  /\ Described \subseteq MediaSetType /\ Reserved \subseteq Name
  /\ \A ms \in Described : Proper(ms) /\ OutsidersBare(ms) /\ Ordinary(ms)
  /\ Unnamed \in LoadType /\ NoValue \notin LoadType \cup SourcePath
  /\ MaxEdits \in Nat

VARIABLES
  set, types, paths,             \* what is saved: media set, types of its
                                 \*   loads, source paths of its files
  document,                      \* the XML file
  edits,                         \* the edits made to it
  status,                        \* where the loader stands
  todo,                          \* elements not yet visited
  deferred,                      \* elements of loads and batches not yet linked
  loaded, loadedTypes, loadedPaths   \* what has been loaded so far

source == <<set, types, paths>>
result == <<loaded, loadedTypes, loadedPaths>>
vars == <<source, document, edits, status, todo, deferred, result>>

NoDocument == [elements |-> {}]

Init ==
  /\ set \in Described
  /\ types \in [RecursiveLoads(set) -> Optional(LoadType)]
  /\ paths \in UNION {[S -> SourcePath] : S \in {{}, Files(set)}}
  /\ document = NoDocument
  /\ edits = {}
  /\ status = "new"
  /\ todo = {} /\ deferred = {}
  /\ loaded = EmptyMediaSet /\ loadedTypes = <<>> /\ loadedPaths = <<>>

-----------------------------------------------------------------------------
(* Save. Optional values that are empty have no attribute.                 *)

Lookup(f, x) == IF x \in DOMAIN f THEN f[x] ELSE NoValue

CheckValues(ms, x) == [k \in {s[2] : s \in {t \in Scope : t[1] = x}} |-> ms.check[<<x, k>>]]

Reference(ms, e) == [absolute |-> TRUE, path |-> Path(ms, e)]

DataReferences(ms, l) == {Reference(ms, f) : f \in ms.data[l]}
SupportReferences(ms, l) == {Reference(ms, f) : f \in ms.support[l]}

Targets(ms, b) ==
  {[position |-> p, loads |-> {Reference(ms, l) : l \in ms.targets[b][p]}] :
     p \in {q \in Position : ms.targets[b][q] # NoValue}}

Element(ms, typeOf, pathOf, e) ==
  [entity |-> e,
   in |-> ms.parent[e],
   name |-> ms.name[e],
   medium |-> ms.medium[e],
   check |-> CheckValues(ms, e),
   source |-> Lookup(pathOf, e),
   type |-> Lookup(typeOf, e),
   data |-> IF e \in Load THEN DataReferences(ms, e) ELSE {},
   support |-> IF e \in Load THEN SupportReferences(ms, e) ELSE {},
   targets |-> IF e \in Batch THEN Targets(ms, e) ELSE {}]

DocumentOf(ms, typeOf, pathOf) ==
  [medium |-> ms.medium[Root],
   check |-> CheckValues(ms, Root),
   elements |-> {Element(ms, typeOf, pathOf, e) : e \in {x \in Entity : InSet(ms, x)}}]

Save ==
  /\ status = "new"
  /\ document' = DocumentOf(set, types, paths)
  /\ status' = "saved"
  /\ UNCHANGED <<source, edits, todo, deferred, result>>

-----------------------------------------------------------------------------
(* External: edits by hand.                                                *)

Edit(kind, x, y) ==
  /\ status = "saved"
  /\ Cardinality(edits) < MaxEdits /\ kind \notin edits
  /\ x \in document.elements
  /\ document' = [document EXCEPT !.elements = (@ \ {x}) \cup y]
  /\ edits' = edits \cup {kind}
  /\ UNCHANGED <<source, status, todo, deferred, result>>

EditName(x, n) == Edit("name", x, {[x EXCEPT !.name = n]})
EditMedium(x, m) == Edit("medium", x, {[x EXCEPT !.medium = m]})
DeleteFile(x) == x.entity \in File /\ Edit("delete", x, {})

(* References to files of the same directory are written without it.       *)
Shortened(x, r) ==
  IF Front(r.path) = Path(set, x.in) THEN [absolute |-> FALSE, path |-> <<Last(r.path)>>] ELSE r

ShortenReferences(x) ==
  Edit("shorten", x,
       {[x EXCEPT !.data = {Shortened(x, r) : r \in @},
                  !.support = {Shortened(x, r) : r \in @}]})

EditByHand ==
  \E x \in document.elements :
    \/ \E n \in Name : EditName(x, n)
    \/ \E m \in 0 .. MaxMedium + 1 : EditMedium(x, m)
    \/ DeleteFile(x) \/ ShortenReferences(x)

-----------------------------------------------------------------------------
(* Load.                                                                   *)

(* The attributes of the media set itself. *)
MediaSet ==
  /\ status = "saved"
  /\ loaded' = [EmptyMediaSet EXCEPT
       !.medium[Root] = IF document.medium = NoValue THEN @ ELSE MediumNumberOf(document.medium),
       !.check = [s \in Scope |-> IF s[1] = Root THEN document.check[s[2]] ELSE NoValue]]
  /\ todo' = document.elements
  /\ status' = "entries"
  /\ UNCHANGED <<source, document, edits, deferred, loadedTypes, loadedPaths>>

Reachable(x) == x \in todo /\ x.in \in Containers(loaded)

MediumFits(x) == x.medium # NoValue => x.medium <= MaxMedium

(* Mutant: names may occur twice in a directory.                           *)
AcceptableNumber(x) == x.name \notin Reserved /\ MediumFits(x)

Acceptable(x) ==
  /\ x.name \notin Reserved /\ ~NameTaken(loaded, x.in, x.name)
  /\ MediumFits(x)

(* A type without a description is not read. *)
ReadType(t) == IF t = Unnamed THEN NoValue ELSE t

(* Check value types that are not given are left open. *)
ReadCheckValues(x) == [s \in Scope |-> IF s[1] = x.entity THEN x.check[s[2]] ELSE loaded.check[s]]

(* Directory, regular file, load or batch: added without its links. *)
Added(x) ==
  [loaded EXCEPT
     !.parent[x.entity] = x.in,
     !.name[x.entity] = x.name,
     !.medium[x.entity] = IF x.medium = NoValue THEN NoValue ELSE MediumNumberOf(x.medium),
     !.check = ReadCheckValues(x)]

Noted(f, e, v) == [y \in DOMAIN f \cup {e} |-> IF y = e THEN v ELSE f[y]]

(* A source path is noted if there is one. *)
SourcePaths(x) ==
  IF x.source = NoValue THEN loadedPaths ELSE Noted(loadedPaths, x.entity, x.source)

Entry(x) ==
  /\ status = "entries" /\ Reachable(x) /\ Acceptable(x)
  /\ loaded' = Added(x)
  /\ loadedTypes' = IF x.entity \in Load THEN Noted(loadedTypes, x.entity, ReadType(x.type))
                    ELSE loadedTypes
  /\ loadedPaths' = SourcePaths(x)
  /\ todo' = todo \ {x}
  /\ deferred' = IF x.entity \in Load \cup Batch THEN deferred \cup {x} ELSE deferred
  /\ UNCHANGED <<source, document, edits, status>>

(* A directory that could not be added, but is not used either.            *)
LeftOut(doc, x) ==
  /\ x.entity \in Directory /\ x.name \in Reserved /\ x.medium = NoValue
  /\ \A y \in doc.elements : y.in # x.entity

PassOver(x) ==
  /\ status = "entries" /\ Reachable(x) /\ LeftOut(document, x)
  /\ todo' = todo \ {x}
  /\ UNCHANGED <<source, document, edits, status, deferred, result>>

(* Mutant: relative paths start at the media set.                          *)
ReferencedFromRoot(x, r, class) == FilePerType(loaded, Root, r.absolute, r.path, class)

Referenced(x, r, class) ==
  FilePerType(loaded, loaded.parent[x.entity], r.absolute, r.path, class)

Misplaced(x, r) == DirectoryMissing(loaded, loaded.parent[x.entity], r.absolute, r.path)

(* Mutant: a load is linked as soon as it is read.                         *)
LoadAtOnce(x) ==
  /\ status = "entries" /\ x \in deferred /\ x.entity \in Load
  /\ loaded' = [loaded EXCEPT
       !.data[x.entity] = UNION {Referenced(x, r, RegularFile) : r \in x.data},
       !.support[x.entity] = UNION {Referenced(x, r, RegularFile) : r \in x.support}]
  /\ deferred' = deferred \ {x}
  /\ UNCHANGED <<source, document, edits, status, todo, loadedTypes, loadedPaths>>

(* Mutant: a load that is linked is not taken off the list.                *)
LoadDeferredAgain(x) ==
  /\ status = "entries" /\ todo = {} /\ x \in deferred /\ x.entity \in Load
  /\ \A r \in x.data \cup x.support : Referenced(x, r, RegularFile) # {}
  /\ loaded' = [loaded EXCEPT
       !.data[x.entity] = UNION {Referenced(x, r, RegularFile) : r \in x.data},
       !.support[x.entity] = UNION {Referenced(x, r, RegularFile) : r \in x.support}]
  /\ UNCHANGED <<source, document, edits, status, todo, deferred, loadedTypes, loadedPaths>>

(* When all entries are there: the files of the loads, then the targets of *)
(* the batches.                                                            *)
LoadDeferred(x) ==
  /\ status = "entries" /\ todo = {} /\ x \in deferred /\ x.entity \in Load
  /\ \A r \in x.data \cup x.support : Referenced(x, r, RegularFile) # {}
  /\ loaded' = [loaded EXCEPT
       !.data[x.entity] = UNION {Referenced(x, r, RegularFile) : r \in x.data},
       !.support[x.entity] = UNION {Referenced(x, r, RegularFile) : r \in x.support}]
  /\ deferred' = deferred \ {x}
  /\ UNCHANGED <<source, document, edits, status, todo, loadedTypes, loadedPaths>>

LoadsLinked == \A x \in deferred : x.entity \notin Load

LoadBatchDeferred(x) ==
  /\ status = "entries" /\ todo = {} /\ x \in deferred /\ x.entity \in Batch /\ LoadsLinked
  /\ \A t \in x.targets : \A r \in t.loads : Referenced(x, r, Load) # {}
  /\ loaded' = [loaded EXCEPT !.targets[x.entity] =
       [p \in Position |->
          IF \E t \in x.targets : t.position = p
          THEN UNION {UNION {Referenced(x, r, Load) : r \in t.loads} :
                        t \in {u \in x.targets : u.position = p}}
          ELSE NoValue]]
  /\ deferred' = deferred \ {x}
  /\ UNCHANGED <<source, document, edits, status, todo, loadedTypes, loadedPaths>>

Loaded ==
  /\ status = "entries" /\ todo = {} /\ deferred = {}
  /\ status' = "loaded"
  /\ UNCHANGED <<source, document, edits, todo, deferred, result>>

(* A name is taken, or a number does not fit: that of the element itself,  *)
(* or of a file in a directory that could not be added.                    *)
Refuses(x) ==
  \/ ~MediumFits(x)
  \/ x.name \notin Reserved /\ NameTaken(loaded, x.in, x.name)
  \/ /\ x.entity \in Directory /\ x.name \in Reserved /\ x.medium = NoValue
     /\ \E y \in document.elements : y.in = x.entity /\ y.entity \in File /\ ~MediumFits(y)

(* An exception ends the loading and drops what was loaded.                *)
LoadingFails ==
  /\ status = "entries"
  /\ \/ \E x \in todo : Reachable(x) /\ Refuses(x)
     \/ /\ todo = {}
        /\ \E x \in deferred : \E r \in x.data \cup x.support :
             Referenced(x, r, RegularFile) = {} /\ ~Misplaced(x, r)
     \/ /\ todo = {} /\ LoadsLinked
        /\ \E x \in deferred : \E t \in x.targets : \E r \in t.loads : Referenced(x, r, Load) = {}
  /\ status' = "failed"
  /\ UNCHANGED <<source, document, edits, todo, deferred, result>>

(* An element with a reserved name was not added, but is used: a directory *)
(* at once in builds with assertions, a file when its number was read. Or  *)
(* a load refers to a file in a directory that is not there.               *)
LoadingCrashes ==
  /\ status = "entries"
  /\ \/ \E x \in todo : /\ Reachable(x) /\ x.name \in Reserved
                        /\ x.entity \in File => MediumFits(x)
     \/ /\ todo = {}
        /\ \E x \in deferred : \E r \in x.data \cup x.support : Misplaced(x, r)
  /\ status' = "crashed"
  /\ UNCHANGED <<source, document, edits, todo, deferred, result>>

(* What follows the attributes of the media set. *)
LoadElements ==
  \/ Loaded \/ LoadingFails \/ LoadingCrashes
  \/ \E x \in todo : Entry(x) \/ PassOver(x)
  \/ \E x \in deferred : LoadDeferred(x) \/ LoadBatchDeferred(x)

-----------------------------------------------------------------------------
TypeOK ==
  /\ status \in {"new", "saved", "entries", "loaded", "failed", "crashed"}
  /\ todo \subseteq document.elements /\ deferred \subseteq document.elements \ todo
  /\ loaded \in MediaSetType
  /\ DOMAIN loadedTypes \subseteq Load /\ DOMAIN loadedPaths \subseteq File

(* A media set survives saving and loading: the tree, the medium numbers   *)
(* and check value types with those left open, all links, and the source   *)
(* paths. Left out are the type of a load without a description, and that  *)
(* the media set itself had no default medium: it is 1 either way.         *)
RoundTrip ==
  status = "loaded" /\ edits \subseteq {"shorten"} =>
    /\ loaded = [set EXCEPT !.medium[Root] = IF @ = NoValue THEN FirstMedium ELSE @]
    /\ loadedTypes = [l \in DOMAIN types |-> IF types[l] = Unnamed THEN NoValue ELSE types[l]]
    /\ loadedPaths = paths

(* The path of every element of a document.                                *)
WrittenPath(doc) ==
  LET element(e) == CHOOSE x \in doc.elements : x.entity = e
      path[e \in {x.entity : x \in doc.elements} \cup {Root}] ==
        IF e = Root THEN <<>> ELSE Append(path[element(e).in], element(e).name)
  IN path

(* The path that a reference of x means.                                   *)
Meant(doc, x, r) == IF r.absolute THEN r.path ELSE WrittenPath(doc)[x.in] \o r.path

PathsOf(doc, class) ==
  {WrittenPath(doc)[x.entity] : x \in {y \in doc.elements : y.entity \in class}}

(* A document without the directories that are passed over.                *)
Kept(doc) == [doc EXCEPT !.elements = {x \in @ : ~LeftOut(doc, x)}]

WellFormed(doc) ==
  /\ \A x, y \in doc.elements : x.in = y.in /\ x.name = y.name => x = y
  /\ \A x \in doc.elements :
       /\ x.name \notin Reserved /\ MediumFits(x)
       /\ {Meant(doc, x, r) : r \in x.data \cup x.support} \subseteq PathsOf(doc, RegularFile)
       /\ \A t \in x.targets : {Meant(doc, x, r) : r \in t.loads} \subseteq PathsOf(doc, Load)

(* Whatever the order of its elements, a document is loaded if names are   *)
(* not reserved and unique in each directory, medium numbers fit, and each *)
(* reference leads to a file of the right class; any other document is     *)
(* refused, or ends the program if a name is reserved or a load refers to  *)
(* a file in a directory that is missing. A directory with a reserved name *)
(* that is empty and has no number may also be passed over.                *)
LoadsWellFormed ==
  /\ status = "loaded" => WellFormed(Kept(document))
  /\ status = "failed" => ~WellFormed(Kept(document))
  /\ status = "crashed" =>
       \/ \E x \in document.elements : x.name \in Reserved
       \/ \E x \in document.elements : \E r \in x.data \cup x.support :
            Front(Meant(document, x, r)) \notin PathsOf(document, Directory) \cup {<<>>}

(* Where no name is reserved: the path of a file returns nothing "if path  *)
(* does not reference a directory", so that the loader refuses the         *)
(* reference.                                                              *)
MissingDirectoryRefused ==
  status = "crashed" => \E x \in document.elements : x.name \in Reserved

(* A document that is loaded means what is written in it: every element is *)
(* at its path, with its medium number, check value types, load type and   *)
(* source path, and loads and batches are linked to the files at the paths *)
(* given, which the media set contains.                                    *)
AsWritten(ms, typeOf, pathOf, doc) ==
  /\ ms.medium[Root] = IF doc.medium = NoValue THEN FirstMedium ELSE doc.medium
  /\ \A s \in Scope : s[1] = Root => ms.check[s] = doc.check[s[2]]
  /\ Files(ms) = {x.entity : x \in doc.elements} \cap File
  /\ \A x \in doc.elements :
       /\ Path(ms, x.entity) = WrittenPath(doc)[x.entity]
       /\ ms.medium[x.entity] = IF x.medium = 0 THEN FirstMedium ELSE x.medium
       /\ \A s \in Scope : s[1] = x.entity => ms.check[s] = x.check[s[2]]
       /\ Lookup(pathOf, x.entity) = x.source
       /\ x.entity \in Load =>
            /\ Lookup(typeOf, x.entity) = ReadType(x.type)
            /\ {Path(ms, f) : f \in ms.data[x.entity]} = {Meant(doc, x, r) : r \in x.data}
            /\ {Path(ms, f) : f \in ms.support[x.entity]} = {Meant(doc, x, r) : r \in x.support}
       /\ x.entity \in Batch =>
            \A t \in x.targets :
              {Path(ms, l) : l \in ms.targets[x.entity][t.position]} = {Meant(doc, x, r) : r \in t.loads}

LoadedAsWritten ==
  status = "loaded" => AsWritten(loaded, loadedTypes, loadedPaths, Kept(document))

(* A call of the loader that was begun ends, whatever is in the document.  *)
LoadingEnds == status = "entries" ~> status \in {"loaded", "failed", "crashed"}
=============================================================================
