--------------------------- MODULE MediaSetViewer ---------------------------
(***************************************************************************)
(* The media set viewer: its window opens an XML description or decompiles *)
(* a media set, watches the file it opened, and saves what it shows; its   *)
(* view (MediaSetViewWidget) has the tree of the media set and a page of   *)
(* details on the current item, whose links lead to other items.           *)
(* Details of other items, kept by hidden pages, are left out.             *)
(***************************************************************************)
EXTENDS MediaSetXml, MediaSetItems

CONSTANTS
  Hardware,    \* numbers of positions of the target hardware IDs of a load
  Waiting      \* bound: items that are current while a file is loaded

(* Lists of items end.                                                     *)
ASSUME ViewerAssumption ==
  /\ IsFiniteSet(Entity) /\ IsFiniteSet(Position)
  /\ Hardware \in [Load -> Seq(Nat)]
  /\ Waiting \subseteq Entity \cup {Root}

VARIABLES
  shown,      \* root of the item model with types and source paths
  current,    \* current item of the tree view
  page,       \* the page of details: its element, and tables of its links
  watched,    \* the file is watched
  changed     \* a change of the watched file is to be notified

view == <<shown, current, page>>
viewerVars == <<vars, view, watched, changed>>

Nothing == [ms |-> EmptyMediaSet, types |-> <<>>, paths |-> <<>>, empty |-> TRUE]
Showing(ms, typeOf, pathOf) == [ms |-> ms, types |-> typeOf, paths |-> pathOf, empty |-> FALSE]

NoPage == [element |-> NoValue, tables |-> <<>>]

ViewerInit ==
  /\ Init
  /\ shown = Nothing /\ current = NoIndex /\ page = NoPage
  /\ watched = FALSE /\ changed = FALSE

-----------------------------------------------------------------------------
(* The pages of details. Which loads a regular file is said to be used in  *)
(* depends on the order of the loads.                                      *)

LoadRows(loads) == SetToSeq(loads)
BatchRows(batches) == SetToSeq(batches)
LoadFileRows(files) == SetToSeq(files)

(* Rows of the targets of a batch: the loads of each target. *)
TargetRows(ms, b) ==
  LET positions == SetToSeq({p \in Position : ms.targets[b][p] # NoValue})
  IN [r \in DOMAIN positions |-> LoadRows(ms.targets[b][positions[r]])]

MediaSetPage(ms) ==
  [content |-> Content(ms, IndexForElement(ms, Root)),
   loads |-> LoadRows(RecursiveLoads(ms)),
   batches |-> BatchRows(RecursiveBatches(ms))]

DirectoryPage(ms, index) == [content |-> Content(ms, index)]

RegularFilePage(ms, f) == {[usedInLoads |-> LoadRows(loads)] : loads \in LoadsWithFile(ms, f)}

LoadPage(ms, l) ==
  [dataFiles |-> LoadFileRows(ms.data[l]),
   supportFiles |-> LoadFileRows(ms.support[l]),
   usedInBatches |-> BatchRows(BatchesWithLoad(ms, l))]

(* The first target is selected, if there is one. *)
BatchPage(ms, b) == [loads |-> IF TargetRows(ms, b) = <<>> THEN <<>> ELSE TargetRows(ms, b)[1]]

FilePage(ms, f) ==
  CASE f \in RegularFile -> RegularFilePage(ms, f)
    [] f \in Load -> {LoadPage(ms, f)}
    [] f \in Batch -> {BatchPage(ms, f)}

Pages(ms, index) ==
  CASE index.pointer = Root -> {MediaSetPage(ms)}
    [] index.pointer \in Directory -> {DirectoryPage(ms, index)}
    [] index.pointer \in File -> FilePage(ms, index.pointer)

(* The tree view makes the item current, and the page follows. *)
SelectElement(ms, index) ==
  /\ current' = index
  /\ \E tables \in Pages(ms, index) : page' = [element |-> index.pointer, tables |-> tables]

(* Mutant: a new root leaves the current item alone.                       *)
ResetRoot(new) == shown' = new /\ IF page = NoPage THEN SelectElement(new.ms, Index(new.ms, 0, NoIndex))
                                  ELSE UNCHANGED <<current, page>>

(* A new root resets the model, and the media set becomes current. *)
Reset(new) == shown' = new /\ SelectElement(new.ms, Index(new.ms, 0, NoIndex))

-----------------------------------------------------------------------------
(* The user in the view.                                                   *)

Browse == status = "saved" /\ ~shown.empty /\ UNCHANGED <<vars, shown, watched, changed>>

SelectItem(e) ==
  /\ Browse /\ InSet(shown.ms, e)
  /\ SelectElement(shown.ms, IndexForElement(shown.ms, e))

(* The element in a row of a table. *)
Activated(table, row) == page.tables[table][row]

(* A row without an element is not activated. *)
ActivateElement(table, row) ==
  /\ Browse /\ row <= Len(page.tables[table])
  /\ SelectElement(shown.ms, IndexForElement(shown.ms, Activated(table, row)))

SelectTarget(row) ==
  /\ Browse /\ page.element \in Batch
  /\ row \in DOMAIN TargetRows(shown.ms, page.element)
  /\ page' = [page EXCEPT !.tables.loads = TargetRows(shown.ms, page.element)[row]]
  /\ UNCHANGED current

View ==
  \/ \E e \in Entity : SelectItem(e)
  \/ \E t \in DOMAIN page.tables, r \in 1 .. Cardinality(Entity) : ActivateElement(t, r)
  \/ \E r \in 1 .. Cardinality(Position) : SelectTarget(r)

-----------------------------------------------------------------------------
(* The window.                                                             *)

(* Bounds: only one of the given media sets is edited or decompiled, and   *)
(* files are edited while they are watched.                                *)
Fresh == set \in Described /\ edits = {}

Waits == status = "saved" /\ (shown.empty \/ current.pointer \in Waiting)

(* Save by another program. *)
SaveFirst == Save /\ UNCHANGED <<view, watched, changed>>

(* The watcher notices changes between two loads of the file. *)
EditFile ==
  /\ Waits /\ watched /\ set \in Described
  /\ EditByHand
  /\ changed' = TRUE
  /\ UNCHANGED <<view, watched>>

(* Mutant: the file is watched again before it is loaded.                  *)
OpenWatched ==
  /\ Waits /\ (watched => changed)
  /\ MediaSet
  /\ watched' = TRUE /\ changed' = FALSE
  /\ UNCHANGED view

(* loadXmlFile begins, called by the user or by the watcher: the file is   *)
(* no longer watched. Bound: the user does not open a watched file.        *)
Open ==
  /\ Waits /\ (watched => changed)
  /\ MediaSet
  /\ watched' = FALSE /\ changed' = FALSE
  /\ UNCHANGED view

LoadFurther == LoadElements /\ UNCHANGED <<view, watched, changed>>

ForgetResult ==
  /\ status' = "saved"
  /\ todo' = {} /\ deferred' = {}
  /\ loaded' = EmptyMediaSet /\ loadedTypes' = <<>> /\ loadedPaths' = <<>>
  /\ UNCHANGED <<source, document, edits>>

(* loadXmlFile ends. *)
Show ==
  /\ status = "loaded"
  /\ Reset(Showing(loaded, loadedTypes, loadedPaths))
  /\ watched' = TRUE
  /\ ForgetResult /\ UNCHANGED changed

(* loadXmlFile catches the exception: what was shown stays. *)
ReportError ==
  /\ status = "failed"
  /\ ForgetResult /\ UNCHANGED <<view, watched, changed>>

(* The program crashed while it loaded, and is started again. *)
Restart ==
  /\ status = "crashed"
  /\ shown' = Nothing /\ current' = NoIndex /\ page' = NoPage
  /\ watched' = FALSE /\ changed' = FALSE
  /\ ForgetResult

(* A media set is decompiled, abstracted to the one described; files come  *)
(* from their media. A failure changes nothing.                            *)
Decompile ==
  /\ Waits /\ Fresh
  /\ \E p \in SourcePath :
       Reset(Showing([set EXCEPT !.medium[Root] = EffectiveDefaultMedium(set, Root)],
                     [l \in DOMAIN types |-> ReadType(types[l])], [f \in Files(set) |-> p]))
  /\ watched' = FALSE /\ changed' = FALSE
  /\ UNCHANGED vars

(* What is shown is written over the file. *)
SaveXmlFile ==
  /\ Waits /\ ~shown.empty
  /\ set' = shown.ms /\ types' = shown.types /\ paths' = shown.paths
  /\ document' = DocumentOf(shown.ms, shown.types, shown.paths)
  /\ edits' = {}
  /\ changed' = watched
  /\ UNCHANGED <<status, todo, deferred, result, view, watched>>

Window == Open \/ LoadFurther \/ Show \/ ReportError \/ Restart \/ Decompile \/ SaveXmlFile

ViewerNext == SaveFirst \/ EditFile \/ Window \/ View

(* A call of the loader runs to its end. *)
ViewerSpec == ViewerInit /\ [][ViewerNext]_viewerVars /\ WF_viewerVars(LoadFurther)

-----------------------------------------------------------------------------
ViewerTypeOK ==
  /\ TypeOK
  /\ watched \in BOOLEAN /\ changed \in BOOLEAN
  /\ changed => watched

(* The trees of the viewer are item models as Qt demands them, and the     *)
(* index of each element leads to it: for every media set that is shown,   *)
(* and for the target hardware IDs of its loads.                           *)
ItemsLeadBack ==
  ~shown.empty =>
    /\ MediaSetModelSound(shown.ms)
    /\ \A l \in Load : HardwareModelSound(Hardware[l])

(* The current item and the links of its page are elements of the media    *)
(* set that is shown now, even after the file was loaded again, and the    *)
(* page is about the current item.                                         *)
ViewConsistent ==
  IF shown.empty THEN current = NoIndex /\ page = NoPage
  ELSE /\ current = IndexForElement(shown.ms, current.pointer)
       /\ page.element = current.pointer
       /\ \E tables \in Pages(shown.ms, current) : DOMAIN tables = DOMAIN page.tables
       /\ \A t \in DOMAIN page.tables : \A e \in Range(page.tables[t]) :
            /\ InSet(shown.ms, e)
            /\ t = "content" => shown.ms.parent[e] = page.element
            /\ t = "usedInLoads" => page.element \in shown.ms.data[e] \cup shown.ms.support[e]

(* As long as the file is watched and no change is to be notified, the     *)
(* window shows what the file says, whatever was edited, saved, loaded or  *)
(* refused before.                                                         *)
WatchedIsShown ==
  watched /\ ~changed /\ status = "saved" =>
    AsWritten(shown.ms, shown.types, shown.paths, Kept(document))
=============================================================================
