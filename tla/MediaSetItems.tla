--------------------------- MODULE MediaSetItems ---------------------------
(***************************************************************************)
(* Media sets as Qt item models: MediaSetModel shows the tree of a media   *)
(* set ms, TargetHardwareIdsPositionsModel the target hardware of a load.  *)
(* An index names an item by its row below its parent and by the internal  *)
(* pointer; there is one column that matters. Callers ask for the rows     *)
(* below rowCount only, as Qt demands.                                     *)
(***************************************************************************)
EXTENDS MediaModel

NoIndex == [row |-> -1, pointer |-> NoValue]
CreateIndex(row, pointer) == [row |-> row, pointer |-> pointer]

RowOf(list, x) == CHOOSE r \in 0 .. Len(list) - 1 : list[r + 1] = x

-----------------------------------------------------------------------------
(* MediaSetModel. The media set is the only item without a parent; below a *)
(* container come its subdirectories, then its files.                      *)

SubdirectoryList(ms, c) == SetToSeq(AllSubdirectories(ms, c))
FileList(ms, c) == SetToSeq(AllFiles(ms, c))

Index(ms, row, parent) ==
  LET c == parent.pointer
      directories == SubdirectoryList(ms, c)
  IN CASE parent = NoIndex -> CreateIndex(row, Root)
       [] c \in File -> NoIndex
       [] c \in Container /\ row < Len(directories) -> CreateIndex(row, directories[row + 1])
       [] OTHER -> CreateIndex(row, FileList(ms, c)[row - Len(directories) + 1])

(* Mutant: a directory is looked up among its own subdirectories, at whose *)
(* end the search stops.                                                   *)
ParentAmongItsOwn(ms, index) ==
  IF index = NoIndex \/ index.pointer = Root THEN NoIndex
  ELSE LET c == ms.parent[index.pointer]
       IN CreateIndex(IF c = Root THEN 0 ELSE Len(SubdirectoryList(ms, c)), c)

Parent(ms, index) ==
  IF index = NoIndex \/ index.pointer = Root THEN NoIndex
  ELSE LET c == ms.parent[index.pointer]
       IN CreateIndex(IF c = Root THEN 0 ELSE RowOf(SubdirectoryList(ms, ms.parent[c]), c), c)

ItemHasChildren(ms, index) ==
  IF index = NoIndex THEN TRUE
  ELSE index.pointer \in Container /\ HasChildren(ms, index.pointer, NoValue)

RowCount(ms, index) ==
  IF index = NoIndex THEN 1
  ELSE IF index.pointer \in File THEN 0
  ELSE Cardinality(AllSubdirectories(ms, index.pointer)) + Cardinality(AllFiles(ms, index.pointer))

IndexForElement(ms, e) ==
  LET index[x \in Containers(ms) \cup Files(ms)] ==
        IF x = Root THEN Index(ms, 0, NoIndex)
        ELSE LET c == ms.parent[x]
                 row == IF x \in Directory THEN RowOf(SubdirectoryList(ms, c), x)
                        ELSE Cardinality(AllSubdirectories(ms, c)) + RowOf(FileList(ms, c), x)
             IN Index(ms, row, index[c])
  IN index[e]

(* What a view lists whose root is the index. *)
Content(ms, index) ==
  [r \in 1 .. RowCount(ms, index) |-> Index(ms, r - 1, index).pointer]

-----------------------------------------------------------------------------
(* TargetHardwareIdsPositionsModel, for the sequence h of the numbers of   *)
(* positions of each target hardware ID. Only positions have a pointer,    *)
(* which leads to their target hardware ID.                                *)

HardwareIndex(h, row, parent) ==
  IF row >= (IF parent = NoIndex THEN Len(h) ELSE h[parent.row + 1]) THEN NoIndex
  ELSE CreateIndex(row, IF parent = NoIndex THEN NoValue ELSE parent.row + 1)

HardwareParent(h, index) ==
  IF index = NoIndex \/ index.pointer = NoValue THEN NoIndex
  ELSE CreateIndex(index.pointer - 1, NoValue)

HardwareRowCount(h, index) ==
  IF index = NoIndex THEN Len(h)
  ELSE IF index.pointer # NoValue \/ index.row >= Len(h) THEN 0 ELSE h[index.row + 1]

HardwareHasChildren(h, index) ==
  IF index = NoIndex THEN h # <<>>
  ELSE index.pointer = NoValue /\ index.row < Len(h) /\ h[index.row + 1] # 0

-----------------------------------------------------------------------------
(* What Qt demands of an item model at the index p: an item has children   *)
(* just if it has rows, every row is an item of its own, and the parent of *)
(* that item is p again.                                                   *)
ItemModelAt(p, Idx(_, _), Par(_), Count(_), Has(_)) ==
  /\ Has(p) <=> Count(p) > 0
  /\ \A r \in 0 .. Count(p) - 1 : Idx(r, p).row = r /\ Idx(r, p) # NoIndex /\ Par(Idx(r, p)) = p

MediaSetModelSound(ms) ==
  LET Idx(r, p) == Index(ms, r, p)
      Par(i) == Parent(ms, i)
      Count(i) == RowCount(ms, i)
      Has(i) == ItemHasChildren(ms, i)
      elements == {e \in Entity : InSet(ms, e)}
  IN /\ \A i \in {NoIndex} \cup {IndexForElement(ms, e) : e \in elements \cup {Root}} :
          ItemModelAt(i, Idx, Par, Count, Has)
     /\ \A e \in elements : LET i == IndexForElement(ms, e)
                            IN i.pointer = e /\ Parent(ms, i) = IndexForElement(ms, ms.parent[e])
     /\ \A c \in Containers(ms) :
          LET content == Content(ms, IndexForElement(ms, c))
          IN IsInjective(content) /\ Range(content) = {e \in elements : ms.parent[e] = c}

HardwareModelSound(h) ==
  LET Idx(r, p) == HardwareIndex(h, r, p)
      Par(i) == HardwareParent(h, i)
      Count(i) == HardwareRowCount(h, i)
      Has(i) == HardwareHasChildren(h, i)
      ids == {HardwareIndex(h, r, NoIndex) : r \in 0 .. Len(h) - 1}
      positions == UNION {{HardwareIndex(h, r, i) : r \in 0 .. h[i.row + 1] - 1} : i \in ids}
  IN \A i \in {NoIndex} \cup ids \cup positions : ItemModelAt(i, Idx, Par, Count, Has)
=============================================================================
