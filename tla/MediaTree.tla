----------------------------- MODULE MediaTree -----------------------------
(***************************************************************************)
(* One media set while a program builds or edits it: every operation of    *)
(* MediaSet, Directory, Load and Batch that changes it. An operation the   *)
(* code refuses with an exception changes nothing and is no step here. The *)
(* callers drop the objects they remove and link loads and batches only to *)
(* members of the same media set, as all callers in the repository do.     *)
(***************************************************************************)
EXTENDS MediaModel

CONSTANTS
  EditedMedium,   \* bound: the medium numbers a user assigns
  EditedScope     \* bound: the scopes whose check value type a user sets

ASSUME EditAssumption ==
  /\ EditedMedium \subseteq MediumNumber
  /\ EditedScope \subseteq Scope

VARIABLE ms   \* the media set

Init == ms = EmptyMediaSet

-----------------------------------------------------------------------------
(* Directories. An addition under "." or ".." returns nothing and changes  *)
(* nothing, so it is no step: names are others than these.                 *)

AddSubdirectory(c, d, n) ==
  /\ c \in Containers(ms) /\ ~InSet(ms, d)
  /\ ~NameTaken(ms, c, n)
  /\ ms' = [ms EXCEPT !.parent[d] = c, !.name[d] = n]

RemoveSubdirectory(d) ==
  /\ InSet(ms, d)
  /\ ~HasChildren(ms, d, NoValue)
  /\ ms' = [ms EXCEPT !.parent[d] = NoValue,
                      !.name[d] = EmptyMediaSet.name[d],
                      !.medium[d] = NoValue]

(* Directory::rename and File::rename refuse every name that their parent  *)
(* knows, the present one included.                                        *)
Rename(e, n) ==
  /\ InSet(ms, e)
  /\ ~NameTaken(ms, ms.parent[e], n)
  /\ ms' = [ms EXCEPT !.name[e] = n]

(* A media set created without a default is given medium 1, but the setter *)
(* of the container also takes an empty optional.                          *)
SetDefaultMediumNumber(c, m) ==
  /\ c \in Containers(ms)
  /\ ms' = [ms EXCEPT !.medium[c] = m]

-----------------------------------------------------------------------------
(* Files.                                                                  *)

AddFile(c, f, n, m) ==
  /\ c \in Containers(ms) /\ ~InSet(ms, f)
  /\ ~NameTaken(ms, c, n)
  /\ ms' = [ms EXCEPT !.parent[f] = c, !.name[f] = n, !.medium[f] = m]

AddRegularFile(c, f, n, m) == AddFile(c, f, n, m)
AddLoad(c, l, n, m) == AddFile(c, l, n, m)
AddBatch(c, b, n, m) == AddFile(c, b, n, m)

(* A load that a batch uses and a regular file that a load uses stay.      *)
RemoveFile(f) ==
  /\ InSet(ms, f)
  /\ f \in Load => BatchesWithLoad(ms, f) = {}
  /\ f \in RegularFile => {} \in LoadsWithFile(ms, f)
  /\ ms' = [parent |-> [ms.parent EXCEPT ![f] = NoValue],
            name |-> [ms.name EXCEPT ![f] = EmptyMediaSet.name[f]],
            medium |-> [ms.medium EXCEPT ![f] = NoValue],
            check |-> [s \in Scope |-> IF s[1] = f THEN NoValue ELSE ms.check[s]],
            data |-> [l \in Load |-> IF l = f THEN {} ELSE ms.data[l]],
            support |-> [l \in Load |-> IF l = f THEN {} ELSE ms.support[l]],
            targets |-> [b \in Batch |->
                           IF b = f THEN EmptyMediaSet.targets[b] ELSE ms.targets[b]]]

(* Mutant: an empty optional becomes the number zero.                      *)
SetMediumNumberRaw(f, m) ==
  /\ InSet(ms, f)
  /\ ms' = [ms EXCEPT !.medium[f] = IF m = NoValue THEN 0 ELSE m]

SetMediumNumber(f, m) ==
  /\ InSet(ms, f)
  /\ ms' = [ms EXCEPT !.medium[f] = m]

SetCheckValueType(s, t) ==
  /\ s[1] \in Files(ms) \cup {Root}
  /\ ms' = [ms EXCEPT !.check[s] = t]

-----------------------------------------------------------------------------
(* Loads and batches.                                                      *)

(* dataFile, supportFile: the file must be of the same media set. *)
DataFile(l, f) ==
  /\ InSet(ms, l) /\ InSet(ms, f)
  /\ ms' = [ms EXCEPT !.data[l] = @ \cup {f}]

SupportFile(l, f) ==
  /\ InSet(ms, l) /\ InSet(ms, f)
  /\ ms' = [ms EXCEPT !.support[l] = @ \cup {f}]

(* dataFiles, supportFiles: the whole list is replaced. *)
DataFiles(l, fs) ==
  /\ InSet(ms, l) /\ fs \subseteq Files(ms)
  /\ ms' = [ms EXCEPT !.data[l] = fs]

SupportFiles(l, fs) ==
  /\ InSet(ms, l) /\ fs \subseteq Files(ms)
  /\ ms' = [ms EXCEPT !.support[l] = fs]

(* target( position, loads ) keeps what the position already has. *)
TargetLoads(b, p, ls) ==
  /\ InSet(ms, b) /\ ls \subseteq Files(ms)
  /\ ms' = [ms EXCEPT !.targets[b][p] = IF @ = NoValue THEN ls ELSE @]

(* target( position, load ) appends. *)
TargetLoad(b, p, l) ==
  /\ InSet(ms, b) /\ InSet(ms, l)
  /\ ms' = [ms EXCEPT !.targets[b][p] = {l} \cup (IF @ = NoValue THEN {} ELSE @)]

EditTree ==
  \/ \E c \in Container, d \in Directory, n \in Name : AddSubdirectory(c, d, n)
  \/ \E d \in Directory : RemoveSubdirectory(d)
  \/ \E e \in Entity, n \in Name : Rename(e, n)
  \/ \E c \in Container, n \in Name, m \in Optional(EditedMedium) :
       \/ \E f \in RegularFile : AddRegularFile(c, f, n, m)
       \/ \E l \in Load : AddLoad(c, l, n, m)
       \/ \E b \in Batch : AddBatch(c, b, n, m)
  \/ \E f \in File : RemoveFile(f)

EditMedia ==
  \E m \in Optional(EditedMedium) :
    \/ \E c \in Container : SetDefaultMediumNumber(c, m)
    \/ \E f \in File : SetMediumNumber(f, m)

EditLoad ==
  \E l \in Load :
    \/ \E f \in RegularFile : DataFile(l, f) \/ SupportFile(l, f)
    \/ \E fs \in SUBSET RegularFile : DataFiles(l, fs) \/ SupportFiles(l, fs)

EditBatch ==
  \E b \in Batch, p \in Position :
    \/ \E l \in Load : TargetLoad(b, p, l)
    \/ \E ls \in SUBSET Load : TargetLoads(b, p, ls)

EditCheckValues == \E s \in EditedScope, t \in Optional(CheckType) : SetCheckValueType(s, t)

Next == EditTree \/ EditMedia \/ EditLoad \/ EditBatch \/ EditCheckValues

Spec == Init /\ [][Next]_ms

-----------------------------------------------------------------------------
TypeOK == ms \in MediaSetType

(* No two members of a container have the same name, whatever is added and *)
(* renamed: the check runs over directories and files in two lists.        *)
NamesUnique == UniqueNames(ms)

(* What a load or a batch of the media set refers to is in the media set.  *)
(* The links are weak pointers; compiler and views use them without a test.*)
LinksLive == LiveLinks(ms)

(* The media from the first to lastMediumNumber() share out the files:     *)
(* each file of the media set is reported for one of them and no other, so *)
(* the loops over media and the list of all files see the same files.      *)
MediaPartition ==
  \A f \in File :
    Cardinality({m \in FirstMedium .. LastMedium(ms, Root) : f \in RecursiveFiles(ms, Root, m)})
      = IF InSet(ms, f) THEN 1 ELSE 0

(* The path of a directory or file leads back to it, from any container.   *)
PathsLeadBack ==
  \A c \in Containers(ms), e \in Entity :
    InSet(ms, e) =>
      (IF e \in Directory THEN SubdirectoryAt(ms, c, TRUE, Path(ms, e))
                          ELSE FileAt(ms, c, TRUE, Path(ms, e))) = {e}

(* hasChildren( medium ): "Indicates, if the container has child elements",*)
(* filtered by the medium. A container has some on a medium if and only if *)
(* files below it are on that medium.                                      *)
ChildrenOnMedium ==
  \A c \in Containers(ms), m \in MediumNumber :
    HasChildren(ms, c, m) <=> RecursiveFiles(ms, c, m) # {}
=============================================================================
