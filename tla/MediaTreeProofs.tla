-------------------------- MODULE MediaTreeProofs ---------------------------
(***************************************************************************)
(* Theorems about a media set under edit, for all pools of objects, names, *)
(* positions and medium numbers.                                           *)
(***************************************************************************)
EXTENDS MediaTree, MediaModelProofs

(* The invariant: the members form a tree, and the properties hold of it.  *)
Sound == TypeOK /\ Tree(ms) /\ Unlinked(ms) /\ NamesUnique /\ LinksLive

-----------------------------------------------------------------------------
(* Type correctness.                                                       *)

LEMMA InitTyping == Init => TypeOK
BY EmptyTyping DEF Init, TypeOK

LEMMA EditTreeTyping ==
  ASSUME TypeOK, EditTree
  PROVE  TypeOK'
<1> USE DEF TypeOK, MediaSetType, Optional
<1>1. ASSUME NEW c \in Container, NEW d \in Directory, NEW n \in Name,
             AddSubdirectory(c, d, n)
      PROVE  TypeOK'
  BY <1>1 DEF AddSubdirectory, Entity
<1>2. (CHOOSE n \in Name : TRUE) \in Name
  BY MediaAssumption DEF MediaAssumption
<1>3. ASSUME NEW d \in Directory, RemoveSubdirectory(d)
      PROVE  TypeOK'
  <2>1. EmptyMediaSet.name[d] \in Name
    BY <1>2 DEF EmptyMediaSet, Entity
  <2> QED BY <1>3, <2>1 DEF RemoveSubdirectory, Entity, Container
<1>4. ASSUME NEW e \in Entity, NEW n \in Name, Rename(e, n)
      PROVE  TypeOK'
  BY <1>4 DEF Rename
<1>5. ASSUME NEW c \in Container, NEW f \in File, NEW n \in Name,
             NEW m \in Optional(EditedMedium), AddFile(c, f, n, m)
      PROVE  TypeOK'
  BY <1>5, EditAssumption DEF EditAssumption, AddFile, Entity
<1>6. ASSUME NEW f \in File, RemoveFile(f)
      PROVE  TypeOK'
  <2>1. EmptyMediaSet.name[f] \in Name
    BY <1>2 DEF EmptyMediaSet, Entity
  <2>2. \A b \in Batch : EmptyMediaSet.targets[b] \in [Position -> Optional(SUBSET Load)]
    BY DEF EmptyMediaSet
  <2> QED BY <1>6, <2>1, <2>2 DEF RemoveFile, Entity
<1> QED BY <1>1, <1>3, <1>4, <1>5, <1>6
        DEF EditTree, AddRegularFile, AddLoad, AddBatch, File

(* A batch step sets the loads of one position, to loads of the media set. *)
Retargets(b, p, ls) ==
  /\ InSet(ms, b)
  /\ LinksLive /\ ls # NoValue => ls \subseteq Files(ms)
  /\ ms' = [ms EXCEPT !.targets[b][p] = ls]

LEMMA BatchStep ==
  ASSUME TypeOK, EditBatch
  PROVE  \E b \in Batch, p \in Position, ls \in Optional(SUBSET Load) : Retargets(b, p, ls)
<1> USE DEF TypeOK, MediaSetType, Optional
<1>1. ASSUME NEW b \in Batch, NEW p \in Position, NEW l \in Load, TargetLoad(b, p, l)
      PROVE  \E ls \in Optional(SUBSET Load) : Retargets(b, p, ls)
  <2> DEFINE ls == {l} \cup (IF ms.targets[b][p] = NoValue THEN {} ELSE ms.targets[b][p])
  <2>1. ls \in SUBSET Load
    OBVIOUS
  <2>2. LinksLive => ls \subseteq Files(ms)
    BY <1>1 DEF TargetLoad, LinksLive, LiveLinks, Files, File
  <2>3. InSet(ms, b) /\ ms' = [ms EXCEPT !.targets[b][p] = ls]
    BY <1>1 DEF TargetLoad
  <2> HIDE DEF ls
  <2> QED BY <2>1, <2>2, <2>3 DEF Retargets
<1>2. ASSUME NEW b \in Batch, NEW p \in Position, NEW fs \in SUBSET Load,
             TargetLoads(b, p, fs)
      PROVE  \E ls \in Optional(SUBSET Load) : Retargets(b, p, ls)
  <2> DEFINE ls == IF ms.targets[b][p] = NoValue THEN fs ELSE ms.targets[b][p]
  <2>1. ls \in Optional(SUBSET Load)
    OBVIOUS
  <2>2. LinksLive /\ ls # NoValue => ls \subseteq Files(ms)
    BY <1>2 DEF TargetLoads, LinksLive, LiveLinks
  <2>3. InSet(ms, b) /\ ms' = [ms EXCEPT !.targets[b][p] = ls]
    BY <1>2 DEF TargetLoads
  <2> HIDE DEF ls
  <2> QED BY <2>1, <2>2, <2>3 DEF Retargets
<1> QED BY <1>1, <1>2 DEF EditBatch

LEMMA EditMembersTyping ==
  ASSUME TypeOK, EditMedia \/ EditLoad \/ EditBatch \/ EditCheckValues
  PROVE  TypeOK'
<1> USE DEF TypeOK, MediaSetType, Optional
<1>1. CASE EditMedia
  <2>1. PICK x \in File \cup Container, m \in Optional(EditedMedium) :
          ms' = [ms EXCEPT !.medium[x] = m]
    BY <1>1 DEF EditMedia, SetDefaultMediumNumber, SetMediumNumber
  <2>2. m \in Optional(MediumNumber)
    BY EditAssumption DEF EditAssumption
  <2> QED BY <2>1, <2>2
<1>2. CASE EditLoad
  BY <1>2 DEF EditLoad, DataFile, SupportFile, DataFiles, SupportFiles
<1>3. CASE EditBatch
  <2>1. PICK b \in Batch, p \in Position, ls \in Optional(SUBSET Load) : Retargets(b, p, ls)
    BY <1>3, BatchStep
  <2>2. [ms.targets[b] EXCEPT ![p] = ls] \in [Position -> Optional(SUBSET Load)]
    OBVIOUS
  <2> QED BY <2>1, <2>2 DEF Retargets
<1>4. CASE EditCheckValues
  <2>1. PICK s \in Scope, t \in Optional(CheckType) : ms' = [ms EXCEPT !.check[s] = t]
    BY <1>4, EditAssumption DEF EditAssumption, EditCheckValues, SetCheckValueType
  <2> QED BY <2>1
<1> QED BY <1>1, <1>2, <1>3, <1>4

(* Every operation leaves a media set of the right shape.                  *)
THEOREM Typing == Spec => []TypeOK
<1>1. TypeOK /\ [Next]_ms => TypeOK'
  BY EditTreeTyping, EditMembersTyping DEF Next, TypeOK
<1> QED BY <1>1, InitTyping, PTL DEF Spec

-----------------------------------------------------------------------------
(* The invariant is kept.                                                  *)

LEMMA InitSound == Init => Sound
BY EmptyTyping, EmptyProper
   DEF Init, Sound, TypeOK, Proper, OutsidersBare, NamesUnique, LinksLive

(* A new directory or file.                                                *)
LEMMA AttachSound ==
  ASSUME Sound, NEW c \in Containers(ms), NEW e \in Entity, NEW n, TypeOK',
         ~InSet(ms, e), ~NameTaken(ms, c, n),
         ms'.parent = [ms.parent EXCEPT ![e] = c],
         ms'.name = [ms.name EXCEPT ![e] = n],
         UNCHANGED <<ms.data, ms.support, ms.targets>>
  PROVE  Sound'
<1> USE DEF Sound, TypeOK, MediaSetType
<1>1. c # NoValue
  BY Classes DEF Containers, Container
<1>2. Tree(ms)'
  BY AttachKeepsTree
<1>3. \A x \in Entity : InSet(ms, x)' <=> InSet(ms, x) \/ x = e
  BY <1>1 DEF InSet
<1>4. Files(ms) \subseteq Files(ms)'
  BY <1>3 DEF Files, Entity
<1>5. Unlinked(ms)'
  BY <1>3 DEF Unlinked, Entity, File
<1>6. NamesUnique'
  BY <1>1, <1>3, NameFree DEF NamesUnique, UniqueNames
<1>7. LinksLive'
  BY <1>4 DEF LinksLive, LiveLinks
<1> QED BY <1>2, <1>5, <1>6, <1>7

(* The links of loads and batches are found through the recursive lists.   *)
LEMMA UnusedLoad ==
  ASSUME Sound, NEW l \in Load, BatchesWithLoad(ms, l) = {},
         NEW b \in Batch, NEW p \in Position, ms.targets[b][p] # NoValue
  PROVE  l \notin ms.targets[b][p]
<1>1. InSet(ms, b)
  BY DEF Sound, Unlinked
<1>2. b \in RecursiveBatches(ms)
  BY <1>1, RecursiveFilesOfRoot DEF Sound, RecursiveBatches, Files, File, OnMedium
<1> QED BY <1>2 DEF BatchesWithLoad

LEMMA UnusedFile ==
  ASSUME Sound, NEW f \in RegularFile, {} \in LoadsWithFile(ms, f), NEW l \in Load
  PROVE  f \notin ms.data[l] \cup ms.support[l]
<1>1. CASE ~InSet(ms, l)
  BY <1>1 DEF Sound, Unlinked
<1>2. CASE InSet(ms, l)
  <2>1. l \in RecursiveLoads(ms)
    BY <1>2, RecursiveFilesOfRoot DEF Sound, RecursiveLoads, Files, File, OnMedium
  <2> DEFINE users == {k \in RecursiveLoads(ms) : f \in ms.data[k]}
             supported == {k \in RecursiveLoads(ms) \ users : f \in ms.support[k]}
  <2>2. {} \in IF users = {} THEN {supported}
               ELSE {{k} \cup before : k \in users, before \in SUBSET supported}
    BY DEF LoadsWithFile
  <2>3. users = {}
    BY <2>2
  <2>4. supported = {}
    BY <2>2, <2>3
  <2> QED BY <2>1, <2>3, <2>4
<1> QED BY <1>1, <1>2

(* A directory without members or a file nothing refers to goes. *)
LEMMA DetachSound ==
  ASSUME Sound, NEW e \in Entity, TypeOK',
         \A x \in Entity : ms.parent[x] # e,
         ms'.parent = [ms.parent EXCEPT ![e] = NoValue],
         \A x \in Entity : x # e => ms'.name[x] = ms.name[x],
         \A l \in Load : /\ e \notin ms.data[l] \cup ms.support[l]
                         /\ ms'.data[l] = IF l = e THEN {} ELSE ms.data[l]
                         /\ ms'.support[l] = IF l = e THEN {} ELSE ms.support[l],
         \A b \in Batch, p \in Position :
           /\ ms.targets[b][p] # NoValue => e \notin ms.targets[b][p]
           /\ ms'.targets[b][p] = IF b = e THEN NoValue ELSE ms.targets[b][p]
  PROVE  Sound'
<1> USE DEF Sound, TypeOK, MediaSetType
<1>1. Tree(ms)'
  BY DetachKeepsTree
<1>2. \A x \in Entity : InSet(ms, x)' <=> InSet(ms, x) /\ x # e
  BY DEF InSet
<1>3. Files(ms)' = Files(ms) \ {e}
  BY <1>2 DEF Files, Entity
<1>4. Unlinked(ms)'
  <2>1. ASSUME NEW l \in Load, ~InSet(ms, l)'
        PROVE  ms'.data[l] = {} /\ ms'.support[l] = {}
    BY <1>2, <2>1 DEF Unlinked, Entity, File
  <2>2. ASSUME NEW b \in Batch, ~InSet(ms, b)', NEW p \in Position
        PROVE  ms'.targets[b][p] = NoValue
    BY <1>2, <2>2 DEF Unlinked, Entity, File
  <2> QED BY <2>1, <2>2 DEF Unlinked
<1>5. NamesUnique'
  BY <1>2 DEF NamesUnique, UniqueNames, InSet
<1>6. LinksLive'
  BY <1>3 DEF LinksLive, LiveLinks
<1> QED BY <1>1, <1>4, <1>5, <1>6

LEMMA EditTreeSound ==
  ASSUME Sound, EditTree
  PROVE  Sound'
<1> USE DEF Sound
<1>1. TypeOK'
  BY EditTreeTyping
<1>2. ASSUME NEW c \in Container, NEW d \in Directory, NEW n \in Name,
             AddSubdirectory(c, d, n)
      PROVE  Sound'
  BY <1>1, <1>2, AttachSound DEF AddSubdirectory, TypeOK, MediaSetType, Entity
<1>3. ASSUME NEW c \in Container, NEW f \in File, NEW n \in Name,
             NEW m \in Optional(EditedMedium), AddFile(c, f, n, m)
      PROVE  Sound'
  BY <1>1, <1>3, AttachSound DEF AddFile, TypeOK, MediaSetType, Entity
<1>4. ASSUME NEW d \in Directory, RemoveSubdirectory(d)
      PROVE  Sound'
  <2>1. \A x \in Entity : ms.parent[x] # d
    BY <1>4 DEF RemoveSubdirectory, HasChildren, AllSubdirectories, AllFiles, Entity
  <2>2. d \in Entity /\ d \notin File
    BY Classes DEF Entity
  <2>3. /\ \A l \in Load : d \notin ms.data[l] \cup ms.support[l] /\ l # d
        /\ \A b \in Batch, p \in Position :
             b # d /\ (ms.targets[b][p] # NoValue => d \notin ms.targets[b][p])
    BY <2>2 DEF LinksLive, LiveLinks, Files, File
  <2>4. /\ ms'.parent = [ms.parent EXCEPT ![d] = NoValue]
        /\ \A x \in Entity : x # d => ms'.name[x] = ms.name[x]
        /\ UNCHANGED <<ms.data, ms.support, ms.targets>>
    BY <1>4, <2>2 DEF RemoveSubdirectory, TypeOK, MediaSetType
  <2> QED BY <1>1, <2>1, <2>2, <2>3, <2>4, DetachSound
<1>5. ASSUME NEW f \in File, RemoveFile(f)
      PROVE  Sound'
  <2>1. f \in Entity /\ \A x \in Entity : ms.parent[x] # f
    BY Classes DEF Entity, Tree, Optional, Container
  <2>2. \A l \in Load : f \notin ms.data[l] \cup ms.support[l]
    <3>1. CASE f \in RegularFile
      BY <1>5, <3>1, UnusedFile DEF RemoveFile
    <3>2. CASE f \notin RegularFile
      BY <3>2 DEF TypeOK, MediaSetType
    <3> QED BY <3>1, <3>2
  <2>3. \A b \in Batch, p \in Position :
          ms.targets[b][p] # NoValue => f \notin ms.targets[b][p]
    <3>1. CASE f \in Load
      BY <1>5, <3>1, UnusedLoad DEF RemoveFile
    <3>2. CASE f \notin Load
      BY <3>2 DEF TypeOK, MediaSetType, Optional
    <3> QED BY <3>1, <3>2
  <2>4. \A b \in Batch, p \in Position : EmptyMediaSet.targets[b][p] = NoValue
    BY DEF EmptyMediaSet
  <2>5. /\ ms'.parent = [ms.parent EXCEPT ![f] = NoValue]
        /\ \A x \in Entity : x # f => ms'.name[x] = ms.name[x]
        /\ \A l \in Load : /\ ms'.data[l] = IF l = f THEN {} ELSE ms.data[l]
                           /\ ms'.support[l] = IF l = f THEN {} ELSE ms.support[l]
        /\ \A b \in Batch, p \in Position :
             ms'.targets[b][p] = IF b = f THEN NoValue ELSE ms.targets[b][p]
    BY <1>5, <2>1, <2>4 DEF RemoveFile, TypeOK, MediaSetType
  <2> QED BY <1>1, <2>1, <2>2, <2>3, <2>5, DetachSound
<1>6. ASSUME NEW e \in Entity, NEW n \in Name, Rename(e, n)
      PROVE  Sound'
  <2>1. /\ ms'.name = [ms.name EXCEPT ![e] = n] /\ ~NameTaken(ms, ms.parent[e], n)
        /\ UNCHANGED <<ms.parent, ms.data, ms.support, ms.targets>>
    BY <1>6 DEF Rename, TypeOK, MediaSetType
  <2>2. Tree(ms)'
    BY <2>1, SameTree
  <2>3. Unlinked(ms)' /\ LinksLive'
    BY <2>1 DEF Unlinked, LinksLive, LiveLinks, InSet, Files
  <2>4. NamesUnique'
    BY <2>1, NameFree DEF NamesUnique, UniqueNames, InSet, TypeOK, MediaSetType
  <2> QED BY <1>1, <2>2, <2>3, <2>4
<1> QED BY <1>2, <1>3, <1>4, <1>5, <1>6
        DEF EditTree, AddRegularFile, AddLoad, AddBatch, File

(* The other operations move nothing in the tree and rename nothing; what  *)
(* they link is in the media set.                                          *)
LEMMA EditMembersSound ==
  ASSUME Sound, EditMedia \/ EditLoad \/ EditBatch \/ EditCheckValues
  PROVE  Sound'
<1> USE DEF Sound
<1>1. TypeOK'
  BY EditMembersTyping
<1>2. ms'.parent = ms.parent /\ ms'.name = ms.name
  BY DEF EditMedia, SetDefaultMediumNumber, SetMediumNumber, EditLoad, DataFile, SupportFile,
         DataFiles, SupportFiles, EditBatch, TargetLoad, TargetLoads, EditCheckValues,
         SetCheckValueType, TypeOK, MediaSetType
<1>3. Tree(ms)'
  BY <1>2, SameTree
<1>4. NamesUnique'
  BY <1>2 DEF NamesUnique, UniqueNames, InSet
<1>5. Files(ms)' = Files(ms) /\ \A x \in Entity : InSet(ms, x)' <=> InSet(ms, x)
  BY <1>2 DEF Files, InSet
<1>6. CASE EditMedia \/ EditCheckValues
  <2>1. UNCHANGED <<ms.data, ms.support, ms.targets>>
    BY <1>6 DEF EditMedia, SetDefaultMediumNumber, SetMediumNumber, EditCheckValues,
                SetCheckValueType, TypeOK, MediaSetType
  <2>2. Unlinked(ms)' /\ LinksLive'
    BY <1>2, <2>1 DEF Unlinked, LinksLive, LiveLinks, InSet, Files
  <2> QED BY <1>1, <1>3, <1>4, <2>2
<1>7. CASE EditLoad
  <2>1. PICK l \in Load :
          /\ InSet(ms, l)
          /\ \A k \in Load : k # l => ms'.data[k] = ms.data[k] /\ ms'.support[k] = ms.support[k]
          /\ ms'.data[l] \cup ms'.support[l] \subseteq Files(ms)
          /\ ms'.targets = ms.targets
    BY <1>7 DEF EditLoad, DataFile, SupportFile, DataFiles, SupportFiles, TypeOK, MediaSetType,
                LinksLive, LiveLinks, Files, File
  <2>2. \A k \in Load : (InSet(ms, k)' <=> InSet(ms, k)) /\ k \in Entity
    BY <1>5 DEF Entity, File
  <2>3. \A k \in Load : ~InSet(ms, k)' => ms'.data[k] = {} /\ ms'.support[k] = {}
    BY <2>1, <2>2 DEF Unlinked
  <2>4. ASSUME NEW k \in Load
        PROVE  ms'.data[k] \cup ms'.support[k] \subseteq Files(ms)
    <3>1. ms.data[k] \cup ms.support[k] \subseteq Files(ms)
      BY DEF LinksLive, LiveLinks
    <3> QED BY <2>1, <3>1
  <2>5. \A b \in Batch, p \in Position :
          /\ ~InSet(ms, b) => ms.targets[b][p] = NoValue
          /\ ms.targets[b][p] # NoValue => ms.targets[b][p] \subseteq Files(ms)
    BY DEF Unlinked, LinksLive, LiveLinks
  <2>6. ms'.targets = ms.targets
    BY <2>1
  <2>7. Unlinked(ms)'
    BY <1>5, <2>3, <2>5, <2>6 DEF Unlinked, Entity, File
  <2>8. LinksLive'
    BY <1>5, <2>4, <2>5, <2>6 DEF LinksLive, LiveLinks
  <2> QED BY <1>1, <1>3, <1>4, <2>7, <2>8
<1>8. CASE EditBatch
  <2>1. PICK b \in Batch, p \in Position :
          /\ InSet(ms, b)
          /\ \A c \in Batch, q \in Position :
               c # b \/ q # p => ms'.targets[c][q] = ms.targets[c][q]
          /\ ms'.targets[b][p] # NoValue => ms'.targets[b][p] \subseteq Files(ms)
          /\ UNCHANGED <<ms.data, ms.support>>
    <3>1. PICK b \in Batch, p \in Position, ls \in Optional(SUBSET Load) : Retargets(b, p, ls)
      BY <1>8, BatchStep
    <3>2. /\ \A c \in Batch, q \in Position :
               c # b \/ q # p => ms'.targets[c][q] = ms.targets[c][q]
          /\ ms'.targets[b][p] = ls
          /\ UNCHANGED <<ms.data, ms.support>>
      BY <3>1 DEF Retargets, TypeOK, MediaSetType
    <3> QED BY <3>1, <3>2 DEF Retargets
  <2>2. Unlinked(ms)'
    BY <1>5, <2>1 DEF Unlinked, Entity, File
  <2>3. LinksLive'
    BY <1>5, <2>1 DEF LinksLive, LiveLinks
  <2> QED BY <1>1, <1>3, <1>4, <2>2, <2>3
<1> QED BY <1>6, <1>7, <1>8

(* Sound is an invariant of every sequence of operations: a tree with      *)
(* unique names, whose links lead to members, from members only.           *)
THEOREM Soundness == Spec => []Sound
<1>1. Sound /\ [Next]_ms => Sound'
  <2> SUFFICES ASSUME Sound, [Next]_ms
               PROVE  Sound'
    OBVIOUS
  <2>1. CASE UNCHANGED ms
    BY <2>1 DEF Sound, TypeOK, Unlinked, NamesUnique, UniqueNames, LinksLive, LiveLinks
  <2> QED BY <2>1, EditTreeSound, EditMembersSound DEF Next
<1> QED BY <1>1, InitSound, PTL DEF Spec

(* Names, medium numbers and check value types go with their object.       *)
LEMMA UnmarkedKept ==
  ASSUME TypeOK, Tree(ms), Unmarked(ms), Next
  PROVE  Unmarked(ms)'
<1> USE DEF TypeOK, MediaSetType
<1>1. EmptyMediaSet' = EmptyMediaSet
  BY DEF EmptyMediaSet
<1>2. ASSUME NEW c \in Container, NEW d \in Directory, NEW n \in Name, AddSubdirectory(c, d, n)
      PROVE  Unmarked(ms)'
  <2>1. ms'.parent = [ms.parent EXCEPT ![d] = c] /\ c # NoValue /\ d \in Entity
    BY <1>2, Classes DEF AddSubdirectory, Entity
  <2>2. \A x \in Entity : ~InSet(ms, x)' => ~InSet(ms, x) /\ x # d
    BY <2>1 DEF InSet
  <2>3. /\ \A x \in Entity \ {d} : ms'.name[x] = ms.name[x]
        /\ ms'.medium = ms.medium /\ ms'.check = ms.check
    BY <1>2 DEF AddSubdirectory
  <2> QED BY <1>1, <2>2, <2>3, Classes DEF Unmarked, Scope, File, Entity
<1>3. ASSUME NEW c \in Container, NEW f \in File, NEW n \in Name,
             NEW m \in Optional(EditedMedium), AddFile(c, f, n, m)
      PROVE  Unmarked(ms)'
  <2>1. ms'.parent = [ms.parent EXCEPT ![f] = c] /\ c # NoValue /\ f \in Entity
    BY <1>3, Classes DEF AddFile, Entity
  <2>2. \A x \in Entity : ~InSet(ms, x)' => ~InSet(ms, x) /\ x # f
    BY <2>1 DEF InSet
  <2>3. /\ \A x \in Entity \ {f} : ms'.name[x] = ms.name[x] /\ ms'.medium[x] = ms.medium[x]
        /\ ms'.check = ms.check
    BY <1>3 DEF AddFile, Entity, Container
  <2> QED BY <1>1, <2>2, <2>3, Classes DEF Unmarked, Scope, File, Entity
<1>4. ASSUME NEW d \in Directory, RemoveSubdirectory(d)
      PROVE  Unmarked(ms)'
  <2>1. /\ ms'.parent = [ms.parent EXCEPT ![d] = NoValue] /\ d \in Entity
        /\ ms'.name = [ms.name EXCEPT ![d] = EmptyMediaSet.name[d]]
        /\ ms'.medium = [ms.medium EXCEPT ![d] = NoValue]
        /\ ms'.check = ms.check
    BY <1>4 DEF RemoveSubdirectory, Entity
  <2>2. \A x \in Entity : ~InSet(ms, x)' => ~InSet(ms, x) \/ x = d
    BY <2>1 DEF InSet
  <2>3. \A x \in File : x # d /\ x \in Entity
    BY Classes DEF Entity
  <2> QED BY <1>1, <2>1, <2>2, <2>3 DEF Unmarked, Scope, File, Entity, Container
<1>5. ASSUME NEW f \in File, RemoveFile(f)
      PROVE  Unmarked(ms)'
  <2>1. /\ ms'.parent = [ms.parent EXCEPT ![f] = NoValue] /\ f \in Entity
        /\ ms'.name = [ms.name EXCEPT ![f] = EmptyMediaSet.name[f]]
        /\ ms'.medium = [ms.medium EXCEPT ![f] = NoValue]
        /\ ms'.check = [s \in Scope |-> IF s[1] = f THEN NoValue ELSE ms.check[s]]
    BY <1>5 DEF RemoveFile, Entity
  <2>2. \A x \in Entity : ~InSet(ms, x)' => ~InSet(ms, x) \/ x = f
    BY <2>1 DEF InSet
  <2> QED BY <1>1, <2>1, <2>2 DEF Unmarked, Scope, File, Entity, Container
<1>6. ASSUME NEW e \in Entity, NEW n \in Name, Rename(e, n)
      PROVE  Unmarked(ms)'
  <2>1. /\ InSet(ms, e) /\ ms'.name = [ms.name EXCEPT ![e] = n]
        /\ ms'.parent = ms.parent /\ ms'.medium = ms.medium /\ ms'.check = ms.check
    BY <1>6 DEF Rename
  <2> QED BY <1>1, <2>1 DEF Unmarked, InSet
<1>7. CASE EditMedia
  <2>1. PICK x \in File \cup Container :
          /\ x = Root \/ InSet(ms, x)
          /\ \E m : ms' = [ms EXCEPT !.medium[x] = m]
    BY <1>7 DEF EditMedia, SetDefaultMediumNumber, SetMediumNumber, Containers
  <2> PICK m : ms' = [ms EXCEPT !.medium[x] = m]
    BY <2>1
  <2>2. /\ ms'.parent = ms.parent /\ ms'.name = ms.name /\ ms'.check = ms.check
        /\ ms'.medium = [ms.medium EXCEPT ![x] = m]
    BY <2>1
  <2> QED BY <1>1, <2>1, <2>2, Classes DEF Unmarked, InSet, Entity, Container
<1>8. CASE EditLoad \/ EditBatch
  <2>1. /\ ms'.parent = ms.parent /\ ms'.name = ms.name
        /\ ms'.check = ms.check /\ ms'.medium = ms.medium
    BY <1>8 DEF EditLoad, DataFile, SupportFile, DataFiles, SupportFiles, EditBatch, TargetLoad,
                TargetLoads
  <2> QED BY <1>1, <2>1 DEF Unmarked, InSet
<1>9. CASE EditCheckValues
  <2>1. PICK s \in Scope :
          /\ s[1] \in Files(ms) \cup {Root}
          /\ \E t : ms' = [ms EXCEPT !.check[s] = t]
    BY <1>9, EditAssumption DEF EditAssumption, EditCheckValues, SetCheckValueType
  <2> PICK t : ms' = [ms EXCEPT !.check[s] = t]
    BY <2>1
  <2>2. /\ ms'.parent = ms.parent /\ ms'.name = ms.name /\ ms'.medium = ms.medium
        /\ ms'.check = [ms.check EXCEPT ![s] = t]
    BY <2>1
  <2> QED BY <1>1, <2>1, <2>2 DEF Unmarked, InSet, Files
<1> QED BY <1>2, <1>3, <1>4, <1>5, <1>6, <1>7, <1>8, <1>9
        DEF Next, EditTree, AddRegularFile, AddLoad, AddBatch, File

(* Every media set that a program builds is one that the compiler and the  *)
(* XML description rely on being given.                                    *)
THEOREM MadeProper == Spec => [](Proper(ms) /\ OutsidersBare(ms))
<1>1. Init => Unmarked(ms)
  BY EmptyProper DEF Init, OutsidersBare
<1>2. Sound /\ Unmarked(ms) /\ [Next]_ms => Unmarked(ms)'
  BY UnmarkedKept DEF Sound, Unmarked
<1>3. Sound /\ Unmarked(ms) => Proper(ms) /\ OutsidersBare(ms)
  BY DEF Sound, Proper, NamesUnique, LinksLive, OutsidersBare
<1> QED BY <1>1, <1>2, <1>3, Soundness, PTL DEF Spec

(* No sequence of additions and renamings gives two members of a container *)
(* the same name.                                                          *)
THEOREM NamesStayUnique == Spec => []NamesUnique
<1>1. Sound => NamesUnique
  BY DEF Sound
<1> QED BY <1>1, Soundness, PTL

(* What is removed is referred to by nothing, although the check before    *)
(* the removal goes through the recursive lists of loads and batches.      *)
THEOREM LinksStayLive == Spec => []LinksLive
<1>1. Sound => LinksLive
  BY DEF Sound
<1> QED BY <1>1, Soundness, PTL

-----------------------------------------------------------------------------
(* What the queries say of a sound media set.                              *)

LEMMA SoundPartition == Sound => MediaPartition
<1> SUFFICES ASSUME Sound, NEW f \in File
             PROVE  Cardinality({m \in FirstMedium .. LastMedium(ms, Root) :
                                   f \in RecursiveFiles(ms, Root, m)})
                      = IF InSet(ms, f) THEN 1 ELSE 0
  BY DEF MediaPartition
<1> DEFINE reported == {m \in FirstMedium .. LastMedium(ms, Root) :
                          f \in RecursiveFiles(ms, Root, m)}
<1>1. Tree(ms) /\ ms.medium \in [File \cup Container -> Optional(MediumNumber)]
  BY DEF Sound, TypeOK, MediaSetType
<1>2. \A m \in Nat : f \in RecursiveFiles(ms, Root, m)
                      <=> InSet(ms, f) /\ EffectiveMedium(ms, f) = m
  BY <1>1, RecursiveFilesOfRoot, Classes DEF Files, OnMedium
<1>3. LastMedium(ms, Root) \in MediumNumber
  BY <1>1, LastMediumBounds
<1>4. \A m \in FirstMedium .. LastMedium(ms, Root) : m \in Nat
  BY <1>3 DEF FirstMedium, MediumNumber
<1>5. CASE InSet(ms, f)
  <2>1. f \in Files(ms)
    BY <1>5 DEF Files
  <2>2. /\ EffectiveMedium(ms, f) \in MediumNumber
        /\ EffectiveMedium(ms, f) <= LastMedium(ms, Root)
    BY <1>1, <2>1, EffectiveMediumTyping, LastMediumBounds
  <2>3. EffectiveMedium(ms, f) \in FirstMedium .. LastMedium(ms, Root)
    BY <1>3, <2>2, MediumAssumption DEF MediumAssumption, FirstMedium, MediumNumber
  <2>4. reported = {EffectiveMedium(ms, f)}
    BY <1>2, <1>4, <1>5, <2>3
  <2> QED BY <1>5, <2>4, FS_Singleton
<1>6. CASE ~InSet(ms, f)
  <2>1. reported = {}
    BY <1>2, <1>4, <1>6
  <2> QED BY <1>6, <2>1, FS_EmptySet
<1> QED BY <1>5, <1>6

(* The media from the first to the last share out the files.               *)
THEOREM MediaShareFiles == Spec => []MediaPartition
BY SoundPartition, Soundness, PTL

LEMMA SoundPaths == Sound => PathsLeadBack
<1> SUFFICES ASSUME Sound, NEW c \in Containers(ms), NEW e \in Entity, InSet(ms, e)
             PROVE  (IF e \in Directory THEN SubdirectoryAt(ms, c, TRUE, Path(ms, e))
                                        ELSE FileAt(ms, c, TRUE, Path(ms, e))) = {e}
  BY DEF PathsLeadBack
<1>1. Tree(ms) /\ UniqueNames(ms) /\ ms.name \in [Entity -> Name]
  BY DEF Sound, NamesUnique, TypeOK, MediaSetType
<1>2. CASE e \in Directory
  <2>1. e \in Containers(ms)
    BY <1>2 DEF Containers
  <2> QED BY <1>1, <1>2, <2>1, DirectoryFound DEF SubdirectoryAt
<1>3. CASE e \notin Directory
  <2> DEFINE p == ms.parent[e]
             n == ms.name[e]
             s == Path(ms, p)
  <2>1. e \in Files(ms) /\ e \in File
    BY <1>3 DEF Files, Entity
  <2>2. p \in Containers(ms) /\ Path(ms, e) = Append(s, n) /\ Front(Path(ms, e)) = s
        /\ Last(Path(ms, e)) = n
    BY <1>1, <2>1, PathOfFile
  <2>3. Follow(ms, Root, s) = {p}
    BY <1>1, <2>2, DirectoryFound
  <2> HIDE DEF s
  <2>6. FileNamed(ms, p, n) = {e}
    <3>1. \A x \in File : ms.parent[x] = p /\ ms.name[x] = n => x = e
      BY <1>1 DEF UniqueNames, Entity
    <3> QED BY <2>1, <3>1 DEF FileNamed, AllFiles
  <2>7. FileAt(ms, c, TRUE, Path(ms, e)) = UNION {FileNamed(ms, x, n) : x \in {p}}
    BY <2>2, <2>3 DEF FileAt, SubdirectoryAt
  <2>8. FileAt(ms, c, TRUE, Path(ms, e)) = {e}
    BY <2>6, <2>7
  <2> QED BY <1>3, <2>8
<1> QED BY <1>2, <1>3

(* The path of a member leads back to it, from any container.              *)
THEOREM PathsFound == Spec => []PathsLeadBack
BY SoundPaths, Soundness, PTL
=============================================================================
