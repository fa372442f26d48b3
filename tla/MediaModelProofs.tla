-------------------------- MODULE MediaModelProofs --------------------------
(***************************************************************************)
(* Lemmas about the queries on a media set. The queries that walk the tree *)
(* are recursive, and what holds of them is proved along the tree: upward  *)
(* from the directories without subdirectories, or downward from the media *)
(* set. Both ways are stated with sets of containers, as Rooted and        *)
(* Grounded, which every media set under edit satisfies (MediaTreeProofs). *)
(***************************************************************************)
EXTENDS MediaModel, FiniteSetTheorems, SequenceTheorems, WellFoundedInduction, TLAPS

(* The classes of objects are disjoint.                                    *)
LEMMA Classes ==
  /\ Root \notin Directory /\ Root \notin File /\ Root # NoValue
  /\ NoValue \notin Container /\ NoValue \notin File
  /\ Directory \cap File = {}
  /\ RegularFile \cap Load = {} /\ RegularFile \cap Batch = {} /\ Load \cap Batch = {}
  /\ NoValue \notin Nat
<1> DEFINE classes == <<Directory, RegularFile, Load, Batch, {Root}, {NoValue}>>
<1>1. \A i, j \in 1 .. 6 : i # j => classes[i] \cap classes[j] = {}
  BY MediaAssumption DEF MediaAssumption
<1>2. /\ classes[1] = Directory /\ classes[2] = RegularFile /\ classes[3] = Load
      /\ classes[4] = Batch /\ classes[5] = {Root} /\ classes[6] = {NoValue}
  OBVIOUS
<1> HIDE DEF classes
<1>3. \A i, j \in {1, 2, 3, 4, 5, 6} : i # j => classes[i] \cap classes[j] = {}
  BY <1>1
<1>4. NoValue \notin Nat
  BY MediaAssumption DEF MediaAssumption
<1>5. /\ Directory \cap RegularFile = {} /\ Directory \cap Load = {} /\ Directory \cap Batch = {}
      /\ RegularFile \cap Load = {} /\ RegularFile \cap Batch = {} /\ Load \cap Batch = {}
      /\ Root \notin Directory \cup RegularFile \cup Load \cup Batch
      /\ NoValue \notin Directory \cup RegularFile \cup Load \cup Batch /\ Root # NoValue
  BY <1>2, <1>3
<1> QED BY <1>4, <1>5 DEF File, Container

-----------------------------------------------------------------------------
(* The tree grows and shrinks by one object at a time.                     *)

LEMMA AttachKeepsTree ==
  ASSUME NEW s, NEW t, Tree(s), NEW c \in Containers(s), NEW e \in Entity, ~InSet(s, e),
         t.parent = [s.parent EXCEPT ![e] = c]
  PROVE  Tree(t)
<1>1. /\ c \in Container /\ c # NoValue
      /\ t.parent \in [Entity -> Optional(Container)]
  BY Classes DEF Tree, Containers, Container, Optional
<1>2. Containers(t) = Containers(s) \cup ({e} \cap Directory)
  BY <1>1 DEF Containers, InSet, Tree, Entity
<1>3. e \notin Containers(s)
  BY Classes DEF Containers, Entity
<1>4. \A x \in Entity : s.parent[x] # e
  BY <1>3, Classes DEF Tree, ParentsLive, InSet, Entity, Container
<1>5. ParentsLive(t)
  BY <1>1, <1>2 DEF ParentsLive, InSet, Tree
<1>6. Rooted(t)
  <2> SUFFICES ASSUME NEW S \in SUBSET Container, ClosedBelow(t, S)
               PROVE  Containers(t) \subseteq S
    BY DEF Rooted
  <2>1. ClosedBelow(s, S)
    <3> SUFFICES ASSUME NEW d \in Directory, s.parent[d] \in S
                 PROVE  d \in S
      BY DEF ClosedBelow
    <3>1. d # e
      BY Classes DEF InSet
    <3> QED BY <3>1 DEF ClosedBelow, Tree, Entity
  <2>2. Containers(s) \subseteq S
    BY <2>1 DEF Tree, Rooted
  <2>3. e \in Directory => e \in S
    BY <2>2 DEF ClosedBelow, Tree
  <2> QED BY <1>2, <2>2, <2>3
<1>7. Grounded(t)
  <2> SUFFICES ASSUME NEW S \in SUBSET Container, ClosedAbove(t, S)
               PROVE  Containers(t) \subseteq S
    BY DEF Grounded
  <2>1. e \in Directory => e \in S
    <3> SUFFICES ASSUME e \in Directory
                 PROVE  e \in S
      OBVIOUS
    <3>1. AllSubdirectories(t, e) = {}
      BY <1>3, <1>4 DEF AllSubdirectories, Tree, Entity
    <3> QED BY <3>1 DEF ClosedAbove, Container
  <2>2. ClosedAbove(s, S)
    <3> SUFFICES ASSUME NEW x \in Container, AllSubdirectories(s, x) \subseteq S
                 PROVE  x \in S
      BY DEF ClosedAbove
    <3>1. AllSubdirectories(t, x) \subseteq S
      BY <2>1 DEF AllSubdirectories, Tree, Entity
    <3> QED BY <3>1 DEF ClosedAbove
  <2> QED BY <1>2, <2>1, <2>2 DEF Tree, Grounded
<1> QED BY <1>1, <1>5, <1>6, <1>7 DEF Tree

LEMMA DetachAllKeepsTree ==
  ASSUME NEW s, NEW t, Tree(s), NEW E \in SUBSET Entity, \A x \in Entity : s.parent[x] \notin E,
         t.parent = [x \in Entity |-> IF x \in E THEN NoValue ELSE s.parent[x]]
  PROVE  Tree(t)
<1>1. t.parent \in [Entity -> Optional(Container)]
  BY DEF Tree, Optional
<1>2. Containers(t) = Containers(s) \ E
  BY Classes DEF Containers, InSet, Tree, Entity
<1>3. ParentsLive(t)
  BY <1>2 DEF ParentsLive, InSet, Tree
<1>4. Rooted(t)
  <2> SUFFICES ASSUME NEW S \in SUBSET Container, ClosedBelow(t, S)
               PROVE  Containers(t) \subseteq S
    BY DEF Rooted
  <2>1. ClosedBelow(s, S \cup (E \cap Container))
    BY DEF ClosedBelow, Tree, Entity, Container
  <2>2. Containers(s) \subseteq S \cup (E \cap Container)
    BY <2>1 DEF Tree, Rooted
  <2> QED BY <1>2, <2>2
<1>5. Grounded(t)
  <2> SUFFICES ASSUME NEW S \in SUBSET Container, ClosedAbove(t, S)
               PROVE  Containers(t) \subseteq S
    BY DEF Grounded
  <2>1. \A x \in Container : AllSubdirectories(t, x) \subseteq AllSubdirectories(s, x)
    BY Classes DEF AllSubdirectories, Tree, Entity
  <2>2. ClosedAbove(s, S)
    BY <2>1 DEF ClosedAbove
  <2> QED BY <1>2, <2>2 DEF Tree, Grounded
<1> QED BY <1>1, <1>3, <1>4, <1>5 DEF Tree

LEMMA DetachKeepsTree ==
  ASSUME NEW s, NEW t, Tree(s), NEW e \in Entity, \A x \in Entity : s.parent[x] # e,
         t.parent = [s.parent EXCEPT ![e] = NoValue]
  PROVE  Tree(t)
<1>1. {e} \in SUBSET Entity /\ \A x \in Entity : s.parent[x] \notin {e}
  OBVIOUS
<1>2. t.parent = [x \in Entity |-> IF x \in {e} THEN NoValue ELSE s.parent[x]]
  BY DEF Tree
<1> QED BY <1>1, <1>2, DetachAllKeepsTree

(* Nothing but the parents matters to the tree. *)
LEMMA SameTree ==
  ASSUME NEW s, NEW t, Tree(s), t.parent = s.parent
  PROVE  Tree(t)
BY DEF Tree, Rooted, Grounded, ParentsLive, ClosedBelow, ClosedAbove, Containers,
       AllSubdirectories, InSet

(* A media set as it is created. *)
LEMMA EmptyTyping == EmptyMediaSet \in MediaSetType
<1>1. (CHOOSE n \in Name : TRUE) \in Name
  BY MediaAssumption DEF MediaAssumption
<1>2. FirstMedium \in MediumNumber
  BY MediumAssumption DEF MediumAssumption, FirstMedium, MediumNumber
<1> QED BY <1>1, <1>2 DEF MediaSetType, EmptyMediaSet, Optional

LEMMA EmptyProper == Proper(EmptyMediaSet) /\ OutsidersBare(EmptyMediaSet)
<1> DEFINE new == EmptyMediaSet
<1>1. \A e \in Entity : new.parent[e] = NoValue
  BY DEF EmptyMediaSet
<1>2. Containers(new) = {Root}
  BY <1>1 DEF Containers, InSet, Entity
<1>3. Rooted(new)
  BY <1>2 DEF Rooted, ClosedBelow
<1>4. Grounded(new)
  <2> SUFFICES ASSUME NEW S \in SUBSET Container, ClosedAbove(new, S)
               PROVE  Root \in S
    BY <1>2 DEF Grounded
  <2>1. AllSubdirectories(new, Root) = {}
    BY <1>1, Classes DEF AllSubdirectories, Entity
  <2> QED BY <2>1 DEF ClosedAbove, Container
<1>5. Tree(new)
  BY <1>1, <1>3, <1>4, EmptyTyping DEF Tree, ParentsLive, InSet, MediaSetType
<1>6. LiveLinks(new) /\ Unlinked(new)
  BY DEF LiveLinks, Unlinked, EmptyMediaSet
<1>7. UniqueNames(new)
  BY <1>1 DEF UniqueNames, InSet
<1>8. Unmarked(new)
  BY Classes DEF Unmarked, EmptyMediaSet, Entity, Container
<1> QED BY <1>5, <1>6, <1>7, <1>8 DEF Proper, OutsidersBare

(* A name that no member of a container has.                               *)
LEMMA NameFree ==
  ASSUME NEW s, NEW c, NEW n, ~NameTaken(s, c, n), NEW x \in Entity, s.parent[x] = c
  PROVE  s.name[x] # n
BY DEF NameTaken, SubdirectoryNamed, FileNamed, AllSubdirectories, AllFiles, Entity

-----------------------------------------------------------------------------
(* The files below a container.                                            *)

(* The recursion defines what it says: one level of it can be unfolded.    *)
LEMMA RecursiveFilesStep ==
  ASSUME NEW ms, NEW m, NEW c \in Container
  PROVE  RecursiveFiles(ms, c, m)
           = FilesOn(ms, c, m)
               \cup UNION {RecursiveFiles(ms, d, m) : d \in AllSubdirectories(ms, c)}
<1> DEFINE Down(S) == \A d \in Directory : ms.parent[d] \in S => d \in S
           Below(x) == {y \in Container :
                          \A S \in SUBSET Container : x \in S /\ Down(S) => y \in S}
           files == [x \in Container |-> UNION {FilesOn(ms, y, m) : y \in Below(x)}]
           Unfolds(g) ==
             g = [x \in Container |->
                    FilesOn(ms, x, m) \cup UNION {g[d] : d \in AllSubdirectories(ms, x)}]
           below == CHOOSE g : Unfolds(g)
<1>1. ASSUME NEW x \in Container
      PROVE  Below(x) = {x} \cup UNION {Below(d) : d \in AllSubdirectories(ms, x)}
  <2> DEFINE B == {x} \cup UNION {Below(d) : d \in AllSubdirectories(ms, x)}
  <2>1. ASSUME NEW y \in B
        PROVE  y \in Below(x)
    BY DEF AllSubdirectories, Container
  <2>2. B \in SUBSET Container
    OBVIOUS
  <2>3. Down(B)
    <3> SUFFICES ASSUME NEW d \in Directory, ms.parent[d] \in B
                 PROVE  d \in B
      OBVIOUS
    <3>1. \A z \in Directory : z \in Below(z)
      BY DEF Container
    <3>2. CASE ms.parent[d] = x
      BY <3>1, <3>2 DEF AllSubdirectories
    <3>3. ASSUME NEW z \in AllSubdirectories(ms, x), ms.parent[d] \in Below(z)
          PROVE  d \in B
      <4>1. d \in Below(z)
        BY <3>3 DEF Container
      <4> QED BY <4>1
    <3> QED BY <3>2, <3>3
  <2> QED BY <2>1, <2>2, <2>3
<1>2. Unfolds(files)
  <2> SUFFICES ASSUME NEW x \in Container
               PROVE  files[x] = FilesOn(ms, x, m)
                                   \cup UNION {files[d] : d \in AllSubdirectories(ms, x)}
    OBVIOUS
  <2>1. AllSubdirectories(ms, x) \subseteq Container
    BY DEF AllSubdirectories, Container
  <2>2. Below(x) = {x} \cup UNION {Below(d) : d \in AllSubdirectories(ms, x)}
    BY <1>1
  <2> HIDE DEF Below
  <2>3. files[x] = FilesOn(ms, x, m)
                     \cup UNION {UNION {FilesOn(ms, y, m) : y \in Below(d)} :
                                  d \in AllSubdirectories(ms, x)}
    BY <2>2
  <2>4. \A d \in AllSubdirectories(ms, x) :
          files[d] = UNION {FilesOn(ms, y, m) : y \in Below(d)}
    BY <2>1
  <2> QED BY <2>3, <2>4
<1>3. Unfolds(below)
  BY <1>2
<1>4. \A x : RecursiveFiles(ms, x, m) = below[x]
  BY DEF RecursiveFiles
<1> HIDE DEF below
<1> QED BY <1>3, <1>4
(* The recursive list of files of a media set is the list of its members,  *)
(* filtered by the medium: none is missed, none is from elsewhere.         *)
LEMMA RecursiveFilesOfRoot ==
  ASSUME NEW ms, NEW m, Tree(ms)
  PROVE  RecursiveFiles(ms, Root, m) = {f \in Files(ms) : OnMedium(ms, f, m)}
<1> DEFINE Listed == {f \in Files(ms) : OnMedium(ms, f, m)}
           Short == {c \in Container : RecursiveFiles(ms, c, m) \subseteq Listed}
           Long == {c \in Container :
                      RecursiveFiles(ms, c, m) \subseteq RecursiveFiles(ms, Root, m)}
<1> HIDE DEF Listed
<1>1. \A c \in Container : FilesOn(ms, c, m) \subseteq Listed
  BY Classes DEF FilesOn, AllFiles, Files, InSet, Container, Listed
<1>2. ClosedAbove(ms, Short)
  <2> SUFFICES ASSUME NEW c \in Container, AllSubdirectories(ms, c) \subseteq Short
               PROVE  RecursiveFiles(ms, c, m) \subseteq Listed
    BY DEF ClosedAbove
  <2> QED BY <1>1, RecursiveFilesStep
<1>3. RecursiveFiles(ms, Root, m) \subseteq Listed
  <2>1. Containers(ms) \subseteq Short
    BY <1>2 DEF Tree, Grounded
  <2> QED BY <2>1 DEF Containers
<1>4. ClosedBelow(ms, Long)
  <2>1. Root \in Long
    BY DEF Container
  <2>2. ASSUME NEW d \in Directory, ms.parent[d] \in Long
        PROVE  d \in Long
    <3>1. d \in AllSubdirectories(ms, ms.parent[d]) /\ d \in Container
      BY DEF AllSubdirectories, Container
    <3>2. RecursiveFiles(ms, d, m) \subseteq RecursiveFiles(ms, ms.parent[d], m)
      BY <2>2, <3>1, RecursiveFilesStep
    <3> QED BY <2>2, <3>1, <3>2
  <2> QED BY <2>1, <2>2 DEF ClosedBelow
<1>5. ASSUME NEW f \in Listed
      PROVE  f \in RecursiveFiles(ms, Root, m)
  <2>1. /\ f \in FilesOn(ms, ms.parent[f], m)
        /\ ms.parent[f] \in Containers(ms)
    BY DEF Listed, Tree, ParentsLive, Files, FilesOn, AllFiles, Entity
  <2>2. ms.parent[f] \in Long
    BY <1>4, <2>1 DEF Tree, Rooted
  <2> QED BY <2>1, <2>2, RecursiveFilesStep
<1> QED BY <1>3, <1>5 DEF Listed

-----------------------------------------------------------------------------
(* What is inherited along the tree.                                       *)

(* Every node in D comes down from the root, by way of up. *)
Descend(D, root, up) ==
  \A S \in SUBSET D :
    root \in S /\ (\A x \in D \ {root} : up[x] \in S => x \in S) => S = D

(* A recursion down a tree gives the root the value top and computes the   *)
(* value of every other node by step from that of its parent.              *)
Recursion(D, root, up, V, top, step) ==
  /\ root \in D /\ up \in [D \ {root} -> D] /\ Descend(D, root, up)
  /\ top \in V /\ step \in [(D \ {root}) \X V -> V]

Follows(f, D, root, up, V, top, step) ==
  /\ f \in [D -> V]
  /\ \A x \in D : f[x] = IF x = root THEN top ELSE step[<<x, f[up[x]]>>]

LEMMA Inheritance ==
  ASSUME NEW D, NEW root, NEW up, NEW V, NEW top, NEW step,
         Recursion(D, root, up, V, top, step)
  PROVE  \E f : Follows(f, D, root, up, V, top, step)
<1> USE DEF Recursion
<1> DEFINE Closed(Q) ==
             /\ <<root, top>> \in Q
             /\ \A x \in D \ {root}, v \in V :
                  <<up[x], v>> \in Q => <<x, step[<<x, v>>]>> \in Q
           R == {z \in D \X V : \A Q \in SUBSET (D \X V) : Closed(Q) => z \in Q}
           Total == {x \in D : \E v \in V : <<x, v>> \in R}
           Unique == {x \in D : \A v, w \in V : <<x, v>> \in R /\ <<x, w>> \in R => v = w}
<1>1. R \in SUBSET (D \X V) /\ Closed(R)
  OBVIOUS
<1>2. \A Q \in SUBSET (D \X V) : Closed(Q) => R \subseteq Q
  OBVIOUS
<1> HIDE DEF R
<1>3. Total = D
  <2>1. root \in Total
    BY <1>1
  <2>2. ASSUME NEW x \in D \ {root}, up[x] \in Total
        PROVE  x \in Total
    <3>1. PICK v \in V : <<up[x], v>> \in R
      BY <2>2
    <3>2. <<x, step[<<x, v>>]>> \in R /\ step[<<x, v>>] \in V
      BY <1>1, <3>1
    <3> QED BY <3>2
  <2> HIDE DEF Total
  <2>3. Total \in SUBSET D
    BY DEF Total
  <2> QED BY <2>1, <2>2, <2>3 DEF Descend
<1>4. root \in Unique
  <2> DEFINE Q == R \ {z \in R : z[1] = root /\ z[2] # top}
  <2>1. Q \in SUBSET (D \X V) /\ Closed(Q)
    BY <1>1
  <2>2. R \subseteq Q
    <3> HIDE DEF Q, Closed
    <3> QED BY <1>2, <2>1
  <2> QED BY <2>2
<1>5. ASSUME NEW x \in D \ {root}, up[x] \in Unique
      PROVE  x \in Unique
  <2>1. PICK v \in V : <<up[x], v>> \in R
    BY <1>3
  <2> DEFINE Q == R \ {z \in R : z[1] = x /\ z[2] # step[<<x, v>>]}
  <2>2. Q \in SUBSET (D \X V)
    BY <1>1
  <2>3. Closed(Q)
    BY <1>1, <1>5, <2>1
  <2>4. R \subseteq Q
    BY <1>2, <2>2, <2>3
  <2> QED BY <2>4
<1>6. Unique = D
  <2> HIDE DEF Unique
  <2>1. Unique \in SUBSET D
    BY DEF Unique
  <2> QED BY <1>4, <1>5, <2>1 DEF Descend
<1> DEFINE f == [x \in D |-> CHOOSE v \in V : <<x, v>> \in R]
<1>7. \A x \in D : f[x] \in V /\ <<x, f[x]>> \in R
  BY <1>3
<1>8. ASSUME NEW x \in D
      PROVE  f[x] = IF x = root THEN top ELSE step[<<x, f[up[x]]>>]
  <2>1. CASE x = root
    BY <1>1, <1>6, <1>7, <2>1
  <2>2. CASE x # root
    <3>1. <<up[x], f[up[x]]>> \in R /\ f[up[x]] \in V
      BY <1>7, <2>2
    <3> HIDE DEF f
    <3>2. <<x, step[<<x, f[up[x]]>>]>> \in R /\ step[<<x, f[up[x]]>>] \in V
      BY <1>1, <2>2, <3>1
    <3> QED BY <1>6, <1>7, <2>2, <3>2
  <2> QED BY <2>1, <2>2
<1>9. Follows(f, D, root, up, V, top, step)
  <2>1. f \in [D -> V]
    BY <1>7
  <2> HIDE DEF f
  <2> QED BY <1>8, <2>1 DEF Follows
<1> HIDE DEF f
<1> QED BY <1>9

-----------------------------------------------------------------------------

(* Downward along the containers, and along all members, of a media set.   *)
LEMMA ContainersDown ==
  ASSUME NEW ms, Tree(ms), NEW S \in SUBSET Containers(ms), Root \in S,
         \A d \in Containers(ms) \ {Root} : ms.parent[d] \in S => d \in S
  PROVE  S = Containers(ms)
<1>1. S \in SUBSET Container
  BY DEF Containers, Container
<1>2. ClosedBelow(ms, S)
  BY <1>1, Classes DEF ClosedBelow, Containers, InSet
<1> QED BY <1>1, <1>2 DEF Tree, Rooted

Members(ms) == Containers(ms) \cup Files(ms)

LEMMA MembersDown ==
  ASSUME NEW ms, Tree(ms), NEW S \in SUBSET Members(ms), Root \in S,
         \A e \in Members(ms) \ {Root} : ms.parent[e] \in S => e \in S
  PROVE  S = Members(ms)
<1>1. S \cap Containers(ms) = Containers(ms)
  <2>1. \A d \in Containers(ms) \ {Root} :
          ms.parent[d] \in S \cap Containers(ms) => d \in S \cap Containers(ms)
    BY DEF Members
  <2>2. Root \in S \cap Containers(ms)
    BY DEF Containers
  <2> QED BY <2>1, <2>2, ContainersDown
<1>2. \A f \in Files(ms) : f \in S
  <2>1. \A f \in Files(ms) : f \in Members(ms) \ {Root} /\ ms.parent[f] \in Containers(ms)
    BY Classes DEF Files, Members, Tree, ParentsLive, Entity
  <2> QED BY <1>1, <2>1
<1> QED BY <1>1, <1>2 DEF Members

(* Every container of a media set has a default medium number, its own or  *)
(* the one of its parent.                                                  *)
LEMMA EffectiveDefaultMediumStep ==
  ASSUME NEW ms, Tree(ms),
         ms.medium \in [File \cup Container -> Optional(MediumNumber)],
         NEW c \in Containers(ms)
  PROVE  /\ EffectiveDefaultMedium(ms, c) \in MediumNumber
         /\ EffectiveDefaultMedium(ms, c)
              = IF ms.medium[c] # NoValue THEN ms.medium[c]
                ELSE IF c = Root THEN FirstMedium
                ELSE EffectiveDefaultMedium(ms, ms.parent[c])
<1> DEFINE D == Containers(ms)
           up == [d \in D \ {Root} |-> ms.parent[d]]
           top == IF ms.medium[Root] # NoValue THEN ms.medium[Root] ELSE FirstMedium
           step == [z \in (D \ {Root}) \X MediumNumber |->
                      IF ms.medium[z[1]] # NoValue THEN ms.medium[z[1]] ELSE z[2]]
           Unfolds(g) ==
             g = [x \in Containers(ms) |->
                    IF ms.medium[x] # NoValue THEN ms.medium[x]
                    ELSE IF x = Root THEN FirstMedium ELSE g[ms.parent[x]]]
           effective == CHOOSE g : Unfolds(g)
<1>1. D \subseteq Container /\ Root \in D
  BY DEF Containers, Container
<1>2. \A d \in D \ {Root} : ms.parent[d] \in D
  BY DEF Containers, Tree, ParentsLive, Entity
<1>3. up \in [D \ {Root} -> D]
  BY <1>2
<1>4. top \in MediumNumber
  BY <1>1, MediumAssumption DEF MediumAssumption, Optional, MediumNumber, FirstMedium
<1>5. step \in [(D \ {Root}) \X MediumNumber -> MediumNumber]
  BY <1>1 DEF Optional
<1>6. Descend(D, Root, up)
  BY ContainersDown DEF Descend
<1>7. PICK f \in [D -> MediumNumber] :
        \A x \in D : f[x] = IF x = Root THEN top ELSE step[<<x, f[up[x]]>>]
  <2> HIDE DEF D, up, top, step
  <2>1. Recursion(D, Root, up, MediumNumber, top, step)
    BY <1>1, <1>3, <1>4, <1>5, <1>6 DEF Recursion
  <2> QED BY <2>1, Inheritance DEF Follows
<1>8. Unfolds(f)
  <2> SUFFICES ASSUME NEW x \in D
               PROVE  f[x] = IF ms.medium[x] # NoValue THEN ms.medium[x]
                             ELSE IF x = Root THEN FirstMedium ELSE f[ms.parent[x]]
    OBVIOUS
  <2>1. CASE x = Root
    BY <1>7, <2>1
  <2>2. CASE x # Root
    <3>1. f[x] = step[<<x, f[ms.parent[x]]>>] /\ f[ms.parent[x]] \in MediumNumber
      BY <1>2, <1>7, <2>2
    <3> QED BY <2>2, <3>1
  <2> QED BY <2>1, <2>2
<1>9. Unfolds(effective)
  BY <1>8
<1>10. \A x : EffectiveDefaultMedium(ms, x) = effective[x]
  BY DEF EffectiveDefaultMedium
<1> HIDE DEF effective
<1>11. \A x \in D : effective[x] = IF ms.medium[x] # NoValue THEN ms.medium[x]
                                    ELSE IF x = Root THEN FirstMedium
                                    ELSE effective[ms.parent[x]]
  BY <1>9
<1>12. {x \in D : effective[x] \in MediumNumber} = D
  <2> DEFINE S == {x \in D : effective[x] \in MediumNumber}
  <2>1. Root \in S
    BY <1>1, <1>4, <1>11
  <2>2. \A d \in D \ {Root} : ms.parent[d] \in S => d \in S
    BY <1>1, <1>11 DEF Optional
  <2> HIDE DEF S
  <2>3. S \in SUBSET D
    BY DEF S
  <2> QED BY <2>1, <2>2, <2>3, ContainersDown DEF S
<1> QED BY <1>10, <1>11, <1>12

LEMMA EffectiveMediumTyping ==
  ASSUME NEW ms, Tree(ms),
         ms.medium \in [File \cup Container -> Optional(MediumNumber)],
         NEW f \in Files(ms)
  PROVE  EffectiveMedium(ms, f) \in MediumNumber
<1>1. f \in File /\ ms.parent[f] \in Containers(ms)
  BY DEF Files, Tree, ParentsLive, Entity
<1> QED BY <1>1, EffectiveDefaultMediumStep DEF EffectiveMedium, Optional

(* A non-empty set of natural numbers has a least one, and one up to a     *)
(* bound has a greatest one.                                               *)
LEMMA Least ==
  ASSUME NEW S \in SUBSET Nat, S # {}
  PROVE  \E n \in S : \A m \in S : n <= m
<1>1. PICK n \in S : \A m \in S : ~ (<<m, n>> \in OpToRel(<, Nat))
  BY WFMin, NatLessThanWellFounded
<1>2. \A m \in S : ~ (m < n)
  BY <1>1 DEF OpToRel
<1> QED BY <1>2

LEMMA Greatest ==
  ASSUME NEW S \in SUBSET Nat, S # {}, NEW b \in Nat, \A n \in S : n <= b
  PROVE  \E m \in S : \A n \in S : n <= m
<1> DEFINE T == {n \in Nat : b - n \in S}
<1>1. \A n \in S : b - n \in T
  OBVIOUS
<1>2. PICK t \in T : \A n \in T : t <= n
  <2> HIDE DEF T
  <2>1. T \in SUBSET Nat /\ T # {}
    BY <1>1 DEF T
  <2> QED BY <2>1, Least
<1>3. \A n \in S : n <= b - t
  <2> SUFFICES ASSUME NEW n \in S
               PROVE  n <= b - t
    OBVIOUS
  <2>1. t <= b - n /\ t \in Nat /\ n \in Nat
    BY <1>1, <1>2
  <2> QED BY <2>1
<1> QED BY <1>3

(* lastMediumNumber() is the number of a medium, and no file is beyond it. *)
LEMMA LastMediumBounds ==
  ASSUME NEW ms, Tree(ms),
         ms.medium \in [File \cup Container -> Optional(MediumNumber)]
  PROVE  /\ LastMedium(ms, Root) \in MediumNumber
         /\ \A f \in Files(ms) : EffectiveMedium(ms, f) <= LastMedium(ms, Root)
<1> DEFINE media == {FirstMedium} \cup
                      {EffectiveMedium(ms, f) : f \in RecursiveFiles(ms, Root, NoValue)}
<1>1. RecursiveFiles(ms, Root, NoValue) = Files(ms)
  BY RecursiveFilesOfRoot DEF OnMedium
<1>2. media \subseteq MediumNumber
  <2>1. FirstMedium \in MediumNumber
    BY MediumAssumption DEF MediumAssumption, MediumNumber, FirstMedium
  <2>2. \A f \in Files(ms) : EffectiveMedium(ms, f) \in MediumNumber
    BY EffectiveMediumTyping
  <2> QED BY <1>1, <2>1, <2>2
<1>3. \E m \in media : \A n \in media : n <= m
  <2> HIDE DEF media
  <2>1. media \in SUBSET Nat /\ \A n \in media : n <= MaxMedium
    BY <1>2, MediumAssumption DEF MediumAssumption, MediumNumber
  <2>2. media # {}
    BY DEF media
  <2> QED BY <2>1, <2>2, Greatest, MediumAssumption DEF MediumAssumption
<1>4. LastMedium(ms, Root) \in media /\ \A n \in media : n <= LastMedium(ms, Root)
  BY <1>3 DEF LastMedium
<1> QED BY <1>1, <1>2, <1>4
-----------------------------------------------------------------------------
(* Paths.                                                                  *)

(* The path of a member is the path of its parent and its own name.        *)
LEMMA PathStep ==
  ASSUME NEW ms, Tree(ms), ms.name \in [Entity -> Name], NEW e \in Members(ms)
  PROVE  /\ Path(ms, e) \in Seq(Name)
         /\ Path(ms, e) = IF e = Root THEN <<>>
                          ELSE Append(Path(ms, ms.parent[e]), ms.name[e])
<1> DEFINE D == Members(ms)
           up == [x \in D \ {Root} |-> ms.parent[x]]
           step == [z \in (D \ {Root}) \X Seq(Name) |-> Append(z[2], ms.name[z[1]])]
           Unfolds(g) ==
             g = [x \in Containers(ms) \cup Files(ms) |->
                    IF x = Root THEN <<>> ELSE Append(g[ms.parent[x]], ms.name[x])]
           path == CHOOSE g : Unfolds(g)
<1>1. Root \in D /\ \A x \in D \ {Root} : x \in Entity /\ ms.parent[x] \in D
  BY DEF Members, Containers, Files, Tree, ParentsLive, Entity
<1>2. Descend(D, Root, up)
  BY MembersDown DEF Descend
<1>3. up \in [D \ {Root} -> D]
  BY <1>1
<1>4. step \in [(D \ {Root}) \X Seq(Name) -> Seq(Name)]
  <2> SUFFICES ASSUME NEW z \in (D \ {Root}) \X Seq(Name)
               PROVE  Append(z[2], ms.name[z[1]]) \in Seq(Name)
    OBVIOUS
  <2>1. z[2] \in Seq(Name) /\ ms.name[z[1]] \in Name
    BY <1>1
  <2> QED BY <2>1, AppendProperties
<1>5. PICK f : Follows(f, D, Root, up, Seq(Name), <<>>, step)
  <2>1. <<>> \in Seq(Name)
    OBVIOUS
  <2> HIDE DEF D, up, step
  <2>2. Recursion(D, Root, up, Seq(Name), <<>>, step)
    BY <1>1, <1>2, <1>3, <1>4, <2>1 DEF Recursion
  <2> QED BY <2>2, Inheritance
<1>6. Unfolds(f)
  <2>1. f \in [D -> Seq(Name)]
    BY <1>5 DEF Follows
  <2>2. ASSUME NEW x \in D
        PROVE  f[x] = IF x = Root THEN <<>> ELSE Append(f[ms.parent[x]], ms.name[x])
    <3>1. f[x] = IF x = Root THEN <<>> ELSE step[<<x, f[up[x]]>>]
      BY <1>5 DEF Follows
    <3>2. CASE x # Root
      <4>1. f[ms.parent[x]] \in Seq(Name) /\ up[x] = ms.parent[x]
        BY <1>1, <2>1, <3>2
      <4> QED BY <3>1, <3>2, <4>1
    <3> QED BY <3>1, <3>2
  <2> QED BY <2>1, <2>2 DEF Members
<1>7. Unfolds(path)
  BY <1>6
<1>8. \A x : Path(ms, x) = path[x]
  BY DEF Path
<1> HIDE DEF path
<1>9. \A x \in D : path[x] = IF x = Root THEN <<>> ELSE Append(path[ms.parent[x]], ms.name[x])
  BY <1>7 DEF Members
<1>10. {x \in D : path[x] \in Seq(Name)} = D
  <2> DEFINE S == {x \in D : path[x] \in Seq(Name)}
  <2>1. Root \in S
    <3>1. path[Root] = <<>> /\ <<>> \in Seq(Name)
      BY <1>1, <1>9
    <3> QED BY <1>1, <3>1
  <2>2. ASSUME NEW x \in D \ {Root}, ms.parent[x] \in S
        PROVE  x \in S
    <3>1. path[x] = Append(path[ms.parent[x]], ms.name[x]) /\ ms.name[x] \in Name
      BY <1>1, <1>9
    <3>2. path[ms.parent[x]] \in Seq(Name)
      BY <2>2
    <3>3. Append(path[ms.parent[x]], ms.name[x]) \in Seq(Name)
      BY <3>1, <3>2, AppendProperties
    <3> QED BY <3>1, <3>3
  <2> HIDE DEF S
  <2>3. S \in SUBSET D
    BY DEF S
  <2> QED BY <2>1, <2>2, <2>3, MembersDown DEF S
<1> QED BY <1>8, <1>9, <1>10

(* Induction over the natural numbers, with a set. *)
LEMMA Induction ==
  ASSUME NEW S \in SUBSET Nat, 0 \in S, \A n \in S : n + 1 \in S
  PROVE  S = Nat
<1> SUFFICES ASSUME S # Nat
             PROVE  FALSE
  OBVIOUS
<1>1. PICK n \in Nat \ S : \A m \in Nat \ S : n <= m
  BY Least
<1>2. n # 0 /\ n - 1 \in Nat
  BY <1>1
<1>3. n - 1 \in S
  BY <1>1, <1>2
<1> QED BY <1>1, <1>3

(* Following a path from a container, one name at a time.                  *)
Trace(at, ms, c, s) ==
  /\ at \in [0 .. Len(s) -> SUBSET Container]
  /\ \A i \in 0 .. Len(s) :
       at[i] = IF i = 0 THEN {c}
               ELSE UNION {SubdirectoryNamed(ms, d, s[i]) : d \in at[i - 1]}
  /\ Follow(ms, c, s) = at[Len(s)]

LEMMA FollowUnfolds ==
  ASSUME NEW ms, NEW c \in Container, NEW s \in Seq(Name)
  PROVE  \E at : Trace(at, ms, c, s)
<1> DEFINE D == 0 .. Len(s)
           V == SUBSET Container
           up == [i \in D \ {0} |-> i - 1]
           step == [z \in (D \ {0}) \X V |-> UNION {SubdirectoryNamed(ms, d, s[z[1]]) : d \in z[2]}]
           Unfolds(g) ==
             g = [i \in 0 .. Len(s) |->
                    IF i = 0 THEN {c}
                    ELSE UNION {SubdirectoryNamed(ms, d, s[i]) : d \in g[i - 1]}]
           at == CHOOSE g : Unfolds(g)
<1>1. Len(s) \in Nat
  OBVIOUS
<1>2. up \in [D \ {0} -> D]
  BY <1>1
<1>3. Descend(D, 0, up)
  <2> SUFFICES ASSUME NEW S \in SUBSET D, 0 \in S,
                      \A i \in D \ {0} : up[i] \in S => i \in S
               PROVE  S = D
    BY DEF Descend
  <2> DEFINE T == {i \in Nat : i <= Len(s) => i \in S}
  <2>1. \A n \in T : n + 1 \in T
    BY <1>1
  <2>2. 0 \in T
    OBVIOUS
  <2> HIDE DEF T
  <2>3. T = Nat
    <3>1. T \in SUBSET Nat
      BY DEF T
    <3> QED BY <2>1, <2>2, <3>1, Induction
  <2>4. \A i \in Nat : i <= Len(s) => i \in S
    BY <2>3 DEF T
  <2>5. \A i \in D : i \in Nat /\ i <= Len(s)
    BY <1>1
  <2> HIDE DEF D
  <2> QED BY <2>4, <2>5
<1>4. step \in [(D \ {0}) \X V -> V]
  BY DEF SubdirectoryNamed, AllSubdirectories, Container
<1>5. PICK f : Follows(f, D, 0, up, V, {c}, step)
  <2>1. 0 \in D /\ {c} \in V
    BY <1>1
  <2> HIDE DEF D, V, up, step
  <2>2. Recursion(D, 0, up, V, {c}, step)
    BY <1>2, <1>3, <1>4, <2>1 DEF Recursion
  <2> QED BY <2>2, Inheritance
<1>6. f \in [D -> V]
  BY <1>5 DEF Follows
<1>7. ASSUME NEW i \in D
      PROVE  f[i] = IF i = 0 THEN {c}
                    ELSE UNION {SubdirectoryNamed(ms, d, s[i]) : d \in f[i - 1]}
  <2>1. f[i] = IF i = 0 THEN {c} ELSE step[<<i, f[up[i]]>>]
    BY <1>5 DEF Follows
  <2>2. CASE i # 0
    <3>1. up[i] = i - 1 /\ i - 1 \in D
      BY <1>1, <2>2
    <3>2. <<i, f[i - 1]>> \in (D \ {0}) \X V
      BY <1>6, <2>2, <3>1
    <3>3. step[<<i, f[i - 1]>>] = UNION {SubdirectoryNamed(ms, d, s[i]) : d \in f[i - 1]}
      BY <3>2
    <3> QED BY <2>1, <2>2, <3>1, <3>3
  <2> QED BY <2>1, <2>2
<1>8. Unfolds(f)
  BY <1>6, <1>7
<1>9. Unfolds(at)
  BY <1>8
<1>10. Follow(ms, c, s) = at[Len(s)]
  BY DEF Follow
<1> HIDE DEF at
<1>11. \A i \in D : at[i] = IF i = 0 THEN {c}
                             ELSE UNION {SubdirectoryNamed(ms, d, s[i]) : d \in at[i - 1]}
  BY <1>9
<1>12. at \in [D -> V]
  <2>1. ASSUME NEW i \in D
        PROVE  at[i] \in V
    <3>1. CASE i = 0
      BY <1>11, <3>1
    <3>2. CASE i # 0
      <4>1. at[i] = UNION {SubdirectoryNamed(ms, d, s[i]) : d \in at[i - 1]}
        BY <1>11, <3>2
      <4> QED BY <4>1 DEF SubdirectoryNamed, AllSubdirectories, Container
    <3> QED BY <3>1, <3>2
  <2>2. at = [i \in D |-> at[i]]
    BY <1>9
  <2> QED BY <2>1, <2>2
<1> QED BY <1>10, <1>11, <1>12 DEF Trace

LEMMA FollowEmpty ==
  ASSUME NEW ms, NEW c \in Container
  PROVE  Follow(ms, c, <<>>) = {c}
<1>1. <<>> \in Seq(Name) /\ Len(<<>>) = 0
  OBVIOUS
<1>2. PICK at : Trace(at, ms, c, <<>>)
  BY <1>1, FollowUnfolds
<1> QED BY <1>1, <1>2 DEF Trace

LEMMA FollowAppend ==
  ASSUME NEW ms, NEW c \in Container, NEW s \in Seq(Name), NEW n \in Name
  PROVE  Follow(ms, c, Append(s, n))
           = UNION {SubdirectoryNamed(ms, d, n) : d \in Follow(ms, c, s)}
<1> DEFINE t == Append(s, n)
<1>1. /\ t \in Seq(Name) /\ Len(s) \in Nat /\ Len(t) = Len(s) + 1
      /\ t[Len(s) + 1] = n /\ \A i \in 1 .. Len(s) : t[i] = s[i]
  BY AppendProperties
<1> HIDE DEF t
<1>2. PICK a : Trace(a, ms, c, s)
  BY FollowUnfolds
<1>3. PICK b : Trace(b, ms, c, t)
  BY <1>1, FollowUnfolds
<1> DEFINE Same == {i \in Nat : i <= Len(s) => a[i] = b[i]}
<1>4. 0 \in Same
  <2>1. 0 \in 0 .. Len(s) /\ 0 \in 0 .. Len(t)
    BY <1>1
  <2>2. a[0] = {c} /\ b[0] = {c}
    BY <1>2, <1>3, <2>1 DEF Trace
  <2> QED BY <2>2
<1>5. ASSUME NEW i \in Same
      PROVE  i + 1 \in Same
  <2> SUFFICES ASSUME i + 1 <= Len(s)
               PROVE  a[i + 1] = b[i + 1]
    OBVIOUS
  <2>1. a[i] = b[i] /\ i + 1 \in 0 .. Len(s) /\ i + 1 \in 0 .. Len(t) /\ i + 1 # 0
        /\ (i + 1) - 1 = i /\ t[i + 1] = s[i + 1]
    BY <1>1
  <2>2. a[i + 1] = UNION {SubdirectoryNamed(ms, d, s[i + 1]) : d \in a[i]}
    BY <1>2, <2>1 DEF Trace
  <2>3. b[i + 1] = UNION {SubdirectoryNamed(ms, d, t[i + 1]) : d \in b[i]}
    BY <1>3, <2>1 DEF Trace
  <2> QED BY <2>1, <2>2, <2>3
<1> HIDE DEF Same
<1>6. Same = Nat
  <2>1. Same \in SUBSET Nat
    BY DEF Same
  <2> QED BY <1>4, <1>5, <2>1, Induction
<1>7. a[Len(s)] = b[Len(s)]
  BY <1>1, <1>6 DEF Same
<1>8. b[Len(t)] = UNION {SubdirectoryNamed(ms, d, t[Len(t)]) : d \in b[Len(t) - 1]}
  BY <1>1, <1>3 DEF Trace
<1> QED BY <1>1, <1>2, <1>3, <1>7, <1>8 DEF t, Trace

-----------------------------------------------------------------------------
(* Paths and what they lead to.                                            *)

LEMMA FrontAndLast ==
  ASSUME NEW s \in Seq(Name), NEW n \in Name
  PROVE  Front(Append(s, n)) = s /\ Last(Append(s, n)) = n
<1> DEFINE r == Append(s, n)
<1>1. /\ r \in Seq(Name) /\ Len(s) \in Nat /\ Len(r) = Len(s) + 1
      /\ r[Len(s) + 1] = n /\ \A i \in 1 .. Len(s) : r[i] = s[i] /\ r[i] \in Name
  BY AppendProperties
<1> HIDE DEF r
<1>2. /\ SubSeq(r, 1, Len(s)) \in Seq(Name) /\ Len(SubSeq(r, 1, Len(s))) = Len(s)
      /\ \A i \in 1 .. Len(s) : SubSeq(r, 1, Len(s))[i] = s[i]
  BY <1>1, SubSeqProperties
<1>3. SubSeq(r, 1, Len(s)) = s
  BY <1>1, <1>2, SeqEqual
<1>4. Len(r) - 1 = Len(s)
  BY <1>1
<1> QED BY <1>1, <1>3, <1>4 DEF r, Front, Last

(* Following the path of a directory from the media set ends there.        *)
LEMMA DirectoryFound ==
  ASSUME NEW ms, Tree(ms), UniqueNames(ms), ms.name \in [Entity -> Name],
         NEW d \in Containers(ms)
  PROVE  Path(ms, d) \in Seq(Name) /\ Follow(ms, Root, Path(ms, d)) = {d}
<1> DEFINE Found == {c \in Containers(ms) : Follow(ms, Root, Path(ms, c)) = {c}}
<1>2. Root \in Container /\ Root \in Containers(ms)
  BY DEF Container, Containers
<1>3. \A c \in Containers(ms) : c \in Members(ms)
  BY DEF Members
<1>4. Root \in Found
  BY <1>2, <1>3, PathStep, FollowEmpty
<1>5. ASSUME NEW c \in Containers(ms) \ {Root}, ms.parent[c] \in Found
      PROVE  c \in Found
  <2> DEFINE p == ms.parent[c]
             n == ms.name[c]
  <2>1. p \in Containers(ms) /\ Follow(ms, Root, Path(ms, p)) = {p}
    BY <1>5
  <2>2. c \in Directory /\ InSet(ms, c) /\ c \in Entity /\ n \in Name
    BY DEF Containers, Entity
  <2>3. Path(ms, p) \in Seq(Name) /\ Path(ms, c) = Append(Path(ms, p), n)
    BY <1>3, <2>1, PathStep
  <2>4. SubdirectoryNamed(ms, p, n) = {c}
    <3>1. \A x \in Directory : ms.parent[x] = p /\ ms.name[x] = n => x = c
      BY <2>2 DEF UniqueNames, Entity
    <3> QED BY <2>2, <3>1 DEF SubdirectoryNamed, AllSubdirectories
  <2>5. Follow(ms, Root, Path(ms, c)) = UNION {SubdirectoryNamed(ms, x, n) : x \in {p}}
    BY <1>2, <2>1, <2>2, <2>3, FollowAppend
  <2>6. Follow(ms, Root, Path(ms, c)) = {c}
    BY <2>4, <2>5
  <2> QED BY <2>6
<1>6. d \in Found
  <2> HIDE DEF Found
  <2>1. Found \in SUBSET Containers(ms)
    BY DEF Found
  <2> QED BY <1>4, <1>5, <2>1, ContainersDown
<1> QED BY <1>3, <1>6, PathStep

(* The path of a file is that of its directory, and its name.              *)
LEMMA PathOfFile ==
  ASSUME NEW ms, Tree(ms), ms.name \in [Entity -> Name], NEW f \in Files(ms)
  PROVE  /\ ms.parent[f] \in Containers(ms)
         /\ Path(ms, ms.parent[f]) \in Seq(Name) /\ ms.name[f] \in Name
         /\ Path(ms, f) = Append(Path(ms, ms.parent[f]), ms.name[f])
         /\ Front(Path(ms, f)) = Path(ms, ms.parent[f])
         /\ Last(Path(ms, f)) = ms.name[f]
<1>1. f \in File /\ f \in Entity /\ f # Root /\ InSet(ms, f) /\ ms.name[f] \in Name
  BY Classes DEF Files, Entity
<1>2. ms.parent[f] \in Containers(ms)
  BY <1>1 DEF Tree, ParentsLive
<1>3. /\ Path(ms, ms.parent[f]) \in Seq(Name)
      /\ Path(ms, f) = Append(Path(ms, ms.parent[f]), ms.name[f])
  BY <1>1, <1>2, PathStep DEF Members
<1> QED BY <1>1, <1>2, <1>3, FrontAndLast

(* No two files have the same path.                                        *)
LEMMA PathsDiffer ==
  ASSUME NEW ms, Tree(ms), UniqueNames(ms), ms.name \in [Entity -> Name],
         NEW f \in Files(ms), NEW g \in Files(ms), Path(ms, f) = Path(ms, g)
  PROVE  f = g
<1>1. /\ Path(ms, ms.parent[f]) = Path(ms, ms.parent[g]) /\ ms.name[f] = ms.name[g]
      /\ ms.parent[f] \in Containers(ms) /\ ms.parent[g] \in Containers(ms)
  BY PathOfFile
<1>2. ms.parent[f] = ms.parent[g]
  <2>1. /\ Follow(ms, Root, Path(ms, ms.parent[f])) = {ms.parent[f]}
        /\ Follow(ms, Root, Path(ms, ms.parent[g])) = {ms.parent[g]}
    BY <1>1, DirectoryFound
  <2> QED BY <1>1, <2>1
<1> QED BY <1>1, <1>2 DEF UniqueNames, Files, Entity

(* A path that is not empty is that of its directory, and its last name.   *)
LEMMA PathSplit ==
  ASSUME NEW s \in Seq(Name), s # <<>>
  PROVE  /\ Front(s) \in Seq(Name) /\ Last(s) \in Name /\ s = Append(Front(s), Last(s))
         /\ Len(s) \in Nat /\ Len(Front(s)) = Len(s) - 1
<1>1. Len(s) \in Nat \ {0} /\ \A i \in 1 .. Len(s) : s[i] \in Name
  BY EmptySeq, ElementOfSeq
<1> DEFINE k == Len(s) - 1
<1>2. /\ SubSeq(s, 1, k) \in Seq(Name) /\ Len(SubSeq(s, 1, k)) = k
      /\ \A i \in 1 .. k : SubSeq(s, 1, k)[i] = s[i]
  <2>1. k \in Nat /\ \A i \in 1 .. k : s[i] \in Name
    BY <1>1
  <2> HIDE DEF k
  <2>2. SubSeq(s, 1, k) \in Seq(Name) /\ Len(SubSeq(s, 1, k)) = IF 1 <= k THEN k - 1 + 1 ELSE 0
    BY <2>1, SubSeqProperties
  <2>3. \A i \in 1 .. k - 1 + 1 : SubSeq(s, 1, k)[i] = s[1 + i - 1]
    BY <2>1, SubSeqProperties
  <2> QED BY <2>1, <2>2, <2>3
<1>3. Front(s) = SubSeq(s, 1, Len(s) - 1) /\ Last(s) = s[Len(s)]
  BY DEF Front, Last
<1> HIDE DEF Front, Last
<1> DEFINE r == Append(Front(s), Last(s))
<1>4. Last(s) \in Name
  BY <1>1, <1>3
<1>5. /\ r \in Seq(Name) /\ Len(r) = Len(s)
      /\ \A i \in 1 .. Len(s) - 1 : r[i] = s[i]
      /\ r[Len(s)] = s[Len(s)]
  BY <1>1, <1>2, <1>3, <1>4, AppendProperties
<1> HIDE DEF r
<1>6. s = r
  BY <1>1, <1>5, SeqEqual
<1> QED BY <1>1, <1>2, <1>3, <1>4, <1>6 DEF r

LEMMA ConcatAppend ==
  ASSUME NEW r \in Seq(Name), NEW s \in Seq(Name), NEW n \in Name
  PROVE  r \o Append(s, n) = Append(r \o s, n) /\ r \o s \in Seq(Name)
<1>1. <<n>> \in Seq(Name)
  OBVIOUS
<1>2. r \o s \in Seq(Name)
  BY ConcatProperties
<1> QED BY <1>1, <1>2, AppendIsConcat, ConcatAssociative

(* No two directories have the same path.                                  *)
LEMMA DirectoriesDiffer ==
  ASSUME NEW ms, Tree(ms), UniqueNames(ms), ms.name \in [Entity -> Name],
         NEW c \in Containers(ms), NEW d \in Containers(ms), Path(ms, c) = Path(ms, d)
  PROVE  c = d
<1>1. {c} = {d}
  BY DirectoryFound
<1> QED BY <1>1

(* The path of a directory is that of its parent, and its name.            *)
LEMMA PathOfDirectory ==
  ASSUME NEW ms, Tree(ms), ms.name \in [Entity -> Name], NEW d \in Containers(ms)
  PROVE  /\ Path(ms, d) \in Seq(Name)
         /\ d = Root => Path(ms, d) = <<>>
         /\ d # Root => /\ d \in Directory /\ d \in Entity
                        /\ ms.parent[d] \in Containers(ms)
                        /\ Path(ms, ms.parent[d]) \in Seq(Name) /\ ms.name[d] \in Name
                        /\ Path(ms, d) = Append(Path(ms, ms.parent[d]), ms.name[d])
<1>1. d \in Members(ms)
  BY DEF Members
<1>2. d # Root => d \in Directory /\ d \in Entity /\ ms.parent[d] \in Containers(ms)
  BY DEF Containers, Entity, Tree, ParentsLive
<1> QED BY <1>1, <1>2, PathStep DEF Members

LEMMA FollowLast ==
  ASSUME NEW ms, NEW c \in Container, NEW s \in Seq(Name), s # <<>>
  PROVE  Follow(ms, c, s) = UNION {SubdirectoryNamed(ms, d, Last(s)) : d \in Follow(ms, c, Front(s))}
<1>1. Front(s) \in Seq(Name) /\ Last(s) \in Name /\ s = Append(Front(s), Last(s))
  BY PathSplit
<1>2. Follow(ms, c, Append(Front(s), Last(s)))
        = UNION {SubdirectoryNamed(ms, d, Last(s)) : d \in Follow(ms, c, Front(s))}
  BY <1>1, FollowAppend
<1> QED BY <1>1, <1>2

(* Following a path leads to the directories whose path it completes.      *)
LEMMA FollowPaths ==
  ASSUME NEW ms, Tree(ms), UniqueNames(ms), ms.name \in [Entity -> Name],
         NEW c \in Containers(ms), NEW s \in Seq(Name)
  PROVE  Follow(ms, c, s) = {d \in Containers(ms) : Path(ms, d) = Path(ms, c) \o s}
<1> DEFINE Leads(t) == Follow(ms, c, t) = {d \in Containers(ms) : Path(ms, d) = Path(ms, c) \o t}
           Lengths == {n \in Nat : \A t \in Seq(Name) : Len(t) = n => Leads(t)}
<1>1. c \in Container /\ Path(ms, c) \in Seq(Name)
  BY PathOfDirectory DEF Containers, Container
<1>2. 0 \in Lengths
  <2>1. \A t \in Seq(Name) : Len(t) = 0 => t = <<>>
    BY EmptySeq
  <2>2. Path(ms, c) \o <<>> = Path(ms, c)
    BY <1>1, ConcatEmptySeq
  <2>3. Follow(ms, c, <<>>) = {c}
    BY <1>1, FollowEmpty
  <2>4. {d \in Containers(ms) : Path(ms, d) = Path(ms, c)} = {c}
    BY DirectoriesDiffer
  <2>5. Leads(<<>>)
    BY <2>2, <2>3, <2>4
  <2> HIDE DEF Leads
  <2> QED BY <2>1, <2>5
<1>3. ASSUME NEW n \in Lengths
      PROVE  n + 1 \in Lengths
  <2> SUFFICES ASSUME NEW t \in Seq(Name), Len(t) = n + 1
               PROVE  Leads(t)
    OBVIOUS
  <2> DEFINE r == Front(t)
             e == Last(t)
  <2>1. r \in Seq(Name) /\ e \in Name /\ t = Append(r, e) /\ Len(r) = n
    <3>1. n \in Nat /\ t # <<>>
      BY EmptySeq
    <3> QED BY <3>1, PathSplit
  <2>2. Follow(ms, c, r) = {d \in Containers(ms) : Path(ms, d) = Path(ms, c) \o r}
    BY <2>1
  <2> HIDE DEF Leads, Lengths, r, e
  <2>3. Follow(ms, c, t) = UNION {SubdirectoryNamed(ms, d, e) : d \in Follow(ms, c, r)}
    <3>1. t # <<>>
      BY <2>1, AppendProperties
    <3> QED BY <1>1, <3>1, FollowLast DEF r, e
  <2>4. Path(ms, c) \o t = Append(Path(ms, c) \o r, e) /\ Path(ms, c) \o r \in Seq(Name)
    BY <1>1, <2>1, ConcatAppend
  <2>5. ASSUME NEW d \in Follow(ms, c, r), NEW x \in SubdirectoryNamed(ms, d, e)
        PROVE  x \in Containers(ms) /\ Path(ms, x) = Path(ms, c) \o t
    <3>1. d \in Containers(ms) /\ x \in Directory /\ ms.parent[x] = d /\ ms.name[x] = e
      BY <2>2 DEF SubdirectoryNamed, AllSubdirectories
    <3>2. x \in Containers(ms) /\ x # Root
      BY <3>1, Classes DEF Containers, Container, InSet
    <3> QED BY <2>2, <2>4, <3>1, <3>2, PathOfDirectory
  <2>6. ASSUME NEW x \in Containers(ms), Path(ms, x) = Path(ms, c) \o t
        PROVE  \E d \in Follow(ms, c, r) : x \in SubdirectoryNamed(ms, d, e)
    <3>1. x # Root
      <4>1. Append(Path(ms, c) \o r, e) # <<>>
        BY <2>1, <2>4, AppendProperties
      <4> QED BY <2>4, <2>6, <4>1, PathOfDirectory
    <3>2. /\ x \in Directory /\ ms.parent[x] \in Containers(ms)
          /\ Path(ms, ms.parent[x]) \in Seq(Name) /\ ms.name[x] \in Name
          /\ Append(Path(ms, c) \o r, e) = Append(Path(ms, ms.parent[x]), ms.name[x])
      BY <2>4, <2>6, <3>1, PathOfDirectory
    <3>3. Path(ms, ms.parent[x]) = Path(ms, c) \o r /\ ms.name[x] = e
      <4> DEFINE u == Path(ms, c) \o r
                 v == Path(ms, ms.parent[x])
      <4>1. u \in Seq(Name) /\ v \in Seq(Name) /\ Append(u, e) = Append(v, ms.name[x])
        BY <2>4, <3>2
      <4> HIDE DEF u, v
      <4>2. u = v /\ e = ms.name[x]
        BY <2>1, <3>2, <4>1, AppendInjective
      <4> QED BY <4>2 DEF u, v
    <3> QED BY <2>2, <3>2, <3>3 DEF SubdirectoryNamed, AllSubdirectories
  <2> QED BY <2>3, <2>5, <2>6 DEF Leads
<1>4. Lengths = Nat
  <2> HIDE DEF Lengths
  <2>1. Lengths \in SUBSET Nat
    BY DEF Lengths
  <2> QED BY <1>2, <1>3, <2>1, Induction
<1>5. Len(s) \in Nat
  BY LenProperties
<1>6. Leads(s)
  <2> HIDE DEF Leads
  <2> QED BY <1>4, <1>5
<1> QED BY <1>6

(* The path that is meant, from a container, by a path that is absolute or *)
(* not.                                                                    *)
FullPath(ms, c, absolute, s) == IF absolute THEN s ELSE Path(ms, c) \o s

LEMMA DirectoriesFound ==
  ASSUME NEW ms, Tree(ms), UniqueNames(ms), ms.name \in [Entity -> Name],
         NEW c \in Containers(ms), NEW absolute \in BOOLEAN, NEW s \in Seq(Name),
         absolute \/ s # <<>>
  PROVE  SubdirectoryAt(ms, c, absolute, s)
           = {d \in Containers(ms) : Path(ms, d) = FullPath(ms, c, absolute, s)}
<1>1. Root \in Containers(ms) /\ Path(ms, Root) = <<>>
  BY PathOfDirectory DEF Containers
<1>2. <<>> \o s = s
  BY ConcatEmptySeq
<1>3. CASE absolute
  <2>1. SubdirectoryAt(ms, c, absolute, s) = Follow(ms, Root, s)
    BY <1>3 DEF SubdirectoryAt
  <2>2. Follow(ms, Root, s) = {d \in Containers(ms) : Path(ms, d) = Path(ms, Root) \o s}
    BY <1>1, FollowPaths, SMTT(20)
  <2>3. FullPath(ms, c, absolute, s) = s
    BY <1>3 DEF FullPath
  <2> QED BY <1>1, <1>2, <2>1, <2>2, <2>3
<1>4. CASE ~absolute
  <2>1. SubdirectoryAt(ms, c, absolute, s) = Follow(ms, c, s)
    BY <1>4 DEF SubdirectoryAt
  <2>2. FullPath(ms, c, absolute, s) = Path(ms, c) \o s
    BY <1>4 DEF FullPath
  <2> QED BY <2>1, <2>2, FollowPaths
<1> QED BY <1>3, <1>4

(* The files that a path leads to are those that have it.                  *)
LEMMA FilesFound ==
  ASSUME NEW ms, Tree(ms), UniqueNames(ms), ms.name \in [Entity -> Name],
         NEW c \in Containers(ms), NEW absolute \in BOOLEAN, NEW s \in Seq(Name), s # <<>>
  PROVE  FileAt(ms, c, absolute, s) = {f \in Files(ms) : Path(ms, f) = FullPath(ms, c, absolute, s)}
<1> DEFINE r == Front(s)
           n == Last(s)
           directories == IF Len(s) = 1 /\ ~absolute THEN {c}
                          ELSE SubdirectoryAt(ms, c, absolute, r)
           base == FullPath(ms, c, absolute, r)
<1>1. r \in Seq(Name) /\ n \in Name /\ s = Append(r, n) /\ Len(s) \in Nat /\ Len(r) = Len(s) - 1
  BY PathSplit
<1>2. Path(ms, c) \in Seq(Name)
  BY PathOfDirectory
<1>3. FileAt(ms, c, absolute, s) = UNION {FileNamed(ms, d, n) : d \in directories}
  BY DEF FileAt
<1>4. base \in Seq(Name) /\ FullPath(ms, c, absolute, s) = Append(base, n)
  <2>1. r \in Seq(Name) /\ Append(r, n) = s
    BY <1>1
  <2>2. Path(ms, c) \o r \in Seq(Name) /\ Path(ms, c) \o s = Append(Path(ms, c) \o r, n)
    <3>1. Path(ms, c) \o Append(r, n) = Append(Path(ms, c) \o r, n) /\ Path(ms, c) \o r \in Seq(Name)
      <4> HIDE DEF r, n
      <4> QED BY <1>1, <1>2, ConcatAppend
    <3> QED BY <2>1, <3>1
  <2> HIDE DEF r, n
  <2> QED BY <2>1, <2>2 DEF FullPath
<1> HIDE DEF r, n
<1>5. directories = {d \in Containers(ms) : Path(ms, d) = base}
  <2>1. CASE Len(s) = 1 /\ ~absolute
    <3>1. r = <<>>
      BY <1>1, <2>1, EmptySeq
    <3>2. base = Path(ms, c)
      BY <1>2, <2>1, <3>1, ConcatEmptySeq DEF FullPath
    <3> QED BY <2>1, <3>2, DirectoriesDiffer
  <2>2. CASE ~(Len(s) = 1 /\ ~absolute)
    <3>1. absolute \/ r # <<>>
      <4>1. Len(<<>>) = 0
        BY EmptySeq
      <4> QED BY <1>1, <2>2, <4>1
    <3> QED BY <1>1, <2>2, <3>1, DirectoriesFound
  <2> QED BY <2>1, <2>2
<1> HIDE DEF directories, base
<1>6. ASSUME NEW d \in directories, NEW f \in FileNamed(ms, d, n)
      PROVE  f \in Files(ms) /\ Path(ms, f) = Append(base, n)
  <2>1. d \in Containers(ms) /\ f \in File /\ ms.parent[f] = d /\ ms.name[f] = n
    BY <1>5 DEF FileNamed, AllFiles
  <2>2. f \in Files(ms)
    BY <2>1, Classes DEF Containers, Container, InSet, Files
  <2> QED BY <1>5, <2>1, <2>2, PathOfFile
<1>7. ASSUME NEW f \in Files(ms), Path(ms, f) = Append(base, n)
      PROVE  \E d \in directories : f \in FileNamed(ms, d, n)
  <2>1. /\ ms.parent[f] \in Containers(ms)
        /\ Path(ms, ms.parent[f]) = base /\ ms.name[f] = n
    <3>1. /\ ms.parent[f] \in Containers(ms)
          /\ Path(ms, ms.parent[f]) \in Seq(Name) /\ ms.name[f] \in Name
          /\ Append(base, n) = Append(Path(ms, ms.parent[f]), ms.name[f])
      BY <1>7, PathOfFile
    <3> QED BY <1>1, <1>4, <3>1, AppendInjective
  <2> QED BY <1>5, <2>1 DEF FileNamed, AllFiles, Files
<1> QED BY <1>3, <1>4, <1>6, <1>7
(* A media set that has the members of another, in the same places and     *)
(* with the same names, has them under the same paths.                     *)
LEMMA SamePaths ==
  ASSUME NEW s, Tree(s), s.name \in [Entity -> Name], NEW t, Tree(t), t.name \in [Entity -> Name],
         \A e \in Entity : InSet(s, e) => t.parent[e] = s.parent[e] /\ t.name[e] = s.name[e],
         NEW x \in Members(s)
  PROVE  x \in Members(t) /\ Path(t, x) = Path(s, x)
<1>1. /\ Members(s) \subseteq Members(t) /\ Root \in Members(s) /\ Root \in Members(t)
      /\ \A e \in Members(s) \ {Root} : e \in Entity /\ InSet(s, e)
  BY DEF Members, Containers, Files, InSet, Entity
<1> DEFINE S == {e \in Members(s) : Path(t, e) = Path(s, e)}
<1>2. Root \in S
  BY <1>1, PathStep
<1>3. ASSUME NEW e \in Members(s) \ {Root}, s.parent[e] \in S
      PROVE  e \in S
  <2>1. e \in Members(s) /\ e \in Members(t) /\ e # Root /\ t.parent[e] = s.parent[e] /\ t.name[e] = s.name[e]
    BY <1>1
  <2>2. Path(s, e) = Append(Path(s, s.parent[e]), s.name[e])
    BY <2>1, PathStep
  <2>3. Path(t, e) = Append(Path(t, t.parent[e]), t.name[e])
    BY <2>1, PathStep
  <2> QED BY <1>3, <2>1, <2>2, <2>3
<1>4. S = Members(s)
  <2> HIDE DEF S
  <2>1. S \in SUBSET Members(s)
    BY DEF S
  <2> QED BY <1>2, <1>3, <2>1, MembersDown
<1> QED BY <1>1, <1>4

-----------------------------------------------------------------------------
(* What lies below a directory.                                            *)

ClosedUnder(ms, S) == \A e \in Entity : ms.parent[e] \in S => e \in S

(* A directory, or a file, with everything below it. *)
Inside(ms, d) == {x \in Entity : \A S \in SUBSET Entity : d \in S /\ ClosedUnder(ms, S) => x \in S}

LEMMA InsideClosed ==
  ASSUME NEW ms, NEW d \in Entity
  PROVE  d \in Inside(ms, d) /\ Inside(ms, d) \in SUBSET Entity /\ ClosedUnder(ms, Inside(ms, d))
BY DEF Inside, ClosedUnder

LEMMA InsideLeast ==
  ASSUME NEW ms, NEW d, NEW S \in SUBSET Entity, d \in S, ClosedUnder(ms, S)
  PROVE  Inside(ms, d) \subseteq S
BY DEF Inside

(* What is inside is the directory itself or in a directory inside.        *)
LEMMA InsideUp ==
  ASSUME NEW ms, NEW d \in Entity, NEW x \in Inside(ms, d)
  PROVE  x = d \/ ms.parent[x] \in Inside(ms, d)
<1> DEFINE S == {y \in Inside(ms, d) : y = d \/ ms.parent[y] \in Inside(ms, d)}
<1>1. S \in SUBSET Entity /\ d \in S
  BY InsideClosed
<1>2. ClosedUnder(ms, S)
  BY InsideClosed DEF ClosedUnder
<1> QED BY <1>1, <1>2, InsideLeast

LEMMA InsideInside ==
  ASSUME NEW ms, NEW d \in Entity, NEW x \in Inside(ms, d)
  PROVE  Inside(ms, x) \subseteq Inside(ms, d)
BY InsideClosed, InsideLeast

(* ... or in one of its members. *)
LEMMA InsideDown ==
  ASSUME NEW ms, NEW d \in Entity, NEW x \in Inside(ms, d), x # d
  PROVE  \E e \in Entity : ms.parent[e] = d /\ x \in Inside(ms, e)
<1> DEFINE S == {d} \cup UNION {Inside(ms, e) : e \in {y \in Entity : ms.parent[y] = d}}
<1>1. S \in SUBSET Entity /\ d \in S
  BY InsideClosed
<1>2. ClosedUnder(ms, S)
  BY InsideClosed DEF ClosedUnder
<1> QED BY <1>1, <1>2, InsideLeast

(* Of two directories with something in common, one is inside the other.   *)
LEMMA InsideNested ==
  ASSUME NEW ms, NEW a \in Entity, NEW b \in Entity, NEW x \in Inside(ms, a) \cap Inside(ms, b)
  PROVE  a \in Inside(ms, b) \/ b \in Inside(ms, a)
<1> DEFINE S == {y \in Inside(ms, a) :
                   y \in Inside(ms, b) => a \in Inside(ms, b) \/ b \in Inside(ms, a)}
<1>1. S \in SUBSET Entity /\ a \in S
  BY InsideClosed
<1>2. ClosedUnder(ms, S)
  BY InsideClosed, InsideUp DEF ClosedUnder
<1> QED BY <1>1, <1>2, InsideLeast

LEMMA InsideMembers ==
  ASSUME NEW ms, Tree(ms), NEW d \in Entity, InSet(ms, d), NEW x \in Inside(ms, d)
  PROVE  InSet(ms, x)
<1> DEFINE S == {y \in Entity : InSet(ms, y)}
<1>1. ClosedUnder(ms, S)
  BY Classes DEF ClosedUnder, InSet, Entity, Container
<1> QED BY <1>1, InsideLeast

(* Only directories have something below them. *)
LEMMA InsideFile ==
  ASSUME NEW ms, Tree(ms), NEW f \in File
  PROVE  Inside(ms, f) = {f}
<1>1. ClosedUnder(ms, {f})
  BY Classes DEF ClosedUnder, Tree, Container, Optional, Entity
<1> QED BY <1>1, InsideLeast, InsideClosed DEF Entity

(* Nothing is below itself. *)
LEMMA ParentOutside ==
  ASSUME NEW ms, Tree(ms), NEW d \in Entity, InSet(ms, d)
  PROVE  ms.parent[d] \notin Inside(ms, d)
<1> DEFINE S == {c \in Container : c \in Entity => ms.parent[c] \notin Inside(ms, c)}
<1>1. ClosedBelow(ms, S)
  <2>1. Root \in S
    BY Classes DEF Container, Entity
  <2>2. ASSUME NEW c \in Directory, ms.parent[c] \in S, ms.parent[c] \in Inside(ms, c)
        PROVE  FALSE
    <3>1. /\ c \in Entity /\ ms.parent[c] \in Entity /\ ms.parent[c] \in Inside(ms, c)
      BY <2>2, InsideClosed DEF Entity
    <3>2. ms.parent[c] # c
      BY <2>2, <3>1, InsideClosed
    <3>3. ms.parent[ms.parent[c]] \in Inside(ms, c)
      BY <3>1, <3>2, InsideUp
    <3>4. c \in Inside(ms, ms.parent[c])
      BY <3>1, InsideClosed DEF ClosedUnder
    <3>5. ms.parent[ms.parent[c]] \in Inside(ms, ms.parent[c])
      BY <3>1, <3>3, <3>4, InsideInside
    <3> QED BY <2>2, <3>1, <3>5
  <2> QED BY <2>1, <2>2 DEF ClosedBelow, Container
<1>2. CASE d \in Directory
  BY <1>1, <1>2 DEF Tree, Rooted, Containers
<1>3. CASE d \in File
  BY <1>3, InsideFile, Classes DEF Tree, Optional, InSet, Container, Entity
<1> QED BY <1>2, <1>3 DEF Entity

(* Every member is in the media set itself or below one of its directories. *)
Tops(ms) == AllSubdirectories(ms, Root)

LEMMA InsideTop ==
  ASSUME NEW ms, Tree(ms), NEW x \in Entity, InSet(ms, x), ms.parent[x] # Root
  PROVE  \E d \in Tops(ms) : x \in Inside(ms, d) /\ ms.parent[x] \in Inside(ms, d)
<1> DEFINE S == {c \in Container : c = Root \/ \E d \in Tops(ms) : c \in Inside(ms, d)}
<1>1. ClosedBelow(ms, S)
  <2>1. Root \in S
    BY DEF Container
  <2>2. ASSUME NEW c \in Directory, ms.parent[c] \in S
        PROVE  c \in S
    <3>1. c \in Container /\ c \in Entity
      BY DEF Container, Entity
    <3>2. CASE ms.parent[c] = Root
      BY <3>1, <3>2, InsideClosed DEF Tops, AllSubdirectories
    <3>3. CASE ms.parent[c] # Root
      <4>1. PICK d \in Tops(ms) : ms.parent[c] \in Inside(ms, d)
        BY <2>2, <3>3
      <4>2. d \in Entity
        BY DEF Tops, AllSubdirectories, Entity
      <4> QED BY <3>1, <4>1, <4>2, InsideClosed DEF ClosedUnder
    <3> QED BY <3>2, <3>3
  <2> QED BY <2>1, <2>2 DEF ClosedBelow
<1>2. ms.parent[x] \in Containers(ms)
  BY DEF Tree, ParentsLive
<1>3. PICK d \in Tops(ms) : ms.parent[x] \in Inside(ms, d)
  BY <1>1, <1>2 DEF Tree, Rooted
<1>4. d \in Entity
  BY DEF Tops, AllSubdirectories, Entity
<1> QED BY <1>3, <1>4, InsideClosed DEF ClosedUnder

LEMMA TopsApart ==
  ASSUME NEW ms, NEW a \in Tops(ms), NEW b \in Tops(ms), NEW x \in Inside(ms, a) \cap Inside(ms, b)
  PROVE  a = b
<1>1. a \in Entity /\ b \in Entity /\ ms.parent[a] = Root /\ ms.parent[b] = Root /\ Root \notin Entity
  BY Classes DEF Tops, AllSubdirectories, Entity
<1>2. a \in Inside(ms, b) \/ b \in Inside(ms, a)
  BY <1>1, InsideNested
<1> QED BY <1>1, <1>2, InsideUp, InsideClosed

LEMMA TopsOutside ==
  ASSUME NEW ms, NEW d \in Tops(ms), NEW x \in Inside(ms, d), ms.parent[x] = Root
  PROVE  x = d
<1>1. d \in Entity /\ Root \notin Entity
  BY Classes DEF Tops, AllSubdirectories, Entity
<1> QED BY <1>1, InsideUp, InsideClosed

(* The recursive list of files has the files inside. *)
LEMMA FilesInside ==
  ASSUME NEW ms, Tree(ms), NEW d \in Directory, InSet(ms, d)
  PROVE  RecursiveFiles(ms, d, NoValue) = Inside(ms, d) \cap File
<1> DEFINE Short == {c \in Container :
                       c = Root \/ RecursiveFiles(ms, c, NoValue) \subseteq Inside(ms, c) \cap File}
           Long == {x \in Entity :
                      \/ x \in Directory /\ RecursiveFiles(ms, x, NoValue) \subseteq RecursiveFiles(ms, d, NoValue)
                      \/ x \in File /\ x \in RecursiveFiles(ms, d, NoValue)}
<1>1. \A c \in Container : FilesOn(ms, c, NoValue) = AllFiles(ms, c)
  BY DEF FilesOn, OnMedium
<1>2. ClosedAbove(ms, Short)
  <2> SUFFICES ASSUME NEW c \in Directory, AllSubdirectories(ms, c) \subseteq Short
               PROVE  RecursiveFiles(ms, c, NoValue) \subseteq Inside(ms, c) \cap File
    BY DEF ClosedAbove, Container
  <2>1. c \in Container /\ c \in Entity
    BY DEF Container, Entity
  <2>2. AllFiles(ms, c) \subseteq Inside(ms, c) \cap File
    BY <2>1, InsideClosed DEF AllFiles, ClosedUnder, Entity
  <2>3. ASSUME NEW e \in AllSubdirectories(ms, c)
        PROVE  RecursiveFiles(ms, e, NoValue) \subseteq Inside(ms, c) \cap File
    <3>1. e \in Entity /\ e # Root /\ ms.parent[e] = c
      BY Classes DEF AllSubdirectories, Entity
    <3>2. e \in Inside(ms, c)
      BY <2>1, <3>1, InsideClosed DEF ClosedUnder
    <3> QED BY <2>1, <3>1, <3>2, InsideInside
  <2> QED BY <1>1, <2>1, <2>2, <2>3, RecursiveFilesStep
<1>3. RecursiveFiles(ms, d, NoValue) \subseteq Inside(ms, d) \cap File
  BY <1>2, Classes DEF Tree, Grounded, Containers
<1>4. Inside(ms, d) \subseteq Long
  <2>1. d \in Long
    BY DEF Entity
  <2>2. ASSUME NEW e \in Entity, ms.parent[e] \in Long
        PROVE  e \in Long
    <3>1. ms.parent[e] \in Container
      BY <2>2, Classes DEF Tree, Optional, Entity, Container
    <3>2. /\ ms.parent[e] \in Directory
          /\ RecursiveFiles(ms, ms.parent[e], NoValue) \subseteq RecursiveFiles(ms, d, NoValue)
      BY <2>2, <3>1, Classes DEF Container
    <3>3. CASE e \in Directory
      <4>1. e \in AllSubdirectories(ms, ms.parent[e])
        BY <3>3 DEF AllSubdirectories
      <4> QED BY <3>1, <3>2, <3>3, <4>1, RecursiveFilesStep
    <3>4. CASE e \in File
      <4>1. e \in AllFiles(ms, ms.parent[e])
        BY <3>4 DEF AllFiles
      <4> QED BY <1>1, <3>1, <3>2, <3>4, <4>1, RecursiveFilesStep
    <3> QED BY <3>3, <3>4 DEF Entity
  <2> QED BY <2>1, <2>2, InsideLeast DEF ClosedUnder
<1> QED BY <1>3, <1>4, Classes
=============================================================================
