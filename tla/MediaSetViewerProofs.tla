------------------------ MODULE MediaSetViewerProofs ------------------------
(***************************************************************************)
(* Theorems about XML descriptions of media sets, as the viewer writes,    *)
(* reads and watches them: for all media sets that programs make, edits    *)
(* and orders of elements.                                                 *)
(***************************************************************************)
EXTENDS MediaSetViewer, MediaModelProofs

-----------------------------------------------------------------------------
(* Documents.                                                              *)

ReferenceType == [absolute : BOOLEAN, path : Seq(Name) \ {<<>>}]
TargetType == [position : Position, loads : SUBSET ReferenceType]

(* The check value types of one element, or of the media set.              *)
Kinds(e) == {s[2] : s \in {t \in Scope : t[1] = e}}
CheckTypes(e) == [Kinds(e) -> Optional(CheckType)]

ElementType ==
  [entity : Entity, in : Container, name : Name, medium : Optional(Nat),
   check : UNION {CheckTypes(e) : e \in Entity},
   source : Optional(SourcePath), type : Optional(LoadType),
   data : SUBSET ReferenceType, support : SUBSET ReferenceType, targets : SUBSET TargetType]

(* What an element has that its class of objects has. *)
Fits(x) ==
  /\ x \in ElementType /\ x.check \in CheckTypes(x.entity)
  /\ x.entity \notin Load => x.data = {} /\ x.support = {}
  /\ x.entity \notin Batch => x.targets = {}
  /\ x.entity \notin File => x.source = NoValue
  /\ \A t, u \in x.targets : t.position = u.position => t = u

(* The tree that the elements form.                                        *)
Entities(doc) == {x.entity : x \in doc.elements}
ElementOf(doc, e) == CHOOSE x \in doc.elements : x.entity = e

Nesting(doc) ==
  [parent |-> [e \in Entity |-> IF e \in Entities(doc) THEN ElementOf(doc, e).in ELSE NoValue],
   name |-> [e \in Entity |-> IF e \in Entities(doc) THEN ElementOf(doc, e).name
                              ELSE EmptyMediaSet.name[e]]]

Description(doc) ==
  /\ doc = [medium |-> doc.medium, check |-> doc.check, elements |-> doc.elements]
  /\ doc.medium \in Optional(MediumNumber) /\ doc.check \in CheckTypes(Root)
  /\ \A x \in doc.elements : Fits(x)
  /\ \A x, y \in doc.elements : x.entity = y.entity => x = y
  /\ Tree(Nesting(doc))

LEMMA NestingFields ==
  ASSUME NEW doc, Description(doc)
  PROVE  LET t == Nesting(doc)
         IN /\ Tree(t) /\ t.name \in [Entity -> Name]
            /\ \A x \in doc.elements : /\ x.entity \in Entity /\ x.in \in Container /\ x.in # NoValue
                                       /\ ElementOf(doc, x.entity) = x /\ InSet(t, x.entity)
                                       /\ t.parent[x.entity] = x.in /\ t.name[x.entity] = x.name
            /\ \A e \in Entity : InSet(t, e) <=> \E x \in doc.elements : x.entity = e
<1> DEFINE t == Nesting(doc)
<1>1. \A x \in doc.elements : x.entity \in Entity /\ x.in \in Container /\ x.name \in Name
  BY DEF Description, Fits, ElementType
<1>2. \A x \in doc.elements : ElementOf(doc, x.entity) = x
  BY DEF Description, ElementOf
<1>3. \A e \in Entities(doc) : ElementOf(doc, e) \in doc.elements /\ ElementOf(doc, e).entity = e
  BY <1>2 DEF Entities
<1>4. \A e \in Entity : EmptyMediaSet.name[e] \in Name
  BY EmptyTyping DEF MediaSetType
<1>5. t.name \in [Entity -> Name]
  BY <1>1, <1>3, <1>4 DEF Nesting
<1>6. \A x \in doc.elements : /\ x.in # NoValue /\ t.parent[x.entity] = x.in
                              /\ t.name[x.entity] = x.name /\ InSet(t, x.entity)
  BY <1>1, <1>2, Classes DEF Nesting, Entities, InSet
<1>7. \A e \in Entity : InSet(t, e) <=> \E x \in doc.elements : x.entity = e
  BY <1>6 DEF Nesting, Entities, InSet
<1> QED BY <1>1, <1>2, <1>5, <1>6, <1>7 DEF Description

(* The path of an element is its path in this tree.                        *)
LEMMA WrittenPaths ==
  ASSUME NEW doc, Description(doc)
  PROVE  /\ Members(Nesting(doc)) = Entities(doc) \cup {Root}
         /\ \A e \in Entities(doc) \cup {Root} : WrittenPath(doc)[e] = Path(Nesting(doc), e)
<1> DEFINE t == Nesting(doc)
           D == Entities(doc) \cup {Root}
           Unfolds(g) ==
             g = [e \in Entities(doc) \cup {Root} |->
                    IF e = Root THEN <<>> ELSE Append(g[ElementOf(doc, e).in], ElementOf(doc, e).name)]
           path == CHOOSE g : Unfolds(g)
           found == [e \in D |-> Path(t, e)]
<1>1. Members(t) = D
  BY NestingFields DEF Members, Containers, Files, Entities, Entity
<1>2. /\ Tree(t) /\ t.name \in [Entity -> Name]
      /\ \A e \in D \ {Root} : /\ t.parent[e] = ElementOf(doc, e).in /\ t.parent[e] \in D
                               /\ t.name[e] = ElementOf(doc, e).name
  <2>1. \A e \in D \ {Root} : e \in Entity /\ InSet(t, e)
    BY NestingFields DEF Entities
  <2>2. \A e \in D \ {Root} : t.parent[e] = ElementOf(doc, e).in /\ t.name[e] = ElementOf(doc, e).name
    BY NestingFields DEF Entities
  <2>3. Tree(t) /\ t.name \in [Entity -> Name]
    BY NestingFields
  <2>4. \A e \in D \ {Root} : t.parent[e] \in D
    BY <1>1, <2>1, <2>3 DEF Tree, ParentsLive, Members
  <2> QED BY <2>2, <2>3, <2>4
<1> HIDE DEF t
<1>3. Unfolds(found)
  <2> SUFFICES ASSUME NEW e \in D
               PROVE  Path(t, e) = IF e = Root THEN <<>>
                                   ELSE Append(found[ElementOf(doc, e).in], ElementOf(doc, e).name)
    OBVIOUS
  <2> QED BY <1>1, <1>2, PathStep
<1>4. Unfolds(path)
  BY <1>3
<1>5. WrittenPath(doc) = path
  BY DEF WrittenPath, Entities, ElementOf
<1> HIDE DEF path
<1>6. \A e \in D : path[e] = IF e = Root THEN <<>>
                              ELSE Append(path[ElementOf(doc, e).in], ElementOf(doc, e).name)
  BY <1>4
<1>7. {e \in D : path[e] = Path(t, e)} = D
  <2> DEFINE S == {e \in D : path[e] = Path(t, e)}
  <2>1. Root \in S
    BY <1>1, <1>2, <1>6, PathStep
  <2>2. ASSUME NEW e \in D \ {Root}, t.parent[e] \in S
        PROVE  e \in S
    <3>1. path[e] = Append(path[t.parent[e]], t.name[e])
      BY <1>2, <1>6
    <3>2. Path(t, e) = Append(Path(t, t.parent[e]), t.name[e])
      BY <1>1, <1>2, PathStep
    <3> QED BY <2>2, <3>1, <3>2
  <2> HIDE DEF S
  <2>3. S \in SUBSET D
    BY DEF S
  <2>4. S = Members(t)
    BY <1>1, <1>2, <2>1, <2>2, <2>3, MembersDown
  <2> QED BY <1>1, <2>4 DEF S
<1> QED BY <1>1, <1>5, <1>7 DEF t

(* What is passed over is at the bottom of the tree.                       *)
LEMMA KeptDescription ==
  ASSUME NEW doc, Description(doc)
  PROVE  /\ Description(Kept(doc))
         /\ Kept(doc).elements = {x \in doc.elements : ~LeftOut(doc, x)}
         /\ (\A x \in doc.elements : x.name \notin Reserved) => Kept(doc) = doc
<1> DEFINE new == Kept(doc)
           t == Nesting(doc)
           E == Entities(doc) \ Entities(new)
<1>1. doc = [medium |-> doc.medium, check |-> doc.check, elements |-> doc.elements]
  BY DEF Description
<1>2. /\ new.medium = doc.medium /\ new.check = doc.check
      /\ new.elements = {x \in doc.elements : ~LeftOut(doc, x)}
      /\ new = [medium |-> new.medium, check |-> new.check, elements |-> new.elements]
  BY <1>1 DEF Kept
<1> HIDE DEF new
<1>3. \A a, b \in doc.elements : a.entity = b.entity => a = b
  BY DEF Description
<1>4. \A z \in new.elements : ElementOf(new, z.entity) = z /\ ElementOf(doc, z.entity) = z
  BY <1>2, <1>3 DEF ElementOf
<1>5. Entities(new) \subseteq Entities(doc) /\ Entities(doc) \subseteq Entity
  BY <1>2, NestingFields DEF Entities
<1>6. \A e \in Entities(new) : ElementOf(new, e) = ElementOf(doc, e)
  BY <1>4 DEF Entities
<1>7. Nesting(new).parent = [x \in Entity |-> IF x \in E THEN NoValue ELSE t.parent[x]]
  BY <1>5, <1>6 DEF Nesting
<1>8. \A x \in Entity : t.parent[x] \notin E
  <2> SUFFICES ASSUME NEW x \in Entity, t.parent[x] \in E PROVE FALSE
    OBVIOUS
  <2>1. PICK z \in doc.elements : z.entity = t.parent[x] /\ LeftOut(doc, z)
    BY <1>2 DEF Entities
  <2>2. InSet(t, x)
    BY <1>5, Classes DEF InSet, Entity, Container
  <2>3. PICK y \in doc.elements : y.entity = x
    BY <2>2, NestingFields
  <2>4. y.in = z.entity
    BY <2>1, <2>3, NestingFields
  <2> QED BY <2>1, <2>4 DEF LeftOut
<1>9. Tree(Nesting(new))
  <2>1. Tree(t)
    BY DEF Description
  <2> QED BY <1>5, <1>7, <1>8, <2>1, DetachAllKeepsTree
<1>10. Description(new)
  BY <1>2, <1>9 DEF Description
<1>11. ASSUME \A x \in doc.elements : x.name \notin Reserved
       PROVE  new = doc
  BY <1>1, <1>2, <1>11 DEF LeftOut
<1> QED BY <1>2, <1>10, <1>11 DEF new

(* A media set that can be saved: one that programs make, with the types   *)
(* of its loads and the source paths of some of its files.                 *)
Savable(s, ty, pa) ==
  /\ s \in MediaSetType /\ Proper(s) /\ OutsidersBare(s) /\ Ordinary(s)
  /\ ty \in [Files(s) \cap Load -> Optional(LoadType)]
  /\ DOMAIN pa \subseteq Files(s) /\ pa \in [DOMAIN pa -> SourcePath]

LEMMA ReferencesTyped ==
  ASSUME NEW s, s \in MediaSetType, Proper(s), NEW f \in Files(s)
  PROVE  Reference(s, f) \in ReferenceType
<1>1. Path(s, f) \in Seq(Name) \ {<<>>}
  <2>1. Tree(s) /\ s.name \in [Entity -> Name]
    BY DEF Proper, MediaSetType
  <2> QED BY <2>1, PathOfFile, AppendProperties
<1> QED BY <1>1 DEF Reference, ReferenceType

LEMMA CheckValuesTyped ==
  ASSUME NEW s, s \in MediaSetType, NEW e
  PROVE  /\ CheckValues(s, e) \in CheckTypes(e)
         /\ \A x \in Scope : x[1] = e => x[2] \in Kinds(e) /\ CheckValues(s, e)[x[2]] = s.check[x]
<1>1. \A x \in Scope : x = <<x[1], x[2]>>
  BY DEF Scope
<1>2. \A k \in Kinds(e) : <<e, k>> \in Scope
  BY <1>1 DEF Kinds
<1>3. s.check \in [Scope -> Optional(CheckType)]
  BY DEF MediaSetType
<1>4. CheckValues(s, e) = [k \in Kinds(e) |-> s.check[<<e, k>>]]
  BY DEF CheckValues, Kinds
<1>5. \A x \in Scope : x[1] = e => x[2] \in Kinds(e) /\ s.check[<<e, x[2]>>] = s.check[x]
  BY <1>1 DEF Kinds
<1> QED BY <1>2, <1>3, <1>4, <1>5 DEF CheckTypes

LEMMA ElementFits ==
  ASSUME NEW s, NEW ty, NEW pa, Savable(s, ty, pa), NEW e \in Entity, InSet(s, e)
  PROVE  Fits(Element(s, ty, pa, e))
<1> DEFINE x == Element(s, ty, pa, e)
<1>1. /\ s \in MediaSetType /\ Proper(s) /\ LiveLinks(s)
      /\ s.parent \in [Entity -> Optional(Container)] /\ s.name \in [Entity -> Name]
      /\ s.medium[e] \in Optional(MediumNumber)
  BY DEF Savable, Proper, MediaSetType, Entity, Container
<1>2. /\ x.entity = e /\ x.in = s.parent[e] /\ x.name = s.name[e] /\ x.medium = s.medium[e]
      /\ x.check = CheckValues(s, e) /\ x.source = Lookup(pa, e) /\ x.type = Lookup(ty, e)
      /\ x.data = (IF e \in Load THEN DataReferences(s, e) ELSE {})
      /\ x.support = (IF e \in Load THEN SupportReferences(s, e) ELSE {})
      /\ x.targets = (IF e \in Batch THEN Targets(s, e) ELSE {})
      /\ x = [entity |-> x.entity, in |-> x.in, name |-> x.name, medium |-> x.medium,
              check |-> x.check, source |-> x.source, type |-> x.type,
              data |-> x.data, support |-> x.support, targets |-> x.targets]
  BY DEF Element
<1> HIDE DEF x
<1>3. x.entity \in Entity /\ x.in \in Container /\ x.name \in Name /\ x.medium \in Optional(Nat)
  BY <1>1, <1>2, MediumAssumption DEF InSet, Optional, MediumNumber, MediumAssumption
<1>4. x.check \in CheckTypes(x.entity)
  BY <1>1, <1>2, CheckValuesTyped
<1>5. x.source \in Optional(SourcePath) /\ x.type \in Optional(LoadType)
  BY <1>2 DEF Lookup, Savable, Optional
<1>6. e \notin File => x.source = NoValue
  BY <1>2 DEF Lookup, Savable, Files
<1>7. x.data \in SUBSET ReferenceType /\ x.support \in SUBSET ReferenceType
  <2>1. ASSUME e \in Load
        PROVE  s.data[e] \subseteq Files(s) /\ s.support[e] \subseteq Files(s)
    BY <1>1, <2>1 DEF LiveLinks
  <2> QED BY <1>1, <1>2, <2>1, ReferencesTyped DEF DataReferences, SupportReferences
<1>8. x.targets \in SUBSET TargetType /\ \A t, u \in x.targets : t.position = u.position => t = u
  <2>1. CASE e \notin Batch
    BY <1>2, <2>1
  <2>2. CASE e \in Batch
    <3>1. \A t \in x.targets :
            /\ t.position \in Position /\ s.targets[e][t.position] # NoValue
            /\ t = [position |-> t.position, loads |-> {Reference(s, l) : l \in s.targets[e][t.position]}]
      BY <1>2, <2>2 DEF Targets
    <3>2. ASSUME NEW t \in x.targets
          PROVE  t \in TargetType
      <4>1. s.targets[e][t.position] \subseteq Files(s)
        BY <1>1, <2>2, <3>1 DEF LiveLinks
      <4>2. {Reference(s, l) : l \in s.targets[e][t.position]} \in SUBSET ReferenceType
        BY <1>1, <4>1, ReferencesTyped
      <4> QED BY <3>1, <4>2 DEF TargetType
    <3> QED BY <3>1, <3>2
  <2> QED BY <2>1, <2>2
<1>9. x \in ElementType
  <2>1. x.check \in UNION {CheckTypes(y) : y \in Entity}
    BY <1>3, <1>4
  <2> HIDE DEF ReferenceType, TargetType, CheckTypes
  <2> QED BY <1>2, <1>3, <1>5, <1>7, <1>8, <2>1 DEF ElementType
<1> QED BY <1>2, <1>4, <1>6, <1>8, <1>9 DEF Fits, x

LEMMA SavedDescription ==
  ASSUME NEW s, NEW ty, NEW pa, Savable(s, ty, pa)
  PROVE  Description(DocumentOf(s, ty, pa))
<1> DEFINE doc == DocumentOf(s, ty, pa)
<1>1. /\ doc.medium = s.medium[Root] /\ doc.check = CheckValues(s, Root)
      /\ doc.elements = {Element(s, ty, pa, e) : e \in {x \in Entity : InSet(s, x)}}
      /\ doc = [medium |-> doc.medium, check |-> doc.check, elements |-> doc.elements]
  BY DEF DocumentOf
<1> HIDE DEF doc
<1>2. doc.medium \in Optional(MediumNumber) /\ doc.check \in CheckTypes(Root)
  <2>1. s \in MediaSetType /\ Root \in File \cup Container
    BY DEF Savable, Container
  <2>2. s.medium[Root] \in Optional(MediumNumber)
    BY <2>1 DEF MediaSetType
  <2>3. CheckValues(s, Root) \in CheckTypes(Root)
    BY <2>1, CheckValuesTyped
  <2> QED BY <1>1, <2>2, <2>3
<1>3. \A e : /\ Element(s, ty, pa, e).entity = e
             /\ Element(s, ty, pa, e).in = s.parent[e]
  BY DEF Element
<1>4. \A x \in doc.elements : /\ x.entity \in Entity /\ InSet(s, x.entity)
                              /\ x = Element(s, ty, pa, x.entity)
  BY <1>1, <1>3
<1>5. \A e \in Entity : InSet(s, e) <=> e \in Entities(doc)
  BY <1>1, <1>3, <1>4 DEF Entities
<1>6. \A x, y \in doc.elements : x.entity = y.entity => x = y
  BY <1>4
<1>7. \A x \in doc.elements : Fits(x)
  BY <1>4, ElementFits
<1>8. \A e \in Entities(doc) : ElementOf(doc, e) \in doc.elements /\ ElementOf(doc, e).entity = e
  BY DEF Entities, ElementOf
<1>9. \A e \in Entities(doc) : ElementOf(doc, e).in = s.parent[e]
  BY <1>3, <1>4, <1>8
<1>10. Nesting(doc).parent = s.parent
  <2>1. s.parent \in [Entity -> Optional(Container)]
    BY DEF Savable, MediaSetType
  <2>2. \A e \in Entity : s.parent[e] = IF e \in Entities(doc) THEN ElementOf(doc, e).in ELSE NoValue
    BY <1>5, <1>9 DEF InSet
  <2> QED BY <2>1, <2>2 DEF Nesting
<1>11. Tree(Nesting(doc))
  BY <1>10, SameTree DEF Savable, Proper
<1> QED BY <1>1, <1>2, <1>6, <1>7, <1>11 DEF Description, doc

-----------------------------------------------------------------------------
(* Edits.                                                                  *)

LEMMA ReplacedElement ==
  ASSUME NEW doc, Description(doc), NEW x \in doc.elements, NEW y, Fits(y),
         y.entity = x.entity, y.in = x.in
  PROVE  Description([doc EXCEPT !.elements = (@ \ {x}) \cup {y}])
<1> DEFINE new == [doc EXCEPT !.elements = (@ \ {x}) \cup {y}]
<1>1. /\ doc = [medium |-> doc.medium, check |-> doc.check, elements |-> doc.elements]
      /\ \A z \in doc.elements : z.entity = x.entity => z = x
  BY DEF Description
<1>2. /\ new.medium = doc.medium /\ new.check = doc.check
      /\ new.elements = (doc.elements \ {x}) \cup {y}
      /\ new = [medium |-> new.medium, check |-> new.check, elements |-> new.elements]
  BY <1>1
<1> HIDE DEF new
<1>3. \A a, b \in new.elements : a.entity = b.entity => a = b
  BY <1>1, <1>2 DEF Description
<1>4. Entities(new) = Entities(doc)
  BY <1>2 DEF Entities
<1>5. /\ \A z \in new.elements : ElementOf(new, z.entity) = z
      /\ \A z \in doc.elements : ElementOf(doc, z.entity) = z
  BY <1>3 DEF ElementOf, Description
<1>6. \A e \in Entities(doc) : ElementOf(new, e).in = ElementOf(doc, e).in
  <2> SUFFICES ASSUME NEW z \in doc.elements
               PROVE  ElementOf(new, z.entity).in = ElementOf(doc, z.entity).in
    BY DEF Entities
  <2>1. CASE z = x
    BY <1>2, <1>5, <2>1
  <2>2. CASE z # x
    BY <1>2, <1>5, <2>2
  <2> QED BY <2>1, <2>2
<1>7. Nesting(new).parent = Nesting(doc).parent
  BY <1>4, <1>6 DEF Nesting
<1>8. Tree(Nesting(new))
  BY <1>7, SameTree DEF Description
<1> QED BY <1>2, <1>3, <1>8 DEF Description, new

LEMMA DeletedElement ==
  ASSUME NEW doc, Description(doc), NEW x \in doc.elements, x.entity \in File
  PROVE  Description([doc EXCEPT !.elements = (@ \ {x}) \cup {}])
<1> DEFINE new == [doc EXCEPT !.elements = (@ \ {x}) \cup {}]
           t == Nesting(doc)
<1>1. doc = [medium |-> doc.medium, check |-> doc.check, elements |-> doc.elements]
  BY DEF Description
<1>2. /\ new.medium = doc.medium /\ new.check = doc.check
      /\ new.elements = doc.elements \ {x}
      /\ new = [medium |-> new.medium, check |-> new.check, elements |-> new.elements]
  BY <1>1
<1> HIDE DEF new
<1>3. \A a, b \in doc.elements : a.entity = b.entity => a = b
  BY DEF Description
<1>4. Entities(new) = Entities(doc) \ {x.entity}
  BY <1>2, <1>3 DEF Entities
<1>5. \A e \in Entities(new) : ElementOf(new, e) = ElementOf(doc, e)
  <2> SUFFICES ASSUME NEW z \in new.elements
               PROVE  ElementOf(new, z.entity) = ElementOf(doc, z.entity)
    BY DEF Entities
  <2>1. ElementOf(new, z.entity) = z /\ ElementOf(doc, z.entity) = z
    BY <1>2, <1>3 DEF ElementOf
  <2> QED BY <2>1
<1>6. Nesting(new).parent = [t.parent EXCEPT ![x.entity] = NoValue]
  BY <1>4, <1>5 DEF Nesting
<1>7. \A e \in Entity : t.parent[e] # x.entity
  <2>1. Tree(t)
    BY DEF Description
  <2> QED BY <2>1, Classes DEF Tree, Optional, Container
<1>8. Tree(Nesting(new))
  <2>1. Tree(t) /\ x.entity \in Entity
    BY DEF Description, Entity
  <2> QED BY <1>6, <1>7, <2>1, DetachKeepsTree
<1> QED BY <1>2, <1>3, <1>8 DEF Description, new

LEMMA ShortenedTyped ==
  ASSUME NEW x, NEW r \in ReferenceType
  PROVE  Shortened(x, r) \in ReferenceType
<1>1. Last(r.path) \in Name
  BY PathSplit DEF ReferenceType
<1>2. <<Last(r.path)>> \in Seq(Name) \ {<<>>}
  BY <1>1
<1> QED BY <1>2 DEF Shortened, ReferenceType

LEMMA EditedDescription ==
  ASSUME Description(document), EditByHand
  PROVE  Description(document')
<1>1. PICK x \in document.elements :
        \/ \E n \in Name : EditName(x, n)
        \/ \E m \in 0 .. MaxMedium + 1 : EditMedium(x, m)
        \/ DeleteFile(x) \/ ShortenReferences(x)
  BY DEF EditByHand
<1>2. Fits(x)
  BY DEF Description
<1>3. ASSUME NEW n \in Name, EditName(x, n)
      PROVE  Description(document')
  <2>1. Fits([x EXCEPT !.name = n])
    BY <1>2 DEF Fits, ElementType
  <2>2. document' = [document EXCEPT !.elements = (@ \ {x}) \cup {[x EXCEPT !.name = n]}]
    BY <1>3 DEF EditName, Edit
  <2>3. [x EXCEPT !.name = n].entity = x.entity /\ [x EXCEPT !.name = n].in = x.in
    BY <1>2 DEF Fits, ElementType
  <2> QED BY <2>1, <2>2, <2>3, ReplacedElement
<1>4. ASSUME NEW m \in 0 .. MaxMedium + 1, EditMedium(x, m)
      PROVE  Description(document')
  <2>1. m \in Nat
    BY MediumAssumption DEF MediumAssumption
  <2>2. Fits([x EXCEPT !.medium = m])
    BY <1>2, <2>1 DEF Fits, ElementType, Optional
  <2>3. document' = [document EXCEPT !.elements = (@ \ {x}) \cup {[x EXCEPT !.medium = m]}]
    BY <1>4 DEF EditMedium, Edit
  <2>4. [x EXCEPT !.medium = m].entity = x.entity /\ [x EXCEPT !.medium = m].in = x.in
    BY <1>2 DEF Fits, ElementType
  <2> QED BY <2>2, <2>3, <2>4, ReplacedElement
<1>5. CASE DeleteFile(x)
  BY <1>5, DeletedElement DEF DeleteFile, Edit
<1>6. CASE ShortenReferences(x)
  <2> DEFINE D == {Shortened(x, r) : r \in x.data}
             S == {Shortened(x, r) : r \in x.support}
             y == [x EXCEPT !.data = D, !.support = S]
  <2>1. D \in SUBSET ReferenceType /\ S \in SUBSET ReferenceType
    BY <1>2, ShortenedTyped DEF Fits, ElementType
  <2>2. x.data = {} /\ x.support = {} => D = {} /\ S = {}
    OBVIOUS
  <2>3. document' = [document EXCEPT !.elements = (@ \ {x}) \cup {y}]
    BY <1>6 DEF ShortenReferences, Edit
  <2> HIDE DEF D, S
  <2>4. y.entity = x.entity /\ y.in = x.in /\ Fits(y)
    BY <1>2, <2>1, <2>2 DEF Fits, ElementType
  <2> HIDE DEF y
  <2> QED BY <2>3, <2>4, ReplacedElement
<1> QED BY <1>1, <1>3, <1>4, <1>5, <1>6

-----------------------------------------------------------------------------
(* Loading.                                                                *)

(* The files of a class at the paths that references of an element mean.   *)
LinkOf(doc, x, r, class) ==
  {f \in Entities(doc) \cap class : WrittenPath(doc)[f] = Meant(doc, x, r)}

LinksOf(doc, x, refs, class) ==
  {f \in Entities(doc) \cap class : \E r \in refs : WrittenPath(doc)[f] = Meant(doc, x, r)}

Found(doc, x, refs, class) == {Meant(doc, x, r) : r \in refs} \subseteq PathsOf(doc, class)

LoadsAt(x, p) == UNION {t.loads : t \in {u \in x.targets : u.position = p}}

LoadLinked(doc, ms, x) ==
  /\ Found(doc, x, x.data \cup x.support, RegularFile)
  /\ ms.data[x.entity] = LinksOf(doc, x, x.data, RegularFile)
  /\ ms.support[x.entity] = LinksOf(doc, x, x.support, RegularFile)

BatchLinked(doc, ms, x) ==
  /\ \A t \in x.targets : Found(doc, x, t.loads, Load)
  /\ \A p \in Position :
       ms.targets[x.entity][p] = IF \E t \in x.targets : t.position = p
                                 THEN LinksOf(doc, x, LoadsAt(x, p), Load) ELSE NoValue

(* What has been read of an element is in the media set, but for its links. *)
Read(ms, ty, pa, x) ==
  /\ ms.parent[x.entity] = x.in /\ ms.name[x.entity] = x.name
  /\ x.medium # NoValue => x.medium <= MaxMedium
  /\ ms.medium[x.entity] = IF x.medium = NoValue THEN NoValue ELSE MediumNumberOf(x.medium)
  /\ \A s \in Scope : s[1] = x.entity => ms.check[s] = x.check[s[2]]
  /\ x.entity \in Load => ty[x.entity] = ReadType(x.type)
  /\ Lookup(pa, x.entity) = x.source

ReadAttributes(doc, ms) ==
  /\ ms.medium[Root] = IF doc.medium = NoValue THEN FirstMedium ELSE MediumNumberOf(doc.medium)
  /\ \A s \in Scope : s[1] = Root => ms.check[s] = doc.check[s[2]]

(* The elements of td are to be read, those of df to be linked; nothing is *)
(* linked before all are read.                                             *)
Reading(doc, td, df, ms, ty, pa) ==
  /\ td \subseteq doc.elements /\ df \subseteq doc.elements \ td
  /\ \A x \in df : x.entity \in Load \cup Batch
  /\ Savable(ms, ty, pa)
  /\ \A e \in Entity : InSet(ms, e) <=> \E x \in doc.elements \ td : x.entity = e
  /\ ReadAttributes(doc, ms)
  /\ \A x \in doc.elements \ td : Read(ms, ty, pa, x)
  /\ \A x \in doc.elements \ (td \cup df) :
       /\ x.entity \in Load => td = {} /\ LoadLinked(doc, ms, x)
       /\ x.entity \in Batch => td = {} /\ BatchLinked(doc, ms, x)

(* What is loaded is where the document has it.                            *)
LEMMA ReadPaths ==
  ASSUME NEW doc, NEW td, NEW df, NEW ms, NEW ty, NEW pa,
         Description(doc), Reading(doc, td, df, ms, ty, pa)
  PROVE  /\ Tree(ms) /\ UniqueNames(ms) /\ ms.name \in [Entity -> Name]
         /\ \A e \in Members(ms) : e \in Entities(doc) \cup {Root} /\ Path(ms, e) = WrittenPath(doc)[e]
         /\ \A x \in doc.elements \ td : x.entity \in Members(ms) /\ x.in \in Containers(ms)
         /\ td = {} => Files(ms) = Entities(doc) \cap File
<1> DEFINE t == Nesting(doc)
<1>1. Tree(ms) /\ UniqueNames(ms) /\ ms.name \in [Entity -> Name]
  BY DEF Reading, Savable, Proper, MediaSetType
<1>2. /\ Tree(t) /\ t.name \in [Entity -> Name]
      /\ \A x \in doc.elements : /\ x.entity \in Entity /\ t.parent[x.entity] = x.in
                                 /\ t.name[x.entity] = x.name
  BY NestingFields
<1> HIDE DEF t
<1>3. \A x \in doc.elements \ td : /\ ms.parent[x.entity] = x.in /\ ms.name[x.entity] = x.name
                                   /\ InSet(ms, x.entity) /\ x.entity \in Entity
  BY <1>2 DEF Reading, Read
<1>4. \A e \in Entity : InSet(ms, e) => \E x \in doc.elements \ td : x.entity = e
  BY DEF Reading
<1>5. \A e \in Entity : InSet(ms, e) => t.parent[e] = ms.parent[e] /\ t.name[e] = ms.name[e]
  BY <1>2, <1>3, <1>4
<1>6. \A e \in Members(ms) : e \in Members(t) /\ Path(t, e) = Path(ms, e)
  BY <1>1, <1>2, <1>5, SamePaths
<1>7. \A e \in Members(ms) : e \in Entities(doc) \cup {Root} /\ Path(ms, e) = WrittenPath(doc)[e]
  BY <1>6, WrittenPaths DEF t
<1>8. \A x \in doc.elements \ td : x.entity \in Members(ms) /\ x.in \in Containers(ms)
  BY <1>1, <1>3 DEF Members, Containers, Files, Entity, Tree, ParentsLive
<1>9. td = {} => Files(ms) = Entities(doc) \cap File
  BY <1>3, <1>4 DEF Files, Entities, Entity
<1> QED BY <1>1, <1>7, <1>8, <1>9

(* When all elements are read, a reference leads to the files at the path  *)
(* that it means.                                                          *)
Leads(ms, x, r, class) == FilePerType(ms, ms.parent[x.entity], r.absolute, r.path, class)

LEMMA ReferencedFiles ==
  ASSUME NEW doc, NEW df, NEW ms, NEW ty, NEW pa,
         Description(doc), Reading(doc, {}, df, ms, ty, pa),
         NEW x \in doc.elements, NEW r \in ReferenceType, NEW class \in SUBSET File
  PROVE  /\ Leads(ms, x, r, class) = LinkOf(doc, x, r, class)
         /\ LinkOf(doc, x, r, class) # {} <=> Meant(doc, x, r) \in PathsOf(doc, class)
<1>1. /\ Tree(ms) /\ UniqueNames(ms) /\ ms.name \in [Entity -> Name]
      /\ \A e \in Members(ms) : Path(ms, e) = WrittenPath(doc)[e]
      /\ x.in \in Containers(ms) /\ Files(ms) = Entities(doc) \cap File
  BY ReadPaths
<1>2. ms.parent[x.entity] = x.in
  BY DEF Reading, Read
<1>3. /\ r.absolute \in BOOLEAN /\ r.path \in Seq(Name) /\ r.path # <<>>
  BY DEF ReferenceType
<1>4. FileAt(ms, x.in, r.absolute, r.path)
        = {f \in Files(ms) : Path(ms, f) = FullPath(ms, x.in, r.absolute, r.path)}
  BY <1>1, <1>3, FilesFound
<1>5. FullPath(ms, x.in, r.absolute, r.path) = Meant(doc, x, r)
  BY <1>1, <1>3 DEF FullPath, Meant, Members
<1>6. \A f \in Files(ms) : Path(ms, f) = WrittenPath(doc)[f]
  BY <1>1 DEF Members
<1>7. Leads(ms, x, r, class) = LinkOf(doc, x, r, class)
  BY <1>1, <1>2, <1>4, <1>5, <1>6 DEF Leads, FilePerType, LinkOf
<1>8. LinkOf(doc, x, r, class) # {} <=> Meant(doc, x, r) \in PathsOf(doc, class)
  BY DEF LinkOf, PathsOf, Entities
<1> QED BY <1>7, <1>8

(* ... and it is misplaced if its path leads to no directory.              *)
LEMMA MisplacedFiles ==
  ASSUME NEW doc, NEW df, NEW ms, NEW ty, NEW pa,
         Description(doc), Reading(doc, {}, df, ms, ty, pa),
         NEW x \in doc.elements, NEW r \in ReferenceType,
         DirectoryMissing(ms, ms.parent[x.entity], r.absolute, r.path)
  PROVE  /\ Front(Meant(doc, x, r)) \notin PathsOf(doc, Directory) \cup {<<>>}
         /\ Meant(doc, x, r) \notin PathsOf(doc, RegularFile)
<1>1. /\ Tree(ms) /\ UniqueNames(ms) /\ ms.name \in [Entity -> Name]
      /\ \A e \in Members(ms) : Path(ms, e) = WrittenPath(doc)[e]
      /\ x.in \in Containers(ms)
      /\ \A y \in doc.elements : y.entity \in Members(ms)
  BY ReadPaths
<1>2. ms.parent[x.entity] = x.in
  BY DEF Reading, Read
<1>3. /\ r.absolute \in BOOLEAN /\ r.path \in Seq(Name) /\ r.path # <<>>
  BY DEF ReferenceType
<1> DEFINE front == Front(r.path)
           last == Last(r.path)
           base == FullPath(ms, x.in, r.absolute, front)
<1>4. /\ front \in Seq(Name) /\ last \in Name /\ r.path = Append(front, last)
      /\ Len(r.path) \in Nat /\ Len(front) = Len(r.path) - 1
  BY <1>3, PathSplit
<1>5. SubdirectoryAt(ms, x.in, r.absolute, front) = {} /\ (r.absolute \/ Len(r.path) > 1)
  BY <1>2 DEF DirectoryMissing
<1> HIDE DEF front, last
<1>6. r.absolute \/ front # <<>>
  <2>1. Len(<<>>) = 0
    BY EmptySeq
  <2> QED BY <1>4, <1>5, <2>1
<1>7. \A d \in Containers(ms) : Path(ms, d) # base
  BY <1>1, <1>3, <1>4, <1>5, <1>6, DirectoriesFound
<1>8. Path(ms, x.in) \in Seq(Name) /\ Path(ms, Root) = <<>> /\ Root \in Containers(ms)
  BY <1>1, PathOfDirectory DEF Containers
<1>9. base \in Seq(Name) /\ Meant(doc, x, r) = Append(base, last)
  <2>1. Path(ms, x.in) = WrittenPath(doc)[x.in]
    BY <1>1 DEF Members
  <2>2. CASE r.absolute
    BY <1>4, <2>2 DEF FullPath, Meant
  <2>3. CASE ~r.absolute
    <3>1. /\ Path(ms, x.in) \o Append(front, last) = Append(Path(ms, x.in) \o front, last)
          /\ Path(ms, x.in) \o front \in Seq(Name)
      BY <1>4, <1>8, ConcatAppend
    <3>2. base = Path(ms, x.in) \o front
      BY <2>3 DEF FullPath
    <3>3. Meant(doc, x, r) = Path(ms, x.in) \o Append(front, last)
      BY <1>4, <2>1, <2>3 DEF Meant
    <3> QED BY <3>1, <3>2, <3>3
  <2> QED BY <2>2, <2>3
<1> HIDE DEF base
<1>10. Front(Meant(doc, x, r)) = base
  BY <1>4, <1>9, FrontAndLast
<1>11. base \notin PathsOf(doc, Directory) \cup {<<>>}
  <2>1. base # <<>>
    BY <1>7, <1>8
  <2>2. ASSUME NEW y \in doc.elements, y.entity \in Directory
        PROVE  WrittenPath(doc)[y.entity] # base
    <3>1. y.entity \in Containers(ms) /\ y.entity \in Members(ms)
      BY <1>1, <2>2, Classes DEF Members, Containers, Files
    <3> QED BY <1>1, <1>7, <3>1
  <2> QED BY <2>1, <2>2 DEF PathsOf
<1>12. Meant(doc, x, r) \notin PathsOf(doc, RegularFile)
  <2> SUFFICES ASSUME NEW y \in doc.elements, y.entity \in RegularFile,
                      WrittenPath(doc)[y.entity] = Append(base, last)
               PROVE  FALSE
    BY <1>9 DEF PathsOf
  <2>1. y.entity \in Files(ms) /\ y.entity \in Members(ms)
    BY <1>1, Classes DEF Members, Containers, Files, File
  <2>2. Path(ms, y.entity) = Append(base, last)
    BY <1>1, <2>1
  <2>3. ms.parent[y.entity] \in Containers(ms) /\ Front(Path(ms, y.entity)) = Path(ms, ms.parent[y.entity])
    BY <1>1, <2>1, PathOfFile
  <2> QED BY <1>4, <1>7, <1>9, <2>2, <2>3, FrontAndLast
<1> QED BY <1>10, <1>11, <1>12

(* The loader begins with the attributes of the media set.                 *)
LEMMA MediaSetReads ==
  ASSUME Description(document), MediaSet, deferred = {},
         loadedTypes = <<>>, loadedPaths = <<>>
  PROVE  LET doc == Kept(document)
         IN Reading(doc, doc.elements, deferred', loaded', loadedTypes', loadedPaths')
<1> DEFINE new == loaded'
           number == IF document.medium = NoValue THEN FirstMedium ELSE MediumNumberOf(document.medium)
<1>1. /\ document.medium \in Optional(MediumNumber) /\ document.check \in CheckTypes(Root)
      /\ \A s \in Scope : s[1] = Root => s[2] \in Kinds(Root)
  BY DEF Description, Kinds
<1>2. /\ new.medium = [EmptyMediaSet.medium EXCEPT ![Root] = number]
      /\ new.check = [s \in Scope |-> IF s[1] = Root THEN document.check[s[2]] ELSE NoValue]
      /\ new.parent = EmptyMediaSet.parent /\ new.name = EmptyMediaSet.name
      /\ new.data = EmptyMediaSet.data /\ new.support = EmptyMediaSet.support
      /\ new.targets = EmptyMediaSet.targets
      /\ new = [parent |-> new.parent, name |-> new.name, medium |-> new.medium,
                check |-> new.check, data |-> new.data, support |-> new.support,
                targets |-> new.targets]
  <2>1. EmptyMediaSet.medium[Root] = FirstMedium
    BY DEF EmptyMediaSet, Container
  <2> QED BY <2>1 DEF MediaSet, EmptyMediaSet
<1>3. deferred' = {} /\ loadedTypes' = <<>> /\ loadedPaths' = <<>>
  BY DEF MediaSet
<1> HIDE DEF new
<1>4. number \in MediumNumber
  BY <1>1, MediumAssumption
     DEF MediumAssumption, MediumNumber, FirstMedium, MediumNumberOf, Optional
<1> HIDE DEF number
<1>5. new \in MediaSetType
  <2>1. EmptyMediaSet \in MediaSetType
    BY EmptyTyping
  <2>2. new.medium \in [File \cup Container -> Optional(MediumNumber)]
    BY <1>2, <1>4, <2>1 DEF MediaSetType, Optional
  <2>3. new.check \in [Scope -> Optional(CheckType)]
    BY <1>1, <1>2 DEF CheckTypes, Optional
  <2> QED BY <1>2, <2>1, <2>2, <2>3 DEF MediaSetType
<1>6. Proper(new)
  <2>1. Tree(new)
    BY <1>2, EmptyProper, SameTree DEF Proper
  <2>2. Proper(EmptyMediaSet)
    BY EmptyProper
  <2> QED BY <1>2, <2>1, <2>2 DEF Proper, UniqueNames, LiveLinks, InSet, Files
<1>7. \A e \in Entity : ~InSet(new, e)
  BY <1>2 DEF InSet, EmptyMediaSet
<1>8. OutsidersBare(new)
  <2>1. Unlinked(new)
    BY <1>2 DEF Unlinked, EmptyMediaSet
  <2>2. \A e \in Entity : new.medium[e] = NoValue
    BY <1>2, Classes DEF EmptyMediaSet, Entity, Container
  <2> QED BY <1>2, <2>1, <2>2 DEF OutsidersBare, Unmarked
<1>9. Savable(new, <<>>, <<>>)
  <2>1. Files(new) = {}
    BY <1>7 DEF Files, Entity
  <2>2. DOMAIN <<>> = {} /\ <<>> \in [{} -> Optional(LoadType)] /\ <<>> \in [{} -> SourcePath]
    OBVIOUS
  <2> QED BY <1>5, <1>6, <1>7, <1>8, <2>1, <2>2 DEF Savable, Ordinary
<1>10. ReadAttributes(Kept(document), new)
  <2>1. Kept(document).medium = document.medium /\ Kept(document).check = document.check
    BY DEF Kept, Description
  <2> QED BY <1>2, <2>1, EmptyTyping DEF ReadAttributes, MediaSetType, Container, number
<1> QED BY <1>3, <1>7, <1>9, <1>10 DEF Reading, new

(* An entry comes to the others.                                           *)
LEMMA AddedProper ==
  ASSUME NEW x, Fits(x), Proper(loaded), OutsidersBare(loaded), loaded \in MediaSetType,
         ~InSet(loaded, x.entity), x.in \in Containers(loaded), Acceptable(x)
  PROVE  LET ms == Added(x)
         IN /\ ms \in MediaSetType /\ Proper(ms) /\ OutsidersBare(ms)
            /\ \A e \in Entity : InSet(ms, e) <=> InSet(loaded, e) \/ e = x.entity
            /\ ms.parent = [loaded.parent EXCEPT ![x.entity] = x.in]
            /\ ms.name = [loaded.name EXCEPT ![x.entity] = x.name]
            /\ ms.medium = [loaded.medium EXCEPT ![x.entity] =
                              IF x.medium = NoValue THEN NoValue ELSE MediumNumberOf(x.medium)]
            /\ ms.check = ReadCheckValues(x)
            /\ ms.data = loaded.data /\ ms.support = loaded.support /\ ms.targets = loaded.targets
<1> DEFINE new == Added(x)
           e == x.entity
           number == IF x.medium = NoValue THEN NoValue ELSE MediumNumberOf(x.medium)
<1>1. /\ e \in Entity /\ x.in \in Container /\ x.name \in Name /\ x.medium \in Optional(Nat)
      /\ x.check \in CheckTypes(e)
  BY DEF Fits, ElementType
<1>2. /\ loaded.parent \in [Entity -> Optional(Container)] /\ loaded.name \in [Entity -> Name]
      /\ loaded.medium \in [File \cup Container -> Optional(MediumNumber)]
      /\ loaded.check \in [Scope -> Optional(CheckType)]
      /\ loaded = [parent |-> loaded.parent, name |-> loaded.name, medium |-> loaded.medium,
                   check |-> loaded.check, data |-> loaded.data, support |-> loaded.support,
                   targets |-> loaded.targets]
  BY DEF MediaSetType
<1>3. /\ new.parent = [loaded.parent EXCEPT ![e] = x.in]
      /\ new.name = [loaded.name EXCEPT ![e] = x.name]
      /\ new.medium = [loaded.medium EXCEPT ![e] = number]
      /\ new.check = ReadCheckValues(x)
      /\ new.data = loaded.data /\ new.support = loaded.support /\ new.targets = loaded.targets
      /\ new = [parent |-> new.parent, name |-> new.name, medium |-> new.medium,
                check |-> new.check, data |-> new.data, support |-> new.support,
                targets |-> new.targets]
  <2>1. new.parent = [loaded.parent EXCEPT ![e] = x.in]
    BY <1>2 DEF Added
  <2>2. new.name = [loaded.name EXCEPT ![e] = x.name]
    BY <1>2 DEF Added
  <2>3. new.medium = [loaded.medium EXCEPT ![e] = number]
    BY <1>2 DEF Added
  <2>4. new.check = ReadCheckValues(x) /\ new.data = loaded.data
    BY <1>2 DEF Added
  <2>5. new.support = loaded.support /\ new.targets = loaded.targets
    BY <1>2 DEF Added
  <2>6. new = [parent |-> new.parent, name |-> new.name, medium |-> new.medium,
               check |-> new.check, data |-> new.data, support |-> new.support,
               targets |-> new.targets]
    <3>1. DOMAIN new = DOMAIN loaded
      BY <1>2 DEF Added
    <3>2. new = [f \in DOMAIN new |-> new[f]]
      BY <1>2 DEF Added
    <3> HIDE DEF new
    <3> QED BY <1>2, <3>1, <3>2
  <2> QED BY <2>1, <2>2, <2>3, <2>4, <2>5, <2>6
<1> HIDE DEF new
<1>4. number \in Optional(MediumNumber)
  BY <1>1, MediumAssumption, Classes
     DEF Acceptable, MediumFits, MediumAssumption, MediumNumber, FirstMedium, MediumNumberOf, Optional
<1> HIDE DEF number
<1>5. new.check \in [Scope -> Optional(CheckType)]
        /\ new.check = [s \in Scope |-> IF s[1] = e THEN x.check[s[2]] ELSE loaded.check[s]]
  <2>1. \A s \in Scope : s[1] = e => s[2] \in Kinds(e)
    BY DEF Kinds
  <2>2. \A s \in Scope : s[1] = e => x.check[s[2]] \in Optional(CheckType)
    BY <1>1, <2>1 DEF CheckTypes
  <2> QED BY <1>2, <1>3, <2>2 DEF ReadCheckValues
<1>6. new \in MediaSetType
  <2>1. new.parent \in [Entity -> Optional(Container)] /\ new.name \in [Entity -> Name]
    BY <1>1, <1>2, <1>3 DEF Optional
  <2>2. new.medium \in [File \cup Container -> Optional(MediumNumber)]
    BY <1>2, <1>3, <1>4
  <2> QED BY <1>3, <1>5, <2>1, <2>2 DEF MediaSetType
<1>7. x.in # NoValue
  BY <1>1, Classes
<1>8. \A y \in Entity : InSet(new, y) <=> InSet(loaded, y) \/ y = e
  BY <1>1, <1>2, <1>3, <1>7 DEF InSet
<1>9. Tree(new)
  BY <1>1, <1>3, AttachKeepsTree DEF Proper
<1>10. UniqueNames(new)
  <2>1. ~NameTaken(loaded, x.in, x.name)
    BY DEF Acceptable
  <2>2. \A y \in Entity : loaded.parent[y] = x.in => loaded.name[y] # x.name
    BY <2>1, NameFree
  <2> QED BY <1>1, <1>2, <1>3, <1>7, <2>2 DEF UniqueNames, InSet, Proper
<1>11. Files(loaded) \subseteq Files(new)
  BY <1>8 DEF Files, Entity
<1>12. LiveLinks(new)
  BY <1>3, <1>11 DEF LiveLinks, Proper
<1>13. Unlinked(new)
  BY <1>3, <1>8 DEF OutsidersBare, Unlinked, Entity, File
<1>14. Unmarked(new)
  <2>1. \A y \in Entity : ~InSet(new, y) => new.name[y] = loaded.name[y] /\ new.medium[y] = loaded.medium[y]
    BY <1>1, <1>2, <1>3, <1>8 DEF Entity, Container
  <2>2. \A s \in Scope : s[1] # Root => s[1] \in Entity
    BY DEF Scope, Entity, File
  <2>3. \A s \in Scope : s[1] # Root /\ ~InSet(new, s[1]) => new.check[s] = loaded.check[s]
    BY <1>5, <1>8, <2>2
  <2> QED BY <1>8, <2>1, <2>2, <2>3 DEF OutsidersBare, Unmarked
<1> QED BY <1>3, <1>6, <1>8, <1>9, <1>10, <1>12, <1>13, <1>14
        DEF new, number, Proper, OutsidersBare

LEMMA EntryReads ==
  ASSUME NEW doc, NEW td, Description(doc),
         Reading(doc, td, deferred, loaded, loadedTypes, loadedPaths), NEW x \in td, Entry(x)
  PROVE  Reading(doc, td \ {x}, deferred', loaded', loadedTypes', loadedPaths')
<1> DEFINE new == Added(x)
           e == x.entity
           newTypes == loadedTypes'
           newPaths == loadedPaths'
<1>1. /\ td \subseteq doc.elements /\ deferred \subseteq doc.elements \ td
      /\ Savable(loaded, loadedTypes, loadedPaths)
      /\ \A y \in Entity : InSet(loaded, y) <=> \E z \in doc.elements \ td : z.entity = y
  BY DEF Reading
<1>2. /\ x \in doc.elements /\ Fits(x) /\ e \in Entity
      /\ \A y \in doc.elements : y.entity = e => y = x
      /\ \A y \in doc.elements : y.entity \in Entity
  BY <1>1 DEF Description, Fits, ElementType
<1>3. /\ loaded' = new
      /\ deferred' = IF e \in Load \cup Batch THEN deferred \cup {x} ELSE deferred
      /\ x.in \in Containers(loaded) /\ Acceptable(x)
      /\ newTypes = IF e \in Load THEN Noted(loadedTypes, e, ReadType(x.type)) ELSE loadedTypes
      /\ newPaths = IF x.source = NoValue THEN loadedPaths ELSE Noted(loadedPaths, e, x.source)
  BY DEF Entry, Reachable, SourcePaths
<1>4. ~InSet(loaded, e)
  BY <1>1, <1>2
<1>5. /\ loaded \in MediaSetType /\ Proper(loaded) /\ OutsidersBare(loaded)
  BY <1>1 DEF Savable
<1>6. /\ new \in MediaSetType /\ Proper(new) /\ OutsidersBare(new)
      /\ \A y \in Entity : InSet(new, y) <=> InSet(loaded, y) \/ y = e
      /\ new.parent = [loaded.parent EXCEPT ![e] = x.in]
      /\ new.name = [loaded.name EXCEPT ![e] = x.name]
      /\ new.medium = [loaded.medium EXCEPT ![e] =
                         IF x.medium = NoValue THEN NoValue ELSE MediumNumberOf(x.medium)]
      /\ new.check = ReadCheckValues(x)
      /\ new.data = loaded.data /\ new.support = loaded.support /\ new.targets = loaded.targets
  BY <1>2, <1>3, <1>4, <1>5, AddedProper
<1> HIDE DEF new, newTypes, newPaths
<1>7. /\ loaded.parent \in [Entity -> Optional(Container)] /\ loaded.name \in [Entity -> Name]
      /\ loaded.medium \in [File \cup Container -> Optional(MediumNumber)]
      /\ Entity \subseteq File \cup Container
  BY <1>5 DEF MediaSetType, Entity, Container
<1>8. Files(new) = Files(loaded) \cup ({e} \cap File)
  BY <1>6 DEF Files, Entity
<1>9. /\ newTypes \in [Files(new) \cap Load -> Optional(LoadType)]
      /\ e \in Load => newTypes[e] = ReadType(x.type)
      /\ \A l \in Files(loaded) \cap Load : newTypes[l] = loadedTypes[l]
  <2>1. loadedTypes \in [Files(loaded) \cap Load -> Optional(LoadType)]
    BY <1>1 DEF Savable
  <2>2. ReadType(x.type) \in Optional(LoadType)
    BY <1>2 DEF Fits, ElementType, ReadType, Optional
  <2>3. e \notin Files(loaded)
    BY <1>4 DEF Files
  <2>4. CASE e \in Load
    <3>1. Files(new) \cap Load = (Files(loaded) \cap Load) \cup {e}
      BY <1>8, <2>4 DEF File
    <3> QED BY <1>3, <2>1, <2>2, <2>3, <2>4, <3>1 DEF Noted
  <2>5. CASE e \notin Load
    <3>1. Files(new) \cap Load = Files(loaded) \cap Load
      BY <1>8, <2>5
    <3> QED BY <1>3, <2>1, <2>5, <3>1
  <2> QED BY <2>4, <2>5
<1>10. /\ DOMAIN newPaths \subseteq Files(new) /\ newPaths \in [DOMAIN newPaths -> SourcePath]
       /\ Lookup(newPaths, e) = x.source
       /\ \A y : y # e => Lookup(newPaths, y) = Lookup(loadedPaths, y)
  <2>1. DOMAIN loadedPaths \subseteq Files(loaded) /\ loadedPaths \in [DOMAIN loadedPaths -> SourcePath]
    BY <1>1 DEF Savable
  <2>2. x.source \in Optional(SourcePath) /\ (e \notin File => x.source = NoValue)
    BY <1>2 DEF Fits, ElementType
  <2>3. e \notin Files(loaded)
    BY <1>4 DEF Files
  <2>4. CASE x.source = NoValue
    BY <1>3, <1>8, <2>1, <2>3, <2>4 DEF Lookup
  <2>5. CASE x.source # NoValue
    <3>1. newPaths = [y \in DOMAIN loadedPaths \cup {e} |-> IF y = e THEN x.source ELSE loadedPaths[y]]
      BY <1>3, <2>5 DEF Noted
    <3>2. x.source \in SourcePath /\ e \in Files(new)
      BY <1>8, <2>2, <2>5 DEF Optional
    <3> QED BY <1>8, <2>1, <3>1, <3>2 DEF Lookup
  <2> QED BY <2>4, <2>5
<1>11. Savable(new, newTypes, newPaths)
  <2>1. Ordinary(new)
    BY <1>1, <1>2, <1>3, <1>6, <1>7 DEF Savable, Ordinary, Acceptable
  <2> QED BY <1>6, <1>9, <1>10, <2>1 DEF Savable
<1>12. \A y \in Entity : InSet(new, y) <=> \E z \in doc.elements \ (td \ {x}) : z.entity = y
  BY <1>1, <1>2, <1>3, <1>6
<1>13. \A s \in Scope : new.check[s] = IF s[1] = e THEN x.check[s[2]] ELSE loaded.check[s]
  BY <1>6 DEF ReadCheckValues
<1>14. ReadAttributes(doc, new)
  <2>1. e # Root /\ Root \in File \cup Container
    BY <1>2, Classes DEF Entity, Container
  <2> QED BY <1>6, <1>7, <1>13, <2>1 DEF ReadAttributes, Reading
<1>15. Read(new, newTypes, newPaths, x)
  BY <1>2, <1>3, <1>6, <1>7, <1>9, <1>10, <1>13 DEF Read, Acceptable, MediumFits
<1>16. ASSUME NEW y \in doc.elements \ td
       PROVE  Read(new, newTypes, newPaths, y)
  <2>1. y.entity # e /\ y.entity \in Entity /\ Read(loaded, loadedTypes, loadedPaths, y)
    BY <1>2, <1>16 DEF Reading
  <2>2. InSet(loaded, y.entity)
    BY <1>1, <2>1
  <2>3. /\ new.parent[y.entity] = loaded.parent[y.entity] /\ new.name[y.entity] = loaded.name[y.entity]
        /\ new.medium[y.entity] = loaded.medium[y.entity]
        /\ \A s \in Scope : s[1] = y.entity => new.check[s] = loaded.check[s]
    BY <1>6, <1>7, <1>13, <2>1
  <2>4. y.entity \in Load => newTypes[y.entity] = loadedTypes[y.entity]
    BY <1>9, <2>2 DEF Files, File
  <2>5. Lookup(newPaths, y.entity) = Lookup(loadedPaths, y.entity)
    BY <1>10, <2>1
  <2> QED BY <2>1, <2>3, <2>4, <2>5 DEF Read
<1>17. \A y \in doc.elements \ (td \ {x}) : Read(new, newTypes, newPaths, y)
  BY <1>3, <1>15, <1>16
<1>18. ASSUME NEW y \in doc.elements \ ((td \ {x}) \cup deferred')
       PROVE  y.entity \notin Load \cup Batch
  <2>1. CASE y = x
    BY <1>3, <2>1
  <2>2. CASE y # x
    <3>1. y \in doc.elements \ (td \cup deferred) /\ td # {}
      BY <1>3, <2>2
    <3> QED BY <3>1 DEF Reading
  <2> QED BY <2>1, <2>2
<1>19. /\ (td \ {x}) \subseteq doc.elements /\ deferred' \subseteq doc.elements \ (td \ {x})
       /\ \A y \in deferred' : y.entity \in Load \cup Batch
  BY <1>1, <1>2, <1>3 DEF Reading
<1> QED BY <1>3, <1>11, <1>12, <1>14, <1>17, <1>18, <1>19 DEF Reading, newTypes, newPaths

(* The links of one element come to those of the others.                   *)
LEMMA LinkedReads ==
  ASSUME NEW doc, NEW df, NEW ms, NEW ty, NEW pa,
         Description(doc), Reading(doc, {}, df, ms, ty, pa), NEW x \in df,
         NEW new, new \in MediaSetType, new.parent = ms.parent, new.name = ms.name,
         new.medium = ms.medium, new.check = ms.check,
         \A l \in Load : l # x.entity => new.data[l] = ms.data[l] /\ new.support[l] = ms.support[l],
         \A b \in Batch : b # x.entity => new.targets[b] = ms.targets[b],
         x.entity \in Load => LoadLinked(doc, new, x),
         x.entity \in Batch => BatchLinked(doc, new, x)
  PROVE  Reading(doc, {}, df \ {x}, new, ty, pa)
<1> DEFINE e == x.entity
<1>1. /\ df \subseteq doc.elements /\ x \in doc.elements /\ e \in Entity
      /\ \A y \in doc.elements : y.entity = e => y = x
  BY DEF Reading, Description, Fits, ElementType
<1>2. \A y : InSet(new, y) <=> InSet(ms, y)
  BY DEF InSet
<1>3. Files(new) = Files(ms) /\ Files(ms) = Entities(doc) \cap File /\ InSet(ms, e)
  BY <1>1, <1>2, ReadPaths DEF Files, Reading
<1>4. Savable(ms, ty, pa)
  BY DEF Reading
<1>5. \A refs, class : LinksOf(doc, x, refs, class) \subseteq Entities(doc) \cap class
  BY DEF LinksOf
<1>6. LiveLinks(new)
  <2>1. LiveLinks(ms)
    BY <1>4 DEF Savable, Proper
  <2>2. ASSUME NEW l \in Load
        PROVE  new.data[l] \cup new.support[l] \subseteq Files(new)
    <3>1. CASE l = e
      BY <1>3, <1>5, <3>1 DEF LoadLinked, File
    <3>2. CASE l # e
      BY <1>3, <2>1, <3>2 DEF LiveLinks
    <3> QED BY <3>1, <3>2
  <2>3. ASSUME NEW b \in Batch, NEW p \in Position, new.targets[b][p] # NoValue
        PROVE  new.targets[b][p] \subseteq Files(new)
    <3>1. CASE b = e
      BY <1>3, <1>5, <2>3, <3>1 DEF BatchLinked, File
    <3>2. CASE b # e
      BY <1>3, <2>1, <2>3, <3>2 DEF LiveLinks
    <3> QED BY <3>1, <3>2
  <2> QED BY <2>2, <2>3 DEF LiveLinks
<1>7. Proper(new)
  <2>1. Tree(new)
    BY <1>4, SameTree DEF Savable, Proper
  <2>2. UniqueNames(new)
    BY <1>2, <1>4 DEF UniqueNames, Savable, Proper
  <2> QED BY <1>6, <2>1, <2>2 DEF Proper
<1>8. OutsidersBare(new)
  <2>1. Unlinked(new)
    <3>1. Unlinked(ms)
      BY <1>4 DEF Savable, OutsidersBare
    <3> QED BY <1>2, <1>3, <3>1 DEF Unlinked
  <2>2. Unmarked(new)
    BY <1>2, <1>4 DEF Savable, OutsidersBare, Unmarked
  <2> QED BY <2>1, <2>2 DEF OutsidersBare
<1>9. Savable(new, ty, pa)
  BY <1>2, <1>3, <1>4, <1>7, <1>8 DEF Savable, Ordinary
<1>10. ReadAttributes(doc, new)
  BY DEF Reading, ReadAttributes
<1>11. \A y \in doc.elements \ {} : Read(new, ty, pa, y)
  BY DEF Reading, Read
<1>12. ASSUME NEW y \in doc.elements \ ({} \cup (df \ {x}))
       PROVE  /\ y.entity \in Load => LoadLinked(doc, new, y)
              /\ y.entity \in Batch => BatchLinked(doc, new, y)
  <2>1. CASE y = x
    BY <2>1
  <2>2. CASE y # x
    <3>1. y.entity # e /\ y \in doc.elements \ ({} \cup df)
      BY <1>1, <1>12, <2>2
    <3>2. /\ y.entity \in Load => LoadLinked(doc, ms, y)
          /\ y.entity \in Batch => BatchLinked(doc, ms, y)
      BY <3>1 DEF Reading
    <3> QED BY <3>1, <3>2 DEF LoadLinked, BatchLinked
  <2> QED BY <2>1, <2>2
<1> QED BY <1>1, <1>2, <1>9, <1>10, <1>11, <1>12 DEF Reading

(* All references of an element, or of one of its targets.                 *)
Led(ms, x, refs, class) == UNION {Leads(ms, x, r, class) : r \in refs}
AllLed(ms, x, refs, class) == \A r \in refs : Leads(ms, x, r, class) # {}

LEMMA ReferencedTogether ==
  ASSUME NEW doc, NEW df, NEW ms, NEW ty, NEW pa,
         Description(doc), Reading(doc, {}, df, ms, ty, pa),
         NEW x \in doc.elements, NEW refs \in SUBSET ReferenceType, NEW class \in SUBSET File
  PROVE  /\ Led(ms, x, refs, class) = LinksOf(doc, x, refs, class)
         /\ AllLed(ms, x, refs, class) <=> Found(doc, x, refs, class)
<1>1. ASSUME NEW r \in refs
      PROVE  /\ Leads(ms, x, r, class) = LinkOf(doc, x, r, class)
             /\ Leads(ms, x, r, class) # {} <=> Meant(doc, x, r) \in PathsOf(doc, class)
  <2>1. r \in ReferenceType
    BY <1>1
  <2> QED BY <2>1, ReferencedFiles
<1>2. Led(ms, x, refs, class) = LinksOf(doc, x, refs, class)
  BY <1>1 DEF LinksOf, LinkOf, Led
<1>3. AllLed(ms, x, refs, class) <=> Found(doc, x, refs, class)
  BY <1>1 DEF Found, AllLed
<1> QED BY <1>2, <1>3

LEMMA LoadDeferredReads ==
  ASSUME NEW doc, Description(doc), Reading(doc, {}, deferred, loaded, loadedTypes, loadedPaths),
         NEW x \in deferred, LoadDeferred(x)
  PROVE  Reading(doc, {}, deferred', loaded', loadedTypes', loadedPaths')
<1> DEFINE new == loaded'
           e == x.entity
           D == UNION {Referenced(x, r, RegularFile) : r \in x.data}
           S == UNION {Referenced(x, r, RegularFile) : r \in x.support}
<1>1. /\ e \in Load /\ e \notin Batch
      /\ \A r \in x.data \cup x.support : Referenced(x, r, RegularFile) # {}
      /\ deferred' = deferred \ {x}
      /\ loadedTypes' = loadedTypes /\ loadedPaths' = loadedPaths
  BY Classes DEF LoadDeferred
<1>2. /\ x \in doc.elements /\ Fits(x) /\ loaded \in MediaSetType
      /\ x.data \in SUBSET ReferenceType /\ x.support \in SUBSET ReferenceType
  BY DEF Reading, Description, Savable, Fits, ElementType
<1>3. RegularFile \in SUBSET File
  BY DEF File
<1>4. /\ D = LinksOf(doc, x, x.data, RegularFile)
      /\ S = LinksOf(doc, x, x.support, RegularFile)
      /\ Found(doc, x, x.data \cup x.support, RegularFile)
  <2>1. x.data \cup x.support \in SUBSET ReferenceType
    BY <1>2
  <2>2. \A r : Referenced(x, r, RegularFile) = Leads(loaded, x, r, RegularFile)
    BY DEF Referenced, Leads
  <2>3. /\ D = Led(loaded, x, x.data, RegularFile)
        /\ S = Led(loaded, x, x.support, RegularFile)
        /\ AllLed(loaded, x, x.data \cup x.support, RegularFile)
    BY <1>1, <2>2 DEF Led, AllLed
  <2> HIDE DEF D, S
  <2> QED BY <1>2, <1>3, <2>1, <2>3, ReferencedTogether
<1>5. D \in SUBSET RegularFile /\ S \in SUBSET RegularFile
  BY <1>4 DEF LinksOf
<1>6. /\ new.data = [loaded.data EXCEPT ![e] = D]
      /\ new.support = [loaded.support EXCEPT ![e] = S]
      /\ new.parent = loaded.parent /\ new.name = loaded.name /\ new.medium = loaded.medium
      /\ new.check = loaded.check /\ new.targets = loaded.targets
      /\ new \in MediaSetType
  <2>1. new = [loaded EXCEPT !.data[e] = D, !.support[e] = S]
    BY DEF LoadDeferred
  <2> HIDE DEF D, S, new
  <2>2. /\ loaded.data \in [Load -> SUBSET RegularFile]
        /\ loaded.support \in [Load -> SUBSET RegularFile]
        /\ loaded = [parent |-> loaded.parent, name |-> loaded.name, medium |-> loaded.medium,
                     check |-> loaded.check, data |-> loaded.data, support |-> loaded.support,
                     targets |-> loaded.targets]
    BY <1>2 DEF MediaSetType
  <2>3. new.data = [loaded.data EXCEPT ![e] = D] /\ new.support = [loaded.support EXCEPT ![e] = S]
    BY <2>1, <2>2
  <2>4. /\ new.parent = loaded.parent /\ new.name = loaded.name /\ new.medium = loaded.medium
        /\ new.check = loaded.check /\ new.targets = loaded.targets
    BY <2>1, <2>2
  <2>5. DOMAIN new = DOMAIN loaded /\ new = [f \in DOMAIN new |-> new[f]]
    BY <2>1, <2>2
  <2>6. new = [parent |-> new.parent, name |-> new.name, medium |-> new.medium,
               check |-> new.check, data |-> new.data, support |-> new.support,
               targets |-> new.targets]
    BY <2>2, <2>5
  <2>7. new.data \in [Load -> SUBSET RegularFile] /\ new.support \in [Load -> SUBSET RegularFile]
    BY <1>5, <2>2, <2>3
  <2> QED BY <1>2, <2>3, <2>4, <2>6, <2>7 DEF MediaSetType
<1> HIDE DEF D, S, new
<1>7. LoadLinked(doc, new, x)
  <2>1. loaded.data \in [Load -> SUBSET RegularFile] /\ loaded.support \in [Load -> SUBSET RegularFile]
    BY <1>2 DEF MediaSetType
  <2>2. new.data[e] = D /\ new.support[e] = S
    BY <1>1, <1>6, <2>1
  <2> QED BY <1>4, <2>2 DEF LoadLinked
<1>8. /\ \A l \in Load : l # e => new.data[l] = loaded.data[l] /\ new.support[l] = loaded.support[l]
      /\ \A b \in Batch : b # e => new.targets[b] = loaded.targets[b]
  <2>1. loaded.data \in [Load -> SUBSET RegularFile] /\ loaded.support \in [Load -> SUBSET RegularFile]
    BY <1>2 DEF MediaSetType
  <2> QED BY <1>6, <2>1
<1>9. Reading(doc, {}, deferred \ {x}, new, loadedTypes, loadedPaths)
  BY <1>1, <1>6, <1>7, <1>8, LinkedReads
<1> QED BY <1>1, <1>9 DEF new

LEMMA LoadBatchDeferredReads ==
  ASSUME NEW doc, Description(doc), Reading(doc, {}, deferred, loaded, loadedTypes, loadedPaths),
         NEW x \in deferred, LoadBatchDeferred(x)
  PROVE  Reading(doc, {}, deferred', loaded', loadedTypes', loadedPaths')
<1> DEFINE new == loaded'
           e == x.entity
           T == [p \in Position |->
                   IF \E t \in x.targets : t.position = p
                   THEN UNION {UNION {Referenced(x, r, Load) : r \in t.loads} :
                                 t \in {u \in x.targets : u.position = p}}
                   ELSE NoValue]
<1>1. /\ e \in Batch /\ e \notin Load
      /\ \A t \in x.targets : \A r \in t.loads : Referenced(x, r, Load) # {}
      /\ deferred' = deferred \ {x}
      /\ loadedTypes' = loadedTypes /\ loadedPaths' = loadedPaths
  BY Classes DEF LoadBatchDeferred
<1>2. /\ x \in doc.elements /\ Fits(x) /\ loaded \in MediaSetType
      /\ \A t \in x.targets : t.loads \in SUBSET ReferenceType
  BY DEF Reading, Description, Savable, Fits, ElementType, TargetType
<1>3. Load \in SUBSET File
  BY DEF File
<1>4. \A t \in x.targets : /\ UNION {Referenced(x, r, Load) : r \in t.loads}
                                = LinksOf(doc, x, t.loads, Load)
                           /\ Found(doc, x, t.loads, Load)
  <2>1. \A r : Referenced(x, r, Load) = Leads(loaded, x, r, Load)
    BY DEF Referenced, Leads
  <2> SUFFICES ASSUME NEW t \in x.targets
               PROVE  /\ UNION {Referenced(x, r, Load) : r \in t.loads}
                           = LinksOf(doc, x, t.loads, Load)
                      /\ Found(doc, x, t.loads, Load)
    OBVIOUS
  <2>2. /\ UNION {Referenced(x, r, Load) : r \in t.loads} = Led(loaded, x, t.loads, Load)
        /\ AllLed(loaded, x, t.loads, Load)
    BY <1>1, <2>1 DEF Led, AllLed
  <2> QED BY <1>2, <1>3, <2>2, ReferencedTogether
<1>5. \A p \in Position : T[p] = IF \E t \in x.targets : t.position = p
                                 THEN LinksOf(doc, x, LoadsAt(x, p), Load) ELSE NoValue
  <2> SUFFICES ASSUME NEW p \in Position
               PROVE  UNION {UNION {Referenced(x, r, Load) : r \in t.loads} :
                               t \in {u \in x.targets : u.position = p}}
                        = LinksOf(doc, x, LoadsAt(x, p), Load)
    OBVIOUS
  <2>1. UNION {UNION {Referenced(x, r, Load) : r \in t.loads} : t \in {u \in x.targets : u.position = p}}
          = UNION {LinksOf(doc, x, t.loads, Load) : t \in {u \in x.targets : u.position = p}}
    BY <1>4
  <2>2. UNION {LinksOf(doc, x, t.loads, Load) : t \in {u \in x.targets : u.position = p}}
          = LinksOf(doc, x, LoadsAt(x, p), Load)
    BY DEF LinksOf, LoadsAt
  <2> QED BY <2>1, <2>2
<1>6. T \in [Position -> Optional(SUBSET Load)]
  <2>1. T = [p \in Position |-> T[p]]
    OBVIOUS
  <2> HIDE DEF T
  <2>2. \A p \in Position : T[p] \in Optional(SUBSET Load)
    BY <1>5 DEF LinksOf, Optional
  <2> QED BY <2>1, <2>2
<1>7. /\ new.targets = [loaded.targets EXCEPT ![e] = T]
      /\ new.parent = loaded.parent /\ new.name = loaded.name /\ new.medium = loaded.medium
      /\ new.check = loaded.check /\ new.data = loaded.data /\ new.support = loaded.support
      /\ new \in MediaSetType
  <2>1. new = [loaded EXCEPT !.targets[e] = T]
    BY DEF LoadBatchDeferred
  <2> HIDE DEF T, new
  <2>2. /\ loaded.targets \in [Batch -> [Position -> Optional(SUBSET Load)]]
        /\ loaded = [parent |-> loaded.parent, name |-> loaded.name, medium |-> loaded.medium,
                     check |-> loaded.check, data |-> loaded.data, support |-> loaded.support,
                     targets |-> loaded.targets]
    BY <1>2 DEF MediaSetType
  <2>3. new.targets = [loaded.targets EXCEPT ![e] = T]
    BY <2>1, <2>2
  <2>4. /\ new.parent = loaded.parent /\ new.name = loaded.name /\ new.medium = loaded.medium
        /\ new.check = loaded.check /\ new.data = loaded.data /\ new.support = loaded.support
    BY <2>1, <2>2
  <2>5. DOMAIN new = DOMAIN loaded /\ new = [f \in DOMAIN new |-> new[f]]
    BY <2>1, <2>2
  <2>6. new = [parent |-> new.parent, name |-> new.name, medium |-> new.medium,
               check |-> new.check, data |-> new.data, support |-> new.support,
               targets |-> new.targets]
    BY <2>2, <2>5
  <2>7. new.targets \in [Batch -> [Position -> Optional(SUBSET Load)]]
    BY <1>6, <2>2, <2>3
  <2> QED BY <1>2, <2>3, <2>4, <2>6, <2>7 DEF MediaSetType
<1> HIDE DEF T, new
<1>8. loaded.targets \in [Batch -> [Position -> Optional(SUBSET Load)]]
  BY <1>2 DEF MediaSetType
<1>9. BatchLinked(doc, new, x)
  <2>1. new.targets[e] = T
    BY <1>1, <1>7, <1>8
  <2> QED BY <1>4, <1>5, <2>1 DEF BatchLinked
<1>10. /\ \A l \in Load : l # e => new.data[l] = loaded.data[l] /\ new.support[l] = loaded.support[l]
       /\ \A b \in Batch : b # e => new.targets[b] = loaded.targets[b]
  BY <1>7, <1>8
<1>11. Reading(doc, {}, deferred \ {x}, new, loadedTypes, loadedPaths)
  BY <1>1, <1>7, <1>9, <1>10, LinkedReads
<1> QED BY <1>1, <1>11 DEF new

-----------------------------------------------------------------------------
(* How the loading ends.                                                   *)

PathsIn(ms, S) == {Path(ms, f) : f \in S}
MeantBy(doc, x, refs) == {Meant(doc, x, r) : r \in refs}

LEMMA LinkedPaths ==
  ASSUME NEW doc, NEW df, NEW ms, NEW ty, NEW pa,
         Description(doc), Reading(doc, {}, df, ms, ty, pa),
         NEW x \in doc.elements, NEW refs, NEW class \in SUBSET File, Found(doc, x, refs, class)
  PROVE  PathsIn(ms, LinksOf(doc, x, refs, class)) = MeantBy(doc, x, refs)
<1>1. \A f \in Entities(doc) \cap class : Path(ms, f) = WrittenPath(doc)[f]
  BY ReadPaths DEF Members
<1>2. \A r \in refs : \E f \in Entities(doc) \cap class : WrittenPath(doc)[f] = Meant(doc, x, r)
  BY DEF Found, PathsOf, Entities
<1> QED BY <1>1, <1>2 DEF LinksOf, PathsIn, MeantBy

LEMMA LoadedWellFormed ==
  ASSUME NEW doc, NEW ms, NEW ty, NEW pa, Description(doc), Reading(doc, {}, {}, ms, ty, pa)
  PROVE  WellFormed(doc) /\ AsWritten(ms, ty, pa, doc)
<1>1. /\ UniqueNames(ms) /\ Files(ms) = Entities(doc) \cap File
      /\ \A e \in Members(ms) : Path(ms, e) = WrittenPath(doc)[e]
      /\ \A x \in doc.elements : x.entity \in Members(ms)
  BY ReadPaths
<1>2. \A x \in doc.elements :
        /\ x.entity \in Entity /\ InSet(ms, x.entity) /\ Read(ms, ty, pa, x) /\ Fits(x)
        /\ x.entity \in Load => LoadLinked(doc, ms, x)
        /\ x.entity \in Batch => BatchLinked(doc, ms, x)
  BY DEF Reading, Description, Fits, ElementType
<1>3. \A x, y \in doc.elements : x.in = y.in /\ x.name = y.name => x = y
  <2> SUFFICES ASSUME NEW x \in doc.elements, NEW y \in doc.elements, x.in = y.in, x.name = y.name
               PROVE  x = y
    OBVIOUS
  <2>1. x.entity = y.entity
    BY <1>1, <1>2 DEF UniqueNames, Read
  <2> QED BY <2>1 DEF Description
<1>4. ASSUME NEW x \in doc.elements
      PROVE  /\ x.name \notin Reserved /\ MediumFits(x)
             /\ Found(doc, x, x.data \cup x.support, RegularFile)
             /\ \A t \in x.targets : Found(doc, x, t.loads, Load)
  <2>1. x.name \notin Reserved /\ MediumFits(x)
    BY <1>2 DEF Read, MediumFits, Reading, Savable, Ordinary
  <2>2. Found(doc, x, x.data \cup x.support, RegularFile)
    <3>1. CASE x.entity \in Load
      BY <1>2, <3>1 DEF LoadLinked
    <3>2. CASE x.entity \notin Load
      BY <1>2, <3>2 DEF Fits, Found
    <3> QED BY <3>1, <3>2
  <2>3. \A t \in x.targets : Found(doc, x, t.loads, Load)
    <3>1. CASE x.entity \in Batch
      BY <1>2, <3>1 DEF BatchLinked
    <3>2. CASE x.entity \notin Batch
      BY <1>2, <3>2 DEF Fits
    <3> QED BY <3>1, <3>2
  <2> QED BY <2>1, <2>2, <2>3
<1>5. WellFormed(doc)
  BY <1>3, <1>4 DEF WellFormed, Found
<1>6. RegularFile \in SUBSET File /\ Load \in SUBSET File
  BY DEF File
<1>7. ASSUME NEW x \in doc.elements, x.entity \in Load
      PROVE  /\ {Path(ms, f) : f \in ms.data[x.entity]} = {Meant(doc, x, r) : r \in x.data}
             /\ {Path(ms, f) : f \in ms.support[x.entity]} = {Meant(doc, x, r) : r \in x.support}
  <2>1. /\ ms.data[x.entity] = LinksOf(doc, x, x.data, RegularFile)
        /\ ms.support[x.entity] = LinksOf(doc, x, x.support, RegularFile)
    BY <1>2, <1>7 DEF LoadLinked
  <2>2. /\ Found(doc, x, x.data, RegularFile)
        /\ Found(doc, x, x.support, RegularFile)
    BY <1>4 DEF Found
  <2>3. /\ PathsIn(ms, ms.data[x.entity]) = MeantBy(doc, x, x.data)
        /\ PathsIn(ms, ms.support[x.entity]) = MeantBy(doc, x, x.support)
    BY <1>6, <2>1, <2>2, LinkedPaths
  <2> QED BY <2>3 DEF PathsIn, MeantBy
<1>8. ASSUME NEW x \in doc.elements, x.entity \in Batch, NEW t \in x.targets
      PROVE  {Path(ms, l) : l \in ms.targets[x.entity][t.position]} = {Meant(doc, x, r) : r \in t.loads}
  <2>1. Fits(x) /\ t.position \in Position
    BY <1>2, <1>8 DEF Fits, ElementType, TargetType
  <2>2. LoadsAt(x, t.position) = t.loads
    BY <2>1 DEF LoadsAt, Fits
  <2>3. ms.targets[x.entity][t.position] = LinksOf(doc, x, t.loads, Load)
    BY <1>2, <1>8, <2>1, <2>2 DEF BatchLinked
  <2>4. Found(doc, x, t.loads, Load)
    BY <1>4
  <2>5. PathsIn(ms, ms.targets[x.entity][t.position]) = MeantBy(doc, x, t.loads)
    BY <1>6, <2>3, <2>4, LinkedPaths
  <2> QED BY <2>5 DEF PathsIn, MeantBy
<1>9. ASSUME NEW x \in doc.elements
      PROVE  /\ Path(ms, x.entity) = WrittenPath(doc)[x.entity]
             /\ ms.medium[x.entity] = IF x.medium = 0 THEN FirstMedium ELSE x.medium
             /\ \A s \in Scope : s[1] = x.entity => ms.check[s] = x.check[s[2]]
             /\ Lookup(pa, x.entity) = x.source
             /\ x.entity \in Load => Lookup(ty, x.entity) = ReadType(x.type)
  <2>1. ms.medium[x.entity] = IF x.medium = 0 THEN FirstMedium ELSE x.medium
    BY <1>2, Classes DEF Read, MediumNumberOf
  <2>2. x.entity \in Load => Lookup(ty, x.entity) = ReadType(x.type)
    <3>1. DOMAIN ty = Files(ms) \cap Load
      BY DEF Reading, Savable
    <3> QED BY <1>2, <3>1 DEF Read, Lookup, Files, File
  <2> QED BY <1>1, <1>2, <2>1, <2>2 DEF Read
<1>10. /\ ms.medium[Root] = IF doc.medium = NoValue THEN FirstMedium ELSE doc.medium
       /\ \A s \in Scope : s[1] = Root => ms.check[s] = doc.check[s[2]]
  BY DEF Description, Reading, ReadAttributes, MediumNumberOf, Optional, MediumNumber
<1>11. AsWritten(ms, ty, pa, doc)
  BY <1>1, <1>7, <1>8, <1>9, <1>10 DEF AsWritten, Entities
<1> QED BY <1>5, <1>11

LEMMA FailureJustified ==
  ASSUME Description(document), LoadingFails, NEW doc, doc = Kept(document),
         todo \subseteq document.elements,
         Reading(doc, todo \cap doc.elements, deferred, loaded, loadedTypes, loadedPaths)
  PROVE  ~WellFormed(doc)
<1>1. /\ Description(doc) /\ deferred \subseteq doc.elements
      /\ \A x \in doc.elements : Fits(x)
      /\ doc.elements = {x \in document.elements : ~LeftOut(document, x)}
  BY KeptDescription DEF Reading, Description
<1>2. \A x \in doc.elements : /\ x.data \cup x.support \in SUBSET ReferenceType
                              /\ \A t \in x.targets : t.loads \in SUBSET ReferenceType
  BY <1>1 DEF Fits, ElementType, TargetType
<1>3. ASSUME NEW x \in todo, Reachable(x), Refuses(x)
      PROVE  ~WellFormed(doc)
  <2>1. CASE ~MediumFits(x)
    <3>1. x \in doc.elements
      BY <1>1, <2>1 DEF MediumFits, LeftOut
    <3> QED BY <2>1, <3>1 DEF WellFormed
  <2>2. CASE x.name \notin Reserved /\ NameTaken(loaded, x.in, x.name)
    <3>1. PICK e \in Entity : loaded.parent[e] = x.in /\ loaded.name[e] = x.name
      BY <2>2 DEF NameTaken, SubdirectoryNamed, FileNamed, AllSubdirectories, AllFiles, Entity
    <3>2. InSet(loaded, e)
      BY <1>3, <3>1, Classes DEF Reachable, Containers, Container, InSet
    <3>3. PICK y \in doc.elements \ (todo \cap doc.elements) : y.entity = e
      BY <3>2 DEF Reading
    <3>4. y.in = x.in /\ y.name = x.name /\ y # x
      BY <3>1, <3>3 DEF Reading, Read
    <3>5. x \in doc.elements
      BY <1>1, <2>2 DEF LeftOut
    <3> QED BY <3>3, <3>4, <3>5 DEF WellFormed
  <2>3. CASE x.name \in Reserved /\ \E y \in document.elements : y.in = x.entity
    <3>1. x \in doc.elements
      BY <1>1, <2>3 DEF LeftOut
    <3> QED BY <2>3, <3>1 DEF WellFormed
  <2> QED BY <1>3, <2>1, <2>2, <2>3 DEF Refuses
<1>4. ASSUME todo = {}, NEW x \in deferred, NEW r \in x.data \cup x.support,
             Referenced(x, r, RegularFile) = {}
      PROVE  ~WellFormed(doc)
  <2>1. Reading(doc, {}, deferred, loaded, loadedTypes, loadedPaths)
    BY <1>4
  <2>2. x \in doc.elements /\ r \in ReferenceType /\ RegularFile \in SUBSET File
    BY <1>1, <1>2 DEF File
  <2>3. Leads(loaded, x, r, RegularFile) = {}
    BY <1>4 DEF Referenced, Leads
  <2>4. Meant(doc, x, r) \notin PathsOf(doc, RegularFile)
    BY <1>1, <2>1, <2>2, <2>3, ReferencedFiles
  <2> QED BY <2>2, <2>4 DEF WellFormed
<1>5. ASSUME todo = {}, NEW x \in deferred, NEW t \in x.targets, NEW r \in t.loads,
             Referenced(x, r, Load) = {}
      PROVE  ~WellFormed(doc)
  <2>1. Reading(doc, {}, deferred, loaded, loadedTypes, loadedPaths)
    BY <1>5
  <2>2. x \in doc.elements /\ r \in ReferenceType /\ Load \in SUBSET File
    BY <1>1, <1>2 DEF File
  <2>3. Leads(loaded, x, r, Load) = {}
    BY <1>5 DEF Referenced, Leads
  <2>4. Meant(doc, x, r) \notin PathsOf(doc, Load)
    BY <1>1, <2>1, <2>2, <2>3, ReferencedFiles
  <2> QED BY <2>2, <2>4 DEF WellFormed
<1> QED BY <1>3, <1>4, <1>5 DEF LoadingFails

(* Where a load refers to a directory that is not there, or a name is      *)
(* reserved.                                                               *)
Astray(doc) ==
  \E x \in doc.elements : \E r \in x.data \cup x.support :
    Front(Meant(doc, x, r)) \notin PathsOf(doc, Directory) \cup {<<>>}

Unusual(doc) == \E x \in doc.elements : x.name \in Reserved

LEMMA CrashJustified ==
  ASSUME Description(document), LoadingCrashes, NEW doc, doc = Kept(document),
         todo \subseteq document.elements,
         Reading(doc, todo \cap doc.elements, deferred, loaded, loadedTypes, loadedPaths)
  PROVE  Unusual(document) \/ Astray(document)
<1> SUFFICES ASSUME ~Unusual(document) PROVE Astray(document)
  OBVIOUS
<1>1. doc = document
  BY KeptDescription DEF Unusual
<1>2. todo = {} /\ \E x \in deferred : \E r \in x.data \cup x.support : Misplaced(x, r)
  BY DEF LoadingCrashes, Unusual
<1> PICK x \in deferred : \E r \in x.data \cup x.support : Misplaced(x, r)
  BY <1>2
<1> PICK r \in x.data \cup x.support : Misplaced(x, r)
  OBVIOUS
<1>3. x \in doc.elements /\ Fits(x)
  BY <1>1 DEF Reading, Description
<1>4. r \in ReferenceType
  BY <1>3 DEF Fits, ElementType
<1>5. Reading(doc, {}, deferred, loaded, loadedTypes, loadedPaths)
  <2>1. todo \cap doc.elements = {}
    BY <1>2
  <2> QED BY <2>1
<1>6. DirectoryMissing(loaded, loaded.parent[x.entity], r.absolute, r.path)
  BY DEF Misplaced
<1>7. Front(Meant(doc, x, r)) \notin PathsOf(doc, Directory) \cup {<<>>}
  BY <1>1, <1>3, <1>4, <1>5, <1>6, MisplacedFiles
<1> QED BY <1>1, <1>3, <1>7 DEF Astray

-----------------------------------------------------------------------------
(* The round trip.                                                         *)

(* An element tells what it is in a media set, however its references are  *)
(* written.                                                                *)
Tells(doc, s, ty, pa, x) ==
  /\ x.in = s.parent[x.entity] /\ x.name = s.name[x.entity] /\ x.medium = s.medium[x.entity]
  /\ x.check = CheckValues(s, x.entity)
  /\ x.source = Lookup(pa, x.entity) /\ x.type = Lookup(ty, x.entity)
  /\ x.entity \in Load => /\ MeantBy(doc, x, x.data) = PathsIn(s, s.data[x.entity])
                          /\ MeantBy(doc, x, x.support) = PathsIn(s, s.support[x.entity])
  /\ x.entity \in Batch => x.targets = Targets(s, x.entity)

Describes(doc, s, ty, pa) ==
  /\ doc.medium = s.medium[Root] /\ doc.check = CheckValues(s, Root)
  /\ Entities(doc) = {e \in Entity : InSet(s, e)}
  /\ \A x \in doc.elements : Tells(doc, s, ty, pa, x)

(* No such element is passed over.                                         *)
LEMMA DescribedKept ==
  ASSUME NEW doc, NEW s, NEW ty, NEW pa, Description(doc), Savable(s, ty, pa),
         Describes(doc, s, ty, pa)
  PROVE  Kept(doc) = doc
<1>1. \A x \in doc.elements : x.entity \in Entity /\ InSet(s, x.entity) /\ x.name = s.name[x.entity]
  BY DEF Describes, Tells, Entities
<1>2. \A x \in doc.elements : x.name \notin Reserved
  BY <1>1 DEF Savable, Ordinary
<1> QED BY <1>2, KeptDescription

Absolute(doc) == \A x \in doc.elements : \A r \in x.data \cup x.support : r.absolute

LEMMA SavedDescribes ==
  ASSUME NEW s, NEW ty, NEW pa, Savable(s, ty, pa)
  PROVE  Describes(DocumentOf(s, ty, pa), s, ty, pa) /\ Absolute(DocumentOf(s, ty, pa))
<1> DEFINE doc == DocumentOf(s, ty, pa)
<1>1. /\ doc.medium = s.medium[Root] /\ doc.check = CheckValues(s, Root)
      /\ doc.elements = {Element(s, ty, pa, e) : e \in {x \in Entity : InSet(s, x)}}
  BY DEF DocumentOf
<1> HIDE DEF doc
<1>2. ASSUME NEW e \in Entity
      PROVE  LET x == Element(s, ty, pa, e)
             IN /\ x.entity = e
                /\ \A r \in x.data \cup x.support : r.absolute
                /\ Tells(doc, s, ty, pa, x)
  <2> DEFINE x == Element(s, ty, pa, e)
  <2>1. /\ x.entity = e /\ x.in = s.parent[e] /\ x.name = s.name[e] /\ x.medium = s.medium[e]
        /\ x.check = CheckValues(s, e) /\ x.source = Lookup(pa, e) /\ x.type = Lookup(ty, e)
        /\ x.data = (IF e \in Load THEN DataReferences(s, e) ELSE {})
        /\ x.support = (IF e \in Load THEN SupportReferences(s, e) ELSE {})
        /\ x.targets = (IF e \in Batch THEN Targets(s, e) ELSE {})
    BY DEF Element
  <2> HIDE DEF x
  <2>2. \A f : Reference(s, f).absolute /\ Reference(s, f).path = Path(s, f)
    BY DEF Reference
  <2>3. \A r \in x.data \cup x.support : r.absolute
    BY <2>1, <2>2 DEF DataReferences, SupportReferences
  <2>4. \A f : Meant(doc, x, Reference(s, f)) = Path(s, f)
    BY <2>2 DEF Meant
  <2>5. e \in Load => /\ MeantBy(doc, x, x.data) = PathsIn(s, s.data[e])
                      /\ MeantBy(doc, x, x.support) = PathsIn(s, s.support[e])
    BY <2>1, <2>4 DEF MeantBy, PathsIn, DataReferences, SupportReferences
  <2> QED BY <2>1, <2>3, <2>5 DEF Tells, x
<1>3. Entities(doc) = {e \in Entity : InSet(s, e)}
  BY <1>1, <1>2 DEF Entities
<1> QED BY <1>1, <1>2, <1>3 DEF Describes, Absolute, doc

(* Paths in the description are those of the media set.                    *)
LEMMA DescribedPaths ==
  ASSUME NEW doc, NEW s, NEW ty, NEW pa, Description(doc), Savable(s, ty, pa),
         Entities(doc) = {e \in Entity : InSet(s, e)},
         \A x \in doc.elements : x.in = s.parent[x.entity] /\ x.name = s.name[x.entity]
  PROVE  /\ Members(s) = Entities(doc) \cup {Root}
         /\ \A e \in Members(s) : WrittenPath(doc)[e] = Path(s, e)
         /\ \A x \in doc.elements : x.in \in Containers(s)
<1> DEFINE t == Nesting(doc)
<1>1. Tree(s) /\ s.name \in [Entity -> Name]
  BY DEF Savable, Proper, MediaSetType
<1>2. /\ Tree(t) /\ t.name \in [Entity -> Name]
      /\ \A x \in doc.elements : /\ x.entity \in Entity /\ t.parent[x.entity] = x.in
                                 /\ t.name[x.entity] = x.name
  BY NestingFields
<1> HIDE DEF t
<1>3. \A e \in Entity : InSet(s, e) => \E x \in doc.elements : x.entity = e
  BY DEF Entities
<1>4. \A e \in Entity : InSet(s, e) => t.parent[e] = s.parent[e] /\ t.name[e] = s.name[e]
  BY <1>2, <1>3
<1>5. \A e \in Members(s) : e \in Members(t) /\ Path(t, e) = Path(s, e)
  BY <1>1, <1>2, <1>4, SamePaths
<1>6. Members(s) = Entities(doc) \cup {Root}
  BY DEF Members, Containers, Files, Entity
<1>7. \A e \in Members(s) : WrittenPath(doc)[e] = Path(s, e)
  BY <1>5, <1>6, WrittenPaths DEF t
<1>8. \A x \in doc.elements : x.in \in Containers(s)
  BY <1>1, <1>2 DEF Entities, Tree, ParentsLive
<1> QED BY <1>6, <1>7, <1>8

(* References that mean the paths of files of the media set lead to them.  *)
LEMMA LinksBack ==
  ASSUME NEW doc, NEW s, NEW ty, NEW pa, Description(doc), Savable(s, ty, pa),
         Describes(doc, s, ty, pa), NEW x, NEW refs, NEW class \in SUBSET File,
         NEW S \in SUBSET (Files(s) \cap class), MeantBy(doc, x, refs) = PathsIn(s, S)
  PROVE  LinksOf(doc, x, refs, class) = S
<1>1. Tree(s) /\ UniqueNames(s) /\ s.name \in [Entity -> Name]
  BY DEF Savable, Proper, MediaSetType
<1>2. /\ Members(s) = Entities(doc) \cup {Root}
      /\ \A e \in Members(s) : WrittenPath(doc)[e] = Path(s, e)
  BY DescribedPaths DEF Describes, Tells
<1>3. Entities(doc) \cap class \subseteq Files(s) /\ Files(s) \subseteq Entities(doc)
  BY DEF Describes, Files, Entity
<1>4. ASSUME NEW f \in LinksOf(doc, x, refs, class)
      PROVE  f \in S
  <2>1. f \in Files(s) /\ WrittenPath(doc)[f] \in PathsIn(s, S)
    BY <1>3 DEF LinksOf, MeantBy
  <2>2. Path(s, f) \in PathsIn(s, S)
    BY <1>2, <2>1 DEF Members
  <2>3. PICK g \in S : Path(s, f) = Path(s, g)
    BY <2>2 DEF PathsIn
  <2> QED BY <1>1, <2>1, <2>3, PathsDiffer
<1>5. ASSUME NEW f \in S
      PROVE  f \in LinksOf(doc, x, refs, class)
  <2>1. Path(s, f) \in MeantBy(doc, x, refs)
    BY DEF PathsIn
  <2>2. f \in Entities(doc) \cap class /\ WrittenPath(doc)[f] = Path(s, f)
    BY <1>2, <1>3 DEF Members
  <2> QED BY <2>1, <2>2 DEF MeantBy, LinksOf
<1> QED BY <1>4, <1>5

LEMMA RoundTripped ==
  ASSUME NEW doc, NEW s, NEW ty, NEW pa, Description(doc), Savable(s, ty, pa),
         Describes(doc, s, ty, pa),
         NEW ms, NEW lt, NEW lp, Reading(doc, {}, {}, ms, lt, lp)
  PROVE  /\ ms = [s EXCEPT !.medium[Root] = IF @ = NoValue THEN FirstMedium ELSE @]
         /\ lt = [l \in DOMAIN ty |-> ReadType(ty[l])]
         /\ lp = pa
<1>1. /\ s \in MediaSetType /\ Proper(s) /\ Unlinked(s) /\ Unmarked(s)
      /\ ms \in MediaSetType /\ Proper(ms) /\ Unlinked(ms) /\ Unmarked(ms)
      /\ Savable(ms, lt, lp)
  BY DEF Reading, Savable, OutsidersBare
<1>2. \A x \in doc.elements :
        /\ x.entity \in Entity /\ Read(ms, lt, lp, x) /\ Tells(doc, s, ty, pa, x)
        /\ x.entity \in Load => LoadLinked(doc, ms, x)
        /\ x.entity \in Batch => BatchLinked(doc, ms, x)
  BY DEF Reading, Description, Fits, ElementType, Describes
<1>3. \A e \in Entity : /\ InSet(ms, e) <=> InSet(s, e)
                        /\ InSet(s, e) => \E x \in doc.elements : x.entity = e
  BY DEF Reading, Describes, Entities
<1>4. /\ s.parent \in [Entity -> Optional(Container)] /\ ms.parent \in [Entity -> Optional(Container)]
      /\ s.name \in [Entity -> Name] /\ ms.name \in [Entity -> Name]
      /\ s.medium \in [File \cup Container -> Optional(MediumNumber)]
      /\ ms.medium \in [File \cup Container -> Optional(MediumNumber)]
      /\ s.check \in [Scope -> Optional(CheckType)] /\ ms.check \in [Scope -> Optional(CheckType)]
      /\ s.data \in [Load -> SUBSET RegularFile] /\ ms.data \in [Load -> SUBSET RegularFile]
      /\ s.support \in [Load -> SUBSET RegularFile] /\ ms.support \in [Load -> SUBSET RegularFile]
      /\ s.targets \in [Batch -> [Position -> Optional(SUBSET Load)]]
      /\ ms.targets \in [Batch -> [Position -> Optional(SUBSET Load)]]
      /\ s = [parent |-> s.parent, name |-> s.name, medium |-> s.medium, check |-> s.check,
              data |-> s.data, support |-> s.support, targets |-> s.targets]
      /\ ms = [parent |-> ms.parent, name |-> ms.name, medium |-> ms.medium, check |-> ms.check,
               data |-> ms.data, support |-> ms.support, targets |-> ms.targets]
  BY <1>1 DEF MediaSetType
<1>5. ms.parent = s.parent
  <2>1. \A e \in Entity : InSet(s, e) => ms.parent[e] = s.parent[e]
    BY <1>2, <1>3 DEF Read, Tells
  <2>2. \A e \in Entity : ~InSet(s, e) => ms.parent[e] = s.parent[e]
    BY <1>3 DEF InSet
  <2> QED BY <1>4, <2>1, <2>2
<1>6. ms.name = s.name
  <2>1. \A e \in Entity : InSet(s, e) => ms.name[e] = s.name[e]
    BY <1>2, <1>3 DEF Read, Tells
  <2>2. \A e \in Entity : ~InSet(s, e) => ms.name[e] = s.name[e]
    BY <1>1, <1>3 DEF Unmarked
  <2> QED BY <1>4, <2>1, <2>2
<1>7. \A n \in Optional(MediumNumber) : n # NoValue => MediumNumberOf(n) = n
  BY MediumAssumption DEF MediumAssumption, MediumNumber, MediumNumberOf, Optional
<1>8. ms.medium = [s.medium EXCEPT ![Root] = IF @ = NoValue THEN FirstMedium ELSE @]
  <2>1. \A e \in Entity : InSet(s, e) => ms.medium[e] = s.medium[e]
    BY <1>2, <1>3, <1>4, <1>7 DEF Read, Tells, Entity, Container
  <2>2. \A e \in Entity : ~InSet(s, e) => ms.medium[e] = s.medium[e]
    BY <1>1, <1>3 DEF Unmarked
  <2>3. ms.medium[Root] = IF s.medium[Root] = NoValue THEN FirstMedium ELSE s.medium[Root]
    BY <1>4, <1>7 DEF Reading, ReadAttributes, Describes, Container
  <2>4. File \cup Container = Entity \cup {Root}
    BY DEF Entity, Container
  <2>5. \A e \in File \cup Container :
          ms.medium[e] = [s.medium EXCEPT ![Root] = IF @ = NoValue THEN FirstMedium ELSE @][e]
    BY <1>4, <2>1, <2>2, <2>3, <2>4, Classes DEF Entity
  <2> QED BY <1>4, <2>5
<1>9. ms.check = s.check
  <2> SUFFICES ASSUME NEW z \in Scope
               PROVE  ms.check[z] = s.check[z]
    BY <1>4
  <2>1. CASE z[1] = Root
    <3>1. CheckValues(s, Root)[z[2]] = s.check[z]
      BY <1>1, <2>1, CheckValuesTyped
    <3> QED BY <2>1, <3>1 DEF Reading, ReadAttributes, Describes
  <2>2. CASE z[1] # Root
    <3>1. z[1] \in Entity
      BY <2>2 DEF Scope, Entity, File
    <3>2. CASE InSet(s, z[1])
      <4>1. PICK x \in doc.elements : x.entity = z[1]
        BY <1>3, <3>1, <3>2
      <4>2. CheckValues(s, z[1])[z[2]] = s.check[z]
        BY <1>1, CheckValuesTyped
      <4> QED BY <1>2, <4>1, <4>2 DEF Read, Tells
    <3>3. CASE ~InSet(s, z[1])
      BY <1>1, <1>3, <2>2, <3>1, <3>3 DEF Unmarked
    <3> QED BY <3>2, <3>3
  <2> QED BY <2>1, <2>2
<1>10. RegularFile \in SUBSET File /\ Load \in SUBSET File /\ Load \subseteq Entity /\ Batch \subseteq Entity
  BY DEF File, Entity
<1>11. ASSUME NEW l \in Load
       PROVE  ms.data[l] = s.data[l] /\ ms.support[l] = s.support[l]
  <2>1. CASE InSet(s, l)
    <3>1. PICK x \in doc.elements : x.entity = l
      BY <1>3, <1>10, <2>1
    <3>2. /\ ms.data[l] = LinksOf(doc, x, x.data, RegularFile)
          /\ ms.support[l] = LinksOf(doc, x, x.support, RegularFile)
          /\ MeantBy(doc, x, x.data) = PathsIn(s, s.data[l])
          /\ MeantBy(doc, x, x.support) = PathsIn(s, s.support[l])
      BY <1>2, <3>1 DEF LoadLinked, Tells
    <3>3. /\ s.data[l] \in SUBSET (Files(s) \cap RegularFile)
          /\ s.support[l] \in SUBSET (Files(s) \cap RegularFile)
      BY <1>1, <1>4 DEF Proper, LiveLinks
    <3>4. LinksOf(doc, x, x.data, RegularFile) = s.data[l]
      BY <1>10, <3>2, <3>3, LinksBack
    <3>5. LinksOf(doc, x, x.support, RegularFile) = s.support[l]
      BY <1>10, <3>2, <3>3, LinksBack
    <3> QED BY <3>2, <3>4, <3>5
  <2>2. CASE ~InSet(s, l)
    BY <1>1, <1>3, <1>10, <2>2 DEF Unlinked
  <2> QED BY <2>1, <2>2
<1>12. ASSUME NEW b \in Batch, NEW p \in Position
       PROVE  ms.targets[b][p] = s.targets[b][p]
  <2>1. CASE InSet(s, b)
    <3>1. PICK x \in doc.elements : x.entity = b
      BY <1>3, <1>10, <2>1
    <3>2. /\ x.targets = Targets(s, b)
          /\ ms.targets[b][p] = IF \E t \in x.targets : t.position = p
                                THEN LinksOf(doc, x, LoadsAt(x, p), Load) ELSE NoValue
      BY <1>2, <3>1 DEF BatchLinked, Tells
    <3> DEFINE S == s.targets[b][p]
               told(q) == [position |-> q, loads |-> {Reference(s, l) : l \in s.targets[b][q]}]
    <3>3. x.targets = {told(q) : q \in {q \in Position : s.targets[b][q] # NoValue}}
      BY <3>2 DEF Targets
    <3>4. \A q : told(q).position = q /\ told(q).loads = {Reference(s, l) : l \in s.targets[b][q]}
      OBVIOUS
    <3> HIDE DEF told
    <3>5. CASE S = NoValue
      <4>1. ~\E t \in x.targets : t.position = p
        BY <3>3, <3>4, <3>5
      <4> QED BY <3>2, <3>5, <4>1
    <3>6. CASE S # NoValue
      <4>1. told(p) \in x.targets /\ told(p).position = p
        BY <3>3, <3>4, <3>6
      <4>2. {u \in x.targets : u.position = p} = {told(p)}
        BY <3>3, <3>4, <4>1
      <4>3. LoadsAt(x, p) = {Reference(s, l) : l \in S}
        BY <3>4, <4>2 DEF LoadsAt
      <4>4. \A l : Meant(doc, x, Reference(s, l)) = Path(s, l)
        BY DEF Meant, Reference
      <4>5. MeantBy(doc, x, LoadsAt(x, p)) = PathsIn(s, S)
        BY <4>3, <4>4 DEF MeantBy, PathsIn
      <4>6. S \in SUBSET (Files(s) \cap Load)
        BY <1>1, <1>4, <3>6 DEF Proper, LiveLinks, Optional
      <4> HIDE DEF S
      <4>7. LinksOf(doc, x, LoadsAt(x, p), Load) = S
        BY <1>10, <4>5, <4>6, LinksBack
      <4> QED BY <3>2, <4>1, <4>7 DEF S
    <3> QED BY <3>5, <3>6
  <2>2. CASE ~InSet(s, b)
    BY <1>1, <1>3, <1>10, <2>2 DEF Unlinked
  <2> QED BY <2>1, <2>2
<1>13. ms.data = s.data /\ ms.support = s.support
  BY <1>4, <1>11
<1>14. ms.targets = s.targets
  <2>1. \A b \in Batch : ms.targets[b] = s.targets[b]
    <3> SUFFICES ASSUME NEW b \in Batch
                 PROVE  ms.targets[b] = s.targets[b]
      OBVIOUS
    <3>1. /\ ms.targets[b] \in [Position -> Optional(SUBSET Load)]
          /\ s.targets[b] \in [Position -> Optional(SUBSET Load)]
      BY <1>4
    <3> QED BY <1>12, <3>1
  <2> QED BY <1>4, <2>1
<1>15. ms = [s EXCEPT !.medium[Root] = IF @ = NoValue THEN FirstMedium ELSE @]
  <2> DEFINE t == [s EXCEPT !.medium[Root] = IF @ = NoValue THEN FirstMedium ELSE @]
  <2>1. /\ t.parent = s.parent /\ t.name = s.name /\ t.check = s.check
        /\ t.data = s.data /\ t.support = s.support /\ t.targets = s.targets
    BY <1>4
  <2>2. t.medium = [s.medium EXCEPT ![Root] = IF @ = NoValue THEN FirstMedium ELSE @]
    BY <1>4
  <2>3. DOMAIN t = DOMAIN s /\ t = [f \in DOMAIN t |-> t[f]]
    BY <1>4
  <2> HIDE DEF t
  <2>4. t = [parent |-> t.parent, name |-> t.name, medium |-> t.medium, check |-> t.check,
             data |-> t.data, support |-> t.support, targets |-> t.targets]
    BY <1>4, <2>3
  <2>5. ms = t
    BY <1>4, <1>5, <1>6, <1>8, <1>9, <1>13, <1>14, <2>1, <2>2, <2>4
  <2> QED BY <2>5 DEF t
<1>16. Files(ms) = Files(s)
  BY <1>3 DEF Files, Entity
<1>17. lt = [l \in DOMAIN ty |-> ReadType(ty[l])]
  <2>1. /\ ty \in [Files(s) \cap Load -> Optional(LoadType)]
        /\ lt \in [Files(s) \cap Load -> Optional(LoadType)]
    BY <1>1, <1>16 DEF Savable
  <2>2. ASSUME NEW l \in Files(s) \cap Load
        PROVE  lt[l] = ReadType(ty[l])
    <3>1. PICK x \in doc.elements : x.entity = l
      BY <1>3, <1>10 DEF Files
    <3>2. lt[l] = ReadType(x.type) /\ x.type = Lookup(ty, l)
      BY <1>2, <3>1 DEF Read, Tells
    <3> QED BY <2>1, <3>2 DEF Lookup
  <2> QED BY <2>1, <2>2
<1>18. lp = pa
  <2>1. /\ DOMAIN pa \subseteq Files(s) /\ pa \in [DOMAIN pa -> SourcePath]
        /\ DOMAIN lp \subseteq Files(s) /\ lp \in [DOMAIN lp -> SourcePath]
    BY <1>1, <1>16 DEF Savable
  <2>2. \A f \in Files(s) : Lookup(lp, f) = Lookup(pa, f)
    BY <1>2, <1>3 DEF Read, Tells, Files, Entity
  <2>3. NoValue \notin SourcePath
    BY XmlAssumption DEF XmlAssumption
  <2>4. \A f \in Files(s) : /\ f \in DOMAIN lp <=> Lookup(lp, f) # NoValue
                            /\ f \in DOMAIN pa <=> Lookup(pa, f) # NoValue
    BY <2>1, <2>3 DEF Lookup
  <2>5. DOMAIN lp = DOMAIN pa
    BY <2>1, <2>2, <2>4
  <2>6. \A f \in DOMAIN lp : lp[f] = pa[f]
    BY <2>1, <2>2, <2>5 DEF Lookup
  <2> QED BY <2>1, <2>5, <2>6
<1> QED BY <1>15, <1>17, <1>18

(* References written without their directory mean what they did.          *)
LEMMA ShortenedMeant ==
  ASSUME NEW doc, NEW x, NEW y, NEW r \in ReferenceType, r.absolute,
         y.in = x.in, WrittenPath(doc)[x.in] = Path(set, x.in), Path(set, x.in) \in Seq(Name)
  PROVE  Meant(doc, y, Shortened(x, r)) = r.path
<1> DEFINE dir == Path(set, x.in)
           front == Front(r.path)
           last == Last(r.path)
<1>1. /\ front \in Seq(Name) /\ last \in Name /\ r.path = Append(front, last)
  BY PathSplit DEF ReferenceType
<1>2. CASE front = dir
  <2>1. /\ Shortened(x, r).absolute = FALSE /\ Shortened(x, r).path = <<last>>
    BY <1>2 DEF Shortened
  <2>2. Meant(doc, y, Shortened(x, r)) = dir \o <<last>>
    BY <2>1 DEF Meant
  <2> HIDE DEF dir, front, last
  <2>3. Append(<<>>, last) = <<last>> /\ dir \o <<>> = dir /\ <<>> \in Seq(Name)
    BY <1>1, <1>2, ConcatEmptySeq
  <2>4. dir \o Append(<<>>, last) = Append(dir \o <<>>, last)
    BY <1>1, <1>2, <2>3, ConcatAppend
  <2> QED BY <1>1, <1>2, <2>2, <2>3, <2>4
<1>3. CASE front # dir
  BY <1>3 DEF Shortened, Meant
<1> QED BY <1>2, <1>3

LEMMA ShortenedDescribes ==
  ASSUME Description(document), Savable(set, types, paths),
         Describes(document, set, types, paths), Absolute(document),
         NEW x \in document.elements, ShortenReferences(x), Description(document')
  PROVE  Describes(document', set, types, paths)
<1> DEFINE D == {Shortened(x, r) : r \in x.data}
           S == {Shortened(x, r) : r \in x.support}
           y == [x EXCEPT !.data = D, !.support = S]
           new == document'
<1>1. Fits(x) /\ Tells(document, set, types, paths, x)
  BY DEF Description, Describes
<1>2. new = [document EXCEPT !.elements = (@ \ {x}) \cup {y}]
  BY DEF ShortenReferences, Edit
<1>3. document = [medium |-> document.medium, check |-> document.check, elements |-> document.elements]
  BY DEF Description
<1> HIDE DEF new
<1>4. /\ new.medium = document.medium /\ new.check = document.check
      /\ new.elements = (document.elements \ {x}) \cup {y}
  BY <1>2, <1>3
<1>5. /\ y.entity = x.entity /\ y.in = x.in /\ y.name = x.name /\ y.medium = x.medium
      /\ y.check = x.check /\ y.source = x.source /\ y.type = x.type
      /\ y.data = D /\ y.support = S /\ y.targets = x.targets
  <2> HIDE DEF D, S
  <2> QED BY <1>1 DEF Fits, ElementType
<1> HIDE DEF y
<1>6. /\ Entities(new) = Entities(document)
      /\ Entities(document) = {e \in Entity : InSet(set, e)}
  BY <1>4, <1>5 DEF Entities, Describes
<1>7. \A z \in new.elements : z.in = set.parent[z.entity] /\ z.name = set.name[z.entity]
  BY <1>1, <1>4, <1>5 DEF Describes, Tells
<1>8. /\ \A e \in Members(set) : WrittenPath(document)[e] = Path(set, e)
      /\ \A z \in document.elements : z.in \in Containers(set)
  BY DescribedPaths DEF Describes, Tells
<1>9. /\ \A e \in Members(set) : WrittenPath(new)[e] = Path(set, e)
      /\ \A z \in new.elements : z.in \in Containers(set)
  <2>1. Description(new)
    BY DEF new
  <2> QED BY <1>6, <1>7, <2>1, DescribedPaths
<1>10. ASSUME NEW z \in document.elements, z # x
       PROVE  Tells(new, set, types, paths, z)
  <2>1. WrittenPath(new)[z.in] = WrittenPath(document)[z.in]
    BY <1>8, <1>9 DEF Members
  <2>2. \A refs : MeantBy(new, z, refs) = MeantBy(document, z, refs)
    BY <2>1 DEF MeantBy, Meant
  <2> QED BY <2>2 DEF Describes, Tells
<1>11. Tells(new, set, types, paths, y)
  <2>1. WrittenPath(new)[x.in] = Path(set, x.in) /\ Path(set, x.in) \in Seq(Name)
    <3>1. Tree(set) /\ set.name \in [Entity -> Name]
      BY DEF Savable, Proper, MediaSetType
    <3> QED BY <1>8, <1>9, <3>1, PathOfDirectory DEF Members
  <2>2. ASSUME NEW r \in x.data \cup x.support
        PROVE  Meant(new, y, Shortened(x, r)) = Meant(document, x, r)
    <3>1. r \in ReferenceType /\ r.absolute
      BY <1>1 DEF Fits, ElementType, Absolute
    <3>2. Meant(document, x, r) = r.path
      BY <3>1 DEF Meant
    <3> QED BY <1>5, <2>1, <3>1, <3>2, ShortenedMeant
  <2>3. /\ MeantBy(new, y, y.data) = MeantBy(document, x, x.data)
        /\ MeantBy(new, y, y.support) = MeantBy(document, x, x.support)
    BY <1>5, <2>2 DEF MeantBy
  <2> QED BY <1>1, <1>5, <2>3 DEF Tells
<1>12. \A z \in new.elements : Tells(new, set, types, paths, z)
  BY <1>4, <1>10, <1>11
<1> QED BY <1>4, <1>6, <1>12 DEF Describes, new

(* The media set with the default medium number that it has effectively,   *)
(* the types of loads as they are read, and paths for all files.           *)
LEMMA DecompiledSavable ==
  ASSUME NEW s, NEW ty, NEW pa, Savable(s, ty, pa), NEW p \in SourcePath
  PROVE  Savable([s EXCEPT !.medium[Root] = EffectiveDefaultMedium(s, Root)],
                 [l \in DOMAIN ty |-> ReadType(ty[l])], [f \in Files(s) |-> p])
<1> DEFINE m == EffectiveDefaultMedium(s, Root)
           t == [s EXCEPT !.medium[Root] = m]
           tt == [l \in DOMAIN ty |-> ReadType(ty[l])]
<1>1. /\ s \in MediaSetType /\ Tree(s) /\ UniqueNames(s) /\ LiveLinks(s) /\ Unlinked(s) /\ Unmarked(s)
      /\ ty \in [Files(s) \cap Load -> Optional(LoadType)]
  BY DEF Savable, Proper, OutsidersBare
<1>2. /\ s.medium \in [File \cup Container -> Optional(MediumNumber)]
      /\ s = [parent |-> s.parent, name |-> s.name, medium |-> s.medium, check |-> s.check,
              data |-> s.data, support |-> s.support, targets |-> s.targets]
  BY <1>1 DEF MediaSetType
<1>3. m \in MediumNumber
  BY <1>1, <1>2, EffectiveDefaultMediumStep DEF Containers
<1> HIDE DEF m
<1>4. /\ t.parent = s.parent /\ t.name = s.name /\ t.check = s.check
      /\ t.data = s.data /\ t.support = s.support /\ t.targets = s.targets
  BY <1>2
<1>5. t.medium = [s.medium EXCEPT ![Root] = m]
  BY <1>2
<1>6. DOMAIN t = DOMAIN s /\ t = [f \in DOMAIN t |-> t[f]]
  BY <1>2
<1> HIDE DEF t
<1>7. t = [parent |-> t.parent, name |-> t.name, medium |-> t.medium, check |-> t.check,
           data |-> t.data, support |-> t.support, targets |-> t.targets]
  BY <1>2, <1>6
<1>8. t \in MediaSetType
  <2>1. t.medium \in [File \cup Container -> Optional(MediumNumber)]
    BY <1>2, <1>3, <1>5 DEF Optional
  <2> QED BY <1>1, <1>4, <1>7, <2>1 DEF MediaSetType
<1>9. Files(t) = Files(s) /\ \A e : InSet(t, e) <=> InSet(s, e)
  BY <1>4 DEF Files, InSet
<1>10. Proper(t)
  <2>1. Tree(t)
    BY <1>1, <1>4, SameTree
  <2>2. UniqueNames(t)
    BY <1>1, <1>4, <1>9 DEF UniqueNames
  <2>3. LiveLinks(t)
    BY <1>1, <1>4, <1>9 DEF LiveLinks
  <2> QED BY <2>1, <2>2, <2>3 DEF Proper
<1>11. OutsidersBare(t)
  <2>1. Unlinked(t)
    BY <1>1, <1>4, <1>9 DEF Unlinked
  <2>2. \A e \in Entity : t.medium[e] = s.medium[e]
    BY <1>2, <1>5, Classes DEF Entity, Container
  <2>3. Unmarked(t)
    BY <1>1, <1>4, <1>9, <2>2 DEF Unmarked
  <2> QED BY <2>1, <2>3 DEF OutsidersBare
<1>12. tt \in [Files(t) \cap Load -> Optional(LoadType)]
  BY <1>1, <1>9 DEF ReadType, Optional
<1>13. [f \in Files(s) |-> p] \in [Files(s) -> SourcePath] /\ DOMAIN [f \in Files(s) |-> p] = Files(s)
  OBVIOUS
<1>14. Ordinary(t)
  BY <1>4, <1>9 DEF Savable, Ordinary
<1> QED BY <1>8, <1>9, <1>10, <1>11, <1>12, <1>13, <1>14 DEF Savable, t, m

-----------------------------------------------------------------------------
(* The invariant of the viewer.                                            *)

(* The file says what the media set is until an edit changes more than how *)
(* references are written.                                                 *)
Written ==
  /\ Savable(set, types, paths)
  /\ status = "new" => document = NoDocument /\ edits = {}
  /\ status # "new" =>
       /\ Description(document)
       /\ edits \subseteq {"shorten"} => Describes(document, set, types, paths)
       /\ edits = {} => Absolute(document)

Idle(td, df, ms, ty, pa) == td = {} /\ df = {} /\ ms = EmptyMediaSet /\ ty = <<>> /\ pa = <<>>

(* The elements still to be read, but for those to be passed over. *)
Unread == todo \cap Kept(document).elements

Progress ==
  /\ status \in {"new", "saved", "entries", "loaded", "failed", "crashed"}
  /\ status \in {"new", "saved"} => Idle(todo, deferred, loaded, loadedTypes, loadedPaths)
  /\ status \notin {"new", "saved"} =>
       /\ todo \subseteq document.elements
       /\ Reading(Kept(document), Unread, deferred, loaded, loadedTypes, loadedPaths)
  /\ status = "loaded" => todo = {} /\ deferred = {}
  /\ status = "failed" => ~WellFormed(Kept(document))
  /\ status = "crashed" => Unusual(document) \/ Astray(document)

Watching ==
  /\ shown.empty \in BOOLEAN
  /\ ~shown.empty => Savable(shown.ms, shown.types, shown.paths)
  /\ watched \in BOOLEAN /\ changed \in BOOLEAN /\ (changed => watched)
  /\ watched => status = "saved"
  /\ watched /\ ~changed => AsWritten(shown.ms, shown.types, shown.paths, Kept(document))

ViewerInv == Written /\ Progress /\ Watching

LEMMA InitHolds == ViewerInit => ViewerInv
<1> SUFFICES ASSUME ViewerInit PROVE ViewerInv
  OBVIOUS
<1>1. set \in MediaSetType /\ Proper(set) /\ OutsidersBare(set) /\ Ordinary(set)
  BY XmlAssumption DEF XmlAssumption, ViewerInit, Init
<1>2. RecursiveLoads(set) = Files(set) \cap Load
  <2>1. Tree(set)
    BY <1>1 DEF Proper
  <2>2. RecursiveFiles(set, Root, NoValue) = {f \in Files(set) : OnMedium(set, f, NoValue)}
    BY <2>1, RecursiveFilesOfRoot
  <2> QED BY <2>2 DEF RecursiveLoads, OnMedium
<1>3. types \in [Files(set) \cap Load -> Optional(LoadType)]
  BY <1>2 DEF ViewerInit, Init
<1>4. DOMAIN paths \subseteq Files(set) /\ paths \in [DOMAIN paths -> SourcePath]
  BY DEF ViewerInit, Init
<1>5. Written
  BY <1>1, <1>3, <1>4 DEF ViewerInit, Init, Written, Savable
<1>6. Progress
  BY DEF ViewerInit, Init, Progress, Idle
<1>7. Watching
  BY DEF ViewerInit, Watching, Nothing
<1> QED BY <1>5, <1>6, <1>7 DEF ViewerInv

(* Saving, by another program or by the window.                            *)
LEMMA SaveHolds == ViewerInv /\ SaveFirst => ViewerInv'
<1> SUFFICES ASSUME ViewerInv, SaveFirst PROVE ViewerInv'
  OBVIOUS
<1>1. /\ status = "new" /\ status' = "saved" /\ document' = DocumentOf(set, types, paths)
      /\ set' = set /\ types' = types /\ paths' = paths /\ edits' = edits /\ todo' = todo
      /\ deferred' = deferred /\ loaded' = loaded /\ loadedTypes' = loadedTypes
      /\ loadedPaths' = loadedPaths /\ shown' = shown /\ watched' = watched /\ changed' = changed
  BY DEF SaveFirst, Save, source, result, view
<1>2. Savable(set, types, paths)
  BY DEF ViewerInv, Written
<1>3. /\ Description(DocumentOf(set, types, paths)) /\ Absolute(DocumentOf(set, types, paths))
      /\ Describes(DocumentOf(set, types, paths), set, types, paths)
  BY <1>2, SavedDescription, SavedDescribes
<1>4. Written'
  BY <1>1, <1>2, <1>3 DEF Written
<1>5. Progress'
  BY <1>1 DEF ViewerInv, Progress
<1>6. Watching'
  BY <1>1 DEF ViewerInv, Watching
<1> QED BY <1>4, <1>5, <1>6 DEF ViewerInv

LEMMA SaveXmlFileHolds == ViewerInv /\ SaveXmlFile => ViewerInv'
<1> SUFFICES ASSUME ViewerInv, SaveXmlFile PROVE ViewerInv'
  OBVIOUS
<1> DEFINE new == DocumentOf(shown.ms, shown.types, shown.paths)
<1>1. /\ status = "saved" /\ status' = status /\ document' = new /\ ~shown.empty
      /\ set' = shown.ms /\ types' = shown.types /\ paths' = shown.paths /\ edits' = {}
      /\ todo' = todo /\ deferred' = deferred /\ loaded' = loaded
      /\ loadedTypes' = loadedTypes /\ loadedPaths' = loadedPaths
      /\ shown' = shown /\ watched' = watched /\ changed' = watched
  BY DEF SaveXmlFile, Waits, result, view
<1>2. Savable(shown.ms, shown.types, shown.paths)
  BY <1>1 DEF ViewerInv, Watching
<1>3. /\ Description(new) /\ Absolute(new)
      /\ Describes(new, shown.ms, shown.types, shown.paths)
  BY <1>2, SavedDescription, SavedDescribes
<1> HIDE DEF new
<1>4. Written'
  BY <1>1, <1>2, <1>3 DEF Written
<1>5. Progress'
  BY <1>1 DEF ViewerInv, Progress
<1>6. Watching'
  BY <1>1, <1>2 DEF ViewerInv, Watching
<1> QED BY <1>4, <1>5, <1>6 DEF ViewerInv

LEMMA EditFileHolds == ViewerInv /\ EditFile => ViewerInv'
<1> SUFFICES ASSUME ViewerInv, EditFile PROVE ViewerInv'
  OBVIOUS
<1>1. PICK x \in document.elements :
        \/ \E n \in Name : EditName(x, n)
        \/ \E m \in 0 .. MaxMedium + 1 : EditMedium(x, m)
        \/ DeleteFile(x) \/ ShortenReferences(x)
  BY DEF EditFile, EditByHand
<1>2. /\ EditByHand /\ status = "saved" /\ watched
      /\ status' = status /\ set' = set /\ types' = types /\ paths' = paths
      /\ todo' = todo /\ deferred' = deferred /\ loaded' = loaded
      /\ loadedTypes' = loadedTypes /\ loadedPaths' = loadedPaths
      /\ shown' = shown /\ watched' = watched /\ changed' = TRUE
  <2>1. /\ EditByHand /\ status = "saved" /\ watched /\ shown' = shown
        /\ watched' = watched /\ changed' = TRUE
    BY DEF EditFile, Waits, view
  <2>2. UNCHANGED <<source, status, todo, deferred, result>>
    BY <1>1 DEF EditName, EditMedium, DeleteFile, ShortenReferences, Edit
  <2> QED BY <2>1, <2>2 DEF source, result
<1>3. /\ Description(document) /\ Savable(set, types, paths)
      /\ edits \subseteq {"shorten"} => Describes(document, set, types, paths)
      /\ edits = {} => Absolute(document)
  BY <1>2 DEF ViewerInv, Written
<1>4. Description(document')
  BY <1>2, <1>3, EditedDescription
<1>5. edits' # {}
  BY <1>1 DEF EditName, EditMedium, DeleteFile, ShortenReferences, Edit
<1>6. ASSUME edits' \subseteq {"shorten"}
      PROVE  Describes(document', set, types, paths)
  <2>1. ShortenReferences(x) /\ edits = {}
    BY <1>1, <1>6 DEF EditName, EditMedium, DeleteFile, ShortenReferences, Edit
  <2> QED BY <1>3, <1>4, <2>1, ShortenedDescribes
<1>7. Written'
  BY <1>2, <1>3, <1>4, <1>5, <1>6 DEF Written
<1>8. Progress'
  BY <1>2 DEF ViewerInv, Progress
<1>9. Watching'
  BY <1>2 DEF ViewerInv, Watching
<1> QED BY <1>7, <1>8, <1>9 DEF ViewerInv

LEMMA OpenHolds == ViewerInv /\ Open => ViewerInv'
<1> SUFFICES ASSUME ViewerInv, Open PROVE ViewerInv'
  OBVIOUS
<1>1. /\ MediaSet /\ status = "saved" /\ status' = "entries"
      /\ document' = document /\ edits' = edits
      /\ set' = set /\ types' = types /\ paths' = paths
      /\ shown' = shown /\ watched' = FALSE /\ changed' = FALSE
  BY DEF Open, MediaSet, source, view
<1>2. Description(document) /\ deferred = {} /\ loadedTypes = <<>> /\ loadedPaths = <<>>
  BY <1>1 DEF ViewerInv, Written, Progress, Idle
<1>3. /\ (todo \subseteq document.elements)'
      /\ Reading(Kept(document), Unread, deferred, loaded, loadedTypes, loadedPaths)'
  <2>1. todo' = document.elements
    BY <1>1 DEF MediaSet
  <2>2. Unread' = Kept(document).elements
    BY <1>1, <1>2, <2>1, KeptDescription DEF Unread
  <2> QED BY <1>1, <1>2, <2>1, <2>2, MediaSetReads
<1>4. Written'
  BY <1>1 DEF ViewerInv, Written
<1>5. Progress'
  BY <1>1, <1>3 DEF Progress
<1>6. Watching'
  BY <1>1 DEF ViewerInv, Watching
<1> QED BY <1>4, <1>5, <1>6 DEF ViewerInv

LEMMA LoadFurtherHolds == ViewerInv /\ LoadFurther => ViewerInv'
<1> SUFFICES ASSUME ViewerInv, LoadFurther PROVE ViewerInv'
  OBVIOUS
<1>1. /\ status = "entries" /\ document' = document /\ edits' = edits
      /\ set' = set /\ types' = types /\ paths' = paths
      /\ shown' = shown /\ watched' = watched /\ changed' = changed
      /\ status' \in {"entries", "loaded", "failed", "crashed"}
  BY DEF LoadFurther, LoadElements, Loaded, LoadingFails, LoadingCrashes, Entry, PassOver,
         LoadDeferred, LoadBatchDeferred, source, view
<1>2. /\ Description(document) /\ watched = FALSE
      /\ todo \subseteq document.elements
      /\ Reading(Kept(document), Unread, deferred, loaded, loadedTypes, loadedPaths)
      /\ Description(Kept(document))
      /\ Kept(document).elements = {x \in document.elements : ~LeftOut(document, x)}
  BY <1>1, KeptDescription DEF ViewerInv, Written, Progress, Watching
<1>3. Written' /\ Watching'
  BY <1>1, <1>2 DEF ViewerInv, Written, Watching
<1>4. ASSUME Loaded
      PROVE  Progress'
  <2>1. /\ status' = "loaded" /\ todo' = {} /\ deferred' = {} /\ todo' = todo /\ deferred' = deferred
        /\ loaded' = loaded /\ loadedTypes' = loadedTypes /\ loadedPaths' = loadedPaths
    BY <1>4 DEF Loaded, result
  <2> QED BY <1>1, <1>2, <2>1 DEF Progress, Unread
<1>5. ASSUME LoadingFails
      PROVE  Progress'
  <2>1. /\ status' = "failed" /\ todo' = todo /\ deferred' = deferred
        /\ loaded' = loaded /\ loadedTypes' = loadedTypes /\ loadedPaths' = loadedPaths
    BY <1>5 DEF LoadingFails, result
  <2>2. ~WellFormed(Kept(document))
    BY <1>2, <1>5, FailureJustified DEF Unread
  <2> QED BY <1>1, <1>2, <2>1, <2>2 DEF Progress, Unread
<1>6. ASSUME LoadingCrashes
      PROVE  Progress'
  <2>1. /\ status' = "crashed" /\ todo' = todo /\ deferred' = deferred
        /\ loaded' = loaded /\ loadedTypes' = loadedTypes /\ loadedPaths' = loadedPaths
    BY <1>6 DEF LoadingCrashes, result
  <2>2. Unusual(document) \/ Astray(document)
    BY <1>2, <1>6, CrashJustified DEF Unread
  <2> QED BY <1>1, <1>2, <2>1, <2>2 DEF Progress, Unread
<1>7. ASSUME Reading(Kept(document), Unread, deferred, loaded, loadedTypes, loadedPaths)',
             todo' \subseteq todo, status' = "entries"
      PROVE  Progress'
  BY <1>1, <1>2, <1>7 DEF Progress
<1>8. ASSUME NEW x \in todo, Entry(x)
      PROVE  Progress'
  <2>1. x \in Unread
    BY <1>2, <1>8 DEF Unread, Entry, Acceptable, LeftOut
  <2>2. todo' = todo \ {x} /\ status' = "entries" /\ Unread' = Unread \ {x}
    BY <1>1, <1>8 DEF Entry, Unread
  <2>3. Reading(Kept(document), Unread \ {x}, deferred', loaded', loadedTypes', loadedPaths')
    BY <1>2, <1>8, <2>1, EntryReads
  <2> QED BY <1>1, <1>7, <2>2, <2>3
<1>9. ASSUME NEW x \in todo, PassOver(x)
      PROVE  Progress'
  <2>1. /\ todo' = todo \ {x} /\ status' = "entries" /\ deferred' = deferred
        /\ loaded' = loaded /\ loadedTypes' = loadedTypes /\ loadedPaths' = loadedPaths
    BY <1>9 DEF PassOver, result
  <2>2. Unread' = Unread
    BY <1>1, <1>2, <1>9, <2>1 DEF PassOver, Unread
  <2> QED BY <1>1, <1>2, <1>7, <2>1, <2>2
<1>10. ASSUME NEW x \in deferred, LoadDeferred(x)
       PROVE  Progress'
  <2>1. todo = {} /\ todo' = {} /\ status' = "entries" /\ Unread = {} /\ Unread' = {}
    BY <1>10 DEF LoadDeferred, Unread
  <2>2. Reading(Kept(document), {}, deferred', loaded', loadedTypes', loadedPaths')
    BY <1>2, <1>10, <2>1, LoadDeferredReads
  <2> QED BY <1>1, <1>7, <2>1, <2>2
<1>11. ASSUME NEW x \in deferred, LoadBatchDeferred(x)
       PROVE  Progress'
  <2>1. todo = {} /\ todo' = {} /\ status' = "entries" /\ Unread = {} /\ Unread' = {}
    BY <1>11 DEF LoadBatchDeferred, Unread
  <2>2. Reading(Kept(document), {}, deferred', loaded', loadedTypes', loadedPaths')
    BY <1>2, <1>11, <2>1, LoadBatchDeferredReads
  <2> QED BY <1>1, <1>7, <2>1, <2>2
<1>12. Progress'
  BY <1>4, <1>5, <1>6, <1>8, <1>9, <1>10, <1>11 DEF LoadFurther, LoadElements
<1> QED BY <1>3, <1>12 DEF ViewerInv

(* The loading is over.                                                    *)
LEMMA EndHolds == ViewerInv /\ (Show \/ ReportError \/ Restart) => ViewerInv'
<1> SUFFICES ASSUME ViewerInv, Show \/ ReportError \/ Restart PROVE ViewerInv'
  OBVIOUS
<1>1. /\ status' = "saved" /\ document' = document /\ edits' = edits
      /\ set' = set /\ types' = types /\ paths' = paths
      /\ Idle(todo, deferred, loaded, loadedTypes, loadedPaths)'
      /\ status \in {"loaded", "failed", "crashed"}
  BY DEF Show, ReportError, Restart, ForgetResult, Idle, source
<1>2. /\ Description(document) /\ ~watched /\ changed = FALSE
      /\ Reading(Kept(document), Unread, deferred, loaded, loadedTypes, loadedPaths)
  BY <1>1 DEF ViewerInv, Written, Progress, Watching
<1>3. Written'
  BY <1>1 DEF ViewerInv, Written
<1>4. Progress'
  BY <1>1 DEF Progress
<1>5. Watching'
  <2>1. CASE Show
    <3>1. /\ shown' = Showing(loaded, loadedTypes, loadedPaths) /\ watched' = TRUE /\ changed' = FALSE
          /\ status = "loaded"
      BY <1>2, <2>1 DEF Show, Reset
    <3>2. /\ shown'.ms = loaded /\ shown'.types = loadedTypes /\ shown'.paths = loadedPaths
          /\ shown'.empty = FALSE
      BY <3>1 DEF Showing
    <3>3. /\ Description(Kept(document))
          /\ Reading(Kept(document), {}, {}, loaded, loadedTypes, loadedPaths)
      BY <1>2, <3>1, KeptDescription DEF ViewerInv, Progress, Unread
    <3>4. AsWritten(loaded, loadedTypes, loadedPaths, Kept(document))
      BY <3>3, LoadedWellFormed
    <3>5. Savable(loaded, loadedTypes, loadedPaths)
      BY <1>2 DEF Reading
    <3> QED BY <1>1, <3>1, <3>2, <3>4, <3>5 DEF Watching
  <2>2. CASE ReportError
    <3>1. shown' = shown /\ watched' = watched /\ changed' = changed
      BY <2>2 DEF ReportError, view
    <3> QED BY <1>2, <3>1 DEF ViewerInv, Watching
  <2>3. CASE Restart
    <3>1. shown' = Nothing /\ watched' = FALSE /\ changed' = FALSE
      BY <2>3 DEF Restart
    <3> QED BY <3>1 DEF Watching, Nothing
  <2> QED BY <2>1, <2>2, <2>3
<1> QED BY <1>3, <1>4, <1>5 DEF ViewerInv

LEMMA DecompileHolds == ViewerInv /\ Decompile => ViewerInv'
<1> SUFFICES ASSUME ViewerInv, Decompile PROVE ViewerInv'
  OBVIOUS
<1> DEFINE s == [set EXCEPT !.medium[Root] = EffectiveDefaultMedium(set, Root)]
           ty == [l \in DOMAIN types |-> ReadType(types[l])]
<1>1. PICK p \in SourcePath : shown' = Showing(s, ty, [f \in Files(set) |-> p])
  BY DEF Decompile, Reset
<1>2. UNCHANGED vars /\ watched' = FALSE /\ changed' = FALSE
  BY DEF Decompile
<1>3. Savable(s, ty, [f \in Files(set) |-> p])
  BY DecompiledSavable DEF ViewerInv, Written
<1> HIDE DEF s, ty
<1>4. /\ shown'.ms = s /\ shown'.types = ty /\ shown'.paths = [f \in Files(set) |-> p]
      /\ shown'.empty = FALSE
  BY <1>1 DEF Showing
<1>5. Written' /\ Progress'
  BY <1>2 DEF ViewerInv, Written, Progress, Unread, vars, source, result
<1>6. Watching'
  BY <1>2, <1>3, <1>4 DEF Watching
<1> QED BY <1>5, <1>6 DEF ViewerInv

(* The user in the view.                                                   *)
LEMMA ViewHolds == ViewerInv /\ UNCHANGED <<vars, shown, watched, changed>> => ViewerInv'
BY DEF ViewerInv, Written, Progress, Unread, Watching, vars, source, result

LEMMA ViewerInvariant == ViewerSpec => []ViewerInv
<1>1. ViewerInit => ViewerInv
  BY InitHolds
<1>2. ViewerInv /\ [ViewerNext]_viewerVars => ViewerInv'
  <2> SUFFICES ASSUME ViewerInv, [ViewerNext]_viewerVars PROVE ViewerInv'
    OBVIOUS
  <2>1. CASE SaveFirst
    BY <2>1, SaveHolds
  <2>2. CASE EditFile
    BY <2>2, EditFileHolds
  <2>3. CASE Window
    BY <2>3, OpenHolds, LoadFurtherHolds, EndHolds, DecompileHolds, SaveXmlFileHolds DEF Window
  <2>4. CASE View
    <3>1. Browse
      BY <2>4 DEF View, SelectItem, ActivateElement, SelectTarget
    <3> QED BY <3>1, ViewHolds DEF Browse
  <2>5. CASE UNCHANGED viewerVars
    BY <2>5, ViewHolds DEF viewerVars, view
  <2> QED BY <2>1, <2>2, <2>3, <2>4, <2>5 DEF ViewerNext
<1> QED BY <1>1, <1>2, PTL DEF ViewerSpec

-----------------------------------------------------------------------------
(* Theorems.                                                               *)

(* The variables of the viewer have their types: what is left to be read   *)
(* or linked is from the document, and what is loaded is a media set.      *)
THEOREM ViewerTyping == ViewerSpec => []ViewerTypeOK
<1>1. ViewerInv => ViewerTypeOK
  <2> SUFFICES ASSUME ViewerInv PROVE ViewerTypeOK
    OBVIOUS
  <2>1. CASE status \in {"new", "saved"}
    <3>1. /\ todo = {} /\ deferred = {} /\ loaded \in MediaSetType
          /\ DOMAIN loadedTypes = {} /\ DOMAIN loadedPaths = {}
      <4>1. DOMAIN <<>> = {}
        OBVIOUS
      <4> QED BY <2>1, <4>1, EmptyTyping DEF ViewerInv, Progress, Idle
    <3> QED BY <3>1 DEF ViewerInv, Progress, Watching, ViewerTypeOK, TypeOK
  <2>2. CASE status \notin {"new", "saved"}
    <3>1. /\ todo \subseteq document.elements
          /\ Reading(Kept(document), Unread, deferred, loaded, loadedTypes, loadedPaths)
          /\ Kept(document).elements \subseteq document.elements
      BY <2>2, KeptDescription DEF ViewerInv, Written, Progress
    <3>2. /\ todo \subseteq document.elements /\ deferred \subseteq document.elements \ todo
          /\ loaded \in MediaSetType
          /\ DOMAIN loadedTypes \subseteq Load /\ DOMAIN loadedPaths \subseteq File
      BY <3>1 DEF Reading, Savable, Files, Unread
    <3> QED BY <3>2 DEF ViewerInv, Progress, Watching, ViewerTypeOK, TypeOK
  <2> QED BY <2>1, <2>2
<1> QED BY <1>1, ViewerInvariant, PTL

(* A document is loaded if names are not reserved and unique in each       *)
(* directory, medium numbers fit and references lead to files of the right *)
(* class, but for empty directories with a reserved name and no number,    *)
(* which may be passed over; otherwise it is refused, or the loader        *)
(* crashes over a reserved name or over a load that refers to a file in a  *)
(* directory that is missing: for any order of the elements.               *)
THEOREM DocumentsLoaded == ViewerSpec => []LoadsWellFormed
<1>1. ViewerInv => LoadsWellFormed
  <2> SUFFICES ASSUME ViewerInv PROVE LoadsWellFormed
    OBVIOUS
  <2>1. ASSUME status = "loaded"
        PROVE  WellFormed(Kept(document))
    <3>1. /\ Description(Kept(document))
          /\ Reading(Kept(document), {}, {}, loaded, loadedTypes, loadedPaths)
      BY <2>1, KeptDescription DEF ViewerInv, Written, Progress, Unread
    <3> QED BY <3>1, LoadedWellFormed
  <2> QED BY <2>1 DEF ViewerInv, Progress, LoadsWellFormed, Astray, Unusual
<1> QED BY <1>1, ViewerInvariant, PTL

(* What is loaded is what is written: every element at its path, with its  *)
(* medium number, check value types, load type and source path, loads and  *)
(* batches linked to the files at the paths that their references mean.    *)
THEOREM WhatIsWritten == ViewerSpec => []LoadedAsWritten
<1>1. ViewerInv => LoadedAsWritten
  <2> SUFFICES ASSUME ViewerInv, status = "loaded"
               PROVE  AsWritten(loaded, loadedTypes, loadedPaths, Kept(document))
    BY DEF LoadedAsWritten
  <2>1. /\ Description(Kept(document))
        /\ Reading(Kept(document), {}, {}, loaded, loadedTypes, loadedPaths)
    BY KeptDescription DEF ViewerInv, Written, Progress, Unread
  <2> QED BY <2>1, LoadedWellFormed
<1> QED BY <1>1, ViewerInvariant, PTL

(* Whatever is saved, by a program or by the window, comes back when it is *)
(* loaded, also after references were shortened by hand: the tree, medium  *)
(* numbers, check value types, links, types of loads and source paths.     *)
THEOREM RoundTrips == ViewerSpec => []RoundTrip
<1>1. ViewerInv => RoundTrip
  <2> SUFFICES ASSUME ViewerInv, status = "loaded", edits \subseteq {"shorten"}
               PROVE  /\ loaded = [set EXCEPT !.medium[Root] = IF @ = NoValue THEN FirstMedium ELSE @]
                      /\ loadedTypes = [l \in DOMAIN types |->
                                          IF types[l] = Unnamed THEN NoValue ELSE types[l]]
                      /\ loadedPaths = paths
    BY DEF RoundTrip
  <2>1. /\ Description(document) /\ Savable(set, types, paths)
        /\ Describes(document, set, types, paths)
        /\ Reading(Kept(document), {}, {}, loaded, loadedTypes, loadedPaths)
    BY DEF ViewerInv, Written, Progress, Unread
  <2>2. /\ loaded = [set EXCEPT !.medium[Root] = IF @ = NoValue THEN FirstMedium ELSE @]
        /\ loadedTypes = [l \in DOMAIN types |-> ReadType(types[l])]
        /\ loadedPaths = paths
    BY <2>1, DescribedKept, RoundTripped
  <2> QED BY <2>2 DEF ReadType
<1> QED BY <1>1, ViewerInvariant, PTL

(* While the file is watched and no change of it is pending, the window    *)
(* shows what the file says, whatever was opened, edited, refused,         *)
(* decompiled or saved before.                                             *)
THEOREM WatchedShown == ViewerSpec => []WatchedIsShown
<1>1. ViewerInv => WatchedIsShown
  BY DEF ViewerInv, Watching, WatchedIsShown
<1> QED BY <1>1, ViewerInvariant, PTL

-----------------------------------------------------------------------------
(* Item models.                                                            *)

(* A list of all elements of S, each in one row.                           *)
Lists(l, S) ==
  /\ Cardinality(S) \in Nat /\ l \in [1 .. Cardinality(S) -> S]
  /\ Len(l) = Cardinality(S) /\ DOMAIN l = 1 .. Cardinality(S)
  /\ \A i, j \in 1 .. Cardinality(S) : l[i] = l[j] => i = j
  /\ \A x \in S : \E i \in 1 .. Cardinality(S) : l[i] = x

LEMMA ListOfSet ==
  ASSUME NEW S, IsFiniteSet(S)
  PROVE  Lists(SetToSeq(S), S)
<1> DEFINE n == Cardinality(S)
           l == SetToSeq(S)
<1>1. n \in Nat /\ ExistsBijection(1 .. n, S)
  BY FS_CardinalityType
<1>2. \E f \in [1 .. n -> S] : IsInjective(f)
  BY <1>1 DEF ExistsBijection, Bijection, Injection
<1>3. l \in [1 .. n -> S] /\ IsInjective(l)
  BY <1>2 DEF SetToSeq
<1> HIDE DEF l
<1>4. \A i, j \in 1 .. n : l[i] = l[j] => i = j
  BY <1>3 DEF IsInjective
<1>5. Len(l) = n /\ DOMAIN l = 1 .. n
  BY <1>1, <1>3, LenProperties
<1>6. l \in Surjection(1 .. n, S)
  <2>1. IsFiniteSet(1 .. n) /\ Cardinality(1 .. n) = n
    BY <1>1, FS_Interval
  <2>2. l \in Injection(1 .. n, S)
    BY <1>3 DEF Injection
  <2> QED BY <2>1, <2>2, FS_Injection
<1>7. \A x \in S : \E i \in 1 .. n : l[i] = x
  BY <1>6 DEF Surjection
<1> QED BY <1>1, <1>3, <1>4, <1>5, <1>7 DEF l, Lists

-----------------------------------------------------------------------------
(* Media sets as item models.                                              *)

(* The place of a member among the members of its container, and back.     *)
RowIn(ms, x) ==
  IF x \in Directory THEN RowOf(SubdirectoryList(ms, ms.parent[x]), x)
  ELSE Cardinality(AllSubdirectories(ms, ms.parent[x])) + RowOf(FileList(ms, ms.parent[x]), x)

Count(ms, c) == Cardinality(AllSubdirectories(ms, c)) + Cardinality(AllFiles(ms, c))

ItemAt(ms, c, row) ==
  IF row < Len(SubdirectoryList(ms, c)) THEN SubdirectoryList(ms, c)[row + 1]
  ELSE FileList(ms, c)[row - Len(SubdirectoryList(ms, c)) + 1]

(* A list of distinct elements has each of them in the row that is found.  *)
LEMMA RowFound ==
  ASSUME NEW S, NEW l, Lists(l, S)
  PROVE  /\ Len(l) = Cardinality(S) /\ Cardinality(S) \in Nat
         /\ \A x \in S : RowOf(l, x) \in 0 .. Cardinality(S) - 1 /\ l[RowOf(l, x) + 1] = x
         /\ \A r \in 0 .. Cardinality(S) - 1 : l[r + 1] \in S /\ RowOf(l, l[r + 1]) = r
<1> DEFINE n == Cardinality(S)
<1>0. /\ n \in Nat /\ l \in [1 .. n -> S] /\ Len(l) = n
      /\ \A i, j \in 1 .. n : l[i] = l[j] => i = j
      /\ \A x \in S : \E i \in 1 .. n : l[i] = x
  BY DEF Lists
<1> HIDE DEF n
<1>1. \A x \in S : RowOf(l, x) \in 0 .. n - 1 /\ l[RowOf(l, x) + 1] = x
  <2> SUFFICES ASSUME NEW x \in S
               PROVE  RowOf(l, x) \in 0 .. n - 1 /\ l[RowOf(l, x) + 1] = x
    OBVIOUS
  <2>1. PICK i \in 1 .. n : l[i] = x
    BY <1>0
  <2>2. i - 1 \in 0 .. Len(l) - 1 /\ l[(i - 1) + 1] = x
    BY <1>0, <2>1
  <2>3. \E r \in 0 .. Len(l) - 1 : l[r + 1] = x
    BY <2>2
  <2> QED BY <1>0, <2>3 DEF RowOf
<1>2. ASSUME NEW r \in 0 .. n - 1
      PROVE  l[r + 1] \in S /\ RowOf(l, l[r + 1]) = r
  <2>1. r + 1 \in 1 .. n
    BY <1>0
  <2>2. l[r + 1] \in S
    BY <1>0, <2>1
  <2>3. RowOf(l, l[r + 1]) \in 0 .. n - 1 /\ l[RowOf(l, l[r + 1]) + 1] = l[r + 1]
    BY <1>1, <2>2
  <2>4. RowOf(l, l[r + 1]) + 1 \in 1 .. n
    BY <1>0, <2>3
  <2>5. RowOf(l, l[r + 1]) + 1 = r + 1
    BY <1>0, <2>1, <2>3, <2>4
  <2> QED BY <1>0, <2>2, <2>3, <2>5
<1> QED BY <1>0, <1>1, <1>2 DEF n

LEMMA MemberLists ==
  ASSUME NEW ms, NEW c
  PROVE  LET D == AllSubdirectories(ms, c)
             F == AllFiles(ms, c)
         IN /\ Cardinality(D) \in Nat /\ Cardinality(F) \in Nat
            /\ Len(SubdirectoryList(ms, c)) = Cardinality(D)
            /\ \A x \in D : /\ RowOf(SubdirectoryList(ms, c), x) \in 0 .. Cardinality(D) - 1
                            /\ SubdirectoryList(ms, c)[RowOf(SubdirectoryList(ms, c), x) + 1] = x
            /\ \A r \in 0 .. Cardinality(D) - 1 :
                 /\ SubdirectoryList(ms, c)[r + 1] \in D
                 /\ RowOf(SubdirectoryList(ms, c), SubdirectoryList(ms, c)[r + 1]) = r
            /\ \A x \in F : /\ RowOf(FileList(ms, c), x) \in 0 .. Cardinality(F) - 1
                            /\ FileList(ms, c)[RowOf(FileList(ms, c), x) + 1] = x
            /\ \A r \in 0 .. Cardinality(F) - 1 :
                 /\ FileList(ms, c)[r + 1] \in F
                 /\ RowOf(FileList(ms, c), FileList(ms, c)[r + 1]) = r
<1> DEFINE D == AllSubdirectories(ms, c)
           F == AllFiles(ms, c)
           d == SubdirectoryList(ms, c)
           f == FileList(ms, c)
<1>1. IsFiniteSet(D) /\ IsFiniteSet(F)
  <2>1. D \in SUBSET Entity /\ F \in SUBSET Entity
    BY DEF AllSubdirectories, AllFiles, Entity
  <2> QED BY <2>1, ViewerAssumption, FS_Subset DEF ViewerAssumption
<1>2. d = SetToSeq(D) /\ f = SetToSeq(F)
  BY DEF SubdirectoryList, FileList
<1> HIDE DEF D, F, d, f
<1>3. Lists(d, D) /\ Lists(f, F)
  BY <1>1, <1>2, ListOfSet
<1> QED BY <1>3, RowFound DEF D, F, d, f

(* Rows and members of a container correspond to each other.               *)
LEMMA RowsOfMembers ==
  ASSUME NEW ms, NEW c
  PROVE  /\ Count(ms, c) \in Nat
         /\ \A r \in 0 .. Count(ms, c) - 1 :
              LET x == ItemAt(ms, c, r)
              IN x \in Entity /\ ms.parent[x] = c /\ RowIn(ms, x) = r
         /\ \A x \in Entity : ms.parent[x] = c =>
              RowIn(ms, x) \in 0 .. Count(ms, c) - 1 /\ ItemAt(ms, c, RowIn(ms, x)) = x
<1> DEFINE D == AllSubdirectories(ms, c)
           F == AllFiles(ms, c)
           n == Cardinality(D)
           m == Cardinality(F)
           d == SubdirectoryList(ms, c)
           f == FileList(ms, c)
<1>1. /\ \A x : x \in D <=> x \in Directory /\ ms.parent[x] = c
      /\ \A x : x \in F <=> x \in File /\ ms.parent[x] = c
      /\ \A x \in D : x \in Entity /\ x \in Directory
      /\ \A x \in F : x \in Entity /\ x \notin Directory
      /\ \A x \in Entity : ms.parent[x] = c => x \in D \/ x \in F
  BY Classes DEF AllSubdirectories, AllFiles, Entity
<1>2. /\ n \in Nat /\ m \in Nat /\ Len(d) = n
      /\ \A x \in D : RowOf(d, x) \in 0 .. n - 1 /\ d[RowOf(d, x) + 1] = x
      /\ \A r \in 0 .. n - 1 : d[r + 1] \in D /\ RowOf(d, d[r + 1]) = r
      /\ \A x \in F : RowOf(f, x) \in 0 .. m - 1 /\ f[RowOf(f, x) + 1] = x
      /\ \A r \in 0 .. m - 1 : f[r + 1] \in F /\ RowOf(f, f[r + 1]) = r
  BY MemberLists
<1>3. /\ \A x \in D : RowIn(ms, x) = RowOf(d, x)
      /\ \A x \in F : RowIn(ms, x) = n + RowOf(f, x)
  BY <1>1 DEF RowIn
<1>4. Count(ms, c) = n + m
  BY DEF Count
<1>5. \A r : ItemAt(ms, c, r) = IF r < n THEN d[r + 1] ELSE f[r - n + 1]
  BY <1>2 DEF ItemAt
<1>0. /\ \A x \in D : ms.parent[x] = c
      /\ \A x \in F : ms.parent[x] = c
  BY <1>1
<1> HIDE DEF D, F, n, m, d, f
<1>6. ASSUME NEW r \in 0 .. n + m - 1
      PROVE  LET x == ItemAt(ms, c, r)
             IN x \in Entity /\ ms.parent[x] = c /\ RowIn(ms, x) = r
  <2>1. ASSUME r < n PROVE ItemAt(ms, c, r) \in D /\ RowOf(d, ItemAt(ms, c, r)) = r
    BY <1>2, <1>5, <2>1, SMTT(20)
  <2>2. ASSUME ~(r < n) PROVE ItemAt(ms, c, r) \in F /\ RowOf(f, ItemAt(ms, c, r)) = r - n
    <3>1. r - n \in 0 .. m - 1
      BY <1>2, <2>2
    <3> QED BY <1>2, <1>5, <2>2, <3>1
  <2>3. ASSUME r < n PROVE RowIn(ms, ItemAt(ms, c, r)) = r
    BY <1>3, <2>1, <2>3
  <2>4. ASSUME ~(r < n) PROVE RowIn(ms, ItemAt(ms, c, r)) = r
    BY <1>2, <1>3, <2>2, <2>4
  <2> QED BY <1>0, <1>1, <2>1, <2>2, <2>3, <2>4
<1>7. ASSUME NEW x \in Entity, ms.parent[x] = c
      PROVE  RowIn(ms, x) \in 0 .. n + m - 1 /\ ItemAt(ms, c, RowIn(ms, x)) = x
  <2>1. ASSUME x \in D PROVE RowIn(ms, x) \in 0 .. n + m - 1 /\ ItemAt(ms, c, RowIn(ms, x)) = x
    <3>1. RowIn(ms, x) \in 0 .. n - 1 /\ d[RowIn(ms, x) + 1] = x
      BY <1>2, <1>3, <2>1
    <3> QED BY <1>2, <1>5, <3>1
  <2>2. ASSUME x \in F PROVE RowIn(ms, x) \in 0 .. n + m - 1 /\ ItemAt(ms, c, RowIn(ms, x)) = x
    <3>1. RowOf(f, x) \in 0 .. m - 1 /\ f[RowOf(f, x) + 1] = x /\ RowIn(ms, x) = n + RowOf(f, x)
      BY <1>2, <1>3, <2>2
    <3>2. RowIn(ms, x) \in 0 .. n + m - 1 /\ ~(RowIn(ms, x) < n) /\ RowIn(ms, x) - n = RowOf(f, x)
      BY <1>2, <3>1
    <3> QED BY <1>5, <3>1, <3>2
  <2> QED BY <1>1, <1>7, <2>1, <2>2
<1> QED BY <1>2, <1>4, <1>6, <1>7

-----------------------------------------------------------------------------
(* The index of a member, and of an empty view.                            *)
ItemOf(ms, e) == CreateIndex(IF e = Root THEN 0 ELSE RowIn(ms, e), e)

LEMMA MembersAbove ==
  ASSUME NEW ms, Tree(ms)
  PROVE  /\ Root \in Members(ms) /\ Root \in Container
         /\ \A e \in Members(ms) : e # NoValue /\ (e = Root \/ (e \in Entity /\ InSet(ms, e)))
         /\ \A e \in Entity : InSet(ms, e) => /\ e \in Members(ms) /\ e # Root
                                              /\ ms.parent[e] \in Members(ms)
                                              /\ ms.parent[e] \in Containers(ms)
         /\ \A c \in Containers(ms) : c \in Members(ms) /\ c \in Container /\ c \notin File
         /\ \A c \in Containers(ms) \ {Root} : c \in Directory /\ c \in Entity
<1>1. Root \notin Entity /\ NoValue \notin Entity /\ NoValue # Root
  BY Classes DEF Entity, Container, File
<1>2. \A c \in Containers(ms) : c \in Container /\ c \notin File
  BY Classes DEF Containers, Container
<1> QED BY <1>1, <1>2 DEF Members, Containers, Files, Entity, Container, Tree, ParentsLive, InSet

(* The row below a container has the member that is there.                 *)
LEMMA IndexBelow ==
  ASSUME NEW ms, NEW row, NEW parent, parent # NoIndex,
         parent.pointer \in Container, parent.pointer \notin File
  PROVE  Index(ms, row, parent) = CreateIndex(row, ItemAt(ms, parent.pointer, row))
BY DEF Index, ItemAt

LEMMA RootIndex ==
  ASSUME NEW ms
  PROVE  Index(ms, 0, NoIndex) = ItemOf(ms, Root)
BY Classes DEF Index, ItemOf, NoIndex

LEMMA ItemFields ==
  ASSUME NEW ms, NEW e, e # NoValue
  PROVE  ItemOf(ms, e) # NoIndex /\ ItemOf(ms, e).pointer = e
BY DEF ItemOf, CreateIndex, NoIndex

(* The search for the index of an element ends at its item.                *)
LEMMA IndexFound ==
  ASSUME NEW ms, Tree(ms), NEW e \in Members(ms)
  PROVE  IndexForElement(ms, e) = ItemOf(ms, e)
<1> DEFINE D == Members(ms)
           Step(x, i) ==
             IF x = Root THEN Index(ms, 0, NoIndex)
             ELSE Index(ms, IF x \in Directory THEN RowOf(SubdirectoryList(ms, ms.parent[x]), x)
                            ELSE Cardinality(AllSubdirectories(ms, ms.parent[x]))
                                   + RowOf(FileList(ms, ms.parent[x]), x), i)
           Unfolds(g) == g = [x \in Containers(ms) \cup Files(ms) |-> Step(x, g[ms.parent[x]])]
           index == CHOOSE g : Unfolds(g)
           found == [x \in D |-> ItemOf(ms, x)]
<1>1. \A x, i : Step(x, i) = IF x = Root THEN ItemOf(ms, Root) ELSE Index(ms, RowIn(ms, x), i)
  BY RootIndex DEF RowIn
<1>2. \A x \in D \ {Root} : Index(ms, RowIn(ms, x), ItemOf(ms, ms.parent[x])) = ItemOf(ms, x)
  <2> SUFFICES ASSUME NEW x \in D \ {Root}
               PROVE  Index(ms, RowIn(ms, x), ItemOf(ms, ms.parent[x])) = ItemOf(ms, x)
    OBVIOUS
  <2>1. /\ x \in Entity /\ ms.parent[x] \in Containers(ms) /\ ms.parent[x] \in Members(ms)
        /\ ms.parent[x] \in Container /\ ms.parent[x] \notin File /\ ms.parent[x] # NoValue
    BY MembersAbove
  <2>2. /\ ItemOf(ms, ms.parent[x]) # NoIndex
        /\ ItemOf(ms, ms.parent[x]).pointer = ms.parent[x]
    BY <2>1, ItemFields
  <2>3. ItemAt(ms, ms.parent[x], RowIn(ms, x)) = x
    BY <2>1, RowsOfMembers
  <2>4. Index(ms, RowIn(ms, x), ItemOf(ms, ms.parent[x])) = CreateIndex(RowIn(ms, x), x)
    BY <2>1, <2>2, <2>3, IndexBelow
  <2> QED BY <2>4 DEF ItemOf
<1>3. D = Containers(ms) \cup Files(ms) /\ \A x \in D \ {Root} : ms.parent[x] \in D
  BY MembersAbove DEF Members
<1>4. IndexForElement(ms, e) = index[e]
  BY DEF IndexForElement
<1> HIDE DEF Step
<1>5. Unfolds(found)
  <2> SUFFICES ASSUME NEW x \in D
               PROVE  ItemOf(ms, x) = Step(x, found[ms.parent[x]])
    BY <1>3
  <2>1. ASSUME x = Root PROVE ItemOf(ms, x) = Step(x, found[ms.parent[x]])
    BY <1>1, <2>1
  <2>2. ASSUME x # Root PROVE ItemOf(ms, x) = Step(x, found[ms.parent[x]])
    <3>1. found[ms.parent[x]] = ItemOf(ms, ms.parent[x])
      BY <1>3, <2>2
    <3> QED BY <1>1, <1>2, <2>2, <3>1
  <2> QED BY <2>1, <2>2
<1>6. Unfolds(index)
  BY <1>5
<1> HIDE DEF index
<1>7. \A x \in D : index[x] = Step(x, index[ms.parent[x]])
  BY <1>3, <1>6
<1> DEFINE S == {x \in D : index[x] = ItemOf(ms, x)}
<1>8. Root \in S
  BY <1>1, <1>7, MembersAbove
<1>9. \A x \in D \ {Root} : ms.parent[x] \in S => x \in S
  BY <1>1, <1>2, <1>7
<1>10. S = D
  BY <1>8, <1>9, MembersDown
<1> QED BY <1>4, <1>10

LEMMA ParentItem ==
  ASSUME NEW ms, Tree(ms), NEW x \in Entity, InSet(ms, x), NEW row
  PROVE  Parent(ms, CreateIndex(row, x)) = ItemOf(ms, ms.parent[x])
<1>1. /\ x # Root /\ x # NoValue /\ ms.parent[x] \in Containers(ms)
      /\ ms.parent[x] # Root => ms.parent[x] \in Directory
  BY MembersAbove
<1>2. /\ CreateIndex(row, x) # NoIndex /\ CreateIndex(row, x).pointer = x
  BY <1>1 DEF CreateIndex, NoIndex
<1> QED BY <1>1, <1>2 DEF Parent, ItemOf, RowIn

(* What the model says of the item of a member: how many rows it has, and  *)
(* what is in them.                                                        *)
LEMMA ItemRows ==
  ASSUME NEW ms, Tree(ms), NEW e \in Members(ms)
  PROVE  /\ RowCount(ms, ItemOf(ms, e)) = IF e \in File THEN 0 ELSE Count(ms, e)
         /\ RowCount(ms, ItemOf(ms, e)) \in Nat
         /\ ItemHasChildren(ms, ItemOf(ms, e)) <=> RowCount(ms, ItemOf(ms, e)) > 0
         /\ \A r \in 0 .. RowCount(ms, ItemOf(ms, e)) - 1 :
              LET x == ItemAt(ms, e, r)
              IN /\ Index(ms, r, ItemOf(ms, e)) = CreateIndex(r, x)
                 /\ x \in Entity /\ InSet(ms, x) /\ ms.parent[x] = e /\ RowIn(ms, x) = r
<1> DEFINE i == ItemOf(ms, e)
<1>1. /\ i # NoIndex /\ i.pointer = e /\ e # NoValue
  BY MembersAbove, ItemFields
<1>2. RowCount(ms, i) = IF e \in File THEN 0 ELSE Count(ms, e)
  BY <1>1 DEF RowCount, Count
<1>3. Count(ms, e) \in Nat
  BY RowsOfMembers
<1>4. ASSUME e \notin File
      PROVE  e \in Container
  BY <1>4 DEF Members, Containers, Files, Container
<1>5. ItemHasChildren(ms, i) <=> RowCount(ms, i) > 0
  <2>1. ItemHasChildren(ms, i)
          <=> e \in Container /\ (AllSubdirectories(ms, e) # {} \/ AllFiles(ms, e) # {})
    BY <1>1 DEF ItemHasChildren, HasChildren
  <2>2. e \in File => e \notin Container
    BY Classes DEF Container
  <2>3. IsFiniteSet(AllSubdirectories(ms, e)) /\ IsFiniteSet(AllFiles(ms, e))
    <3>1. AllSubdirectories(ms, e) \in SUBSET Entity /\ AllFiles(ms, e) \in SUBSET Entity
      BY DEF AllSubdirectories, AllFiles, Entity
    <3> QED BY <3>1, ViewerAssumption, FS_Subset DEF ViewerAssumption
  <2>4. /\ Cardinality(AllSubdirectories(ms, e)) \in Nat /\ Cardinality(AllFiles(ms, e)) \in Nat
        /\ Cardinality(AllSubdirectories(ms, e)) = 0 <=> AllSubdirectories(ms, e) = {}
        /\ Cardinality(AllFiles(ms, e)) = 0 <=> AllFiles(ms, e) = {}
    BY <2>3, FS_EmptySet, FS_CardinalityType
  <2>5. Count(ms, e) > 0 <=> (AllSubdirectories(ms, e) # {} \/ AllFiles(ms, e) # {})
    BY <2>4 DEF Count
  <2>6. ASSUME e \in File PROVE ItemHasChildren(ms, i) <=> RowCount(ms, i) > 0
    BY <1>2, <2>1, <2>2, <2>6
  <2>7. ASSUME e \notin File PROVE ItemHasChildren(ms, i) <=> RowCount(ms, i) > 0
    BY <1>2, <1>4, <2>1, <2>5, <2>7
  <2> QED BY <2>6, <2>7
<1>6. ASSUME NEW r \in 0 .. RowCount(ms, i) - 1
      PROVE  LET x == ItemAt(ms, e, r)
             IN /\ Index(ms, r, i) = CreateIndex(r, x)
                /\ x \in Entity /\ InSet(ms, x) /\ ms.parent[x] = e /\ RowIn(ms, x) = r
  <2>1. e \notin File /\ RowCount(ms, i) = Count(ms, e)
    BY <1>2
  <2>2. Index(ms, r, i) = CreateIndex(r, ItemAt(ms, e, r))
    BY <1>1, <1>4, <2>1, IndexBelow
  <2>3. LET x == ItemAt(ms, e, r) IN x \in Entity /\ ms.parent[x] = e /\ RowIn(ms, x) = r
    BY <2>1, RowsOfMembers
  <2> QED BY <1>1, <2>2, <2>3 DEF InSet
<1> QED BY <1>2, <1>3, <1>5, <1>6

(* The item model of a media set is what Qt demands.                       *)
LEMMA MediaSetModelled ==
  ASSUME NEW ms, Tree(ms)
  PROVE  MediaSetModelSound(ms)
<1> DEFINE Idx(r, p) == Index(ms, r, p)
           Par(i) == Parent(ms, i)
           Cnt(i) == RowCount(ms, i)
           Has(i) == ItemHasChildren(ms, i)
           elements == {e \in Entity : InSet(ms, e)}
<1>1. elements \cup {Root} = Members(ms) /\ \A e \in elements : e \in Members(ms) /\ e \in Entity /\ InSet(ms, e)
  BY MembersAbove
<1>2. \A e \in Members(ms) : IndexForElement(ms, e) = ItemOf(ms, e)
  BY IndexFound
<1>3. ItemModelAt(NoIndex, Idx, Par, Cnt, Has)
  <2>1. Has(NoIndex) /\ Cnt(NoIndex) = 1
    BY DEF ItemHasChildren, RowCount
  <2>2. \A r \in 0 .. Cnt(NoIndex) - 1 :
          Idx(r, NoIndex).row = r /\ Idx(r, NoIndex) # NoIndex /\ Par(Idx(r, NoIndex)) = NoIndex
    <3> SUFFICES ASSUME NEW r, r = 0
                 PROVE  Idx(r, NoIndex).row = r /\ Idx(r, NoIndex) # NoIndex /\ Par(Idx(r, NoIndex)) = NoIndex
      BY <2>1
    <3>1. Idx(r, NoIndex) = ItemOf(ms, Root)
      BY RootIndex
    <3>2. ItemOf(ms, Root) # NoIndex /\ ItemOf(ms, Root).pointer = Root /\ ItemOf(ms, Root).row = 0
      BY Classes, ItemFields DEF ItemOf, CreateIndex
    <3>3. Parent(ms, ItemOf(ms, Root)) = NoIndex
      BY <3>2 DEF Parent
    <3> QED BY <3>1, <3>2, <3>3
  <2> HIDE DEF Idx, Par, Cnt, Has
  <2> QED BY <2>1, <2>2 DEF ItemModelAt
<1>4. ASSUME NEW e \in Members(ms)
      PROVE  ItemModelAt(ItemOf(ms, e), Idx, Par, Cnt, Has)
  <2> DEFINE i == ItemOf(ms, e)
  <2>1. Has(i) <=> Cnt(i) > 0
    BY ItemRows
  <2>2. ASSUME NEW r \in 0 .. Cnt(i) - 1
        PROVE  Idx(r, i).row = r /\ Idx(r, i) # NoIndex /\ Par(Idx(r, i)) = i
    <3> DEFINE x == ItemAt(ms, e, r)
    <3>1. Idx(r, i) = CreateIndex(r, x) /\ x \in Entity /\ InSet(ms, x) /\ ms.parent[x] = e
      BY ItemRows
    <3>2. x # NoValue
      BY <3>1, MembersAbove
    <3> HIDE DEF x
    <3>3. CreateIndex(r, x).row = r /\ CreateIndex(r, x) # NoIndex
      BY <3>2 DEF CreateIndex, NoIndex
    <3>4. Parent(ms, CreateIndex(r, x)) = i
      BY <3>1, ParentItem
    <3> QED BY <3>1, <3>3, <3>4
  <2> HIDE DEF Idx, Par, Cnt, Has, i
  <2>3. ItemModelAt(i, Idx, Par, Cnt, Has)
    BY <2>1, <2>2 DEF ItemModelAt
  <2> QED BY <2>3 DEF i
<1>5. ASSUME NEW e \in elements
      PROVE  LET i == IndexForElement(ms, e)
             IN i.pointer = e /\ Parent(ms, i) = IndexForElement(ms, ms.parent[e])
  <2>1. /\ e \in Members(ms) /\ e \in Entity /\ InSet(ms, e) /\ e # NoValue /\ e # Root
        /\ ms.parent[e] \in Members(ms)
    BY MembersAbove
  <2>2. ItemOf(ms, e).pointer = e
    BY <2>1, ItemFields
  <2>3. Parent(ms, ItemOf(ms, e)) = ItemOf(ms, ms.parent[e])
    BY <2>1, ParentItem DEF ItemOf
  <2> QED BY <1>2, <2>1, <2>2, <2>3
<1>6. ASSUME NEW c \in Containers(ms)
      PROVE  LET content == Content(ms, IndexForElement(ms, c))
             IN IsInjective(content) /\ Range(content) = {e \in elements : ms.parent[e] = c}
  <2> DEFINE i == ItemOf(ms, c)
             content == Content(ms, i)
             n == RowCount(ms, i)
  <2>1. c \in Members(ms) /\ c \notin File /\ IndexForElement(ms, c) = i
    BY <1>2, MembersAbove
  <2>2. n \in Nat /\ n = Count(ms, c)
    BY <2>1, ItemRows
  <2>3. DOMAIN content = 1 .. n /\ \A k \in 1 .. n : content[k] = Index(ms, k - 1, i).pointer
    BY DEF Content
  <2>4. \A r \in 0 .. n - 1 :
          LET x == ItemAt(ms, c, r)
          IN Index(ms, r, i).pointer = x /\ x \in elements /\ ms.parent[x] = c /\ RowIn(ms, x) = r
    BY <2>1, ItemRows DEF CreateIndex
  <2> HIDE DEF i, content, n
  <2>5. \A k \in 1 .. n : /\ content[k] \in elements /\ ms.parent[content[k]] = c
                          /\ RowIn(ms, content[k]) = k - 1
    BY <2>2, <2>3, <2>4
  <2>6. IsInjective(content)
    <3> SUFFICES ASSUME NEW j \in 1 .. n, NEW k \in 1 .. n, content[j] = content[k]
                 PROVE  j = k
      BY <2>3 DEF IsInjective
    <3>1. j - 1 = k - 1
      BY <2>5
    <3> QED BY <2>2, <3>1
  <2>7. ASSUME NEW e \in elements, ms.parent[e] = c
        PROVE  \E k \in 1 .. n : content[k] = e
    <3>1. RowIn(ms, e) \in 0 .. n - 1 /\ ItemAt(ms, c, RowIn(ms, e)) = e
      BY <2>2, <2>7, RowsOfMembers
    <3>2. RowIn(ms, e) + 1 \in 1 .. n /\ (RowIn(ms, e) + 1) - 1 = RowIn(ms, e)
      BY <2>2, <3>1
    <3>3. content[RowIn(ms, e) + 1] = Index(ms, RowIn(ms, e), i).pointer
      BY <2>3, <3>2
    <3> QED BY <2>4, <3>1, <3>2, <3>3
  <2>8. Range(content) = {e \in elements : ms.parent[e] = c}
    BY <2>3, <2>5, <2>7 DEF Range
  <2> QED BY <2>1, <2>6, <2>8 DEF content
<1>7. \A i \in {NoIndex} \cup {IndexForElement(ms, e) : e \in elements \cup {Root}} :
        ItemModelAt(i, Idx, Par, Cnt, Has)
  <2> SUFFICES ASSUME NEW i \in {NoIndex} \cup {IndexForElement(ms, e) : e \in elements \cup {Root}}
               PROVE  ItemModelAt(i, Idx, Par, Cnt, Has)
    OBVIOUS
  <2>1. ASSUME i # NoIndex
        PROVE  \E e \in Members(ms) : i = ItemOf(ms, e)
    BY <1>1, <1>2, <2>1
  <2> HIDE DEF Idx, Par, Cnt, Has
  <2> QED BY <1>3, <1>4, <2>1
<1>8. MediaSetModelSound(ms) <=>
        /\ \A i \in {NoIndex} \cup {IndexForElement(ms, e) : e \in elements \cup {Root}} :
             ItemModelAt(i, Idx, Par, Cnt, Has)
        /\ \A e \in elements : LET i == IndexForElement(ms, e)
                               IN i.pointer = e /\ Parent(ms, i) = IndexForElement(ms, ms.parent[e])
        /\ \A c \in Containers(ms) :
             LET content == Content(ms, IndexForElement(ms, c))
             IN IsInjective(content) /\ Range(content) = {e \in elements : ms.parent[e] = c}
  BY DEF MediaSetModelSound
<1> HIDE DEF Idx, Par, Cnt, Has, elements
<1> QED BY <1>5, <1>6, <1>7, <1>8

-----------------------------------------------------------------------------
(* Target hardware as an item model: IDs have no pointer, positions have   *)
(* the row of their ID.                                                    *)
LEMMA HardwareRows ==
  ASSUME NEW h \in Seq(Nat)
  PROVE  /\ HardwareRowCount(h, NoIndex) = Len(h) /\ Len(h) \in Nat
         /\ HardwareHasChildren(h, NoIndex) <=> Len(h) > 0
         /\ \A r \in 0 .. Len(h) - 1 : HardwareIndex(h, r, NoIndex) = CreateIndex(r, NoValue)
         /\ \A r \in 0 .. Len(h) - 1 :
              LET i == CreateIndex(r, NoValue)
              IN /\ HardwareRowCount(h, i) \in Nat
                 /\ HardwareRowCount(h, i) = h[r + 1]
                 /\ HardwareHasChildren(h, i) <=> HardwareRowCount(h, i) > 0
                 /\ i # NoIndex /\ i.row = r /\ HardwareParent(h, i) = NoIndex
                 /\ \A k \in 0 .. HardwareRowCount(h, i) - 1 :
                      HardwareIndex(h, k, i) = CreateIndex(k, r + 1)
         /\ \A r \in 0 .. Len(h) - 1, k \in Nat :
              LET i == CreateIndex(k, r + 1)
              IN /\ HardwareRowCount(h, i) = 0 /\ ~HardwareHasChildren(h, i)
                 /\ i # NoIndex /\ i.row = k /\ HardwareParent(h, i) = CreateIndex(r, NoValue)
<1>1. /\ Len(h) \in Nat /\ \A r \in 0 .. Len(h) - 1 : r \in Nat /\ r + 1 \in 1 .. Len(h) /\ h[r + 1] \in Nat
      /\ Len(h) > 0 <=> h # <<>>
  BY EmptySeq
<1>2. \A n \in Nat : n # NoValue
  BY Classes
<1>3. /\ HardwareRowCount(h, NoIndex) = Len(h) /\ Len(h) \in Nat
      /\ HardwareHasChildren(h, NoIndex) <=> Len(h) > 0
      /\ \A r \in 0 .. Len(h) - 1 : HardwareIndex(h, r, NoIndex) = CreateIndex(r, NoValue)
  BY <1>1 DEF HardwareRowCount, HardwareHasChildren, HardwareIndex
<1>4. ASSUME NEW r \in 0 .. Len(h) - 1
      PROVE  LET i == CreateIndex(r, NoValue)
              IN /\ HardwareRowCount(h, i) \in Nat
                 /\ HardwareRowCount(h, i) = h[r + 1]
                 /\ HardwareHasChildren(h, i) <=> HardwareRowCount(h, i) > 0
                 /\ i # NoIndex /\ i.row = r /\ HardwareParent(h, i) = NoIndex
                 /\ \A k \in 0 .. HardwareRowCount(h, i) - 1 :
                      HardwareIndex(h, k, i) = CreateIndex(k, r + 1)
  <2> DEFINE i == CreateIndex(r, NoValue)
  <2>1. i # NoIndex /\ i.row = r /\ i.pointer = NoValue
    BY <1>1 DEF CreateIndex, NoIndex
  <2> HIDE DEF i
  <2>2. HardwareRowCount(h, i) = h[r + 1] /\ h[r + 1] \in Nat /\ (HardwareHasChildren(h, i) <=> h[r + 1] # 0)
    BY <1>1, <2>1 DEF HardwareRowCount, HardwareHasChildren
  <2>3. HardwareParent(h, i) = NoIndex
    BY <2>1 DEF HardwareParent
  <2>4. \A k \in 0 .. h[r + 1] - 1 : HardwareIndex(h, k, i) = CreateIndex(k, r + 1)
    BY <1>1, <2>1 DEF HardwareIndex
  <2>5. HardwareRowCount(h, i) \in Nat /\ (HardwareHasChildren(h, i) <=> HardwareRowCount(h, i) > 0)
    BY <2>2
  <2> QED BY <2>1, <2>2, <2>3, <2>4, <2>5 DEF i
<1>5. ASSUME NEW r \in 0 .. Len(h) - 1, NEW k \in Nat
      PROVE  LET i == CreateIndex(k, r + 1)
              IN /\ HardwareRowCount(h, i) = 0 /\ ~HardwareHasChildren(h, i)
                 /\ i # NoIndex /\ i.row = k /\ HardwareParent(h, i) = CreateIndex(r, NoValue)
  <2> DEFINE i == CreateIndex(k, r + 1)
  <2>1. r + 1 \in Nat /\ (r + 1) - 1 = r
    OBVIOUS
  <2>2. i # NoIndex /\ i.row = k /\ i.pointer = r + 1 /\ i.pointer # NoValue
    BY <1>2, <2>1 DEF CreateIndex, NoIndex
  <2> HIDE DEF i
  <2> QED BY <2>1, <2>2 DEF i, HardwareRowCount, HardwareHasChildren, HardwareParent
<1> QED BY <1>3, <1>4, <1>5

LEMMA HardwareModelled ==
  ASSUME NEW h \in Seq(Nat)
  PROVE  HardwareModelSound(h)
<1> DEFINE Idx(r, p) == HardwareIndex(h, r, p)
           Par(i) == HardwareParent(h, i)
           Cnt(i) == HardwareRowCount(h, i)
           Has(i) == HardwareHasChildren(h, i)
           ids == {HardwareIndex(h, r, NoIndex) : r \in 0 .. Len(h) - 1}
           positions == UNION {{HardwareIndex(h, r, i) : r \in 0 .. h[i.row + 1] - 1} : i \in ids}
<1>1. \A i \in ids : \E r \in 0 .. Len(h) - 1 : i = CreateIndex(r, NoValue)
  BY HardwareRows
<1>2. \A i \in positions : \E r \in 0 .. Len(h) - 1, k \in Nat : i = CreateIndex(k, r + 1)
  <2> SUFFICES ASSUME NEW i \in positions
               PROVE  \E r \in 0 .. Len(h) - 1, n \in Nat : i = CreateIndex(n, r + 1)
    OBVIOUS
  <2>0. PICK j \in ids : i \in {HardwareIndex(h, r, j) : r \in 0 .. h[j.row + 1] - 1}
    OBVIOUS
  <2>5. PICK k \in 0 .. h[j.row + 1] - 1 : i = HardwareIndex(h, k, j)
    BY <2>0
  <2>1. PICK r \in 0 .. Len(h) - 1 : j = CreateIndex(r, NoValue)
    BY <1>1
  <2> HIDE DEF ids, positions
  <2>2. /\ HardwareRowCount(h, j) \in Nat /\ HardwareRowCount(h, j) = h[r + 1] /\ j.row = r
        /\ \A n \in 0 .. HardwareRowCount(h, j) - 1 : HardwareIndex(h, n, j) = CreateIndex(n, r + 1)
    <3>1. LET c == CreateIndex(r, NoValue)
          IN /\ HardwareRowCount(h, c) \in Nat /\ HardwareRowCount(h, c) = h[r + 1] /\ c.row = r
             /\ \A n \in 0 .. HardwareRowCount(h, c) - 1 : HardwareIndex(h, n, c) = CreateIndex(n, r + 1)
      BY HardwareRows
    <3> QED BY <2>1, <3>1
  <2>3. HardwareIndex(h, k, j) = CreateIndex(k, r + 1) /\ k \in Nat
    BY <2>2
  <2> QED BY <2>3, <2>5
<1>3. ItemModelAt(NoIndex, Idx, Par, Cnt, Has)
  <2>1. Has(NoIndex) <=> Cnt(NoIndex) > 0
    BY HardwareRows
  <2>2. \A r \in 0 .. Cnt(NoIndex) - 1 :
          Idx(r, NoIndex).row = r /\ Idx(r, NoIndex) # NoIndex /\ Par(Idx(r, NoIndex)) = NoIndex
    BY HardwareRows
  <2> HIDE DEF Idx, Par, Cnt, Has
  <2> QED BY <2>1, <2>2 DEF ItemModelAt
<1>4. ASSUME NEW r \in 0 .. Len(h) - 1
      PROVE  ItemModelAt(CreateIndex(r, NoValue), Idx, Par, Cnt, Has)
  <2> DEFINE i == CreateIndex(r, NoValue)
  <2>1. Has(i) <=> Cnt(i) > 0
    BY HardwareRows
  <2>2. ASSUME NEW k \in 0 .. Cnt(i) - 1
        PROVE  Idx(k, i).row = k /\ Idx(k, i) # NoIndex /\ Par(Idx(k, i)) = i
    <3>1. HardwareIndex(h, k, i) = CreateIndex(k, r + 1) /\ k \in Nat
      BY HardwareRows
    <3>2. /\ CreateIndex(k, r + 1) # NoIndex /\ CreateIndex(k, r + 1).row = k
          /\ HardwareParent(h, CreateIndex(k, r + 1)) = i
      BY <3>1, HardwareRows
    <3> QED BY <3>1, <3>2
  <2> HIDE DEF Idx, Par, Cnt, Has, i
  <2>3. ItemModelAt(i, Idx, Par, Cnt, Has)
    BY <2>1, <2>2 DEF ItemModelAt
  <2> QED BY <2>3 DEF i
<1>5. ASSUME NEW r \in 0 .. Len(h) - 1, NEW k \in Nat
      PROVE  ItemModelAt(CreateIndex(k, r + 1), Idx, Par, Cnt, Has)
  <2> DEFINE i == CreateIndex(k, r + 1)
  <2>1. ~Has(i) /\ Cnt(i) = 0
    BY HardwareRows, ZenonT(30)
  <2> HIDE DEF Idx, Par, Cnt, Has, i
  <2>3. ItemModelAt(i, Idx, Par, Cnt, Has)
    BY <2>1 DEF ItemModelAt
  <2> QED BY <2>3 DEF i
<1>6. HardwareModelSound(h) <=>
        \A i \in {NoIndex} \cup ids \cup positions : ItemModelAt(i, Idx, Par, Cnt, Has)
  BY DEF HardwareModelSound
<1> HIDE DEF Idx, Par, Cnt, Has, ids, positions
<1> QED BY <1>1, <1>2, <1>3, <1>4, <1>5, <1>6

-----------------------------------------------------------------------------
(* What the view shows: the item of a member, and pages whose tables lead  *)
(* to members.                                                             *)

TableSound(ms, e, t, table) ==
  /\ table \in Seq(Entity)
  /\ \A x \in Range(table) :
       /\ InSet(ms, x)
       /\ t = "content" => ms.parent[x] = e
       /\ t = "usedInLoads" => e \in ms.data[x] \cup ms.support[x]

TablesSound(ms, e, tables) == \A t \in DOMAIN tables : TableSound(ms, e, t, tables[t])

SameTables(ms, e, tables) == \E t \in Pages(ms, ItemOf(ms, e)) : DOMAIN t = DOMAIN tables

ViewOf(sh, cur, pg) ==
  IF sh.empty THEN cur = NoIndex /\ pg = NoPage
  ELSE /\ cur.pointer \in Members(sh.ms) /\ cur = ItemOf(sh.ms, cur.pointer)
       /\ pg = [element |-> cur.pointer, tables |-> pg.tables]
       /\ TablesSound(sh.ms, cur.pointer, pg.tables)
       /\ SameTables(sh.ms, cur.pointer, pg.tables)

Viewing == ViewOf(shown, current, page)

(* A list of members, in a table that is about nothing else.               *)
LEMMA ListSound ==
  ASSUME NEW ms, NEW e, NEW t, t # "content",
         NEW S \in SUBSET Entity, \A x \in S : InSet(ms, x),
         t = "usedInLoads" => \A x \in S : e \in ms.data[x] \cup ms.support[x]
  PROVE  TableSound(ms, e, t, SetToSeq(S))
<1>1. IsFiniteSet(S)
  BY ViewerAssumption, FS_Subset DEF ViewerAssumption
<1>2. Lists(SetToSeq(S), S)
  BY <1>1, ListOfSet
<1> DEFINE l == SetToSeq(S)
<1> HIDE DEF l
<1>3. Cardinality(S) \in Nat /\ l \in [1 .. Cardinality(S) -> S]
  BY <1>2 DEF Lists, l
<1>4. l \in Seq(Entity)
  BY <1>3
<1>5. \A x \in Range(l) : x \in S
  BY <1>3 DEF Range
<1>6. TableSound(ms, e, t, l)
  BY <1>4, <1>5 DEF TableSound
<1> QED BY <1>6 DEF l

LEMMA ContentSound ==
  ASSUME NEW ms, Tree(ms), NEW c \in Containers(ms)
  PROVE  TableSound(ms, c, "content", Content(ms, ItemOf(ms, c)))
<1> DEFINE i == ItemOf(ms, c)
           content == Content(ms, i)
           n == RowCount(ms, i)
<1>1. c \in Members(ms)
  BY MembersAbove
<1>2. n \in Nat
  BY <1>1, ItemRows
<1>3. \A k \in 1 .. n : content[k] = Index(ms, k - 1, i).pointer
  BY DEF Content
<1>4. \A r \in 0 .. n - 1 :
        LET x == ItemAt(ms, c, r)
        IN Index(ms, r, i).pointer = x /\ x \in Entity /\ InSet(ms, x) /\ ms.parent[x] = c
  BY <1>1, ItemRows DEF CreateIndex
<1>5. content = [k \in 1 .. n |-> content[k]]
  BY DEF Content
<1> HIDE DEF i, content, n
<1>6. \A k \in 1 .. n : content[k] \in Entity /\ InSet(ms, content[k]) /\ ms.parent[content[k]] = c
  BY <1>2, <1>3, <1>4
<1>7. content \in Seq(Entity)
  BY <1>2, <1>5, <1>6
<1>8. \A x \in Range(content) : \E k \in 1 .. n : x = content[k]
  BY <1>5 DEF Range
<1>9. TableSound(ms, c, "content", content)
  BY <1>6, <1>7, <1>8 DEF TableSound
<1> QED BY <1>9 DEF content, i

(* The loads of a target of a batch.                                       *)
LEMMA TargetsSound ==
  ASSUME NEW ms, ms \in MediaSetType, LiveLinks(ms), NEW b \in Batch, NEW e
  PROVE  /\ \A r \in DOMAIN TargetRows(ms, b) : TableSound(ms, e, "loads", TargetRows(ms, b)[r])
         /\ TargetRows(ms, b) # <<>> => 1 \in DOMAIN TargetRows(ms, b)
<1> DEFINE P == {p \in Position : ms.targets[b][p] # NoValue}
           positions == SetToSeq(P)
<1>1. Lists(positions, P)
  BY ViewerAssumption, FS_Subset, ListOfSet DEF ViewerAssumption
<1>2. TargetRows(ms, b) = [r \in DOMAIN positions |-> LoadRows(ms.targets[b][positions[r]])]
  BY DEF TargetRows
<1>3. \A p \in P : ms.targets[b][p] \in SUBSET Entity /\ \A x \in ms.targets[b][p] : InSet(ms, x)
  BY DEF LiveLinks, Files, Entity
<1> HIDE DEF P, positions
<1>4. /\ Cardinality(P) \in Nat /\ positions \in [1 .. Cardinality(P) -> P]
      /\ DOMAIN positions = 1 .. Cardinality(P)
  BY <1>1 DEF Lists
<1>5. ASSUME NEW r \in DOMAIN TargetRows(ms, b)
      PROVE  TableSound(ms, e, "loads", TargetRows(ms, b)[r])
  <2>1. r \in DOMAIN positions /\ positions[r] \in P
    BY <1>2, <1>4
  <2> DEFINE S == ms.targets[b][positions[r]]
  <2>2. S \in SUBSET Entity /\ (\A x \in S : InSet(ms, x)) /\ TargetRows(ms, b)[r] = SetToSeq(S)
    BY <1>2, <1>3, <2>1 DEF LoadRows
  <2> HIDE DEF S
  <2> QED BY <2>2, ListSound
<1>6. TargetRows(ms, b) # <<>> => 1 \in DOMAIN TargetRows(ms, b)
  <2>1. ASSUME Cardinality(P) = 0 PROVE TargetRows(ms, b) = <<>>
    <3>1. DOMAIN positions = {}
      BY <1>4, <2>1
    <3> QED BY <1>2, <3>1
  <2> QED BY <1>2, <1>4, <2>1
<1> QED BY <1>5, <1>6

(* Every page of a member has sound tables.                                *)
LEMMA PagesSound ==
  ASSUME NEW ms, ms \in MediaSetType, Proper(ms), NEW e \in Members(ms),
         NEW tables \in Pages(ms, ItemOf(ms, e))
  PROVE  TablesSound(ms, e, tables)
<1>1. Tree(ms) /\ LiveLinks(ms)
  BY DEF Proper
<1>2. ItemOf(ms, e).pointer = e /\ (e = Root \/ (e \in Entity /\ InSet(ms, e)))
      /\ Root \in Members(ms)
  BY <1>1, MembersAbove, ItemFields
<1>3. \A f \in Files(ms) : f \in Entity /\ InSet(ms, f)
  BY DEF Files, Entity
<1>4. RecursiveFiles(ms, Root, NoValue) \subseteq Files(ms)
  BY <1>1, RecursiveFilesOfRoot
<1>5. CASE e = Root
  <2>1. tables = MediaSetPage(ms)
    BY <1>2, <1>5, Classes DEF Pages
  <2>2. IndexForElement(ms, Root) = ItemOf(ms, Root) /\ Root \in Containers(ms)
    BY <1>1, <1>2, IndexFound DEF Containers
  <2>3. TableSound(ms, e, "content", Content(ms, IndexForElement(ms, Root)))
    BY <1>1, <1>5, <2>2, ContentSound
  <2>4. TableSound(ms, e, "loads", LoadRows(RecursiveLoads(ms)))
    <3>1. RecursiveLoads(ms) \in SUBSET Entity /\ \A x \in RecursiveLoads(ms) : InSet(ms, x)
      BY <1>3, <1>4 DEF RecursiveLoads
    <3> QED BY <3>1, ListSound DEF LoadRows
  <2>5. TableSound(ms, e, "batches", BatchRows(RecursiveBatches(ms)))
    <3>1. RecursiveBatches(ms) \in SUBSET Entity /\ \A x \in RecursiveBatches(ms) : InSet(ms, x)
      BY <1>3, <1>4 DEF RecursiveBatches
    <3> QED BY <3>1, ListSound DEF BatchRows
  <2>6. /\ DOMAIN tables = {"content", "loads", "batches"}
        /\ tables["content"] = Content(ms, IndexForElement(ms, Root))
        /\ tables["loads"] = LoadRows(RecursiveLoads(ms))
        /\ tables["batches"] = BatchRows(RecursiveBatches(ms))
    BY <2>1 DEF MediaSetPage
  <2> QED BY <2>3, <2>4, <2>5, <2>6 DEF TablesSound
<1>6. CASE e \in Directory
  <2>1. tables = DirectoryPage(ms, ItemOf(ms, e)) /\ e \in Containers(ms)
    BY <1>2, <1>6, Classes DEF Pages, Containers
  <2>2. DOMAIN tables = {"content"} /\ tables["content"] = Content(ms, ItemOf(ms, e))
    BY <2>1 DEF DirectoryPage
  <2>3. TableSound(ms, e, "content", Content(ms, ItemOf(ms, e)))
    BY <1>1, <2>1, ContentSound
  <2> QED BY <2>2, <2>3 DEF TablesSound
<1>7. ASSUME e \in File
      PROVE  tables \in FilePage(ms, e)
  BY <1>2, <1>7, Classes DEF Pages
<1>8. CASE e \in RegularFile
  <2>1. tables \in RegularFilePage(ms, e)
    BY <1>7, <1>8, Classes DEF FilePage, File
  <2>2. PICK loads \in LoadsWithFile(ms, e) : tables = [usedInLoads |-> LoadRows(loads)]
    BY <2>1 DEF RegularFilePage
  <2>3. \A l \in loads : l \in RecursiveLoads(ms) /\ e \in ms.data[l] \cup ms.support[l]
    <3> DEFINE users == {l \in RecursiveLoads(ms) : e \in ms.data[l]}
               supported == {l \in RecursiveLoads(ms) \ users : e \in ms.support[l]}
               candidates == IF users = {} THEN {supported}
                             ELSE {{l} \cup before : l \in users, before \in SUBSET supported}
    <3>0. LoadsWithFile(ms, e) = candidates
      BY DEF LoadsWithFile
    <3>1. loads \in candidates
      BY <2>2, <3>0, SMTT(20)
    <3>2. loads \subseteq users \cup supported
      <4>1. ASSUME users = {} PROVE loads \subseteq users \cup supported
        BY <3>1, <4>1
      <4>2. ASSUME users # {} PROVE loads \subseteq users \cup supported
        <5>1. loads \in {{l} \cup before : l \in users, before \in SUBSET supported}
          BY <3>1, <4>2
        <5>2. PICK l \in users : \E before \in SUBSET supported : loads = {l} \cup before
          BY <5>1
        <5>3. PICK before \in SUBSET supported : loads = {l} \cup before
          BY <5>2
        <5> QED BY <5>3
      <4> QED BY <4>1, <4>2
    <3> QED BY <3>2
  <2>4. loads \in SUBSET Entity /\ \A x \in loads : InSet(ms, x)
    BY <1>3, <1>4, <2>3 DEF RecursiveLoads
  <2>5. TableSound(ms, e, "usedInLoads", LoadRows(loads))
    BY <2>3, <2>4, ListSound DEF LoadRows
  <2>6. DOMAIN tables = {"usedInLoads"} /\ tables["usedInLoads"] = LoadRows(loads)
    BY <2>2
  <2> QED BY <2>5, <2>6 DEF TablesSound
<1>9. CASE e \in Load
  <2>1. tables = LoadPage(ms, e)
    BY <1>7, <1>9, Classes DEF FilePage, File
  <2>2. /\ DOMAIN tables = {"dataFiles", "supportFiles", "usedInBatches"}
        /\ tables["dataFiles"] = SetToSeq(ms.data[e])
        /\ tables["supportFiles"] = SetToSeq(ms.support[e])
        /\ tables["usedInBatches"] = SetToSeq(BatchesWithLoad(ms, e))
    BY <2>1 DEF LoadPage, LoadFileRows, BatchRows
  <2>3. /\ ms.data[e] \in SUBSET Entity /\ \A x \in ms.data[e] : InSet(ms, x)
        /\ ms.support[e] \in SUBSET Entity /\ \A x \in ms.support[e] : InSet(ms, x)
    BY <1>1, <1>3, <1>9 DEF LiveLinks
  <2>4. BatchesWithLoad(ms, e) \in SUBSET Entity /\ \A x \in BatchesWithLoad(ms, e) : InSet(ms, x)
    BY <1>3, <1>4 DEF BatchesWithLoad, RecursiveBatches
  <2>5. /\ TableSound(ms, e, "dataFiles", SetToSeq(ms.data[e]))
        /\ TableSound(ms, e, "supportFiles", SetToSeq(ms.support[e]))
    BY <2>3, ListSound
  <2>6. TableSound(ms, e, "usedInBatches", SetToSeq(BatchesWithLoad(ms, e)))
    BY <2>4, ListSound
  <2> QED BY <2>2, <2>5, <2>6 DEF TablesSound
<1>10. CASE e \in Batch
  <2>1. tables = BatchPage(ms, e)
    BY <1>7, <1>10, Classes DEF FilePage, File
  <2>2. /\ DOMAIN tables = {"loads"}
        /\ tables["loads"] = IF TargetRows(ms, e) = <<>> THEN <<>> ELSE TargetRows(ms, e)[1]
    BY <2>1 DEF BatchPage
  <2>3. TableSound(ms, e, "loads", <<>>)
    BY DEF TableSound, Range
  <2>4. TargetRows(ms, e) # <<>> => TableSound(ms, e, "loads", TargetRows(ms, e)[1])
    BY <1>1, <1>10, TargetsSound
  <2> QED BY <2>2, <2>3, <2>4 DEF TablesSound
<1> QED BY <1>2, <1>5, <1>6, <1>8, <1>9, <1>10 DEF Entity, File

(* An element that becomes current.                                        *)
LEMMA SelectHolds ==
  ASSUME NEW sh, ~sh.empty, sh.ms \in MediaSetType, Proper(sh.ms), NEW e \in Members(sh.ms),
         SelectElement(sh.ms, ItemOf(sh.ms, e))
  PROVE  ViewOf(sh, current', page')
<1>1. current' = ItemOf(sh.ms, e) /\ current'.pointer = e
  BY MembersAbove, ItemFields DEF SelectElement, Proper
<1>2. PICK tables \in Pages(sh.ms, ItemOf(sh.ms, e)) : page' = [element |-> e, tables |-> tables]
  BY <1>1 DEF SelectElement
<1>3. TablesSound(sh.ms, e, tables) /\ SameTables(sh.ms, e, tables)
  BY PagesSound DEF SameTables
<1>4. page'.tables = tables
  BY <1>2
<1> QED BY <1>1, <1>2, <1>3, <1>4 DEF ViewOf

LEMMA BrowseHolds ==
  ASSUME ViewerInv, Viewing, View
  PROVE  Viewing'
<1>1. Browse
  BY DEF View, SelectItem, ActivateElement, SelectTarget
<1>2. shown' = shown /\ ~shown.empty
  BY <1>1 DEF Browse
<1> DEFINE ms == shown.ms
<1>3. ms \in MediaSetType /\ Proper(ms) /\ Tree(ms) /\ LiveLinks(ms)
  BY <1>2 DEF ViewerInv, Watching, Savable, Proper
<1>4. ASSUME NEW e \in Members(ms), SelectElement(ms, IndexForElement(ms, e))
      PROVE  Viewing'
  <2>1. SelectElement(ms, ItemOf(ms, e))
    BY <1>3, <1>4, IndexFound
  <2> QED BY <1>2, <1>3, <2>1, SelectHolds DEF Viewing
<1>5. CASE \E e \in Entity : SelectItem(e)
  <2>1. PICK e \in Entity : SelectItem(e)
    BY <1>5
  <2>2. e \in Members(ms) /\ SelectElement(ms, IndexForElement(ms, e))
    BY <1>3, <2>1, MembersAbove DEF SelectItem
  <2> QED BY <1>4, <2>2
<1>6. CASE \E t \in DOMAIN page.tables, r \in 1 .. Cardinality(Entity) : ActivateElement(t, r)
  <2>1. PICK t \in DOMAIN page.tables : \E r \in 1 .. Cardinality(Entity) : ActivateElement(t, r)
    BY <1>6
  <2>2. PICK r \in 1 .. Cardinality(Entity) : ActivateElement(t, r)
    BY <2>1
  <2> DEFINE table == page.tables[t]
             e == Activated(t, r)
  <2>3. table \in Seq(Entity) /\ \A x \in Range(table) : InSet(ms, x)
    BY <1>2 DEF Viewing, ViewOf, TablesSound, TableSound
  <2>4. r <= Len(table) /\ SelectElement(ms, IndexForElement(ms, e)) /\ e = table[r]
    BY <2>2 DEF ActivateElement, Activated
  <2>5. e \in Entity /\ e \in Range(table)
    <3>1. r \in Nat \ {0}
      OBVIOUS
    <3>2. Len(table) \in Nat /\ DOMAIN table = 1 .. Len(table)
      BY <2>3
    <3>3. r \in 1 .. Len(table)
      BY <2>4, <3>1, <3>2
    <3> HIDE DEF table, e
    <3> QED BY <2>3, <2>4, <3>2, <3>3 DEF Range
  <2>6. e \in Members(ms)
    BY <1>3, <2>3, <2>5, MembersAbove
  <2> QED BY <1>4, <2>4, <2>6
<1>7. CASE \E r \in 1 .. Cardinality(Position) : SelectTarget(r)
  <2>1. PICK r \in 1 .. Cardinality(Position) : SelectTarget(r)
    BY <1>7
  <2> DEFINE e == current.pointer
             new == TargetRows(ms, e)[r]
             tables == [page.tables EXCEPT !.loads = new]
  <2>2. /\ e \in Members(ms) /\ current = ItemOf(ms, e)
        /\ page = [element |-> e, tables |-> page.tables]
        /\ TablesSound(ms, e, page.tables) /\ SameTables(ms, e, page.tables)
    BY <1>2 DEF Viewing, ViewOf
  <2>3. page.element = e
    BY <2>2
  <2>4. e \in Batch /\ r \in DOMAIN TargetRows(ms, e) /\ current' = current
    BY <2>1, <2>3 DEF SelectTarget
  <2>5. TableSound(ms, e, "loads", new)
    BY <1>3, <2>4, TargetsSound
  <2>6. page' = [page EXCEPT !.tables.loads = new]
    BY <2>1, <2>3 DEF SelectTarget
  <2>7. page' = [element |-> e, tables |-> tables] /\ page'.tables = tables
    BY <2>2, <2>6
  <2>8. DOMAIN tables = DOMAIN page.tables
    OBVIOUS
  <2>9. TablesSound(ms, e, tables)
    <3>1. \A t \in DOMAIN page.tables : tables[t] = IF t = "loads" THEN new ELSE page.tables[t]
      OBVIOUS
    <3> HIDE DEF tables, new, ms, e
    <3> QED BY <2>2, <2>5, <2>8, <3>1 DEF TablesSound
  <2>10. SameTables(ms, e, tables)
    BY <2>2, <2>8 DEF SameTables
  <2> HIDE DEF tables, new
  <2> QED BY <1>2, <2>2, <2>4, <2>7, <2>9, <2>10 DEF Viewing, ViewOf
<1> QED BY <1>5, <1>6, <1>7 DEF View

LEMMA ViewInvariant == ViewerSpec => []Viewing
<1>1. ViewerInit => Viewing
  BY DEF ViewerInit, Nothing, Viewing, ViewOf
<1>2. ViewerInv /\ ViewerInv' /\ Viewing /\ [ViewerNext]_viewerVars => Viewing'
  <2> SUFFICES ASSUME ViewerInv, ViewerInv', Viewing, [ViewerNext]_viewerVars PROVE Viewing'
    OBVIOUS
  <2>1. ASSUME UNCHANGED view PROVE Viewing'
    BY <2>1 DEF view, Viewing
  <2>2. ASSUME NEW ms, NEW ty, NEW pa, Reset(Showing(ms, ty, pa)) PROVE Viewing'
    <3> DEFINE sh == Showing(ms, ty, pa)
    <3>1. shown' = sh /\ sh.ms = ms /\ ~sh.empty
      BY <2>2 DEF Reset, Showing
    <3>2. ms \in MediaSetType /\ Proper(ms) /\ Root \in Members(ms)
      BY <3>1 DEF ViewerInv, Watching, Savable, Members, Containers
    <3>3. SelectElement(ms, ItemOf(ms, Root))
      BY <2>2, <3>1, RootIndex DEF Reset
    <3> HIDE DEF sh
    <3>4. ViewOf(sh, current', page')
      BY <3>1, <3>2, <3>3, SelectHolds
    <3> QED BY <3>1, <3>4 DEF Viewing
  <2>3. CASE Show
    BY <2>2, <2>3 DEF Show
  <2>4. CASE Decompile
    BY <2>2, <2>4 DEF Decompile
  <2>5. CASE Restart
    BY <2>5 DEF Restart, Nothing, Viewing, ViewOf
  <2>6. CASE View
    BY <2>6, BrowseHolds
  <2>7. CASE SaveFirst \/ EditFile \/ Open \/ LoadFurther \/ ReportError \/ SaveXmlFile
    BY <2>1, <2>7 DEF SaveFirst, EditFile, Open, LoadFurther, ReportError, SaveXmlFile
  <2>8. CASE UNCHANGED viewerVars
    BY <2>1, <2>8 DEF viewerVars
  <2> QED BY <2>3, <2>4, <2>5, <2>6, <2>7, <2>8 DEF ViewerNext, Window
<1> QED BY <1>1, <1>2, ViewerInvariant, PTL DEF ViewerSpec

-----------------------------------------------------------------------------
(* Whatever media set is shown, the trees of the viewer are item models:   *)
(* rows and parents lead to each other, and each element has one row.      *)
THEOREM ItemsSound == ViewerSpec => []ItemsLeadBack
<1>1. ViewerInv => ItemsLeadBack
  <2>1. \A l \in Load : Hardware[l] \in Seq(Nat)
    BY ViewerAssumption DEF ViewerAssumption
  <2> QED BY <2>1, MediaSetModelled, HardwareModelled
          DEF ViewerInv, Watching, Savable, Proper, ItemsLeadBack
<1> QED BY <1>1, ViewerInvariant, PTL

(* After any sequence of loads, saves, decompilations and selections, the  *)
(* current item and the links of its page lead to elements of the media    *)
(* set that is shown.                                                      *)
THEOREM ViewsConsistent == ViewerSpec => []ViewConsistent
<1>1. ViewerInv /\ Viewing => ViewConsistent
  <2> SUFFICES ASSUME ViewerInv, Viewing PROVE ViewConsistent
    OBVIOUS
  <2>1. CASE shown.empty
    BY <2>1 DEF Viewing, ViewOf, ViewConsistent
  <2>2. CASE ~shown.empty
    <3> DEFINE e == current.pointer
    <3>1. /\ e \in Members(shown.ms) /\ current = ItemOf(shown.ms, e)
          /\ page = [element |-> e, tables |-> page.tables]
          /\ TablesSound(shown.ms, e, page.tables) /\ SameTables(shown.ms, e, page.tables)
      BY <2>2 DEF Viewing, ViewOf
    <3>2. Tree(shown.ms)
      BY <2>2 DEF ViewerInv, Watching, Savable, Proper
    <3>3. current = IndexForElement(shown.ms, e)
      BY <3>1, <3>2, IndexFound
    <3>4. page.element = e
      BY <3>1
    <3>5. \E tables \in Pages(shown.ms, current) : DOMAIN tables = DOMAIN page.tables
      BY <3>1 DEF SameTables
    <3> HIDE DEF e
    <3>6. \A t \in DOMAIN page.tables : \A x \in Range(page.tables[t]) :
            /\ InSet(shown.ms, x)
            /\ t = "content" => shown.ms.parent[x] = page.element
            /\ t = "usedInLoads" => page.element \in shown.ms.data[x] \cup shown.ms.support[x]
      BY <3>1, <3>4 DEF TablesSound, TableSound
    <3> QED BY <2>2, <3>3, <3>4, <3>5, <3>6 DEF ViewConsistent, e
  <2> QED BY <2>1, <2>2
<1> QED BY <1>1, ViewInvariant, ViewerInvariant, PTL
=============================================================================
