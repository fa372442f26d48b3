SPECIFICATION Spec
CONSTANTS
  MaxMedium = 2
  Root = Root
  Directory = {d1, d2}
  RegularFile = {f1}
  Load = {l1}
  Batch = {b1}
  Name = {n1, n2}
  Position = {p1}
  CheckType = {NotUsed}
  NotUsed = NotUsed
  NoValue = NoValue
  EditedMedium = {2}
  EditedScope <- EditedScopes
SYMMETRY Symmetric
INVARIANTS
  TypeOK
  NamesUnique
  LinksLive
  MediaPartition
  PathsLeadBack
