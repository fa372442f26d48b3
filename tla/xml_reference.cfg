SPECIFICATION ViewerSpec
CONSTANTS
  MaxMedium = 3
  Root = Root
  d1 = d1
  d2 = d2
  f1 = f1
  f2 = f2
  l1 = l1
  b1 = b1
  p1 = p1
  p2 = p2
  Crc32 = Crc32
  Directory = {d1, d2}
  RegularFile = {f1, f2}
  Load = {l1}
  Batch = {b1}
  Name = {"d1", "d2", "f", "g", "l", "b", ".."}
  Reserved = {".."}
  Position = {p1, p2}
  CheckType = {NotUsed, Crc32}
  NotUsed = NotUsed
  NoValue = NoValue
  Described <- MediaSets
  LoadType = {"type", "unnamed"}
  Unnamed = "unnamed"
  SourcePath = {"source"}
  MaxEdits = 1
  Hardware <- HardwareIds
  Waiting = {l1}
INVARIANTS
  MissingDirectoryRefused
