SPECIFICATION Spec
CONSTANTS
  MaxMedium = 3
  Root = Root
  d1 = d1
  d2 = d2
  f1 = f1
  f2 = f2
  l1 = l1
  b1 = b1
  p1 = p1
  v1 = v1
  v2 = v2
  v3 = v3
  Crc32 = Crc32
  Directory = {d1, d2}
  RegularFile = {f1, f2}
  Load = {l1}
  Batch = {b1}
  Name = {"d1", "d2", "f", "g", "l", "b", "FILES.LUM", "BATCHES.LUM"}
  Position = {p1}
  CheckType = {NotUsed, Crc32}
  NotUsed = NotUsed
  NoValue = NoValue
  Refused = Refused
  Value = {v1, v2, v3}
  Crc <- Checksums
  Source <- SourcesWithBatches
  MaxFaults = 0
CHECK_DEADLOCK FALSE
INVARIANTS
  BatchesArrive
