\* Sessions on a disk that works, with settings that change.
SPECIFICATION Spec
CONSTANTS
  PartNumber = {pGood, pDamaged}
  ListFile = {LUM}
  DataFile = {DAT}
  Damaged = {pDamaged}
  Broken = {}
  Proc = {g1}
  Defaults = {builtin, other}
  BuiltinDefaults = builtin
  None = None
  Crashes = TRUE
  DiskErrors = FALSE
INVARIANT
  WaitingIsSaved
