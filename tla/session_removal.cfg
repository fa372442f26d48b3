\* A session that is killed while it removes a media set.
SPECIFICATION Spec
CONSTANTS
  PartNumber = {pGood}
  ListFile = {LUM}
  DataFile = {DAT}
  Damaged = {}
  Broken = {}
  Proc = {g1}
  Defaults = {builtin}
  BuiltinDefaults = builtin
  None = None
  Crashes = TRUE
  DiskErrors = FALSE
INVARIANT
  Reopens
