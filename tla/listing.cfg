\* A listing that overlaps an import; no crash, no disk error.
SPECIFICATION FairSpec
CONSTANTS
  PartNumber = {pGood}
  ListFile = {LUM}
  DataFile = {DAT}
  Damaged = {}
  Broken = {}
  Proc = {c1, c2}
  Defaults = {builtin}
  BuiltinDefaults = builtin
  None = None
  Crashes = FALSE
  DiskErrors = FALSE
PROPERTY
  ListingForgetsNothing
