\* Graphical sessions, one at a time, killed at any moment, on a failing disk.
SPECIFICATION FairSpec
CONSTANTS
  PartNumber = {pGood, pDamaged, pBroken}
  ListFile = {LUM}
  DataFile = {DAT}
  Damaged = {pDamaged}
  Broken = {pBroken}
  Proc = {g1}
  Defaults = {builtin}
  BuiltinDefaults = builtin
  None = None
  Crashes = TRUE
  DiskErrors = TRUE
INVARIANTS
  CheckedSessionStored
  NothingBrokenRegistered
PROPERTIES
  OrphanNeverAdopted
  OperationEnds
