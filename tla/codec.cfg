\* Load headers, batch files and lists of one to three entries are encoded,
\* one word is damaged or none, and the file is decoded into a new or a used
\* object.
SPECIFICATION Spec
CONSTANTS
  ByteBase = 4
  CheckSize <- CheckSizes
  Files <- AllFiles
  Before <- UsedObjects
  LoadCrcs = {37}
  Deltas = {1}
INVARIANTS
  TypeOK
  DecodesWhatWasEncoded
  DamageDetected
  ForgetsFormerContent
\* A file is decoded once.
CHECK_DEADLOCK FALSE
