SPECIFICATION Spec
CONSTANTS
  b1 = b1
  b2 = b2
  t0 = t0
  t1 = t1
  f1 = f1
  NoFile = NoFile
  Bufs = {b1}
  Text = {t0, t1, f1}
  Text0 = t0
  Kind0 <- MCAnyKind
  Format <- MCFormat
  AutoSave = TRUE
  FormatOnSave = TRUE
  Slots = {1, 2}
  Reads = {1, 2}
  MaxEdits = 3
  MaxExternal = 2
  MaxFaults = 1
CONSTRAINT
  MCUnexposed
INVARIANTS
  TypeOK
  DirtyWhenUnsaved
  CleanMeansStored
