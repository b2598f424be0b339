SPECIFICATION FairSpec
CONSTANTS
  b1 = b1
  b2 = b2
  t0 = t0
  t1 = t1
  f1 = f1
  NoFile = NoFile
  Bufs = {b1, b2}
  Text = {t0, t1}
  Text0 = t0
  Kind0 <- MCLocal
  Format <- MCIdentity
  AutoSave = TRUE
  FormatOnSave = FALSE
  Slots = {1}
  Reads = {1}
  MaxEdits = 2
  MaxExternal = 0
  MaxFaults = 0
PROPERTIES
  AutoSaveReaches
