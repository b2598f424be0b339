SPECIFICATION FairSpec
CONSTANTS
  b1 = b1
  b2 = b2
  t0 = t0
  t1 = t1
  f1 = t0
  NoFile = NoFile
  Bufs = {b1}
  Text = {t0, t1}
  Text0 = t0
  Kind0 <- MCLocal
  Format <- MCFormat
  AutoSave = TRUE
  FormatOnSave = TRUE
  Slots = {1}
  Reads = {1, 2}
  MaxEdits = 2
  MaxExternal = 2
  MaxFaults = 0
PROPERTIES
  AutoSaveReaches
  StaleResolves
