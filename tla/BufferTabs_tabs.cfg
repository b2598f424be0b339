SPECIFICATION Spec
SYMMETRY PathSymmetry
CONSTANTS
  p1 = p1
  p2 = p2
  p3 = p3
  Paths = {p1, p2}
  None = None
  MaxPanes = 2
  StoreMax = 2
  SettingMax = 2
  MaxHistory = 1
  MaxOpens = 3
  MaxInFlight = 2
  MaxPinned = 1
CONSTRAINT
  MCBounded
INVARIANTS
  TypeOK
  OneTabPerFile
PROPERTIES
  PaneAgrees
  UnsavedNeedsConsent
  PinnedStays
