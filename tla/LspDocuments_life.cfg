SPECIFICATION Spec
CONSTANTS
  None = None
  Files = {f, g}
  Texts = {t1, t2}
  Slots = {s1, s2}
  MaxShows = 3
  MaxVersion = 2
  MaxFaults = 1
CHECK_DEADLOCK FALSE
SYMMETRY Symmetry
INVARIANTS TypeOK ServerSeesShown ClosedIsReleased NoIdleServer
PROPERTIES VersionsRise
