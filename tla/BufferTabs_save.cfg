SPECIFICATION Spec
CONSTANTS
  p1 = p1
  p2 = p2
  p3 = p3
  Paths = {p1, p2}
  None = None
  MaxPanes = 1
  StoreMax = 3
  SettingMax = 3
  MaxHistory = 1
  MaxOpens = 3
  MaxInFlight = 2
  MaxPinned = 1
PROPERTIES
  SavedBeforeClosing
