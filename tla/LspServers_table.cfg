SPECIFICATION Spec
CONSTANTS
  f1 = f1
  f2 = f2
  f3 = f3
  k1 = k1
  k2 = k2
  w1 = w1
  None = None
  Files = {f1, f2, f3}
  Keys = {k1, k2}
  Workspaces = {w1}
  WorkspaceOf <- MCWorkspaceOf
  KeysOf <- MCKeysOf
  MaxProcs = 3
  MaxRef = 3
INVARIANTS
  TypeOK
  OneOwner
  CountCoversFiles
  NoOtherOrphans
PROPERTIES
  StopSparesOthers
