SPECIFICATION FairSpec
CONSTANTS
  s1 = s1
  s2 = s2
  Terminal = Terminal
  None = None
  Sessions = {s1}
  UserCmds = {"evaluate", "continue"}
  OnStop = {"stackTrace"}
  Handshake = 1
  MaxRequests = 3
  MaxEvents = 1
  MaxQueue = 1
  MaxFaults = 1
  MaxActions = 1
CHECK_DEADLOCK FALSE
INVARIANTS
  TypeOK
  TableTracksAdapters
  PendingIsAwaited
  ActiveIsAlive
PROPERTIES
  StopReturns
  EndReachesWindow
