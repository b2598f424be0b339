SPECIFICATION FairSpec
CONSTANTS
  s1 = s1
  s2 = s2
  Terminal = Terminal
  None = None
  Sessions = {s1}
  UserCmds = {}
  OnStop = {"stackTrace"}
  Handshake = 1
  MaxRequests = 2
  MaxEvents = 0
  MaxQueue = 1
  MaxFaults = 1
  MaxActions = 1
CHECK_DEADLOCK FALSE
PROPERTIES
  StopEndsAdapter
