SPECIFICATION Spec
CONSTANTS
  s1 = s1
  s2 = s2
  Terminal = Terminal
  None = None
  Sessions = {s1, s2}
  UserCmds = {}
  OnStop = {"stackTrace"}
  Handshake = 1
  MaxRequests = 2
  MaxEvents = 1
  MaxQueue = 2
  MaxFaults = 0
  MaxActions = 1
CHECK_DEADLOCK FALSE
SYMMETRY Symmetry
INVARIANTS
  AnswersFindRequests
  ShownOfActive
