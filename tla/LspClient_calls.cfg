SPECIFICATION FairSpec
CONSTANTS
  r1 = r1
  r2 = r2
  n1 = n1
  Ask = Ask
  None = None
  Gone = Gone
  Requests = {r1, r2}
  Notices = {n1}
  Cap = 1
  Pipe = 1
  MaxReplies = 2
  MaxAsks = 2
CHECK_DEADLOCK FALSE
INVARIANTS
  TypeOK
  OnlyLateAreStranded
  PendingIsAwaited
PROPERTIES
  EndSettlesCalls
  ReaderMovesOn
  KeepsCallContract
