SPECIFICATION FairSpec
CONSTANTS
  Offers <- MCOffers
  Handlers = 2
  Cap = 1
  MaxCalls = 3
  MaxAsks = 2
  MaxReplies = 2
  MaxSpawns = 2
  MaxFaults = 1
CHECK_DEADLOCK FALSE
INVARIANTS
  TypeOK
  NoStrayAgent
  OnlyAllowedRun
  AnswersReachAgent
PROPERTIES
  CallsReturn
  AsksSettle
