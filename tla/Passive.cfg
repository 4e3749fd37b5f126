SPECIFICATION FairPassive

CONSTANTS
  MaxCalls = 1
  MaxMsgs = 2
  MaxReplies = 1
  Buffer = 2
  MaxTrafficCalls = 2
  Heights = {1}

INVARIANTS
  Passive
  CleanCallIsWhole
  CleanEndIsLast
  LogIsHonest

PROPERTIES
  PumpNeverLeaks
  WatchEnds

\* a stopped proxy takes no more steps
CHECK_DEADLOCK FALSE
