SPECIFICATION Spec

CONSTANTS
  MaxCalls = 1
  MaxMsgs = 1
  MaxReplies = 1
  Buffer = 2

INVARIANTS
  ClosingIsSafe

\* a stopped proxy takes no more steps
CHECK_DEADLOCK FALSE
