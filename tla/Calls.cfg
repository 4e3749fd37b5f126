SPECIFICATION FairSpec

CONSTANTS
  unary = unary
  lookup = lookup
  watch = watch
  chat = chat
  None = None
  Methods <- Answered
  Unary <- TwoUnary
  ClientStreaming <- Chat
  MaxCalls = 3
  MaxMsgs = 1
  MaxResponses = 1
  MaxLog = 1
  MaxDiffMethods = 1

INVARIANTS
  TypeOK
  CallWithinReach
  SpinnerHasACall
  DiffIsAgainstPrevious

PROPERTIES
  ImplementsContract
  UnaryAnswered
  EscEndsStream

\* every counter is bounded, so a run ends
CHECK_DEADLOCK FALSE
