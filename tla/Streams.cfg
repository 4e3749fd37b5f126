SPECIFICATION Spec

CONSTANTS
  unary = unary
  lookup = lookup
  watch = watch
  chat = chat
  None = None
  Methods <- Streaming
  Unary <- Nothing
  ClientStreaming <- Chat
  MaxCalls = 2
  MaxMsgs = 3
  MaxResponses = 1
  MaxLog = 2
  MaxDiffMethods = 1

INVARIANTS
  QueueIsDraining
  StreamContract
  NothingLost
  LogIsTruthful

\* every counter is bounded, so a run ends
CHECK_DEADLOCK FALSE
