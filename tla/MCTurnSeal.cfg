\* One turn, one reply of two calls: enough for a cancel between them.
CONSTANTS
  Peer = {}
  None = None
  kBudget = 2
  MaxReply = 2
  MaxTurns = 1
  MaxOutside = 0
SPECIFICATION Spec
INVARIANT EveryUnrunCallSealed
CHECK_DEADLOCK FALSE
