\* One turn that a peer asked for, of two rounds with a call each, and a peer that did not ask.
CONSTANTS
  Peer = {a, b}
  None = None
  kBudget = 2
  MaxReply = 1
  MaxTurns = 1
  MaxOutside = 0
SPECIFICATION Spec
INVARIANT PeerTurnReachesOnlyItsSender
CHECK_DEADLOCK FALSE
