\* Two calls on a board of two jobs: a third post evicts one of theirs, and one restart.
CONSTANTS
  Call = {c1, c2}
  Peer = {me, other}
  Self = me
  JobId = {1, 2, 3}
  None = None
  kMaxOpen = 2
  kMaxClosedKept = 0
  kMaxAudit = 0
  MaxClock = 0
  MaxPosts = 1
  MaxHands = 1
  MaxRestarts = 1
SPECIFICATION HandOffSpec
ACTION_CONSTRAINT IdsInOrder
INVARIANT HandOffLegible
PROPERTY HandOffSettles
CHECK_DEADLOCK FALSE
