\* Two requests of a turn, against gateways of both framings.
SPECIFICATION Spec
CONSTANTS
  Bare = {TRUE, FALSE}
  Replies <- MCReplies
  MaxRounds = 2
  None = None
INVARIANTS FramesKept CallsWhole UsageCounted
PROPERTY ChatEnds
CHECK_DEADLOCK FALSE
