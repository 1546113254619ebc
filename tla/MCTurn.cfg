\* Two inputs: the second request carries what the first left.  With a budget of two a turn
\* may end after a call and before the budget, reach it in the middle of a reply, or run past
\* it, so the wrap-up round and a cancel between two calls both happen; two notes or rewinds
\* come from outside at any point.
CONSTANTS
  Peer = {a}
  None = None
  kBudget = 2
  MaxReply = 2
  MaxTurns = 2
  MaxOutside = 2
SPECIFICATION Spec
CONSTRAINT SecondIsShort
INVARIANTS RequestPaired StatusMatchesReceipt OriginOfThisTurn BudgetBoundsCalls
CHECK_DEADLOCK FALSE
