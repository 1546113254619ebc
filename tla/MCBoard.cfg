\* Two jobs, open or not, fill the board: the third post sorts it and evicts one of them.  The
\* trail holds two entries, of one job or of two, and loses its oldest with every later one.
CONSTANTS
  Peer = {me, other}
  Self = me
  JobId = {1, 2, 3}
  None = None
  kMaxOpen = 2
  kMaxClosedKept = 0
  kMaxAudit = 2
  MaxClock = 1
SPECIFICATION Spec
ACTION_CONSTRAINT SmallRun
INVARIANTS TypeOK WithinLimits OutcomeKept DeclineNeedsTaking QuestionAccounted TrailAgrees
           PresenceHonest
CHECK_DEADLOCK FALSE
