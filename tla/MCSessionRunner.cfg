\* A page, the socket that replaces it or is refused, and three turns, one perhaps of a board job.
\* Two records are handed to a page, and the third drops the first.
SPECIFICATION Spec
CONSTANTS
  Conn = {1, 2}
  Client = {a}
  JobId = {j}
  None = None
  kTurnsKept = 2
  MaxInputs = 3
  MaxFrames = 1
ACTION_CONSTRAINT SmallRun
INVARIANTS OnePage NoFrameLost NoStaleCancel CancelAnswered JobClosed
PROPERTIES RecordsFinal ReloadSparesTurn InputsServed StopEndsUnlessAsking
CHECK_DEADLOCK FALSE
