\* One message is enough.
SPECIFICATION Spec
CONSTANTS
  Conn = {1}
  Client = {a}
  JobId = {}
  None = None
  kTurnsKept = 2
  MaxInputs = 1
  MaxFrames = 1
PROPERTIES StopEnds
CHECK_DEADLOCK FALSE
