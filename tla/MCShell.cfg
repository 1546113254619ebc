\* Four bytes are kept of a command that prints seven, two buffers of three runs; the process
\* starts twice, with a mark that may be the one it drew before.
SPECIFICATION Spec
CONSTANTS
  Platforms = {"posix", "windows"}
  Sources = {"log", "rm"}
  Risk <- MCRisk
  Prints <- MCPrints
  Limits = {1, 2}
  capture_bytes = 4
  retain_bytes = 4
  retain_buffers = 2
  Generations = {1, 2}
  MaxRuns = 3
  MaxPages = 3
  MaxStarts = 2
  None = None
ACTION_CONSTRAINT LaterAreShort
CONSTRAINT Fewer
INVARIANTS VerdictHonest PageNumbersTrue PagesReachAll CursorTrue ElidesOlderOnly
PROPERTY StopEnds
CHECK_DEADLOCK FALSE
