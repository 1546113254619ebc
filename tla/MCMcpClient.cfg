\* Three calls: a handshake, a call that may time out and one its late reply could reach, or
\* a handshake, a failed one and a second connection.  The server may ask once itself.
CONSTANTS
  Kind = {"posix", "windows", "http"}
  MaxCalls = 3
  MaxOwn = 1
  Server = Server
  None = None
SPECIFICATION Spec
INVARIANT LinesWhole
PROPERTIES KeepsPromise CallEnds DisconnectEnds
CHECK_DEADLOCK FALSE
