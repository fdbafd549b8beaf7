\* The sessions are listed while one of them is being acquired.
SPECIFICATION BrowserSpec
CONSTANTS
  s1 = s1
  c1 = c1
  Sessions = {s1}
  Connections = {c1}
INVARIANTS
  SocketHasSession
\* When all sessions are closed nothing is left to do.
CHECK_DEADLOCK FALSE
