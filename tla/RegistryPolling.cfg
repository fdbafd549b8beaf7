\* A poll that meets a file that is being written.
SPECIFICATION RegistryFairSpec
CONSTANTS
  p1 = p1
  p2 = p2
  i1 = i1
  i2 = i2
  i3 = i3
  Registrations = {i1}
  Processes = {p1, p2}
  ProcessOf <- MCProcessOf
  NoEntry = NoEntry
  Torn = Torn
  Polling = TRUE
  Suspends = FALSE
  MaxRemovals = 1
\* Nothing happens any more once all watchers have died.
CHECK_DEADLOCK FALSE
PROPERTIES
  KeepsPolling
