\* Polling processes, whose heartbeats may pause, find what is there and drop what crashed.
SPECIFICATION RegistryFairSpec
CONSTANTS
  p1 = p1
  p2 = p2
  i1 = i1
  i2 = i2
  i3 = i3
  Registrations = {i1, i3}
  Processes = {p1, p2}
  ProcessOf <- MCProcessOf
  NoEntry = NoEntry
  Torn = Torn
  Polling = TRUE
  Suspends = TRUE
  MaxRemovals = 1
\* Nothing happens any more once all watchers have died.
CHECK_DEADLOCK FALSE
PROPERTIES
  EventuallyVisible
  CrashedEntryDisappears
