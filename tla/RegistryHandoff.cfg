\* A scope that closes while a replacement registers.
SPECIFICATION RegistrySpec
CONSTANTS
  p1 = p1
  p2 = p2
  i1 = i1
  i2 = i2
  i3 = i3
  Registrations = {i1, i3}
  Processes = {p1, p2}
  ProcessOf <- MCProcessOf
  NoEntry = NoEntry
  Torn = Torn
  Polling = FALSE
  Suspends = FALSE
  MaxRemovals = 2
PROPERTIES
  RemovesOnlyOwnEntry
CHECK_DEADLOCK FALSE
