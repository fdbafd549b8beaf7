\* The same parts, smaller: everything that begins ends.
SPECIFICATION PathsFairSpec
CONSTANTS
  get1 = get1
  get2 = get2
  post1 = post1
  t1 = t1
  t2 = t2
  NoTarget = NoTarget
  Requests = {get1, get2, post1}
  Idempotent = {get1, get2}
  Targets = {t1, t2}
  MaxCalls = 3
  a = a
  b = b
  c = c
  first = first
  second = second
  Tasks = {a, c}
  Strict = {c}
  Ephemeral = {}
  Instances = {first, second}
  InstanceOf <- MCInstanceOf
  Wanted <- MCWanted
  MaxPort = 3
  OsPorts = {}
  MaxSearch = 2
  MaxServe = 2
  MaxOthers = 1
  p1 = p1
  p2 = p2
  i1 = i1
  i2 = i2
  i3 = i3
  Registrations = {}
  Processes = {p1}
  ProcessOf <- MCProcessOf
  NoEntry = NoEntry
  Torn = Torn
  Polling = FALSE
  Suspends = FALSE
  MaxRemovals = 2
  call1 = call1
  call2 = call2
  call3 = call3
  Calls = {call1, call2}
  NoCall = NoCall
  MaxAge = 2
  TokenLife = 3
  MaxTime = 3
  MaxSessions = 2
  s1 = s1
  c1 = c1
  c2 = c2
  Sessions = {s1}
  Connections = {c1}
  m1 = m1
  m2 = m2
  m3 = m3
  Pulled = {m1, m2, m3}
  PullBatch = 2
  MaxFaults = 2
  DebugPorts = {t1, t2}
  NotRunning = NotRunning
  MaxChanges = 4
  start1 = start1
  start2 = start2
  Starts = {}
  WithEnv = {}
  MaxRetries = 0
  e1 = e1
  e2 = e2
  Exports = {e1, e2}
  Configured = e1
  Broken = Broken
  MaxEdits = 2
  MaxRuntimes = 4
  id1 = id1
  id2 = id2
  object = object
  member = member
  both = both
  batch = batch
  foreign = foreign
  Stubs = {}
  Root = Root
  TargetOf <- MCTargetOf
  ArgsOf <- MCArgsOf
  Plain = Plain
  Foreign = Foreign
  Opaque = {}
  MaxFetches = 1
  MaxSends = 0
PROPERTIES
  AnsweredUnlessRetried
  EveryServeEnds
  RequestsEnd
  SessionEndsWithChrome
  EveryPulledMessageArrives
  RequestsFollowRegistry
  RuntimeFollowsEntry
  KeptUntilAccepted
\* When everything is answered and closed nothing is left to do.
CHECK_DEADLOCK FALSE
