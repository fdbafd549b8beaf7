\* Proxy: two GETs and a POST across four controller calls.  Ports: two searches
\* from port 1, and a server that the OS gives port 2 at first.  Registry: three
\* registrations in two processes that keep their heartbeats, watch events.  Remote:
\* three requests, old sessions.  Browser: a session with two connections.  Pull:
\* three messages, two faults.  Targets: two addresses, four changes.  Runtime: two
\* starts, one retry.  Vite: three edits.  Platform: two requests.
SPECIFICATION PathsSpec
CONSTANTS
  get1 = get1
  get2 = get2
  post1 = post1
  t1 = t1
  t2 = t2
  NoTarget = NoTarget
  Requests = {get1, get2, post1}
  Idempotent = {get1, get2}
  Targets = {t1, t2}
  MaxCalls = 4
  a = a
  b = b
  c = c
  first = first
  second = second
  Tasks = {a, b, c}
  Strict = {}
  Ephemeral = {b}
  Instances = {first, second}
  InstanceOf <- MCInstanceOf
  Wanted <- MCWanted
  MaxPort = 3
  OsPorts = {2}
  MaxSearch = 2
  MaxServe = 2
  MaxOthers = 1
  p1 = p1
  p2 = p2
  i1 = i1
  i2 = i2
  i3 = i3
  Registrations = {i1, i2, i3}
  Processes = {p1, p2}
  ProcessOf <- MCProcessOf
  NoEntry = NoEntry
  Torn = Torn
  Polling = FALSE
  Suspends = FALSE
  MaxRemovals = 1
  call1 = call1
  call2 = call2
  call3 = call3
  Calls = {call1, call2, call3}
  NoCall = NoCall
  MaxAge = 2
  TokenLife = 3
  MaxTime = 4
  MaxSessions = 3
  s1 = s1
  c1 = c1
  c2 = c2
  Sessions = {s1}
  Connections = {c1, c2}
  m1 = m1
  m2 = m2
  m3 = m3
  Pulled = {m1, m2, m3}
  PullBatch = 2
  MaxFaults = 2
  DebugPorts = {t1, t2}
  NotRunning = NotRunning
  MaxChanges = 4
  start1 = start1
  start2 = start2
  Starts = {start1, start2}
  WithEnv = {start1}
  MaxRetries = 1
  e1 = e1
  e2 = e2
  Exports = {e1, e2}
  Configured = e1
  Broken = Broken
  MaxEdits = 3
  MaxRuntimes = 5
  id1 = id1
  id2 = id2
  object = object
  member = member
  both = both
  batch = batch
  foreign = foreign
  Stubs = {id1, id2, object, member, both, batch, foreign}
  Root = Root
  TargetOf <- MCTargetOf
  ArgsOf <- MCArgsOf
  Plain = Plain
  Foreign = Foreign
  Opaque = {object}
  MaxFetches = 1
  MaxSends = 2
SYMMETRY PathsSymmetry
INVARIANTS
  PathsTypeOK
  OneHolderOrAnswer
  NonIdempotentSentOnce
  DistinctPorts
  SnapshotInSync
  EagerUpdateSurvives
  SharedRefresh
  SurfacesOnlyRefused
  EveryChromeCanBeKilled
  CleanupIsExact
  OneRuntimeServes
  AnswersAreComplete
\* When everything is answered and closed nothing is left to do.
CHECK_DEADLOCK FALSE
