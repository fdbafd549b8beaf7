\* A retryable request waits for somebody else's request.
SPECIFICATION ProxyFairSpec
CONSTANTS
  get1 = get1
  get2 = get2
  post1 = post1
  t1 = t1
  t2 = t2
  NoTarget = NoTarget
  Requests = {get1}
  Idempotent = {get1}
  Targets = {t1, t2}
  MaxCalls = 3
PROPERTIES
  RetriedAutomatically
CHECK_DEADLOCK FALSE
