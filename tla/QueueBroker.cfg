\* Three messages, two concurrent flushes per queue, a dead-letter queue: what is
\* always so, what must eventually happen, and the promise of QueueDelivery.
SPECIFICATION FairSpec
CONSTANTS
  work = work
  dlq = dlq
  m1 = m1
  m2 = m2
  m3 = m3
  s1 = s1
  s2 = s2
  NoQueue = NoQueue
  MaxOrphans = 4
  Queues <- MCQueues
  Msgs = {m1, m2, m3}
  Slots = {s1, s2}
  BatchSize <- MCBatchSize
  BatchTimeout <- MCBatchTimeout
  MaxRetries <- MCMaxRetries
  RetryDelay <- MCRetryDelay
  DeliveryDelay <- MCDeliveryDelay
  DLQ <- MCChain
INVARIANTS
  TypeOK
  NoStrandedBacklog
  FullBatchIsUrgent
  Conservation
  AckedNeverRedelivered
PROPERTIES
  EveryMessageSettles
  ImplementsDelivery
\* When all messages are settled nothing is left to do.
CHECK_DEADLOCK FALSE
