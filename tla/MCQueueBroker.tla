--------------------------- MODULE MCQueueBroker ---------------------------
(* Instances of QueueBroker for TLC: a work queue with batches of two, a   *)
(* batch timeout and one retry, and a queue `dlq' that delivers at once,  *)
(* one message at a time, without retries.                                 *)
EXTENDS QueueBroker

CONSTANTS work, dlq, m1, m2, m3, s1, s2

MCQueues == {work, dlq}
MCBatchSize == [q \in MCQueues |-> IF q = work THEN 2 ELSE 1]
MCBatchTimeout == [q \in MCQueues |-> IF q = work THEN 1 ELSE 0]
MCMaxRetries == [q \in MCQueues |-> IF q = work THEN 1 ELSE 0]
MCRetryDelay == [q \in MCQueues |-> IF q = work THEN 0 ELSE 1]
MCDeliveryDelay == [q \in MCQueues |-> IF q = work THEN 1 ELSE 0]

\* work's failures go to dlq, whose own failures are dropped.
MCChain == [q \in MCQueues |-> IF q = work THEN dlq ELSE NoQueue]
=============================================================================
