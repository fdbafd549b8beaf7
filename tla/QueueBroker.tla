---------------------------- MODULE QueueBroker ----------------------------
(***************************************************************************)
(* The in-memory queue brokers of cloudflare-runtime                       *)
(* (src/bindings/queue/QueueBroker.worker.ts).  Every consumed queue has   *)
(* one broker, a Durable Object whose single thread interleaves requests,  *)
(* timers and the continuations of its awaits.  An action below is the     *)
(* code that runs between two such points.                                 *)
(*                                                                         *)
(* A batch leaves `messages` when a timer calls flush(); flush() then      *)
(* awaits the consumer, and meanwhile more messages, more timers and even  *)
(* more flushes of the same queue may run.  `slots` are those concurrent   *)
(* flush() calls.  Bodies, timestamps and sizes are abstracted: a message  *)
(* is its id, and contributes one unit to backlogBytes.                    *)
(***************************************************************************)
EXTENDS Integers, Sequences, FiniteSets, Functions

CONSTANTS
  Queues,         \* the consumed queues
  Msgs,           \* message ids
  Slots,          \* bound: flush() calls of one queue that may be in progress
  MaxOrphans,     \* bound: forgotten flush timers of one queue that still run
  NoQueue,        \* the DLQ of a queue that has none
  BatchSize,      \* consumer.maxBatchSize, per queue
  BatchTimeout,   \* consumer.maxBatchTimeout (seconds), per queue
  MaxRetries,     \* consumer.maxRetries, per queue
  RetryDelay,     \* consumer.retryDelay (seconds), per queue
  DeliveryDelay,  \* the producer entry's deliveryDelay (seconds), per queue
  DLQ             \* consumer.deadLetterQueue, per queue

ASSUME QueuesAssumption == NoQueue \notin Queues
ASSUME MaxOrphansAssumption == MaxOrphans \in Nat
\* Queue.ts validates maxBatchTimeout and that a queue is not its own DLQ;
\* maxBatchSize, maxRetries and the delays are passed on unchecked.
ASSUME BatchSizeAssumption == BatchSize \in [Queues -> Nat]
ASSUME BatchTimeoutAssumption == BatchTimeout \in [Queues -> 0..60]
ASSUME MaxRetriesAssumption == MaxRetries \in [Queues -> Nat]
ASSUME DelaysAssumption ==
  RetryDelay \in [Queues -> Nat] /\ DeliveryDelay \in [Queues -> Nat]
ASSUME DLQAssumption ==
  /\ DLQ \in [Queues -> Queues \cup {NoQueue}]
  /\ \A q \in Queues : DLQ[q] # q

VARIABLES
  messages,       \* [q] the backlog, oldest first
  delayed,        \* [q] messages whose setTimeout(push / requeue) is running
  pendingFlush,   \* [q] "none", or the object by its `immediate` field
  armed,          \* [q] whether pendingFlush's timer has yet to fire
  orphans,        \* [q] running flush timers that pendingFlush forgot
  flights,        \* [q][slot] a flush() in progress: awaiting what, for which messages
  backlogBytes,   \* [q] the metric
  failedAttempts, \* [m] of the QueueMessage object now holding m
  deliveries,     \* [m] history: hand-overs to the consumer of the current queue
  fate,           \* [m] history: "unsent", "live", or how m left the system
  acked           \* history: the messages a consumer acknowledged explicitly

vars == <<messages, delayed, pendingFlush, armed, orphans, flights,
          backlogBytes, failedAttempts, deliveries, fate, acked>>

flushVars == <<pendingFlush, armed, orphans>>

-----------------------------------------------------------------------------
Idle == [stage |-> "idle", batch |-> <<>>]

Flights == [stage : {"idle", "dispatching", "forwarding"}, batch : Seq(Msgs)]

Fates == {"unsent", "live", "acked", "dropped", "lost"}

TypeOK ==
  /\ messages \in [Queues -> Seq(Msgs)]
  /\ delayed \in [Queues -> SUBSET Msgs]
  /\ pendingFlush \in [Queues -> {"none", "timed", "immediate"}]
  /\ armed \in [Queues -> BOOLEAN]
  /\ orphans \in [Queues -> Nat]
  /\ flights \in [Queues -> [Slots -> Flights]]
  /\ backlogBytes \in [Queues -> Int]
  /\ failedAttempts \in [Msgs -> Nat]
  /\ deliveries \in [Msgs -> Nat]
  /\ fate \in [Msgs -> Fates]
  /\ acked \subseteq Msgs

Init ==
  /\ messages = [q \in Queues |-> <<>>]
  /\ delayed = [q \in Queues |-> {}]
  /\ pendingFlush = [q \in Queues |-> "none"]
  /\ armed = [q \in Queues |-> FALSE]
  /\ orphans = [q \in Queues |-> 0]
  /\ flights = [q \in Queues |-> [s \in Slots |-> Idle]]
  /\ backlogBytes = [q \in Queues |-> 0]
  /\ failedAttempts = [m \in Msgs |-> 0]
  /\ deliveries = [m \in Msgs |-> 0]
  /\ fate = [m \in Msgs |-> "unsent"]
  /\ acked = {}

-----------------------------------------------------------------------------
(* Helpers *)

\* The enumerations of S in the order its members have in the sequence b
\* (exactly one when b has no duplicates): what a loop over b that keeps the
\* members of S builds.
InBatchOrder(b, S) ==
  {f \in [1..Cardinality(S) -> S] :
     /\ Range(f) = S
     /\ \A i, j \in DOMAIN f : i < j =>
          \E k, l \in DOMAIN b : k < l /\ b[k] = f[i] /\ b[l] = f[j]}

BatchHasSpace(q, n) == n < BatchSize[q]

\* Mutant: any pending flush is kept, however full the batch is.
KeepsAnyFlush(q, kind, n) == kind # "none"

\* ensurePendingFlush() with n messages in the backlog keeps the pending flush
KeepsFlush(q, kind, n) ==
  kind = "immediate" \/ (kind = "timed" /\ BatchHasSpace(q, n))

\* ... and otherwise the kind of the flush it schedules.
NewFlush(q, n) ==
  IF BatchHasSpace(q, n) /\ BatchTimeout[q] > 0 THEN "timed" ELSE "immediate"

\* ensurePendingFlush() on `pf' = [kind, armed].  clearTimeout of a replaced
\* timer is why a replacement leaves no orphan.
EnsurePendingFlush(q, pf, n) ==
  IF KeepsFlush(q, pf.kind, n) THEN pf
  ELSE [kind |-> NewFlush(q, n), armed |-> TRUE]

Flush(q) == [kind |-> pendingFlush[q], armed |-> armed[q]]
NoFlush == [kind |-> "none", armed |-> FALSE]

\* push() / requeue() of each message of ms in turn.  The calls of
\* ensurePendingFlush after each push amount to one call after the last
\* (OnePushAtATime, in QueueBrokerProofs).
AfterPushes(q, pf, ms) ==
  IF ms = <<>> THEN pf
  ELSE EnsurePendingFlush(q, pf, Len(messages[q]) + Len(ms))

\* push() of each message of ms
Push(q, ms) ==
  LET pf == AfterPushes(q, Flush(q), ms) IN
  /\ messages' = [messages EXCEPT ![q] = @ \o ms]
  /\ backlogBytes' = [backlogBytes EXCEPT ![q] = @ + Len(ms)]
  /\ pendingFlush' = [pendingFlush EXCEPT ![q] = pf.kind]
  /\ armed' = [armed EXCEPT ![q] = pf.armed]
  /\ UNCHANGED orphans

\* enqueueMessage() for the messages of `now' (no delay) and `later' (delayed)
Enqueue(q, now, later) ==
  /\ Push(q, now)
  /\ delayed' = [delayed EXCEPT ![q] = @ \cup later]

-----------------------------------------------------------------------------
(* Producers *)

\* POST /message and POST /batch: some unsent messages arrive, each with or
\* without a delay of its own.  A request that fails validation changes
\* nothing and is not modelled.
Post(q, batch, later) ==
  /\ \A m \in Range(batch) : fate[m] = "unsent"
  /\ \E now \in InBatchOrder(batch, Range(batch) \ later) : Enqueue(q, now, later)
  /\ fate' = [m \in Msgs |-> IF m \in Range(batch) THEN "live" ELSE fate[m]]
  /\ UNCHANGED <<flights, failedAttempts, deliveries, acked>>

PostMessage(q) ==
  \E m \in Msgs : \E later \in SUBSET {m} : Post(q, <<m>>, later)

PostBatch(q) ==
  \E m1, m2 \in Msgs :
    /\ m1 # m2
    /\ \E later \in SUBSET {m1, m2} : Post(q, <<m1, m2>>, later)

\* The setTimeout(push) or setTimeout(requeue) of a delayed message fires.
DelayElapses(q, m) ==
  /\ m \in delayed[q]
  /\ delayed' = [delayed EXCEPT ![q] = @ \ {m}]
  /\ Push(q, <<m>>)
  /\ UNCHANGED <<flights, failedAttempts, deliveries, fate, acked>>

-----------------------------------------------------------------------------
(* flush() *)

\* Mutant: the batch is the whole backlog.
WholeBacklog(q) == Len(messages[q])

\* splice(0, batchSize)
BatchLen(q) == IF BatchHasSpace(q, Len(messages[q])) THEN Len(messages[q]) ELSE BatchSize[q]

\* flush() up to the await of dispatch(): the batch leaves the backlog.
\* pendingFlush is left alone, although its timer may be the one that fired.
StartFlush(q) ==
  \E s \in Slots :
    LET n == BatchLen(q)
        batch == SubSeq(messages[q], 1, n) IN
    /\ flights[q][s].stage = "idle"
    /\ flights' = [flights EXCEPT ![q][s] = [stage |-> "dispatching", batch |-> batch]]
    /\ messages' = [messages EXCEPT ![q] = SubSeq(@, n + 1, Len(@))]
    /\ backlogBytes' = [backlogBytes EXCEPT ![q] = @ - n]
    /\ deliveries' = [m \in Msgs |->
         IF m \in Range(batch) THEN deliveries[m] + 1 ELSE deliveries[m]]
    /\ UNCHANGED <<delayed, pendingFlush, failedAttempts, fate, acked>>

FlushTimerFires(q) ==
  /\ armed[q]
  /\ armed' = [armed EXCEPT ![q] = FALSE]
  /\ StartFlush(q)
  /\ UNCHANGED orphans

\* Mutant: a timer that fires although it was not running.
TimerFiresTwice(q) ==
  /\ orphans' = [orphans EXCEPT ![q] = @ - 1]
  /\ StartFlush(q)
  /\ UNCHANGED armed

OrphanTimerFires(q) ==
  /\ orphans[q] > 0
  /\ orphans' = [orphans EXCEPT ![q] = @ - 1]
  /\ StartFlush(q)
  /\ UNCHANGED armed

\* Mutant: a batch-wide retry takes the acknowledged messages along.
RetriedDespiteAck(S, retryAll, retry, acks) == retry \cup (IF retryAll THEN S ELSE {})

\* The messages of the batch S that failed: retried one by one, or by a retry
\* of the whole batch that spares the explicitly acknowledged ones.
Retried(S, retryAll, retry, acks) == retry \cup (IF retryAll THEN S \ acks ELSE {})

\* The messages of `retried' that have attempts left
Again(q, retried) == {m \in retried : failedAttempts[m] + 1 < MaxRetries[q] + 1}

\* Mutant: what is requeued is dead-lettered as well.
DeadAndAgain(q, retried) == IF DLQ[q] = NoQueue THEN {} ELSE retried

\* ... that go to the dead-letter queue, and that are dropped
Dead(q, retried) == IF DLQ[q] = NoQueue THEN {} ELSE retried \ Again(q, retried)
Dropped(q, retried) == IF DLQ[q] = NoQueue THEN retried \ Again(q, retried) ELSE {}

\* Mutant: flush() ends without a look at the backlog.
RescheduleForgotten(q, backlog) == NoFlush

\* The end of flush() forgets the pending flush and schedules one for a backlog.
Reschedule(q, backlog) ==
  IF backlog = <<>> THEN NoFlush ELSE EnsurePendingFlush(q, NoFlush, Len(backlog))

\* flush() from the consumer's answer to the end, or to the await of the
\* dead-letter POST: `retried' failed, and those of them in `slow' wait for a
\* delay.  The requeues still see the old pendingFlush; when it is forgotten,
\* its timer, or the one the requeues put in its place, runs on as an orphan.
Settle(q, s, retried, slow) ==
  LET b == flights[q][s].batch
      again == Again(q, retried)
      dead == Dead(q, retried)
  IN
  \E now \in InBatchOrder(b, again \ slow), forward \in InBatchOrder(b, dead) :
    LET backlog == messages[q] \o now
        forgotten == AfterPushes(q, Flush(q), now)
        pf == Reschedule(q, backlog)
    IN
    /\ forgotten.armed => orphans[q] < MaxOrphans
    /\ messages' = [messages EXCEPT ![q] = backlog]
    /\ backlogBytes' = [backlogBytes EXCEPT ![q] = @ + Len(now)]
    /\ delayed' = [delayed EXCEPT ![q] = @ \cup (again \cap slow)]
    /\ orphans' = [orphans EXCEPT ![q] = IF forgotten.armed THEN @ + 1 ELSE @]
    /\ pendingFlush' = [pendingFlush EXCEPT ![q] = pf.kind]
    /\ armed' = [armed EXCEPT ![q] = pf.armed]
    /\ flights' = [flights EXCEPT ![q][s] =
         IF dead = {} THEN Idle ELSE [stage |-> "forwarding", batch |-> forward]]
    /\ failedAttempts' = [m \in Msgs |->
         IF m \in retried THEN failedAttempts[m] + 1 ELSE failedAttempts[m]]
    /\ fate' = [m \in Msgs |-> IF m \in Range(b) \ retried THEN "acked"
                               ELSE IF m \in Dropped(q, retried) THEN "dropped"
                               ELSE fate[m]]
    /\ UNCHANGED deliveries

\* The queue() call resolves.  `retryAll' stands for retryBatch.retry or an
\* outcome other than "ok"; the runtime reports no message both as acked and
\* as retried, and a retry may carry a delay (`slow').
ConsumerResponds(q, s) ==
  LET S == Range(flights[q][s].batch) IN
    /\ flights[q][s].stage = "dispatching"
    /\ \E retryAll \in BOOLEAN, retry \in SUBSET S : \E acks \in SUBSET (S \ retry) :
         LET retried == Retried(S, retryAll, retry, acks) IN
         /\ \E slow \in SUBSET Again(q, retried) : Settle(q, s, retried, slow)
         /\ acked' = acked \cup acks

\* The queue() call rejects: exceptionQueueResult, the consumer's retryDelay
DispatchRejected(q, s) ==
  LET S == Range(flights[q][s].batch) IN
    /\ flights[q][s].stage = "dispatching"
    /\ Settle(q, s, S, IF RetryDelay[q] > 0 THEN S ELSE {})
    /\ UNCHANGED acked

-----------------------------------------------------------------------------
(* sendToDeadLetterQueue() *)

EndFlush(q, s) == flights' = [flights EXCEPT ![q][s] = Idle]

\* The DLQ's broker accepts the POST /batch: new QueueMessage objects with the
\* same ids.  The sender's flush() ends whatever the answer is.
DeadLetterArrives(q, s) ==
  LET b == flights[q][s].batch IN
    /\ flights[q][s].stage = "forwarding"
    /\ EndFlush(q, s)
    /\ IF DeliveryDelay[DLQ[q]] > 0
       THEN Enqueue(DLQ[q], <<>>, Range(b)) ELSE Enqueue(DLQ[q], b, {})
    /\ failedAttempts' = [m \in Msgs |-> IF m \in Range(b) THEN 0 ELSE failedAttempts[m]]
    /\ deliveries' = [m \in Msgs |-> IF m \in Range(b) THEN 0 ELSE deliveries[m]]
    /\ UNCHANGED <<fate, acked>>

\* The POST throws, or is answered with an error: a warning, and nobody holds
\* the messages any more.
DeadLetterFails(q, s) ==
  LET b == flights[q][s].batch IN
    /\ flights[q][s].stage = "forwarding"
    /\ EndFlush(q, s)
    /\ fate' = [m \in Msgs |-> IF m \in Range(b) THEN "lost" ELSE fate[m]]
    /\ UNCHANGED <<messages, delayed, flushVars, backlogBytes, failedAttempts, deliveries,
                   acked>>

-----------------------------------------------------------------------------
Next ==
  \E q \in Queues :
    \/ PostMessage(q)
    \/ PostBatch(q)
    \/ \E m \in Msgs : DelayElapses(q, m)
    \/ FlushTimerFires(q)
    \/ OrphanTimerFires(q)
    \/ \E s \in Slots :
         \/ ConsumerResponds(q, s)
         \/ DispatchRejected(q, s)
         \/ DeadLetterArrives(q, s)
         \/ DeadLetterFails(q, s)

Spec == Init /\ [][Next]_vars

\* Timers fire, the user's queue() handler ends (workerd bounds its run time),
\* and the dead-letter POST is answered or fails.  Nobody has to send.
Fairness ==
  \A q \in Queues :
    /\ \A m \in Msgs : WF_vars(DelayElapses(q, m))
    /\ WF_vars(FlushTimerFires(q))
    /\ WF_vars(OrphanTimerFires(q))
    /\ \A s \in Slots :
         /\ WF_vars(ConsumerResponds(q, s) \/ DispatchRejected(q, s))
         /\ WF_vars(DeadLetterArrives(q, s) \/ DeadLetterFails(q, s))

FairSpec == Spec /\ Fairness

-----------------------------------------------------------------------------
(* Properties *)

Dispatching(q) == \E s \in Slots : flights[q][s].stage = "dispatching"

\* A backlog is never forgotten: while messages wait, either the flush timer is
\* running, or a flush() is in progress whose end looks at the backlog again.
\* pendingFlush alone does not say so, since it stays set after its timer fired.
NoStrandedBacklog ==
  \A q \in Queues : messages[q] # <<>> => armed[q] \/ Dispatching(q)

\* A full batch never waits for the batch timeout: the flush that is pending is
\* an immediate one, however the backlog came to be that long.
FullBatchIsUrgent ==
  \A q \in Queues : Len(messages[q]) >= BatchSize[q] /\ messages[q] # <<>>
                      => pendingFlush[q] = "immediate"

\* Where a message is: a position of a backlog or of a batch, or a delay.
Places(m) ==
  UNION {
    {<<"backlog", q, i>> : i \in {j \in DOMAIN messages[q] : messages[q][j] = m}}
      \cup (IF m \in delayed[q] THEN {<<"delay", q>>} ELSE {})
      \cup UNION {{<<"flight", q, s, i>> : i \in {j \in DOMAIN flights[q][s].batch :
                                                     flights[q][s].batch[j] = m}} : s \in Slots}
    : q \in Queues}

\* No message is lost on the way or delivered from two places: a message that
\* was accepted and not yet settled is in exactly one place of one broker, and
\* one that was acked, dropped or lost is in none, so never delivered again.
Conservation ==
  \A m \in Msgs : Cardinality(Places(m)) = IF fate[m] = "live" THEN 1 ELSE 0

\* "Explicitly acked messages take precedence over a batch-wide retry": what a
\* consumer acknowledged is out of the system, whatever else its answer said.
AckedNeverRedelivered == \A m \in acked : fate[m] = "acked"

\* The backlogBytes metric is the size of the backlog, whichever of the sends,
\* delays, flushes and requeues came in between.
BacklogBytesExact == \A q \in Queues : backlogBytes[q] = Len(messages[q])

\* Every accepted message is in the end acked, dropped, or lost to a failed
\* dead-letter forward (when no cycle of dead-letter queues keeps it going).
EveryMessageSettles ==
  \A m \in Msgs : fate[m] = "live" ~> fate[m] \in {"acked", "dropped", "lost"}

-----------------------------------------------------------------------------
(* The brokers implement QueueDelivery *)

HeldBy(q, m) ==
  \/ m \in Range(messages[q]) \cup delayed[q]
  \/ \E s \in Slots : m \in Range(flights[q][s].batch)

FlightOf(m, stage) ==
  \E q \in Queues, s \in Slots :
    flights[q][s].stage = stage /\ m \in Range(flights[q][s].batch)

place ==
  [m \in Msgs |-> IF fate[m] # "live" THEN fate[m]
                  ELSE IF FlightOf(m, "dispatching") THEN "inFlight"
                  ELSE IF FlightOf(m, "forwarding") THEN "forwarding"
                  ELSE "waiting"]

home ==
  [m \in Msgs |-> IF fate[m] # "live" THEN NoQueue
                  ELSE CHOOSE q \in Queues : HeldBy(q, m)]

Delivery == INSTANCE QueueDelivery WITH attempts <- deliveries

\* Each step of the brokers is a step of the promise, or invisible to it.
ImplementsDelivery == Delivery!Spec
=============================================================================
