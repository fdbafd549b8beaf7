------------------------------ MODULE QueuePull ------------------------------
(***************************************************************************)
(* The pull loop of a local consumer of a real Cloudflare queue            *)
(* (pullLoop in src/bindings/queue/Queue.ts): it leases a batch from the   *)
(* queue over its HTTP API, posts the messages one by one to the local     *)
(* QueueBroker, and acknowledges those the broker took, all at once.  The  *)
(* queue itself is external: a lease lapses after its visibility timeout,  *)
(* and the message becomes visible again.                                  *)
(***************************************************************************)
EXTENDS Integers, FiniteSets

CONSTANTS
  Pulled,      \* the messages of the queue
  PullBatch,   \* batchSize: maxBatchSize, or 10
  MaxFaults    \* bound: calls that fail, and leases that lapse

ASSUME PullBatchAssumption == PullBatch \in Nat \ {0} /\ MaxFaults \in Nat

VARIABLES
  visible,     \* messages the queue may hand out
  leased,      \* ... has handed out, and nobody has acknowledged
  iteration,   \* what the loop does: "pull", "post" or "ack"
  messages,    \* of the pulled batch, still to be posted
  acks,        \* taken by the broker, to be acknowledged
  accepted,    \* history: the messages the broker has taken
  faults       \* so far

pullVars == <<visible, leased, iteration, messages, acks, accepted, faults>>

PullTypeOK ==
  /\ visible \subseteq Pulled
  /\ leased \subseteq Pulled \ visible
  /\ iteration \in {"pull", "post", "ack"}
  /\ messages \subseteq Pulled
  /\ acks \subseteq accepted
  /\ accepted \subseteq Pulled
  /\ faults \in 0..MaxFaults

PullInit ==
  /\ visible = {}
  /\ leased = {}
  /\ iteration = "pull"
  /\ messages = {}
  /\ acks = {}
  /\ accepted = {}
  /\ faults = 0

\* Somebody sends a message to the queue.
PullSend(m) ==
  /\ m \notin visible \cup leased \cup accepted
  /\ visible' = visible \cup {m}
  /\ UNCHANGED <<leased, iteration, messages, acks, accepted, faults>>

\* pullMessage(): without messages the loop sleeps and asks again.
Pull(batch) ==
  /\ iteration = "pull"
  /\ batch # {} /\ batch \subseteq visible /\ Cardinality(batch) <= PullBatch
  /\ visible' = visible \ batch
  /\ leased' = leased \cup batch
  /\ messages' = batch
  /\ iteration' = "post"
  /\ UNCHANGED <<acks, accepted, faults>>

\* After the last message of the batch
AfterPost(left, toAck) ==
  iteration' = IF left # {} THEN "post" ELSE IF toAck # {} THEN "ack" ELSE "pull"

\* Mutant: a message is acknowledged whatever the broker says.
PostAcksRefused(m) ==
  /\ iteration = "post" /\ m \in messages /\ faults < MaxFaults
  /\ messages' = messages \ {m}
  /\ acks' = acks \cup {m}
  /\ faults' = faults + 1
  /\ AfterPost(messages', acks')
  /\ UNCHANGED <<visible, leased, accepted>>

\* The broker takes m.
PostAccepted(m) ==
  /\ iteration = "post" /\ m \in messages
  /\ messages' = messages \ {m}
  /\ acks' = acks \cup {m}
  /\ accepted' = accepted \cup {m}
  /\ AfterPost(messages', acks')
  /\ UNCHANGED <<visible, leased, faults>>

\* ... or answers with an error: m is left to its lease.
PostRefused(m) ==
  /\ iteration = "post" /\ m \in messages /\ faults < MaxFaults
  /\ messages' = messages \ {m}
  /\ faults' = faults + 1
  /\ AfterPost(messages', acks)
  /\ UNCHANGED <<visible, leased, acks, accepted>>

Ack ==
  /\ iteration = "ack"
  /\ leased' = leased \ acks
  /\ acks' = {}
  /\ iteration' = "pull"
  /\ UNCHANGED <<visible, messages, accepted, faults>>

\* A post or the acknowledgement throws: the iteration is over, and what the
\* broker has taken is not acknowledged.
IterationFails ==
  /\ iteration \in {"post", "ack"} /\ faults < MaxFaults
  /\ faults' = faults + 1
  /\ iteration' = "pull"
  /\ messages' = {}
  /\ acks' = {}
  /\ UNCHANGED <<visible, leased, accepted>>

\* A lease lapses: always, when the loop has lost the message, and at times while
\* it is still at work on the batch.
LeaseLapses(m) ==
  /\ m \in leased
  /\ \/ m \notin messages \cup acks /\ UNCHANGED faults
     \/ m \in messages \cup acks /\ faults < MaxFaults /\ faults' = faults + 1
  /\ leased' = leased \ {m}
  /\ visible' = visible \cup {m}
  /\ UNCHANGED <<iteration, messages, acks, accepted>>

PullNext ==
  \/ \E m \in Pulled : PullSend(m) \/ PostAccepted(m) \/ PostRefused(m) \/ LeaseLapses(m)
  \/ \E batch \in SUBSET Pulled : Pull(batch)
  \/ Ack
  \/ IterationFails

PullSpec == PullInit /\ [][PullNext]_pullVars

\* The loop goes on for ever; the queue hands out every message at some time and
\* the lease of a lost message lapses.
PullFairness ==
  /\ \A m \in Pulled :
       /\ SF_pullVars(\E batch \in SUBSET Pulled : m \in batch /\ Pull(batch))
       /\ WF_pullVars(PostAccepted(m))
       /\ WF_pullVars(LeaseLapses(m))
  /\ WF_pullVars(Ack)

-----------------------------------------------------------------------------
(* Properties *)

\* A message of the queue reaches the broker, whatever fails on the way: it is
\* not acknowledged before.
EveryPulledMessageArrives == \A m \in Pulled : m \in visible ~> m \in accepted

\* The queue keeps a message, visible or leased, until the broker has taken it.  What
\* is acknowledged at the end of an iteration must be what was posted in it, whatever
\* posts were refused and whatever leases lapsed in between.
KeptUntilAccepted ==
  [][\A m \in visible \cup leased : m \in (visible \cup leased)' \/ m \in accepted']_pullVars
=============================================================================
