--------------------------- MODULE QueueDelivery ---------------------------
(***************************************************************************)
(* What a queue promises, without backlogs, timers or flushes: a message   *)
(* that was accepted is handed to the consumer of its queue in batches of  *)
(* at most maxBatchSize, until it is acknowledged or has been handed over  *)
(* maxRetries + 1 times; then it moves to the dead-letter queue, where it  *)
(* starts anew, or is dropped.  QueueBroker implements this.               *)
(***************************************************************************)
EXTENDS Integers, FiniteSets

CONSTANTS Queues, Msgs, NoQueue, BatchSize, MaxRetries, DLQ

VARIABLES
  place,     \* [m] how far m has come
  home,      \* [m] the queue that holds m, or NoQueue
  attempts   \* [m] hand-overs to the consumer of the current queue

vars == <<place, home, attempts>>

Places == {"unsent", "waiting", "inFlight", "forwarding", "acked", "dropped", "lost"}

TypeOK ==
  /\ place \in [Msgs -> Places]
  /\ home \in [Msgs -> Queues \cup {NoQueue}]
  /\ attempts \in [Msgs -> Nat]

Init ==
  /\ place = [m \in Msgs |-> "unsent"]
  /\ home = [m \in Msgs |-> NoQueue]
  /\ attempts = [m \in Msgs |-> 0]

\* The messages of queue q that are at place p
At(q, p) == {m \in Msgs : home[m] = q /\ place[m] = p}

Move(S, p) == place' = [m \in Msgs |-> IF m \in S THEN p ELSE place[m]]
Rehome(S, q) == home' = [m \in Msgs |-> IF m \in S THEN q ELSE home[m]]
SetAttempts(S, n) == attempts' = [m \in Msgs |-> IF m \in S THEN n ELSE attempts[m]]

Accept(q, S) ==
  /\ S \subseteq {m \in Msgs : place[m] = "unsent"}
  /\ Move(S, "waiting") /\ Rehome(S, q) /\ SetAttempts(S, 0)

Deliver(q, S) ==
  /\ S \subseteq At(q, "waiting")
  /\ Cardinality(S) <= BatchSize[q]
  /\ Move(S, "inFlight")
  /\ attempts' = [m \in Msgs |-> IF m \in S THEN attempts[m] + 1 ELSE attempts[m]]
  /\ UNCHANGED home

\* The consumer answers for S: `retried' failed, the rest succeeded.
Answer(q, S, retried) ==
  LET again == {m \in retried : attempts[m] <= MaxRetries[q]}
      dead == IF DLQ[q] = NoQueue THEN {} ELSE retried \ again
  IN
  /\ S \subseteq At(q, "inFlight")
  /\ place' = [m \in Msgs |-> IF m \notin S THEN place[m]
                              ELSE IF m \notin retried THEN "acked"
                              ELSE IF m \in again THEN "waiting"
                              ELSE IF m \in dead THEN "forwarding" ELSE "dropped"]
  /\ Rehome(S \ (again \cup dead), NoQueue)
  /\ UNCHANGED attempts

Forward(q, S) ==
  /\ S \subseteq At(q, "forwarding")
  /\ Move(S, "waiting") /\ Rehome(S, DLQ[q]) /\ SetAttempts(S, 0)

Lose(q, S) ==
  /\ S \subseteq At(q, "forwarding")
  /\ Move(S, "lost") /\ Rehome(S, NoQueue) /\ UNCHANGED attempts

Next ==
  \E q \in Queues :
    \/ \E S \in SUBSET {m \in Msgs : place[m] = "unsent"} : Accept(q, S)
    \/ \E S \in SUBSET At(q, "waiting") : Deliver(q, S)
    \/ \E S \in SUBSET At(q, "inFlight") : \E retried \in SUBSET S : Answer(q, S, retried)
    \/ \E S \in SUBSET At(q, "forwarding") : Forward(q, S) \/ Lose(q, S)

Spec == Init /\ [][Next]_vars
=============================================================================
