------------------------- MODULE QueueBrokerProofs -------------------------
(***************************************************************************)
(* Theorems about QueueBroker, for any number of queues, messages and      *)
(* concurrent flushes: the types, that no backlog is stranded (IInv), that *)
(* no message is lost or doubled (PlacesInv, which follows a message from  *)
(* place to place), and that the brokers implement QueueDelivery.          *)
(***************************************************************************)
EXTENDS QueueBroker, SequenceTheorems, FiniteSetTheorems, TLAPS

-----------------------------------------------------------------------------
(* Sequences *)

\* The members of a sequence form a finite set.
LEMMA RangeFinite ==
  ASSUME NEW S, NEW b \in Seq(S)
  PROVE  Range(b) \subseteq S /\ IsFiniteSet(Range(b))
<1>1. Range(b) \subseteq S
  BY DEF Range
<1>2. b \in Surjection(1..Len(b), Range(b))
  BY DEF Surjection, Range
<1>3. IsFiniteSet(1..Len(b))
  BY FS_Interval
<1>. QED  BY <1>1, <1>2, <1>3, FS_Surjection

LEMMA RangeBound ==
  ASSUME NEW S, NEW b \in Seq(S)
  PROVE  Cardinality(Range(b)) \in Nat /\ Cardinality(Range(b)) <= Len(b)
<1>1. b \in Surjection(1..Len(b), Range(b))
  BY DEF Surjection, Range
<1>2. IsFiniteSet(1..Len(b)) /\ Cardinality(1..Len(b)) = Len(b)
  <2>1. Len(b) \in Nat
    OBVIOUS
  <2>. QED  BY <2>1, FS_Interval
<1>3. Cardinality(Range(b)) <= Cardinality(1..Len(b))
  BY <1>1, <1>2, FS_Surjection
<1>. QED  BY <1>2, <1>3, RangeFinite, FS_CardinalityType

\* What is filtered from a batch, in its order, is a sequence of messages.
LEMMA InBatchOrderType ==
  ASSUME NEW b \in Seq(Msgs), NEW S \in SUBSET Range(b),
         NEW f \in InBatchOrder(b, S)
  PROVE  f \in Seq(Msgs) /\ Range(f) = S
<1>1. IsFiniteSet(S)
  BY RangeFinite, FS_Subset
<1>2. Cardinality(S) \in Nat
  BY <1>1, FS_CardinalityType
<1>3. f \in [1..Cardinality(S) -> Msgs]
  BY RangeFinite DEF InBatchOrder
<1>. QED  BY <1>2, <1>3 DEF InBatchOrder

\* A flush takes a prefix of the backlog and leaves the rest.
LEMMA SplitBacklog ==
  ASSUME TypeOK, NEW q \in Queues
  PROVE  /\ BatchLen(q) \in 0..Len(messages[q])
         /\ SubSeq(messages[q], 1, BatchLen(q)) \in Seq(Msgs)
         /\ SubSeq(messages[q], BatchLen(q) + 1, Len(messages[q])) \in Seq(Msgs)
         /\ Len(SubSeq(messages[q], BatchLen(q) + 1, Len(messages[q])))
              = Len(messages[q]) - BatchLen(q)
<1>. DEFINE l == messages[q]
<1>1. l \in Seq(Msgs) /\ Len(l) \in Nat /\ BatchSize[q] \in Nat
  BY BatchSizeAssumption DEF TypeOK
<1>2. BatchLen(q) \in 0..Len(l)
  BY <1>1 DEF BatchLen, BatchHasSpace
<1>3. \A i \in 1..Len(l) : l[i] \in Msgs
  BY <1>1, ElementOfSeq
<1>. QED  BY <1>1, <1>2, <1>3, SubSeqProperties

-----------------------------------------------------------------------------
(* Scheduling a flush *)

FlushRecord == [kind : {"none", "timed", "immediate"}, armed : BOOLEAN]

\* Calling ensurePendingFlush after one push and again after the next is the
\* same as calling it after the second: the loops of the code that push one
\* message at a time end with the flush that AfterPushes gives.
THEOREM OnePushAtATime ==
  ASSUME NEW q \in Queues, NEW pf \in FlushRecord, NEW n \in Nat
  PROVE  EnsurePendingFlush(q, EnsurePendingFlush(q, pf, n), n + 1)
           = EnsurePendingFlush(q, pf, n + 1)
<1>1. BatchSize[q] \in Nat
  BY BatchSizeAssumption
<1>2. KeepsFlush(q, pf.kind, n + 1) => KeepsFlush(q, pf.kind, n)
  BY <1>1 DEF KeepsFlush, BatchHasSpace
<1>3. CASE KeepsFlush(q, pf.kind, n)
  BY <1>3 DEF EnsurePendingFlush
<1>4. CASE ~KeepsFlush(q, pf.kind, n)
  <2>1. ~KeepsFlush(q, pf.kind, n + 1)
    BY <1>2, <1>4
  <2>2. CASE KeepsFlush(q, NewFlush(q, n), n + 1)
    <3>1. NewFlush(q, n + 1) = NewFlush(q, n)
      BY <1>1, <2>2 DEF NewFlush, KeepsFlush, BatchHasSpace
    <3>. QED  BY <1>4, <2>1, <2>2, <3>1 DEF EnsurePendingFlush
  <2>3. CASE ~KeepsFlush(q, NewFlush(q, n), n + 1)
    BY <1>4, <2>1, <2>3 DEF EnsurePendingFlush
  <2>. QED  BY <2>2, <2>3
<1>. QED  BY <1>3, <1>4

\* After a push the pending flush fits the backlog.
LEMMA AfterPushesFits ==
  ASSUME TypeOK, NEW q \in Queues, NEW ms \in Seq(Msgs),
         NEW pf \in FlushRecord
  PROVE  LET new == AfterPushes(q, pf, ms)
             n == Len(messages[q]) + Len(ms) IN
         /\ new \in FlushRecord
         /\ ms # <<>> => /\ new.kind # "none"
                         /\ n >= BatchSize[q] => new.kind = "immediate"
         /\ ms = <<>> => new = pf
         /\ new.armed \/ new = pf
<1>1. BatchSize[q] \in Nat
  BY BatchSizeAssumption
<1>2. Len(messages[q]) + Len(ms) \in Nat
  BY DEF TypeOK
<1>3. \A n \in Nat :
        LET new == EnsurePendingFlush(q, pf, n) IN
        /\ new \in FlushRecord
        /\ new.kind # "none"
        /\ n >= BatchSize[q] => new.kind = "immediate"
        /\ new.armed \/ new = pf
  BY <1>1 DEF EnsurePendingFlush, KeepsFlush, NewFlush, BatchHasSpace, FlushRecord
<1>. QED
  BY <1>2, <1>3 DEF AfterPushes

\* A flush scheduled from nothing is armed and fits the backlog.
LEMMA FreshFlushFits ==
  ASSUME NEW q \in Queues, NEW n \in Nat
  PROVE  LET new == EnsurePendingFlush(q, NoFlush, n) IN
         /\ new \in FlushRecord
         /\ new.kind # "none" /\ new.armed
         /\ n >= BatchSize[q] => new.kind = "immediate"
<1>1. BatchSize[q] \in Nat
  BY BatchSizeAssumption
<1>. QED
  BY <1>1 DEF EnsurePendingFlush, KeepsFlush, NewFlush, BatchHasSpace, FlushRecord, NoFlush

LEMMA FlushType ==
  ASSUME TypeOK, NEW q \in Queues
  PROVE  Flush(q) \in FlushRecord
BY DEF TypeOK, Flush, FlushRecord

-----------------------------------------------------------------------------
(* The inductive invariant *)

\* A backlog has a pending flush, and a pending flush whose timer already fired
\* belongs to a flush() that is still in progress.  The first part alone is not
\* inductive: pendingFlush survives its timer, and only the second part tells
\* that somebody will look at the backlog again.
FlushOK(q) ==
  /\ messages[q] # <<>> => pendingFlush[q] # "none"
  /\ pendingFlush[q] # "none" => armed[q] \/ Dispatching(q)
  /\ messages[q] # <<>> /\ Len(messages[q]) >= BatchSize[q] => pendingFlush[q] = "immediate"
  /\ backlogBytes[q] = Len(messages[q])

ForwardsSomewhere ==
  \A q \in Queues, s \in Slots : flights[q][s].stage = "forwarding" => DLQ[q] # NoQueue

IInv == TypeOK /\ ForwardsSomewhere /\ \A q \in Queues : FlushOK(q)

LEMMA InitIInv == Init => IInv
<1>. SUFFICES ASSUME Init PROVE IInv
  OBVIOUS
<1>1. TypeOK
  BY EmptySeq DEF Init, TypeOK, Idle, Flights, Fates
<1>2. ForwardsSomewhere
  BY DEF Init, ForwardsSomewhere, Idle
<1>3. \A q \in Queues : FlushOK(q)
  BY EmptySeq DEF Init, FlushOK
<1>. QED  BY <1>1, <1>2, <1>3 DEF IInv

\* Pushing keeps the types and the pending flushes right, as long as no
\* dispatch ends meanwhile.
LEMMA PushPreserves ==
  ASSUME TypeOK, NEW q \in Queues, NEW now \in Seq(Msgs), Push(q, now)
  PROVE  /\ messages' \in [Queues -> Seq(Msgs)]
         /\ pendingFlush' \in [Queues -> {"none", "timed", "immediate"}]
         /\ armed' \in [Queues -> BOOLEAN]
         /\ orphans' \in [Queues -> Nat]
         /\ backlogBytes' \in [Queues -> Int]
         /\ \A p \in Queues : FlushOK(p) /\ (Dispatching(p) => Dispatching(p)') => FlushOK(p)'
<1>. DEFINE pf == AfterPushes(q, Flush(q), now)
<1>1. pf \in FlushRecord
  BY AfterPushesFits, FlushType
<1>2. messages' \in [Queues -> Seq(Msgs)]
  BY DEF Push, TypeOK
<1>3. /\ pendingFlush' \in [Queues -> {"none", "timed", "immediate"}]
      /\ armed' \in [Queues -> BOOLEAN]
      /\ orphans' \in [Queues -> Nat]
  BY <1>1 DEF Push, TypeOK, FlushRecord
<1>4. backlogBytes' \in [Queues -> Int]
  BY DEF Push, TypeOK
<1>5. ASSUME NEW p \in Queues, FlushOK(p), Dispatching(p) => Dispatching(p)'
      PROVE  FlushOK(p)'
  <2>1. CASE p # q
    BY <1>5, <2>1 DEF Push, TypeOK, FlushOK
  <2>2. CASE p = q
    <3>1. /\ messages'[q] = messages[q] \o now
          /\ backlogBytes'[q] = backlogBytes[q] + Len(now)
          /\ pendingFlush'[q] = pf.kind /\ armed'[q] = pf.armed
      BY DEF Push, TypeOK
    <3>2. messages[q] \in Seq(Msgs)
      BY DEF TypeOK
    <3>3. Len(messages'[q]) = Len(messages[q]) + Len(now)
      BY <3>1, <3>2, ConcatProperties
    <3>4. CASE now = <<>>
      <4>1. messages'[q] = messages[q] /\ Len(now) = 0
        BY <3>1, <3>2, <3>4, ConcatEmptySeq
      <4>2. pf = Flush(q)
        BY <3>4, AfterPushesFits, FlushType
      <4>. QED
        BY <1>5, <2>2, <3>1, <4>1, <4>2 DEF FlushOK, Flush, TypeOK
    <3>5. CASE now # <<>>
      <4>1. pf.kind # "none"
        BY <3>5, AfterPushesFits, FlushType
      <4>2. Len(messages'[q]) >= BatchSize[q] => pf.kind = "immediate"
        BY <3>3, <3>5, AfterPushesFits, FlushType
      <4>3. pf.armed \/ (pf.armed = armed[q] /\ pf.kind = pendingFlush[q])
        BY AfterPushesFits, FlushType DEF Flush
      <4>4. Len(messages[q]) \in Nat /\ Len(now) \in Nat
        BY <3>2
      <4>. QED
        BY <1>5, <2>2, <3>1, <3>3, <4>1, <4>2, <4>3, <4>4 DEF FlushOK
    <3>. QED  BY <3>4, <3>5
  <2>. QED  BY <2>1, <2>2
<1>. QED  BY <1>2, <1>3, <1>4, <1>5

LEMMA PostPreserves ==
  ASSUME IInv, NEW q \in Queues, PostMessage(q) \/ PostBatch(q)
  PROVE  IInv'
<1>1. PICK batch \in Seq(Msgs), later \in SUBSET Msgs :
        later \subseteq Range(batch) /\ Post(q, batch, later)
  <2>1. CASE PostMessage(q)
    <3>1. \A m \in Msgs : <<m>> \in Seq(Msgs) /\ {m} \subseteq Range(<<m>>)
      BY DEF Range
    <3>. QED  BY <2>1, <3>1 DEF PostMessage
  <2>2. CASE PostBatch(q)
    <3>1. \A m, n \in Msgs : <<m, n>> \in Seq(Msgs) /\ {m, n} \subseteq Range(<<m, n>>)
      BY DEF Range
    <3>. QED  BY <2>2, <3>1 DEF PostBatch
  <2>. QED  BY <2>1, <2>2
<1>2. TypeOK /\ Range(batch) \subseteq Msgs
  BY RangeFinite DEF IInv
<1>3. PICK now \in InBatchOrder(batch, Range(batch) \ later) : Enqueue(q, now, later)
  BY <1>1 DEF Post
<1>4. now \in Seq(Msgs)
  BY <1>3, InBatchOrderType
<1>5. TypeOK'
  <2>1. fate' \in [Msgs -> Fates] /\ UNCHANGED <<flights, failedAttempts, deliveries, acked>>
    BY <1>1, <1>2 DEF Post, TypeOK, Fates
  <2>2. delayed' \in [Queues -> SUBSET Msgs]
    BY <1>2, <1>3 DEF Enqueue, TypeOK
  <2>. QED  BY <1>2, <1>3, <1>4, <2>1, <2>2, PushPreserves DEF Enqueue, TypeOK
<1>6. UNCHANGED flights
  BY <1>1 DEF Post
<1>7. ForwardsSomewhere'
  BY <1>6 DEF IInv, ForwardsSomewhere
<1>8. \A p \in Queues : FlushOK(p)'
  BY <1>2, <1>3, <1>4, <1>6, PushPreserves DEF IInv, Dispatching, Enqueue
<1>. QED  BY <1>5, <1>7, <1>8 DEF IInv

LEMMA DelayElapsesPreserves ==
  ASSUME IInv, NEW q \in Queues, NEW m \in Msgs, DelayElapses(q, m)
  PROVE  IInv'
<1>1. TypeOK /\ Push(q, <<m>>) /\ <<m>> \in Seq(Msgs)
  BY DEF IInv, DelayElapses
<1>2. TypeOK'
  BY <1>1, PushPreserves DEF DelayElapses, TypeOK
<1>3. ForwardsSomewhere'
  BY DEF IInv, ForwardsSomewhere, DelayElapses
<1>4. \A p \in Queues : FlushOK(p)'
  BY <1>1, PushPreserves DEF IInv, Dispatching, DelayElapses
<1>. QED  BY <1>2, <1>3, <1>4 DEF IInv

LEMMA StartFlushPreserves ==
  ASSUME IInv, NEW q \in Queues, FlushTimerFires(q) \/ OrphanTimerFires(q)
  PROVE  IInv'
<1>. DEFINE n == BatchLen(q)
            batch == SubSeq(messages[q], 1, n)
            rest == SubSeq(messages[q], n + 1, Len(messages[q]))
<1>1. TypeOK
  BY DEF IInv
<1>2. PICK s \in Slots :
        /\ flights[q][s].stage = "idle"
        /\ flights' = [flights EXCEPT ![q][s] = [stage |-> "dispatching", batch |-> batch]]
        /\ messages' = [messages EXCEPT ![q] = SubSeq(@, n + 1, Len(@))]
        /\ backlogBytes' = [backlogBytes EXCEPT ![q] = @ - n]
        /\ deliveries' = [m \in Msgs |->
             IF m \in Range(batch) THEN deliveries[m] + 1 ELSE deliveries[m]]
        /\ UNCHANGED <<delayed, pendingFlush, failedAttempts, fate, acked>>
  BY DEF FlushTimerFires, OrphanTimerFires, StartFlush
<1>3. /\ n \in Nat /\ n <= Len(messages[q]) /\ Len(messages[q]) \in Nat
      /\ batch \in Seq(Msgs) /\ rest \in Seq(Msgs)
      /\ Len(rest) = Len(messages[q]) - n
  BY <1>1, SplitBacklog DEF TypeOK
<1>4. /\ armed' \in [Queues -> BOOLEAN] /\ orphans' \in [Queues -> Nat]
      /\ \A p \in Queues : p # q => armed'[p] = armed[p]
  <2>1. CASE FlushTimerFires(q)
    BY <1>1, <2>1 DEF FlushTimerFires, TypeOK
  <2>2. CASE OrphanTimerFires(q)
    <3>1. orphans' = [orphans EXCEPT ![q] = @ - 1] /\ orphans[q] > 0 /\ armed' = armed
      BY <2>2 DEF OrphanTimerFires
    <3>2. orphans' \in [Queues -> Nat]
      BY <1>1, <3>1 DEF TypeOK
    <3>. QED  BY <1>1, <3>1, <3>2 DEF TypeOK
  <2>. QED  BY <2>1, <2>2
<1>5. TypeOK'
  <2>1. messages' \in [Queues -> Seq(Msgs)] /\ backlogBytes' \in [Queues -> Int]
    BY <1>1, <1>2, <1>3 DEF TypeOK
  <2>2. flights' \in [Queues -> [Slots -> Flights]]
    BY <1>1, <1>2, <1>3 DEF TypeOK, Flights
  <2>3. deliveries' \in [Msgs -> Nat]
    BY <1>1, <1>2 DEF TypeOK
  <2>. QED  BY <1>1, <1>2, <1>4, <2>1, <2>2, <2>3 DEF TypeOK
<1>6. ForwardsSomewhere'
  BY <1>1, <1>2 DEF IInv, ForwardsSomewhere, TypeOK
<1>7. Dispatching(q)' /\ \A p \in Queues : Dispatching(p) => Dispatching(p)'
  BY <1>1, <1>2 DEF Dispatching, TypeOK, Flights
<1>8. ASSUME NEW p \in Queues PROVE FlushOK(p)'
  <2>0. FlushOK(p)
    BY DEF IInv
  <2>1. CASE p # q
    BY <1>1, <1>2, <1>4, <1>7, <2>0, <2>1 DEF FlushOK, TypeOK
  <2>2. CASE p = q
    <3>1. messages'[q] = rest /\ pendingFlush'[q] = pendingFlush[q]
      BY <1>1, <1>2 DEF TypeOK
    <3>2. rest # <<>> => messages[q] # <<>>
      BY <1>1, <1>3, EmptySeq DEF TypeOK
    <3>3. backlogBytes'[q] = Len(messages[q]) - n
      BY <1>1, <1>2, <2>0, <2>2 DEF FlushOK, TypeOK
    <3>4. Len(rest) >= BatchSize[q] => Len(messages[q]) >= BatchSize[q]
      BY <1>3, BatchSizeAssumption
    <3>. QED  BY <1>3, <1>7, <2>0, <2>2, <3>1, <3>2, <3>3, <3>4 DEF FlushOK
  <2>. QED  BY <2>1, <2>2
<1>. QED  BY <1>5, <1>6, <1>8 DEF IInv

LEMMA SettlePreserves ==
  ASSUME IInv, NEW q \in Queues, NEW s \in Slots,
         NEW retried \in SUBSET Range(flights[q][s].batch), NEW slow,
         Settle(q, s, retried, slow), acked' \subseteq Msgs
  PROVE  IInv'
<1>. DEFINE b == flights[q][s].batch
            again == Again(q, retried)
            dead == Dead(q, retried)
<1>1. TypeOK /\ b \in Seq(Msgs) /\ Range(b) \subseteq Msgs
  BY RangeFinite DEF IInv, TypeOK, Flights
<1>2. again \subseteq Range(b) /\ dead \subseteq Range(b)
  BY DEF Again, Dead
<1>3. PICK now \in InBatchOrder(b, again \ slow), forward \in InBatchOrder(b, dead) :
        LET backlog == messages[q] \o now
            forgotten == AfterPushes(q, Flush(q), now)
            pf == Reschedule(q, backlog)
        IN
        /\ messages' = [messages EXCEPT ![q] = backlog]
        /\ backlogBytes' = [backlogBytes EXCEPT ![q] = @ + Len(now)]
        /\ delayed' = [delayed EXCEPT ![q] = @ \cup (again \cap slow)]
        /\ orphans' = [orphans EXCEPT ![q] = IF forgotten.armed THEN @ + 1 ELSE @]
        /\ pendingFlush' = [pendingFlush EXCEPT ![q] = pf.kind]
        /\ armed' = [armed EXCEPT ![q] = pf.armed]
        /\ flights' = [flights EXCEPT ![q][s] =
             IF dead = {} THEN Idle ELSE [stage |-> "forwarding", batch |-> forward]]
        /\ failedAttempts' = [m \in Msgs |->
             IF m \in retried THEN failedAttempts[m] + 1 ELSE failedAttempts[m]]
        /\ fate' = [m \in Msgs |-> IF m \in Range(b) \ retried THEN "acked"
                                   ELSE IF m \in Dropped(q, retried) THEN "dropped"
                                   ELSE fate[m]]
        /\ UNCHANGED deliveries
  BY DEF Settle
<1>4. now \in Seq(Msgs) /\ forward \in Seq(Msgs)
  BY <1>1, <1>2, <1>3, InBatchOrderType
<1>. DEFINE backlog == messages[q] \o now
            pf == Reschedule(q, backlog)
<1>5. /\ backlog \in Seq(Msgs) /\ Len(backlog) \in Nat
      /\ Len(backlog) = Len(messages[q]) + Len(now)
  BY <1>1, <1>4, ConcatProperties DEF TypeOK
<1>6. /\ pf \in FlushRecord
      /\ backlog # <<>> => pf.kind # "none" /\ pf.armed
      /\ backlog # <<>> /\ Len(backlog) >= BatchSize[q] => pf.kind = "immediate"
      /\ backlog = <<>> => pf.kind = "none"
  BY <1>5, FreshFlushFits DEF Reschedule, NoFlush, FlushRecord
<1>7. TypeOK'
  <2>1. messages' \in [Queues -> Seq(Msgs)] /\ backlogBytes' \in [Queues -> Int]
    <3>1. messages' = [messages EXCEPT ![q] = backlog]
      BY <1>3
    <3>2. backlogBytes' = [backlogBytes EXCEPT ![q] = @ + Len(now)] /\ Len(now) \in Int
      BY <1>3, <1>4
    <3>. QED  BY <1>1, <1>5, <3>1, <3>2 DEF TypeOK
  <2>2. /\ pendingFlush' \in [Queues -> {"none", "timed", "immediate"}]
        /\ armed' \in [Queues -> BOOLEAN]
    BY <1>1, <1>3, <1>6 DEF TypeOK, FlushRecord
  <2>3. orphans' \in [Queues -> Nat]
    BY <1>1, <1>3 DEF TypeOK
  <2>4. delayed' \in [Queues -> SUBSET Msgs]
    BY <1>1, <1>2, <1>3 DEF TypeOK
  <2>5. flights' \in [Queues -> [Slots -> Flights]]
    <3>1. Idle \in Flights /\ [stage |-> "forwarding", batch |-> forward] \in Flights
      BY <1>4, EmptySeq DEF Idle, Flights
    <3>. QED  BY <1>1, <1>3, <3>1 DEF TypeOK
  <2>6. failedAttempts' \in [Msgs -> Nat] /\ deliveries' \in [Msgs -> Nat]
    <3>1. /\ failedAttempts' = [m \in Msgs |->
               IF m \in retried THEN failedAttempts[m] + 1 ELSE failedAttempts[m]]
          /\ deliveries' = deliveries
      BY <1>3
    <3>. QED  BY <1>1, <3>1 DEF TypeOK
  <2>7. fate' \in [Msgs -> Fates]
    BY <1>1, <1>3 DEF TypeOK, Fates
  <2>. QED  BY <2>1, <2>2, <2>3, <2>4, <2>5, <2>6, <2>7 DEF TypeOK
<1>8. ForwardsSomewhere'
  <2>. SUFFICES ASSUME NEW p \in Queues, NEW t \in Slots,
                       flights'[p][t].stage = "forwarding"
                PROVE  DLQ[p] # NoQueue
    BY DEF ForwardsSomewhere
  <2>1. CASE p = q /\ t = s
    <3>1. flights'[q][s] = IF dead = {} THEN Idle ELSE [stage |-> "forwarding", batch |-> forward]
      BY <1>1, <1>3 DEF TypeOK
    <3>. QED  BY <2>1, <3>1 DEF Idle, Dead
  <2>2. CASE ~(p = q /\ t = s)
    <3>1. flights'[p][t] = flights[p][t]
      BY <1>1, <1>3, <2>2 DEF TypeOK
    <3>. QED  BY <3>1 DEF IInv, ForwardsSomewhere
  <2>. QED  BY <2>1, <2>2
<1>9. ASSUME NEW p \in Queues PROVE FlushOK(p)'
  <2>0. FlushOK(p)
    BY DEF IInv
  <2>1. CASE p # q
    <3>1. Dispatching(p) => Dispatching(p)'
      BY <1>1, <1>3, <2>1 DEF Dispatching, TypeOK
    <3>. QED  BY <1>1, <1>3, <2>0, <2>1, <3>1 DEF FlushOK, TypeOK
  <2>2. CASE p = q
    <3>1. /\ messages'[q] = backlog
          /\ pendingFlush'[q] = pf.kind /\ armed'[q] = pf.armed
          /\ backlogBytes'[q] = Len(messages[q]) + Len(now)
      BY <1>1, <1>3, <2>0, <2>2 DEF TypeOK, FlushOK
    <3>. QED  BY <1>5, <1>6, <2>2, <3>1 DEF FlushOK
  <2>. QED  BY <2>1, <2>2
<1>. QED  BY <1>7, <1>8, <1>9 DEF IInv

LEMMA AnswerPreserves ==
  ASSUME IInv, NEW q \in Queues, NEW s \in Slots,
         ConsumerResponds(q, s) \/ DispatchRejected(q, s)
  PROVE  IInv'
<1>1. CASE ConsumerResponds(q, s)
  <2>1. PICK retried \in SUBSET Range(flights[q][s].batch) :
          \E slow : Settle(q, s, retried, slow)
    BY <1>1 DEF ConsumerResponds, Retried
  <2>2. acked' \subseteq Msgs
    <3>1. Range(flights[q][s].batch) \subseteq Msgs
      BY RangeFinite DEF IInv, TypeOK, Flights
    <3>. QED  BY <1>1, <3>1 DEF ConsumerResponds, IInv, TypeOK
  <2>. QED  BY <2>1, <2>2, SettlePreserves
<1>2. CASE DispatchRejected(q, s)
  BY <1>2, SettlePreserves DEF DispatchRejected, IInv, TypeOK
<1>. QED  BY <1>1, <1>2

LEMMA DeadLetterArrivesPreserves ==
  ASSUME IInv, NEW q \in Queues, NEW s \in Slots, DeadLetterArrives(q, s)
  PROVE  IInv'
<1>. DEFINE b == flights[q][s].batch
<1>1. TypeOK /\ DLQ[q] \in Queues /\ b \in Seq(Msgs)
  BY DLQAssumption DEF IInv, ForwardsSomewhere, DeadLetterArrives, TypeOK, Flights
<1>2. PICK now \in Seq(Msgs), later \in SUBSET Msgs : Enqueue(DLQ[q], now, later)
  BY <1>1, RangeFinite, EmptySeq DEF DeadLetterArrives
<1>3. flights' = [flights EXCEPT ![q][s] = Idle] /\ flights[q][s].stage = "forwarding"
  BY DEF DeadLetterArrives, EndFlush
<1>4. TypeOK'
  <2>1. flights' \in [Queues -> [Slots -> Flights]]
    BY <1>1, <1>3, EmptySeq DEF TypeOK, Flights, Idle
  <2>2. /\ failedAttempts' \in [Msgs -> Nat] /\ deliveries' \in [Msgs -> Nat]
        /\ UNCHANGED <<fate, acked>>
    BY <1>1 DEF DeadLetterArrives, TypeOK
  <2>3. delayed' \in [Queues -> SUBSET Msgs]
    BY <1>1, <1>2 DEF Enqueue, TypeOK
  <2>. QED  BY <1>1, <1>2, <2>1, <2>2, <2>3, PushPreserves DEF Enqueue, TypeOK
<1>5. ForwardsSomewhere'
  BY <1>1, <1>3 DEF IInv, ForwardsSomewhere, TypeOK, Idle
<1>6. \A p \in Queues : Dispatching(p) => Dispatching(p)'
  BY <1>1, <1>3 DEF Dispatching, TypeOK
<1>7. \A p \in Queues : FlushOK(p)'
  BY <1>1, <1>2, <1>6, PushPreserves DEF IInv, Enqueue
<1>. QED  BY <1>4, <1>5, <1>7 DEF IInv

LEMMA DeadLetterFailsPreserves ==
  ASSUME IInv, NEW q \in Queues, NEW s \in Slots, DeadLetterFails(q, s)
  PROVE  IInv'
<1>1. TypeOK
  BY DEF IInv
<1>2. flights' = [flights EXCEPT ![q][s] = Idle] /\ flights[q][s].stage = "forwarding"
  BY DEF DeadLetterFails, EndFlush
<1>3. TypeOK'
  <2>1. flights' \in [Queues -> [Slots -> Flights]]
    BY <1>1, <1>2, EmptySeq DEF TypeOK, Flights, Idle
  <2>. QED  BY <1>1, <2>1 DEF DeadLetterFails, flushVars, TypeOK, Fates
<1>4. ForwardsSomewhere'
  BY <1>1, <1>2 DEF IInv, ForwardsSomewhere, TypeOK, Idle
<1>5. \A p \in Queues : Dispatching(p) => Dispatching(p)'
  BY <1>1, <1>2 DEF Dispatching, TypeOK
<1>6. \A p \in Queues : FlushOK(p)'
  BY <1>5 DEF IInv, FlushOK, DeadLetterFails, flushVars
<1>. QED  BY <1>3, <1>4, <1>6 DEF IInv

LEMMA NextPreserves == IInv /\ [Next]_vars => IInv'
<1>. SUFFICES ASSUME IInv, [Next]_vars PROVE IInv'
  OBVIOUS
<1>1. CASE UNCHANGED vars
  BY <1>1 DEF IInv, TypeOK, ForwardsSomewhere, FlushOK, Dispatching, vars
<1>2. CASE Next
  BY <1>2, PostPreserves, DelayElapsesPreserves, StartFlushPreserves, AnswerPreserves,
     DeadLetterArrivesPreserves, DeadLetterFailsPreserves DEF Next
<1>. QED  BY <1>1, <1>2

\* `IInv` holds in every reachable state of a broker, with its producers, consumers, alarms and
\* dead-letter queue.
THEOREM Invariance == Spec => []IInv
BY InitIInv, NextPreserves, PTL DEF Spec

-----------------------------------------------------------------------------
(* The theorems *)

\* Every variable keeps its type, for all parameters.
THEOREM TypeCorrect == Spec => []TypeOK
<1>1. IInv => TypeOK
  BY DEF IInv
<1>. QED  BY <1>1, Invariance, PTL

\* Whatever sends, delays, flushes, answers and requeues come in between, a
\* backlog always has a flush timer running or a dispatch in progress.
THEOREM BacklogIsNeverStranded == Spec => []NoStrandedBacklog
<1>1. IInv => NoStrandedBacklog
  BY DEF IInv, FlushOK, NoStrandedBacklog
<1>. QED  BY <1>1, Invariance, PTL

\* A backlog of maxBatchSize messages or more always has an immediate flush.
THEOREM FullBatchesAreUrgent == Spec => []FullBatchIsUrgent
<1>1. IInv => FullBatchIsUrgent
  BY DEF IInv, FlushOK, FullBatchIsUrgent
<1>. QED  BY <1>1, Invariance, PTL

\* backlogBytes is the size of the backlog.
THEOREM MetricIsExact == Spec => []BacklogBytesExact
<1>1. IInv => BacklogBytesExact
  BY DEF IInv, FlushOK, BacklogBytesExact
<1>. QED  BY <1>1, Invariance, PTL
-----------------------------------------------------------------------------
(* Every message is in one place *)

Distinct(f) == \A i, j \in DOMAIN f : f[i] = f[j] => i = j

LEMMA ConcatMembers ==
  ASSUME NEW S, NEW a \in Seq(S), NEW b \in Seq(S)
  PROVE  /\ Range(a \o b) = Range(a) \cup Range(b)
         /\ Distinct(a) /\ Distinct(b) /\ Range(a) \cap Range(b) = {} => Distinct(a \o b)
<1>. DEFINE c == a \o b
<1>0. PICK k \in Nat, l \in Nat : k = Len(a) /\ l = Len(b)
  OBVIOUS
<1>1. /\ DOMAIN a = 1..k /\ DOMAIN b = 1..l /\ DOMAIN c = 1..(k + l)
      /\ \A i \in 1..(k + l) : c[i] = IF i <= k THEN a[i] ELSE b[i - k]
  <2>1. c \in Seq(S) /\ Len(c) = k + l
    BY <1>0, ConcatProperties
  <2>. QED  BY <1>0, <2>1, ConcatProperties
<1>. HIDE DEF c
<1>2. /\ \A i \in 1..k : i \in 1..(k + l) /\ i <= k
      /\ \A i \in 1..l : k + i \in 1..(k + l) /\ ~(k + i <= k) /\ (k + i) - k = i
      /\ \A i \in 1..(k + l) : IF i <= k THEN i \in 1..k ELSE i - k \in 1..l /\ k + (i - k) = i
  OBVIOUS
<1>3. /\ \A i \in 1..k : c[i] = a[i]
      /\ \A i \in 1..l : c[k + i] = b[i]
      /\ \A i \in 1..(k + l) : (i \in 1..k /\ c[i] = a[i]) \/ (i - k \in 1..l /\ c[i] = b[i - k] /\ k + (i - k) = i)
  BY <1>1, <1>2
<1>4. Range(c) = Range(a) \cup Range(b)
  <2>1. ASSUME NEW x \in Range(c)  PROVE x \in Range(a) \/ x \in Range(b)
    <3>1. PICK i \in 1..(k + l) : c[i] = x
      BY <1>1, <2>1 DEF Range
    <3>. QED  BY <1>1, <1>3, <3>1 DEF Range
  <2>2. \A i \in 1..k : a[i] \in Range(c)
    BY <1>1, <1>2, <1>3 DEF Range
  <2>3. \A i \in 1..l : b[i] \in Range(c)
    <3>. TAKE i \in 1..l
    <3>1. k + i \in DOMAIN c /\ c[k + i] = b[i]
      BY <1>1, <1>2, <1>3
    <3>. QED  BY <3>1 DEF Range
  <2>4. Range(a) \subseteq Range(c) /\ Range(b) \subseteq Range(c)
    BY <1>1, <2>2, <2>3 DEF Range
  <2>. QED  BY <2>1, <2>4
<1>5. ASSUME Distinct(a), Distinct(b), Range(a) \cap Range(b) = {}  PROVE Distinct(c)
  <2>1. \A i \in 1..k, j \in 1..l : a[i] # b[j]
    BY <1>1, <1>5 DEF Range
  <2>2. \A i, j \in 1..k : a[i] = a[j] => i = j
    BY <1>1, <1>5 DEF Distinct
  <2>3. \A i, j \in 1..l : b[i] = b[j] => i = j
    BY <1>1, <1>5 DEF Distinct
  <2>. QED  BY <1>1, <1>3, <2>1, <2>2, <2>3 DEF Distinct
<1>. QED  BY <1>4, <1>5 DEF c

\* The batch of a flush and what it leaves share nothing.
LEMMA SplitMembers ==
  ASSUME NEW S, NEW l \in Seq(S), NEW n \in 0..Len(l)
  PROVE  LET b == SubSeq(l, 1, n)
             r == SubSeq(l, n + 1, Len(l))
         IN
         /\ Range(l) = Range(b) \cup Range(r) /\ Len(b) = n
         /\ Distinct(l) => Distinct(b) /\ Distinct(r) /\ Range(b) \cap Range(r) = {}
<1>. DEFINE b == SubSeq(l, 1, n)
            r == SubSeq(l, n + 1, Len(l))
<1>1. PICK k \in Nat : k = Len(l) /\ DOMAIN l = 1..k /\ n \in 0..k /\ \A i \in 1..k : l[i] \in S
  BY ElementOfSeq
<1>2. /\ b \in Seq(S) /\ Len(b) = n /\ DOMAIN b = 1..n /\ \A i \in 1..n : b[i] = l[i]
  BY <1>1, SubSeqProperties
<1>3. r \in Seq(S) /\ DOMAIN r = 1..(k - n) /\ \A i \in 1..(k - n) : r[i] = l[n + i]
  <2>1. \A i \in (n + 1)..k : l[i] \in S
    BY <1>1
  <2>2. n + 1 \in Int /\ k \in Int /\ r = SubSeq(l, n + 1, k)
    BY <1>1
  <2>3. /\ r \in Seq(S) /\ Len(r) = IF n + 1 <= k THEN k - (n + 1) + 1 ELSE 0
        /\ \A i \in 1..(k - (n + 1) + 1) : r[i] = l[(n + 1) + i - 1]
    BY <2>1, <2>2, SubSeqProperties
  <2>4. k - (n + 1) + 1 = k - n /\ \A i \in 1..(k - n) : (n + 1) + i - 1 = n + i
    BY <1>1
  <2>5. (IF n + 1 <= k THEN k - (n + 1) + 1 ELSE 0) = k - n
    BY <1>1
  <2>. QED  BY <2>3, <2>4, <2>5
<1>. HIDE DEF b, r
<1>4. /\ \A i \in 1..n : i \in 1..k
      /\ \A i \in 1..(k - n) : n + i \in 1..k /\ n + i \notin 1..n
      /\ \A i \in 1..k : i \in 1..n \/ (i - n \in 1..(k - n) /\ n + (i - n) = i)
      /\ \A i, j \in 1..(k - n) : n + i = n + j => i = j
  BY <1>1
<1>5. Range(l) = Range(b) \cup Range(r)
  <2>1. \A i \in 1..k : (i \in 1..n /\ l[i] = b[i]) \/ (i - n \in 1..(k - n) /\ l[i] = r[i - n])
    BY <1>2, <1>3, <1>4
  <2>2. ASSUME NEW x \in Range(l)  PROVE x \in Range(b) \/ x \in Range(r)
    <3>1. PICK i \in 1..k : l[i] = x
      BY <1>1, <2>2 DEF Range
    <3>. QED  BY <1>2, <1>3, <2>1, <3>1 DEF Range
  <2>3. \A i \in 1..n : b[i] \in Range(l)
    BY <1>1, <1>2, <1>4 DEF Range
  <2>4. \A i \in 1..(k - n) : r[i] \in Range(l)
    <3>. TAKE i \in 1..(k - n)
    <3>1. n + i \in DOMAIN l /\ l[n + i] = r[i]
      BY <1>1, <1>3, <1>4
    <3>. QED  BY <3>1 DEF Range
  <2>5. Range(b) \subseteq Range(l) /\ Range(r) \subseteq Range(l)
    BY <1>2, <1>3, <2>3, <2>4 DEF Range
  <2>. QED  BY <2>2, <2>5
<1>6. ASSUME Distinct(l)  PROVE Distinct(b) /\ Distinct(r) /\ Range(b) \cap Range(r) = {}
  <2>1. \A i, j \in 1..k : l[i] = l[j] => i = j
    BY <1>1, <1>6 DEF Distinct
  <2>2. Distinct(b)
    BY <1>2, <1>4, <2>1 DEF Distinct
  <2>3. Distinct(r)
    <3>. SUFFICES ASSUME NEW i \in 1..(k - n), NEW j \in 1..(k - n), r[i] = r[j] PROVE i = j
      BY <1>3 DEF Distinct
    <3>1. l[n + i] = l[n + j] /\ n + i \in 1..k /\ n + j \in 1..k
      BY <1>3, <1>4
    <3>2. n + i = n + j
      BY <2>1, <3>1
    <3>. QED  BY <1>4, <3>2
  <2>4. \A i \in 1..n, j \in 1..(k - n) : b[i] # r[j]
    BY <1>2, <1>3, <1>4, <2>1
  <2>5. Range(b) \cap Range(r) = {}
    <3>1. SUFFICES ASSUME NEW x \in Range(b), x \in Range(r) PROVE FALSE
      OBVIOUS
    <3>2. PICK i \in 1..n : b[i] = x
      BY <1>2 DEF Range
    <3>3. PICK j \in 1..(k - n) : r[j] = x
      BY <1>3, <3>1 DEF Range
    <3>. QED  BY <2>4, <3>2, <3>3
  <2>. QED  BY <2>2, <2>3, <2>5
<1>. QED  BY <1>2, <1>5, <1>6 DEF b, r

LEMMA InBatchOrderDistinct ==
  ASSUME NEW b \in Seq(Msgs), Distinct(b), NEW S \in SUBSET Range(b), NEW f \in InBatchOrder(b, S)
  PROVE  Distinct(f)
<1>1. Cardinality(S) \in Nat
  BY RangeFinite, FS_Subset, FS_CardinalityType
<1>2. DOMAIN f = 1..Cardinality(S)
  BY DEF InBatchOrder
<1>3. \A i, j \in DOMAIN f : i < j => f[i] # f[j]
  BY DEF InBatchOrder, Distinct
<1>4. \A i, j \in DOMAIN f : i = j \/ i < j \/ j < i
  BY <1>1, <1>2
<1>. QED  BY <1>3, <1>4 DEF Distinct

\* Where a message is, without its position
Backlog(q) == <<"backlog", q>>
Delay(q) == <<"delay", q>>
Flight(q, s) == <<"flight", q, s>>
Nowhere == <<"nowhere">>

LEMMA WheresDiffer ==
  ASSUME NEW p, NEW q, NEW s, NEW t
  PROVE  /\ Backlog(p) # Delay(q) /\ Backlog(p) # Flight(q, s) /\ Delay(p) # Flight(q, s)
         /\ Nowhere \notin {Backlog(q), Delay(q), Flight(q, s)}
         /\ Backlog(p) = Backlog(q) <=> p = q
         /\ Delay(p) = Delay(q) <=> p = q
         /\ Flight(p, s) = Flight(q, t) <=> p = q /\ s = t
BY DEF Backlog, Delay, Flight, Nowhere

\* w is the one place where m is.
IsAt(m, w) ==
  /\ w = Nowhere <=> fate[m] # "live"
  /\ \A q \in Queues : m \in Range(messages[q]) <=> w = Backlog(q)
  /\ \A q \in Queues : m \in delayed[q] <=> w = Delay(q)
  /\ \A q \in Queues, s \in Slots : m \in Range(flights[q][s].batch) <=> w = Flight(q, s)

Wheres ==
  {Nowhere} \cup {Backlog(q) : q \in Queues} \cup {Delay(q) : q \in Queues}
    \cup {Flight(q, s) : q \in Queues, s \in Slots}

\* No message twice in a backlog or a batch
NoTwins ==
  \A q \in Queues : Distinct(messages[q]) /\ \A s \in Slots : Distinct(flights[q][s].batch)

IdleIsEmpty ==
  \A q \in Queues, s \in Slots : flights[q][s].stage = "idle" => flights[q][s].batch = <<>>

\* A message that is with a consumer was handed over once more than it failed.
AttemptsMatch ==
  \A m \in Msgs :
    /\ fate[m] \in {"unsent", "live"} =>
         deliveries[m] = failedAttempts[m] + (IF FlightOf(m, "dispatching") THEN 1 ELSE 0)
    /\ fate[m] = "unsent" => failedAttempts[m] = 0

PlacesInv ==
  /\ IInv
  /\ NoTwins
  /\ IdleIsEmpty
  /\ \A m \in Msgs : \E w \in Wheres : IsAt(m, w)
  /\ AckedNeverRedelivered
  /\ AttemptsMatch
LEMMA WheresAre ==
  /\ Nowhere \in Wheres
  /\ \A q \in Queues : Backlog(q) \in Wheres /\ Delay(q) \in Wheres /\ \A s \in Slots : Flight(q, s) \in Wheres
  /\ \A w \in Wheres :
       \/ w = Nowhere
       \/ \E q \in Queues : w = Backlog(q) \/ w = Delay(q)
       \/ \E q \in Queues, s \in Slots : w = Flight(q, s)
BY DEF Wheres

LEMMA EmptyRange == Range(<<>>) = {} /\ Distinct(<<>>)
BY DEF Range, Distinct

LEMMA InitPlaces == Init => PlacesInv
<1>. SUFFICES ASSUME Init PROVE PlacesInv
  OBVIOUS
<1>1. /\ \A q \in Queues : messages[q] = <<>> /\ delayed[q] = {}
      /\ \A q \in Queues, s \in Slots : flights[q][s].batch = <<>> /\ flights[q][s].stage = "idle"
      /\ \A m \in Msgs : fate[m] = "unsent" /\ deliveries[m] = 0 /\ failedAttempts[m] = 0
      /\ acked = {}
  BY DEF Init, Idle
<1>2. \A m \in Msgs : IsAt(m, Nowhere)
  BY <1>1, EmptyRange, WheresDiffer DEF IsAt
<1>3. NoTwins /\ IdleIsEmpty /\ AckedNeverRedelivered
  BY <1>1, EmptyRange DEF NoTwins, IdleIsEmpty, AckedNeverRedelivered
<1>4. AttemptsMatch
  BY <1>1 DEF AttemptsMatch, FlightOf
<1>. QED  BY <1>2, <1>3, <1>4, InitIInv, WheresAre DEF PlacesInv

\* What a push adds to the backlog
LEMMA PushMembers ==
  ASSUME TypeOK, NEW d \in Queues, NEW now \in Seq(Msgs), Push(d, now)
  PROVE  \A p \in Queues : Range(messages'[p]) = IF p = d THEN Range(messages[d]) \cup Range(now)
                                                 ELSE Range(messages[p])
<1>1. /\ messages'[d] = messages[d] \o now /\ messages[d] \in Seq(Msgs)
      /\ \A p \in Queues : p # d => messages'[p] = messages[p]
  BY DEF Push, TypeOK
<1>2. Range(messages'[d]) = Range(messages[d]) \cup Range(now)
  BY <1>1, ConcatMembers
<1>. QED  BY <1>1, <1>2

LEMMA PushDistinct ==
  ASSUME TypeOK, NEW d \in Queues, NEW now \in Seq(Msgs), Push(d, now), NoTwins,
         Distinct(now), Range(messages[d]) \cap Range(now) = {}
  PROVE  \A p \in Queues : Distinct(messages'[p])
<1>1. /\ messages'[d] = messages[d] \o now /\ messages[d] \in Seq(Msgs)
      /\ \A p \in Queues : p # d => messages'[p] = messages[p]
  BY DEF Push, TypeOK
<1>2. \A p \in Queues : Distinct(messages[p])
  BY DEF NoTwins
<1>3. Distinct(messages'[d])
  BY <1>1, <1>2, ConcatMembers
<1>. QED  BY <1>1, <1>2, <1>3

\* Messages that nobody holds, or that were held by one batch, arrive at queue d.
LEMMA ArrivesAt ==
  ASSUME TypeOK, NEW d \in Queues, NEW now \in Seq(Msgs), NEW later \in SUBSET Msgs,
         Enqueue(d, now, later), Range(now) \cap later = {},
         NEW m \in Range(now) \cup later, m \in Msgs, fate'[m] = "live",
         \A q \in Queues : m \notin Range(messages[q]) /\ m \notin delayed[q],
         \A q \in Queues, s \in Slots : m \notin Range(flights'[q][s].batch)
  PROVE  IsAt(m, IF m \in later THEN Delay(d) ELSE Backlog(d))'
<1>1. \A p \in Queues : m \in Range(messages'[p]) <=> p = d /\ m \notin later
  BY PushMembers DEF Enqueue
<1>2. \A p \in Queues : m \in delayed'[p] <=> p = d /\ m \in later
  BY DEF Enqueue, TypeOK
<1>. QED  BY <1>1, <1>2, WheresDiffer DEF IsAt

\* What a POST does to each message: it leaves those of `batch' in the backlog or delayed.
PostEffect(q, batch, later, now) ==
  /\ Range(batch) \subseteq Msgs /\ later \subseteq Range(batch)
  /\ Range(now) = Range(batch) \ later /\ Distinct(now) /\ Enqueue(q, now, later)
  /\ \A m \in Range(batch) : fate[m] = "unsent" /\ fate'[m] = "live"
  /\ \A m \in Msgs \ Range(batch) : fate'[m] = fate[m]
  /\ UNCHANGED <<flights, failedAttempts, deliveries, acked>>
  /\ \A p \in Queues : Range(messages'[p]) = IF p = q THEN Range(messages[q]) \cup Range(now) ELSE Range(messages[p])
  /\ \A p \in Queues : delayed'[p] = IF p = q THEN delayed[q] \cup later ELSE delayed[p]

LEMMA PostMoves ==
  ASSUME PlacesInv, NEW q \in Queues, PostMessage(q) \/ PostBatch(q)
  PROVE  \E batch \in Seq(Msgs), later \in SUBSET Msgs, now \in Seq(Msgs) : PostEffect(q, batch, later, now)
<1>1. PICK batch \in Seq(Msgs), later \in SUBSET Msgs :
        later \subseteq Range(batch) /\ Distinct(batch) /\ Post(q, batch, later)
  <2>1. CASE PostMessage(q)
    <3>1. \A m \in Msgs : <<m>> \in Seq(Msgs) /\ {m} \subseteq Range(<<m>>) /\ Distinct(<<m>>)
      BY DEF Range, Distinct
    <3>. QED  BY <2>1, <3>1 DEF PostMessage
  <2>2. CASE PostBatch(q)
    <3>1. \A m, n \in Msgs : /\ <<m, n>> \in Seq(Msgs) /\ {m, n} \subseteq Range(<<m, n>>)
                             /\ m # n => Distinct(<<m, n>>)
      BY DEF Range, Distinct
    <3>. QED  BY <2>2, <3>1 DEF PostBatch
  <2>. QED  BY <2>1, <2>2
<1>2. TypeOK /\ Range(batch) \subseteq Msgs
  BY RangeFinite DEF PlacesInv, IInv
<1>3. PICK now \in InBatchOrder(batch, Range(batch) \ later) : Enqueue(q, now, later)
  BY <1>1 DEF Post
<1>4. now \in Seq(Msgs) /\ Range(now) = Range(batch) \ later /\ Distinct(now)
  BY <1>1, <1>3, InBatchOrderType, InBatchOrderDistinct
<1>5. /\ \A m \in Range(batch) : fate[m] = "unsent" /\ fate'[m] = "live"
      /\ \A m \in Msgs \ Range(batch) : fate'[m] = fate[m]
      /\ UNCHANGED <<flights, failedAttempts, deliveries, acked>>
  BY <1>1, <1>2 DEF Post
<1>6. /\ \A p \in Queues : Range(messages'[p]) = IF p = q THEN Range(messages[q]) \cup Range(now) ELSE Range(messages[p])
      /\ \A p \in Queues : delayed'[p] = IF p = q THEN delayed[q] \cup later ELSE delayed[p]
  BY <1>2, <1>3, <1>4, PushMembers DEF Enqueue, TypeOK
<1>7. PostEffect(q, batch, later, now)
  BY <1>1, <1>2, <1>3, <1>4, <1>5, <1>6 DEF PostEffect
<1>. QED  BY <1>1, <1>4, <1>7

LEMMA PostPlaces ==
  ASSUME PlacesInv, NEW q \in Queues, PostMessage(q) \/ PostBatch(q)
  PROVE  PlacesInv'
<1>0. PICK batch \in Seq(Msgs), later \in SUBSET Msgs, now \in Seq(Msgs) : PostEffect(q, batch, later, now)
  BY PostMoves
<1>1. /\ Range(batch) \subseteq Msgs /\ later \subseteq Range(batch)
      /\ Range(now) = Range(batch) \ later /\ Distinct(now) /\ Enqueue(q, now, later)
      /\ \A m \in Range(batch) : fate[m] = "unsent" /\ fate'[m] = "live"
      /\ \A m \in Msgs \ Range(batch) : fate'[m] = fate[m]
      /\ UNCHANGED <<flights, failedAttempts, deliveries, acked>>
      /\ \A p \in Queues : Range(messages'[p]) = IF p = q THEN Range(messages[q]) \cup Range(now) ELSE Range(messages[p])
      /\ \A p \in Queues : delayed'[p] = IF p = q THEN delayed[q] \cup later ELSE delayed[p]
  BY <1>0 DEF PostEffect
<1>2. TypeOK /\ IInv'
  BY PostPreserves DEF PlacesInv, IInv
<1>7. ASSUME NEW m \in Range(batch)
      PROVE  /\ \A p \in Queues : m \notin Range(messages[p]) /\ m \notin delayed[p]
             /\ \A p \in Queues, s \in Slots : m \notin Range(flights[p][s].batch)
  <2>1. PICK w \in Wheres : IsAt(m, w)
    BY <1>1 DEF PlacesInv
  <2>2. w = Nowhere
    BY <1>1, <2>1 DEF IsAt
  <2>. QED  BY <2>1, <2>2, WheresDiffer DEF IsAt
<1>8. NoTwins'
  <2>1. \A p \in Queues : Distinct(messages'[p])
    <3>1. Range(messages[q]) \cap Range(now) = {}
      BY <1>1, <1>7
    <3>. QED  BY <1>2, <1>1, <3>1, PushDistinct DEF PlacesInv, Enqueue
  <2>. QED  BY <1>1, <2>1 DEF PlacesInv, NoTwins
<1>9. ASSUME NEW m \in Msgs PROVE \E w \in Wheres : IsAt(m, w)'
  <2>1. CASE m \in Range(batch)
    <3>1. IsAt(m, IF m \in later THEN Delay(q) ELSE Backlog(q))'
      BY <1>2, <1>1, <1>7, <2>1, ArrivesAt
    <3>. QED  BY <3>1, WheresAre
  <2>2. CASE m \notin Range(batch)
    <3>1. PICK w \in Wheres : IsAt(m, w)
      BY DEF PlacesInv
    <3>2. IsAt(m, w)'
      BY <1>1, <2>2, <3>1 DEF IsAt
    <3>. QED  BY <3>2
  <2>. QED  BY <2>1, <2>2
<1>10. IdleIsEmpty'
  BY <1>1 DEF PlacesInv, IdleIsEmpty
<1>11. AckedNeverRedelivered'
  BY <1>2, <1>1 DEF PlacesInv, AckedNeverRedelivered, TypeOK
<1>12. AttemptsMatch'
  <2>. SUFFICES ASSUME NEW m \in Msgs
                PROVE  /\ fate'[m] \in {"unsent", "live"} =>
                            deliveries'[m] = failedAttempts'[m] + (IF FlightOf(m, "dispatching")' THEN 1 ELSE 0)
                       /\ fate'[m] = "unsent" => failedAttempts'[m] = 0
    BY DEF AttemptsMatch
  <2>1. FlightOf(m, "dispatching")' <=> FlightOf(m, "dispatching")
    BY <1>1 DEF FlightOf
  <2>. QED  BY <1>2, <1>1, <2>1 DEF PlacesInv, AttemptsMatch
<1>. QED  BY <1>2, <1>8, <1>9, <1>10, <1>11, <1>12 DEF PlacesInv

LEMMA DelayElapsesPlaces ==
  ASSUME PlacesInv, NEW q \in Queues, NEW x \in Msgs, DelayElapses(q, x)
  PROVE  PlacesInv'
<1>1. TypeOK /\ IInv' /\ <<x>> \in Seq(Msgs) /\ Range(<<x>>) = {x} /\ Distinct(<<x>>)
  BY DelayElapsesPreserves DEF PlacesInv, IInv, Range, Distinct
<1>2. /\ x \in delayed[q] /\ Push(q, <<x>>)
      /\ \A p \in Queues : delayed'[p] = IF p = q THEN delayed[q] \ {x} ELSE delayed[p]
      /\ UNCHANGED <<flights, failedAttempts, deliveries, fate, acked>>
  BY <1>1 DEF DelayElapses, TypeOK
<1>3. IsAt(x, Delay(q))
  BY <1>2 DEF PlacesInv, IsAt
<1>4. \A p \in Queues : Range(messages'[p]) = IF p = q THEN Range(messages[q]) \cup {x} ELSE Range(messages[p])
  BY <1>1, <1>2, PushMembers
<1>5. NoTwins'
  <2>1. Range(messages[q]) \cap {x} = {}
    BY <1>3, WheresDiffer DEF IsAt
  <2>2. \A p \in Queues : Distinct(messages'[p])
    BY <1>1, <1>2, <2>1, PushDistinct DEF PlacesInv
  <2>. QED  BY <1>2, <2>2 DEF PlacesInv, NoTwins
<1>6. ASSUME NEW m \in Msgs PROVE \E w \in Wheres : IsAt(m, w)'
  <2>1. CASE m = x
    <3>1. IsAt(x, Backlog(q))'
      BY <1>2, <1>3, <1>4, WheresDiffer DEF IsAt
    <3>. QED  BY <2>1, <3>1, WheresAre
  <2>2. CASE m # x
    <3>1. PICK w \in Wheres : IsAt(m, w)
      BY DEF PlacesInv
    <3>2. IsAt(m, w)'
      BY <1>2, <1>4, <2>2, <3>1 DEF IsAt
    <3>. QED  BY <3>2
  <2>. QED  BY <2>1, <2>2
<1>7. IdleIsEmpty' /\ AckedNeverRedelivered' /\ AttemptsMatch'
  BY <1>2 DEF PlacesInv, IdleIsEmpty, AckedNeverRedelivered, AttemptsMatch, FlightOf
<1>. QED  BY <1>1, <1>5, <1>6, <1>7 DEF PlacesInv
\* What StartFlush does to each message
FlushEffect(q, s, batch) ==
  /\ flights[q][s].stage = "idle" /\ Range(flights[q][s].batch) = {}
  /\ flights'[q][s] = [stage |-> "dispatching", batch |-> batch]
  /\ \A p \in Queues, t \in Slots : ~(p = q /\ t = s) => flights'[p][t] = flights[p][t]
  /\ Range(batch) \subseteq Range(messages[q]) /\ Distinct(batch) /\ Distinct(messages'[q])
  /\ Cardinality(Range(batch)) <= BatchSize[q]
  /\ \A p \in Queues : Range(messages'[p]) = IF p = q THEN Range(messages[q]) \ Range(batch) ELSE Range(messages[p])
  /\ \A p \in Queues : p # q => messages'[p] = messages[p]
  /\ deliveries' = [m \in Msgs |-> IF m \in Range(batch) THEN deliveries[m] + 1 ELSE deliveries[m]]
  /\ UNCHANGED <<delayed, failedAttempts, fate, acked>>

LEMMA FlushMoves ==
  ASSUME PlacesInv, NEW q \in Queues, FlushTimerFires(q) \/ OrphanTimerFires(q)
  PROVE  \E s \in Slots, batch \in Seq(Msgs) : FlushEffect(q, s, batch)
<1>. DEFINE n == BatchLen(q)
            batch == SubSeq(messages[q], 1, n)
            rest == SubSeq(messages[q], n + 1, Len(messages[q]))
<1>1. TypeOK /\ messages[q] \in Seq(Msgs)
  BY DEF PlacesInv, IInv, TypeOK
<1>2. PICK s \in Slots :
        /\ flights[q][s].stage = "idle"
        /\ flights' = [flights EXCEPT ![q][s] = [stage |-> "dispatching", batch |-> batch]]
        /\ messages' = [messages EXCEPT ![q] = SubSeq(@, n + 1, Len(@))]
        /\ deliveries' = [m \in Msgs |->
             IF m \in Range(batch) THEN deliveries[m] + 1 ELSE deliveries[m]]
        /\ UNCHANGED <<delayed, failedAttempts, fate, acked>>
  BY DEF FlushTimerFires, OrphanTimerFires, StartFlush
<1>3. n \in 0..Len(messages[q]) /\ batch \in Seq(Msgs)
  BY <1>1, SplitBacklog
<1>4. n <= BatchSize[q] /\ n \in Nat /\ BatchSize[q] \in Nat
  BY <1>1, BatchSizeAssumption DEF BatchLen, BatchHasSpace
<1>5. messages'[q] = rest /\ \A p \in Queues : p # q => messages'[p] = messages[p]
  BY <1>1, <1>2 DEF TypeOK
<1>. HIDE DEF n, batch, rest
<1>6. /\ Range(messages[q]) = Range(batch) \cup Range(rest) /\ Len(batch) = n
      /\ Distinct(batch) /\ Distinct(rest) /\ Range(batch) \cap Range(rest) = {}
  <2>1. Distinct(messages[q])
    BY DEF PlacesInv, NoTwins
  <2>. QED  BY <1>1, <1>3, <2>1, SplitMembers DEF batch, rest
<1>7. Cardinality(Range(batch)) <= BatchSize[q]
  <2>1. Cardinality(Range(batch)) <= Len(batch) /\ Cardinality(Range(batch)) \in Nat
    BY <1>3, RangeBound
  <2>. QED  BY <1>6, <1>4, <2>1
<1>8. /\ flights'[q][s] = [stage |-> "dispatching", batch |-> batch]
      /\ \A p \in Queues, t \in Slots : ~(p = q /\ t = s) => flights'[p][t] = flights[p][t]
  BY <1>1, <1>2 DEF TypeOK
<1>9. Range(flights[q][s].batch) = {}
  BY <1>2, EmptyRange DEF PlacesInv, IdleIsEmpty
<1>10. /\ Range(batch) \subseteq Range(messages[q])
       /\ \A p \in Queues : Range(messages'[p]) = IF p = q THEN Range(messages[q]) \ Range(batch) ELSE Range(messages[p])
  BY <1>6, <1>5
<1>11. Distinct(messages'[q]) /\ \A p \in Queues : p # q => messages'[p] = messages[p]
  BY <1>6, <1>5
<1>12. FlushEffect(q, s, batch)
  BY <1>2, <1>6, <1>7, <1>8, <1>9, <1>10, <1>11 DEF FlushEffect
<1>. QED  BY <1>3, <1>12

LEMMA StartFlushPlaces ==
  ASSUME PlacesInv, NEW q \in Queues, FlushTimerFires(q) \/ OrphanTimerFires(q)
  PROVE  PlacesInv'
<1>1. TypeOK /\ IInv'
  BY StartFlushPreserves DEF PlacesInv, IInv
<1>0. PICK s \in Slots, batch \in Seq(Msgs) : FlushEffect(q, s, batch)
  BY FlushMoves
<1>2. /\ flights[q][s].stage = "idle" /\ Range(flights[q][s].batch) = {}
      /\ flights'[q][s] = [stage |-> "dispatching", batch |-> batch]
      /\ \A p \in Queues, t \in Slots : ~(p = q /\ t = s) => flights'[p][t] = flights[p][t]
      /\ Range(batch) \subseteq Range(messages[q]) /\ Distinct(batch) /\ Distinct(messages'[q])
      /\ \A p \in Queues : Range(messages'[p]) = IF p = q THEN Range(messages[q]) \ Range(batch) ELSE Range(messages[p])
      /\ \A p \in Queues : p # q => messages'[p] = messages[p]
      /\ deliveries' = [m \in Msgs |-> IF m \in Range(batch) THEN deliveries[m] + 1 ELSE deliveries[m]]
      /\ UNCHANGED <<delayed, failedAttempts, fate, acked>>
  BY <1>0 DEF FlushEffect
<1>3. NoTwins' /\ IdleIsEmpty'
  BY <1>2 DEF PlacesInv, NoTwins, IdleIsEmpty
<1>4. AckedNeverRedelivered'
  BY <1>2 DEF PlacesInv, AckedNeverRedelivered
<1>5. ASSUME NEW m \in Range(batch)  PROVE IsAt(m, Backlog(q)) /\ IsAt(m, Flight(q, s))'
  <2>1. IsAt(m, Backlog(q))
    <3>1. m \in Msgs /\ m \in Range(messages[q])
      BY <1>2, RangeFinite
    <3>. QED  BY <3>1 DEF PlacesInv, IsAt
  <2>2. IsAt(m, Flight(q, s))'
    BY <1>2, <2>1, WheresDiffer DEF IsAt
  <2>. QED  BY <2>1, <2>2
<1>6. ASSUME NEW m \in Msgs, m \notin Range(batch), NEW w, IsAt(m, w)  PROVE IsAt(m, w)'
  <2>1. w # Flight(q, s)
    BY <1>2, <1>6 DEF IsAt
  <2>2. \A p \in Queues, t \in Slots : m \in Range(flights'[p][t].batch) <=> m \in Range(flights[p][t].batch)
    BY <1>2, <1>6
  <2>3. \A p \in Queues : m \in Range(messages'[p]) <=> m \in Range(messages[p])
    BY <1>2, <1>6
  <2>. QED  BY <1>2, <1>6, <2>2, <2>3 DEF IsAt
<1>7. ASSUME NEW m \in Msgs  PROVE \E w \in Wheres : IsAt(m, w)'
  <2>1. CASE m \in Range(batch)
    BY <1>5, <2>1, WheresAre
  <2>2. CASE m \notin Range(batch)
    BY <1>6, <2>2 DEF PlacesInv
  <2>. QED  BY <2>1, <2>2
<1>8. AttemptsMatch'
  <2>. SUFFICES ASSUME NEW m \in Msgs
                PROVE  /\ fate'[m] \in {"unsent", "live"} =>
                            deliveries'[m] = failedAttempts'[m] + (IF FlightOf(m, "dispatching")' THEN 1 ELSE 0)
                       /\ fate'[m] = "unsent" => failedAttempts'[m] = 0
    BY DEF AttemptsMatch
  <2>1. failedAttempts[m] \in Nat /\ fate'[m] = fate[m] /\ failedAttempts'[m] = failedAttempts[m]
        /\ deliveries'[m] = IF m \in Range(batch) THEN deliveries[m] + 1 ELSE deliveries[m]
    BY <1>1, <1>2 DEF TypeOK
  <2>2. CASE m \in Range(batch)
    <3>1. ~FlightOf(m, "dispatching")
      BY <1>5, <2>2, WheresDiffer DEF FlightOf, IsAt
    <3>2. FlightOf(m, "dispatching")'
      BY <1>2, <2>2 DEF FlightOf
    <3>. QED  BY <2>1, <2>2, <3>1, <3>2 DEF PlacesInv, AttemptsMatch
  <2>3. CASE m \notin Range(batch)
    <3>1. FlightOf(m, "dispatching")' <=> FlightOf(m, "dispatching")
      BY <1>2, <2>3 DEF FlightOf
    <3>. QED  BY <2>1, <2>3, <3>1 DEF PlacesInv, AttemptsMatch
  <2>. QED  BY <2>2, <2>3
<1>. QED  BY <1>1, <1>3, <1>4, <1>7, <1>8 DEF PlacesInv

\* How the answer of a consumer divides the batch
SettleEffect(q, s, retried, slow) ==
  LET S == Range(flights[q][s].batch)
      again == Again(q, retried)
      dead == Dead(q, retried)
  IN
  /\ S \subseteq Msgs /\ again \subseteq retried /\ dead \subseteq retried \ again
  /\ Dropped(q, retried) = retried \ (again \cup dead)
  /\ \A m \in S : IsAt(m, Flight(q, s))
  /\ \A p \in Queues : Range(messages'[p]) = IF p = q THEN Range(messages[q]) \cup (again \ slow) ELSE Range(messages[p])
  /\ \A p \in Queues : delayed'[p] = IF p = q THEN delayed[q] \cup (again \cap slow) ELSE delayed[p]
  /\ Range(flights'[q][s].batch) = dead
  /\ flights'[q][s].stage = (IF dead = {} THEN "idle" ELSE "forwarding")
  /\ flights'[q][s].stage = "idle" => flights'[q][s].batch = <<>>
  /\ \A p \in Queues, t \in Slots : ~(p = q /\ t = s) => flights'[p][t] = flights[p][t]
  /\ failedAttempts' = [m \in Msgs |-> IF m \in retried THEN failedAttempts[m] + 1 ELSE failedAttempts[m]]
  /\ fate' = [m \in Msgs |-> IF m \in S \ retried THEN "acked"
                             ELSE IF m \in retried \ (again \cup dead) THEN "dropped" ELSE fate[m]]
  /\ deliveries' = deliveries
  /\ NoTwins'

LEMMA SettleMoves ==
  ASSUME PlacesInv, NEW q \in Queues, NEW s \in Slots, flights[q][s].stage = "dispatching",
         NEW retried \in SUBSET Range(flights[q][s].batch), NEW slow, Settle(q, s, retried, slow)
  PROVE  SettleEffect(q, s, retried, slow)
<1>. DEFINE b == flights[q][s].batch
            again == Again(q, retried)
            dead == Dead(q, retried)
<1>1. TypeOK /\ b \in Seq(Msgs) /\ Range(b) \subseteq Msgs /\ Distinct(b)
  BY RangeFinite DEF PlacesInv, IInv, NoTwins, TypeOK, Flights
<1>2. again \subseteq retried /\ dead \subseteq retried \ again /\ Dropped(q, retried) = retried \ (again \cup dead)
  BY DEF Again, Dead, Dropped
<1>3. PICK now \in InBatchOrder(b, again \ slow), forward \in InBatchOrder(b, dead) :
        /\ messages' = [messages EXCEPT ![q] = messages[q] \o now]
        /\ delayed' = [delayed EXCEPT ![q] = @ \cup (again \cap slow)]
        /\ flights' = [flights EXCEPT ![q][s] =
             IF dead = {} THEN Idle ELSE [stage |-> "forwarding", batch |-> forward]]
        /\ failedAttempts' = [m \in Msgs |->
             IF m \in retried THEN failedAttempts[m] + 1 ELSE failedAttempts[m]]
        /\ fate' = [m \in Msgs |-> IF m \in Range(b) \ retried THEN "acked"
                                   ELSE IF m \in Dropped(q, retried) THEN "dropped"
                                   ELSE fate[m]]
        /\ UNCHANGED deliveries
  BY DEF Settle
<1>4. /\ now \in Seq(Msgs) /\ Range(now) = again \ slow /\ Distinct(now)
      /\ forward \in Seq(Msgs) /\ Range(forward) = dead /\ Distinct(forward)
  <2>1. again \ slow \in SUBSET Range(b) /\ dead \in SUBSET Range(b)
    BY <1>2
  <2>. QED  BY <1>1, <1>3, <2>1, InBatchOrderType, InBatchOrderDistinct
<1>5. ASSUME NEW m \in Range(b)  PROVE IsAt(m, Flight(q, s))
  BY <1>1, <1>5 DEF PlacesInv, IsAt
<1>. HIDE DEF again, dead
<1>6. /\ messages'[q] = messages[q] \o now /\ messages[q] \in Seq(Msgs) /\ Distinct(messages[q])
      /\ \A p \in Queues : p # q => messages'[p] = messages[p]
  BY <1>1, <1>3 DEF PlacesInv, NoTwins, TypeOK
<1>7. Range(messages'[q]) = Range(messages[q]) \cup (again \ slow)
  BY <1>4, <1>6, ConcatMembers
<1>8. Distinct(messages'[q])
  <2>1. Range(messages[q]) \cap Range(now) = {}
    BY <1>2, <1>4, <1>5, WheresDiffer DEF IsAt
  <2>. QED  BY <1>4, <1>6, <2>1, ConcatMembers
<1>9. \A p \in Queues : delayed'[p] = IF p = q THEN delayed[q] \cup (again \cap slow) ELSE delayed[p]
  BY <1>1, <1>3 DEF TypeOK
<1>10. /\ flights'[q][s] = IF dead = {} THEN Idle ELSE [stage |-> "forwarding", batch |-> forward]
       /\ \A p \in Queues, t \in Slots : ~(p = q /\ t = s) => flights'[p][t] = flights[p][t]
  BY <1>1, <1>3 DEF TypeOK
<1>11. /\ Range(flights'[q][s].batch) = dead /\ Distinct(flights'[q][s].batch)
       /\ flights'[q][s].stage = (IF dead = {} THEN "idle" ELSE "forwarding")
       /\ flights'[q][s].stage = "idle" => flights'[q][s].batch = <<>>
  <2>1. CASE dead = {}
    BY <1>10, <2>1, EmptyRange DEF Idle
  <2>2. CASE dead # {}
    <3>1. flights'[q][s] = [stage |-> "forwarding", batch |-> forward]
      BY <1>10, <2>2
    <3>. QED  BY <1>4, <2>2, <3>1
  <2>. QED  BY <2>1, <2>2
<1>12. NoTwins'
  BY <1>6, <1>8, <1>10, <1>11 DEF PlacesInv, NoTwins
<1>13. \A p \in Queues : Range(messages'[p]) = IF p = q THEN Range(messages[q]) \cup (again \ slow) ELSE Range(messages[p])
  BY <1>6, <1>7
<1>14. /\ failedAttempts' = [m \in Msgs |-> IF m \in retried THEN failedAttempts[m] + 1 ELSE failedAttempts[m]]
       /\ fate' = [m \in Msgs |-> IF m \in Range(b) \ retried THEN "acked"
                                  ELSE IF m \in retried \ (again \cup dead) THEN "dropped" ELSE fate[m]]
       /\ deliveries' = deliveries
  BY <1>2, <1>3
<1>. QED  BY <1>1, <1>2, <1>5, <1>9, <1>10, <1>11, <1>12, <1>13, <1>14 DEF again, dead, SettleEffect
LEMMA SettlePlaces ==
  ASSUME PlacesInv, NEW q \in Queues, NEW s \in Slots, flights[q][s].stage = "dispatching",
         NEW retried \in SUBSET Range(flights[q][s].batch), NEW slow, Settle(q, s, retried, slow),
         NEW acks \in SUBSET (Range(flights[q][s].batch) \ retried), acked' = acked \cup acks
  PROVE  PlacesInv'
<1>. DEFINE S == Range(flights[q][s].batch)
            again == Again(q, retried)
            dead == Dead(q, retried)
<1>1. /\ S \subseteq Msgs /\ again \subseteq retried /\ dead \subseteq retried \ again
      /\ \A m \in S : IsAt(m, Flight(q, s))
      /\ \A p \in Queues : Range(messages'[p]) = IF p = q THEN Range(messages[q]) \cup (again \ slow) ELSE Range(messages[p])
      /\ \A p \in Queues : delayed'[p] = IF p = q THEN delayed[q] \cup (again \cap slow) ELSE delayed[p]
      /\ Range(flights'[q][s].batch) = dead
      /\ flights'[q][s].stage = (IF dead = {} THEN "idle" ELSE "forwarding")
      /\ flights'[q][s].stage = "idle" => flights'[q][s].batch = <<>>
      /\ \A p \in Queues, t \in Slots : ~(p = q /\ t = s) => flights'[p][t] = flights[p][t]
      /\ failedAttempts' = [m \in Msgs |-> IF m \in retried THEN failedAttempts[m] + 1 ELSE failedAttempts[m]]
      /\ fate' = [m \in Msgs |-> IF m \in S \ retried THEN "acked"
                                 ELSE IF m \in retried \ (again \cup dead) THEN "dropped" ELSE fate[m]]
      /\ deliveries' = deliveries
      /\ NoTwins'
  <2>1. SettleEffect(q, s, retried, slow)
    BY SettleMoves
  <2>. QED  BY <2>1 DEF SettleEffect
<1>2. TypeOK /\ IInv'
  BY <1>1, SettlePreserves DEF PlacesInv, IInv, TypeOK
<1>. HIDE DEF S, again, dead
<1>3. retried \subseteq S /\ acks \subseteq S \ retried
  BY DEF S
<1>4. \A m \in Msgs : fate'[m] = IF m \in S \ retried THEN "acked"
                                 ELSE IF m \in retried \ (again \cup dead) THEN "dropped" ELSE fate[m]
  BY <1>1
<1>5. IdleIsEmpty'
  BY <1>1 DEF PlacesInv, IdleIsEmpty
<1>6. ASSUME NEW m \in Msgs  PROVE \E w \in Wheres : IsAt(m, w)'
  <2>1. CASE m \in S
    <3>1. /\ fate[m] = "live" /\ \A p \in Queues : m \notin Range(messages[p]) /\ m \notin delayed[p]
          /\ \A p \in Queues, t \in Slots : m \in Range(flights[p][t].batch) => p = q /\ t = s
      BY <1>1, <2>1, WheresDiffer DEF IsAt
    <3>2. /\ \A p \in Queues : m \in Range(messages'[p]) <=> p = q /\ m \in again \ slow
          /\ \A p \in Queues : m \in delayed'[p] <=> p = q /\ m \in again \cap slow
          /\ \A p \in Queues, t \in Slots : m \in Range(flights'[p][t].batch) <=> p = q /\ t = s /\ m \in dead
          /\ fate'[m] = "live" <=> m \in again \cup dead
      BY <1>1, <1>3, <1>4, <2>1, <3>1
    <3>3. CASE m \in again \ slow
      <4>1. IsAt(m, Backlog(q))'
        BY <1>1, <3>2, <3>3, WheresDiffer DEF IsAt
      <4>. QED  BY <4>1, WheresAre
    <3>4. CASE m \in again \cap slow
      <4>1. IsAt(m, Delay(q))'
        BY <1>1, <3>2, <3>4, WheresDiffer DEF IsAt
      <4>. QED  BY <4>1, WheresAre
    <3>5. CASE m \in dead
      <4>1. IsAt(m, Flight(q, s))'
        BY <1>1, <3>2, <3>5, WheresDiffer DEF IsAt
      <4>. QED  BY <4>1, WheresAre
    <3>6. CASE m \notin again \cup dead
      <4>1. IsAt(m, Nowhere)'
        BY <3>2, <3>6, WheresDiffer DEF IsAt
      <4>. QED  BY <4>1, WheresAre
    <3>. QED  BY <3>3, <3>4, <3>5, <3>6
  <2>2. CASE m \notin S
    <3>1. PICK w \in Wheres : IsAt(m, w)
      BY DEF PlacesInv
    <3>2. m \notin again /\ m \notin dead /\ m \notin retried /\ m \notin Range(flights[q][s].batch)
      BY <1>1, <1>3, <2>2 DEF S
    <3>3. /\ \A p \in Queues : m \in Range(messages'[p]) <=> m \in Range(messages[p])
          /\ \A p \in Queues : m \in delayed'[p] <=> m \in delayed[p]
          /\ \A p \in Queues, t \in Slots : m \in Range(flights'[p][t].batch) <=> m \in Range(flights[p][t].batch)
          /\ fate'[m] = fate[m]
      BY <1>1, <1>4, <2>2, <3>2
    <3>4. IsAt(m, w)'
      BY <3>1, <3>3 DEF IsAt
    <3>. QED  BY <3>4
  <2>. QED  BY <2>1, <2>2
<1>7. AckedNeverRedelivered'
  <2>. SUFFICES ASSUME NEW m \in acked'  PROVE fate'[m] = "acked"
    BY DEF AckedNeverRedelivered
  <2>1. CASE m \in acks
    BY <1>1, <1>3, <1>4, <2>1
  <2>2. CASE m \in acked
    <3>1. m \in Msgs /\ fate[m] = "acked"
      BY <1>2, <2>2 DEF PlacesInv, AckedNeverRedelivered, TypeOK
    <3>2. m \notin S
      BY <1>1, <3>1, WheresDiffer DEF IsAt
    <3>. QED  BY <1>1, <1>3, <1>4, <3>1, <3>2
  <2>. QED  BY <2>1, <2>2
<1>8. AttemptsMatch'
  <2>. SUFFICES ASSUME NEW m \in Msgs
                PROVE  /\ fate'[m] \in {"unsent", "live"} =>
                            deliveries'[m] = failedAttempts'[m] + (IF FlightOf(m, "dispatching")' THEN 1 ELSE 0)
                       /\ fate'[m] = "unsent" => failedAttempts'[m] = 0
    BY DEF AttemptsMatch
  <2>1. failedAttempts[m] \in Nat /\ deliveries'[m] = deliveries[m]
        /\ failedAttempts'[m] = IF m \in retried THEN failedAttempts[m] + 1 ELSE failedAttempts[m]
    BY <1>1, <1>2 DEF TypeOK
  <2>2. CASE m \in S
    <3>1. FlightOf(m, "dispatching") /\ fate[m] = "live"
      BY <1>1, <2>2, WheresDiffer DEF FlightOf, S, IsAt
    <3>2. ~FlightOf(m, "dispatching")'
      <4>1. \A p \in Queues, t \in Slots : m \in Range(flights[p][t].batch) => p = q /\ t = s
        BY <1>1, <2>2, WheresDiffer DEF IsAt
      <4>2. flights'[q][s].stage # "dispatching"
        BY <1>1
      <4>. QED  BY <1>1, <4>1, <4>2 DEF FlightOf
    <3>3. fate'[m] \in {"unsent", "live"} => m \in retried /\ fate'[m] = "live"
      BY <1>4, <2>2, <3>1
    <3>. QED  BY <2>1, <3>1, <3>2, <3>3 DEF PlacesInv, AttemptsMatch
  <2>3. CASE m \notin S
    <3>1. FlightOf(m, "dispatching")' <=> FlightOf(m, "dispatching")
      <4>1. m \notin Range(flights'[q][s].batch) /\ m \notin Range(flights[q][s].batch)
        BY <1>1, <1>3, <2>3 DEF S
      <4>. QED  BY <1>1, <4>1 DEF FlightOf
    <3>2. m \notin retried /\ fate'[m] = fate[m]
      BY <1>3, <1>4, <2>3
    <3>. QED  BY <2>1, <3>1, <3>2 DEF PlacesInv, AttemptsMatch
  <2>. QED  BY <2>2, <2>3
<1>. QED  BY <1>1, <1>2, <1>5, <1>6, <1>7, <1>8 DEF PlacesInv

\* Every answer of the consumer settles the batch: some of it failed, and what the
\* consumer acknowledged is not of that part.
LEMMA AnswerSettles ==
  ASSUME NEW q \in Queues, NEW s \in Slots, ConsumerResponds(q, s) \/ DispatchRejected(q, s)
  PROVE  /\ flights[q][s].stage = "dispatching"
         /\ \E retried, acks \in SUBSET Range(flights[q][s].batch) :
              /\ acks \cap retried = {} /\ acked' = acked \cup acks
              /\ \E slow : Settle(q, s, retried, slow)
<1>. DEFINE S == Range(flights[q][s].batch)
<1>1. CASE ConsumerResponds(q, s)
  <2>1. PICK retryAll \in BOOLEAN, retry \in SUBSET S, acks \in SUBSET S :
          /\ acks \cap retry = {}
          /\ \E slow : Settle(q, s, Retried(S, retryAll, retry, acks), slow)
          /\ acked' = acked \cup acks
    BY <1>1 DEF ConsumerResponds
  <2>2. PICK retried \in SUBSET S : retried = Retried(S, retryAll, retry, acks)
    BY DEF Retried
  <2>3. acks \cap retried = {}
    BY <2>1, <2>2 DEF Retried
  <2>. QED  BY <1>1, <2>1, <2>2, <2>3 DEF ConsumerResponds
<1>2. CASE DispatchRejected(q, s)
  <2>1. PICK slow : acked' = acked \cup {} /\ Settle(q, s, S, slow)
    BY <1>2 DEF DispatchRejected
  <2>2. S \in SUBSET S /\ {} \in SUBSET S
    OBVIOUS
  <2>. QED  BY <1>2, <2>1, <2>2 DEF DispatchRejected
<1>. QED  BY <1>1, <1>2

LEMMA AnswerPlaces ==
  ASSUME PlacesInv, NEW q \in Queues, NEW s \in Slots,
         ConsumerResponds(q, s) \/ DispatchRejected(q, s)
  PROVE  PlacesInv'
<1>1. PICK retried \in SUBSET Range(flights[q][s].batch), acks \in SUBSET Range(flights[q][s].batch) :
        /\ acks \cap retried = {} /\ acked' = acked \cup acks
        /\ \E slow : Settle(q, s, retried, slow)
  BY AnswerSettles
<1>2. acks \in SUBSET (Range(flights[q][s].batch) \ retried) /\ flights[q][s].stage = "dispatching"
  BY <1>1, AnswerSettles
<1>. QED  BY <1>1, <1>2, SettlePlaces

\* What queue d does with the batch that it accepts as a dead-letter queue
ForwardEffect(q, s, d, now, later) ==
  /\ d = DLQ[q] /\ Enqueue(d, now, later) /\ Distinct(now)
  /\ Range(now) \cup later = Range(flights[q][s].batch) /\ Range(now) \cap later = {}
  /\ \A p \in Queues : Range(messages'[p]) = IF p = d THEN Range(messages[d]) \cup Range(now) ELSE Range(messages[p])
  /\ \A p \in Queues : delayed'[p] = IF p = d THEN delayed[d] \cup later ELSE delayed[p]

LEMMA DeadLetterMoves ==
  ASSUME PlacesInv, NEW q \in Queues, NEW s \in Slots, DeadLetterArrives(q, s)
  PROVE  \E d \in Queues, now \in Seq(Msgs), later \in SUBSET Msgs : ForwardEffect(q, s, d, now, later)
<1>. DEFINE b == flights[q][s].batch
<1>1. TypeOK /\ b \in Seq(Msgs) /\ Range(b) \subseteq Msgs /\ Distinct(b)
  <2>1. TypeOK /\ b \in Seq(Msgs) /\ Distinct(b)
    BY DEF PlacesInv, IInv, NoTwins, TypeOK, Flights
  <2>. QED  BY <2>1, RangeFinite
<1>2. PICK d \in Queues : d = DLQ[q]
  BY DLQAssumption DEF PlacesInv, IInv, ForwardsSomewhere, DeadLetterArrives
<1>3. PICK now \in Seq(Msgs), later \in SUBSET Msgs :
        /\ Enqueue(d, now, later) /\ Distinct(now) /\ Range(now) \cup later = Range(b) /\ Range(now) \cap later = {}
  BY <1>1, <1>2, EmptySeq, EmptyRange DEF DeadLetterArrives
<1>4. /\ \A p \in Queues : Range(messages'[p]) = IF p = d THEN Range(messages[d]) \cup Range(now) ELSE Range(messages[p])
      /\ \A p \in Queues : delayed'[p] = IF p = d THEN delayed[d] \cup later ELSE delayed[p]
  BY <1>1, <1>3, PushMembers DEF Enqueue, TypeOK
<1>5. ForwardEffect(q, s, d, now, later)
  BY <1>2, <1>3, <1>4 DEF ForwardEffect
<1>. QED  BY <1>5

\* What happens to a batch that waits for the dead-letter queue
LEMMA ForwardPlaces ==
  ASSUME PlacesInv, NEW q \in Queues, NEW s \in Slots, DeadLetterArrives(q, s) \/ DeadLetterFails(q, s)
  PROVE  PlacesInv'
<1>. DEFINE b == flights[q][s].batch
            S == Range(b)
<1>1. TypeOK /\ IInv' /\ b \in Seq(Msgs) /\ S \subseteq Msgs /\ Distinct(b)
  <2>1. IInv /\ IInv'
    BY DeadLetterArrivesPreserves, DeadLetterFailsPreserves DEF PlacesInv
  <2>2. TypeOK /\ b \in Seq(Msgs) /\ Distinct(b)
    BY <2>1 DEF PlacesInv, IInv, NoTwins, TypeOK, Flights
  <2>. QED  BY <2>1, <2>2, RangeFinite
<1>2. flights' = [flights EXCEPT ![q][s] = Idle] /\ flights[q][s].stage = "forwarding" /\ UNCHANGED acked
  BY DEF DeadLetterArrives, DeadLetterFails, EndFlush
<1>3. /\ flights'[q][s].stage = "idle" /\ flights'[q][s].batch = <<>>
      /\ \A p \in Queues, t \in Slots : ~(p = q /\ t = s) => flights'[p][t] = flights[p][t]
  BY <1>1, <1>2 DEF TypeOK, Idle
<1>4. ASSUME NEW m \in S
      PROVE  /\ m \in Msgs /\ fate[m] = "live" /\ IsAt(m, Flight(q, s))
             /\ \A p \in Queues : m \notin Range(messages[p]) /\ m \notin delayed[p]
             /\ \A p \in Queues, t \in Slots : m \in Range(flights[p][t].batch) => p = q /\ t = s
             /\ \A p \in Queues, t \in Slots : m \notin Range(flights'[p][t].batch)
  <2>1. m \in Msgs /\ IsAt(m, Flight(q, s))
    BY <1>1, <1>4 DEF PlacesInv, IsAt
  <2>2. /\ fate[m] = "live" /\ \A p \in Queues : m \notin Range(messages[p]) /\ m \notin delayed[p]
        /\ \A p \in Queues, t \in Slots : m \in Range(flights[p][t].batch) => p = q /\ t = s
    BY <2>1, WheresDiffer DEF IsAt
  <2>3. \A p \in Queues, t \in Slots : m \notin Range(flights'[p][t].batch)
    BY <1>3, <2>2, EmptyRange
  <2>. QED  BY <2>1, <2>2, <2>3
<1>5. ASSUME NEW m \in Msgs, m \notin S
      PROVE  \A p \in Queues, t \in Slots : m \in Range(flights'[p][t].batch) <=> m \in Range(flights[p][t].batch)
  BY <1>3, <1>5, EmptyRange
<1>6. IdleIsEmpty' /\ \A p \in Queues, t \in Slots : Distinct(flights'[p][t].batch)
  BY <1>3, EmptyRange DEF PlacesInv, IdleIsEmpty, NoTwins
<1>7. \A m \in Msgs : /\ FlightOf(m, "dispatching")' <=> FlightOf(m, "dispatching")
                      /\ m \in S => ~FlightOf(m, "dispatching")
  <2>1. \A m \in S : ~FlightOf(m, "dispatching") /\ ~FlightOf(m, "dispatching")'
    BY <1>2, <1>4 DEF FlightOf
  <2>2. \A m \in Msgs \ S : FlightOf(m, "dispatching")' <=> FlightOf(m, "dispatching")
    BY <1>2, <1>3, <1>5, EmptyRange DEF FlightOf
  <2>. QED  BY <2>1, <2>2
<1>8. acked \cap S = {}
  BY <1>4 DEF PlacesInv, AckedNeverRedelivered
<1>. HIDE DEF S
<1>9. CASE DeadLetterArrives(q, s)
  <2>1. PICK d \in Queues, now \in Seq(Msgs), later \in SUBSET Msgs : ForwardEffect(q, s, d, now, later)
    BY <1>9, DeadLetterMoves
  <2>3. /\ Enqueue(d, now, later) /\ Distinct(now)
        /\ Range(now) \cup later = S /\ Range(now) \cap later = {}
        /\ \A p \in Queues : Range(messages'[p]) = IF p = d THEN Range(messages[d]) \cup Range(now) ELSE Range(messages[p])
        /\ \A p \in Queues : delayed'[p] = IF p = d THEN delayed[d] \cup later ELSE delayed[p]
    BY <2>1 DEF S, ForwardEffect
  <2>4. /\ fate' = fate
        /\ \A m \in Msgs : /\ failedAttempts'[m] = IF m \in S THEN 0 ELSE failedAttempts[m]
                           /\ deliveries'[m] = IF m \in S THEN 0 ELSE deliveries[m]
    BY <1>9 DEF DeadLetterArrives, S
  <2>6. NoTwins'
    <3>1. Range(messages[d]) \cap Range(now) = {}
      BY <1>4, <2>3
    <3>2. \A p \in Queues : Distinct(messages'[p])
      BY <1>1, <2>3, <3>1, PushDistinct DEF PlacesInv, Enqueue
    <3>. QED  BY <1>6, <3>2 DEF NoTwins
  <2>7. ASSUME NEW m \in Msgs  PROVE \E w \in Wheres : IsAt(m, w)'
    <3>1. CASE m \in S
      <4>1. IsAt(m, IF m \in later THEN Delay(d) ELSE Backlog(d))'
        BY <1>1, <1>4, <2>3, <2>4, <3>1, ArrivesAt
      <4>. QED  BY <4>1, WheresAre
    <3>2. CASE m \notin S
      <4>1. PICK w \in Wheres : IsAt(m, w)
        BY DEF PlacesInv
      <4>2. /\ \A p \in Queues : m \in Range(messages'[p]) <=> m \in Range(messages[p])
            /\ \A p \in Queues : m \in delayed'[p] <=> m \in delayed[p]
        BY <2>3, <3>2
      <4>3. IsAt(m, w)'
        BY <1>5, <2>4, <3>2, <4>1, <4>2 DEF IsAt
      <4>. QED  BY <4>3
    <3>. QED  BY <3>1, <3>2
  <2>8. AckedNeverRedelivered'
    BY <1>2, <2>4 DEF PlacesInv, AckedNeverRedelivered
  <2>9. AttemptsMatch'
    <3>1. \A m \in S : fate[m] = "live"
      BY <1>4
    <3>. QED  BY <1>7, <2>4, <3>1 DEF PlacesInv, AttemptsMatch
  <2>. QED  BY <1>1, <1>6, <2>6, <2>7, <2>8, <2>9 DEF PlacesInv
<1>10. CASE DeadLetterFails(q, s)
  <2>1. /\ \A m \in Msgs : fate'[m] = IF m \in S THEN "lost" ELSE fate[m]
        /\ UNCHANGED <<messages, delayed, failedAttempts, deliveries>>
    BY <1>10 DEF DeadLetterFails, S
  <2>2. NoTwins'
    BY <1>6, <2>1 DEF PlacesInv, NoTwins
  <2>3. ASSUME NEW m \in Msgs  PROVE \E w \in Wheres : IsAt(m, w)'
    <3>1. CASE m \in S
      <4>1. IsAt(m, Nowhere)'
        BY <1>4, <2>1, <3>1, WheresDiffer DEF IsAt
      <4>. QED  BY <4>1, WheresAre
    <3>2. CASE m \notin S
      <4>1. PICK w \in Wheres : IsAt(m, w)
        BY DEF PlacesInv
      <4>2. IsAt(m, w)'
        BY <1>5, <2>1, <3>2, <4>1 DEF IsAt
      <4>. QED  BY <4>2
    <3>. QED  BY <3>1, <3>2
  <2>4. AckedNeverRedelivered'
    BY <1>1, <1>2, <1>8, <2>1 DEF PlacesInv, AckedNeverRedelivered, TypeOK
  <2>5. AttemptsMatch'
    BY <1>7, <2>1 DEF PlacesInv, AttemptsMatch
  <2>. QED  BY <1>1, <1>6, <2>2, <2>3, <2>4, <2>5 DEF PlacesInv
<1>. QED  BY <1>9, <1>10
LEMMA NextPlaces == PlacesInv /\ [Next]_vars => PlacesInv'
<1>. SUFFICES ASSUME PlacesInv, [Next]_vars PROVE PlacesInv'
  OBVIOUS
<1>1. CASE UNCHANGED vars
  <2>1. IInv'
    BY <1>1, NextPreserves DEF PlacesInv
  <2>2. NoTwins' /\ IdleIsEmpty' /\ AckedNeverRedelivered' /\ AttemptsMatch'
    BY <1>1 DEF vars, PlacesInv, NoTwins, IdleIsEmpty, AckedNeverRedelivered, AttemptsMatch, FlightOf
  <2>3. \A m \in Msgs : \E w \in Wheres : IsAt(m, w)'
    <3>1. \A m, w : IsAt(m, w) => IsAt(m, w)'
      BY <1>1 DEF vars, IsAt
    <3>. QED  BY <3>1 DEF PlacesInv
  <2>. QED  BY <2>1, <2>2, <2>3 DEF PlacesInv
<1>2. CASE Next
  BY <1>2, PostPlaces, DelayElapsesPlaces, StartFlushPlaces, AnswerPlaces, ForwardPlaces DEF Next
<1>. QED  BY <1>1, <1>2

\* Every message is in one place until it is settled, and where it is tells how often
\* it was delivered.
THEOREM PlacesInvariance == Spec => []PlacesInv
BY InitPlaces, NextPlaces, PTL DEF Spec

\* The positions of a message are those of its one place.
LEMMA PlacesCounted == PlacesInv => Conservation
<1>. SUFFICES ASSUME PlacesInv, NEW m \in Msgs
              PROVE  Cardinality(Places(m)) = IF fate[m] = "live" THEN 1 ELSE 0
  BY DEF Conservation
<1>1. PICK w \in Wheres : IsAt(m, w)
  BY DEF PlacesInv
<1>2. ASSUME NEW x
      PROVE  x \in Places(m) <=>
               \/ \E q \in Queues : \E i \in DOMAIN messages[q] : messages[q][i] = m /\ x = <<"backlog", q, i>>
               \/ \E q \in Queues : m \in delayed[q] /\ x = <<"delay", q>>
               \/ \E q \in Queues, s \in Slots : \E i \in DOMAIN flights[q][s].batch :
                    flights[q][s].batch[i] = m /\ x = <<"flight", q, s, i>>
  BY DEF Places
<1>3. CASE w = Nowhere
  <2>1. /\ fate[m] # "live" /\ \A q \in Queues : m \notin Range(messages[q]) /\ m \notin delayed[q]
        /\ \A q \in Queues, s \in Slots : m \notin Range(flights[q][s].batch)
    BY <1>1, <1>3, WheresDiffer DEF IsAt
  <2>2. Places(m) = {}
    BY <1>2, <2>1 DEF Range
  <2>. QED  BY <2>1, <2>2, FS_EmptySet
<1>4. ASSUME NEW q \in Queues, w = Backlog(q)  PROVE fate[m] = "live" /\ \E x : Places(m) = {x}
  <2>1. /\ fate[m] = "live" /\ \A p \in Queues : m \notin delayed[p] /\ (m \in Range(messages[p]) <=> p = q)
        /\ \A p \in Queues, s \in Slots : m \notin Range(flights[p][s].batch)
    BY <1>1, <1>4, WheresDiffer DEF IsAt
  <2>2. PICK i \in DOMAIN messages[q] : messages[q][i] = m
    BY <2>1 DEF Range
  <2>3. \A j \in DOMAIN messages[q] : messages[q][j] = m => j = i
    BY <2>2 DEF PlacesInv, NoTwins, Distinct
  <2>4. \A p \in Queues : (\E j \in DOMAIN messages[p] : messages[p][j] = m) => p = q
    BY <2>1 DEF Range
  <2>5. \A p \in Queues, s \in Slots : \A j \in DOMAIN flights[p][s].batch : flights[p][s].batch[j] # m
    BY <2>1 DEF Range
  <2>6. \A x : x \in Places(m) <=> x = <<"backlog", q, i>>
    BY <1>2, <2>1, <2>2, <2>3, <2>4, <2>5
  <2>7. Places(m) = {<<"backlog", q, i>>}
    BY <2>6
  <2>. QED  BY <2>1, <2>7
<1>5. ASSUME NEW q \in Queues, w = Delay(q)  PROVE fate[m] = "live" /\ \E x : Places(m) = {x}
  <2>1. /\ fate[m] = "live" /\ \A p \in Queues : m \notin Range(messages[p]) /\ (m \in delayed[p] <=> p = q)
        /\ \A p \in Queues, s \in Slots : m \notin Range(flights[p][s].batch)
    BY <1>1, <1>5, WheresDiffer DEF IsAt
  <2>2. \A p \in Queues : \A j \in DOMAIN messages[p] : messages[p][j] # m
    BY <2>1 DEF Range
  <2>3. \A p \in Queues, s \in Slots : \A j \in DOMAIN flights[p][s].batch : flights[p][s].batch[j] # m
    BY <2>1 DEF Range
  <2>4. \A x : x \in Places(m) <=> x = <<"delay", q>>
    BY <1>2, <2>1, <2>2, <2>3
  <2>5. Places(m) = {<<"delay", q>>}
    BY <2>4
  <2>. QED  BY <2>1, <2>5
<1>6. ASSUME NEW q \in Queues, NEW s \in Slots, w = Flight(q, s)  PROVE fate[m] = "live" /\ \E x : Places(m) = {x}
  <2>1. /\ fate[m] = "live" /\ \A p \in Queues : m \notin delayed[p] /\ m \notin Range(messages[p])
        /\ \A p \in Queues, t \in Slots : m \in Range(flights[p][t].batch) <=> p = q /\ t = s
    BY <1>1, <1>6, WheresDiffer DEF IsAt
  <2>2. PICK i \in DOMAIN flights[q][s].batch : flights[q][s].batch[i] = m
    BY <2>1 DEF Range
  <2>3. \A j \in DOMAIN flights[q][s].batch : flights[q][s].batch[j] = m => j = i
    BY <2>2 DEF PlacesInv, NoTwins, Distinct
  <2>4. \A p \in Queues : \A j \in DOMAIN messages[p] : messages[p][j] # m
    BY <2>1 DEF Range
  <2>5. \A p \in Queues, t \in Slots : (\E j \in DOMAIN flights[p][t].batch : flights[p][t].batch[j] = m) => p = q /\ t = s
    BY <2>1 DEF Range
  <2>6. \A x : x \in Places(m) <=> x = <<"flight", q, s, i>>
    BY <1>2, <2>1, <2>2, <2>3, <2>4, <2>5
  <2>7. Places(m) = {<<"flight", q, s, i>>}
    BY <2>6
  <2>. QED  BY <2>1, <2>7
<1>7. w = Nowhere \/ (fate[m] = "live" /\ \E x : Places(m) = {x})
  BY <1>4, <1>5, <1>6, WheresAre
<1>. QED  BY <1>3, <1>7, FS_Singleton

\* A message that was accepted and not yet settled is in exactly one place of one
\* broker; one that is settled is in none, so it is never delivered again.
THEOREM NothingLostOrDoubled == Spec => []Conservation
<1>. QED  BY PlacesCounted, PlacesInvariance, PTL

\* What a consumer acknowledged is out of the system, whatever else its answer said.
THEOREM AcksAreFinal == Spec => []AckedNeverRedelivered
<1>1. PlacesInv => AckedNeverRedelivered
  BY DEF PlacesInv
<1>. QED  BY <1>1, PlacesInvariance, PTL
-----------------------------------------------------------------------------
(* The brokers implement QueueDelivery *)

PlaceHome(m) ==
  /\ fate[m] # "live" => place[m] = fate[m] /\ home[m] = NoQueue
  /\ \A q \in Queues : m \in Range(messages[q]) \cup delayed[q] => place[m] = "waiting" /\ home[m] = q
  /\ \A q \in Queues, s \in Slots : m \in Range(flights[q][s].batch) =>
       /\ home[m] = q
       /\ place[m] = IF flights[q][s].stage = "dispatching" THEN "inFlight" ELSE "forwarding"

LEMMA PlacesMap == PlacesInv => \A m \in Msgs : PlaceHome(m)
<1>. SUFFICES ASSUME PlacesInv, NEW m \in Msgs PROVE PlaceHome(m)
  OBVIOUS
<1>1. PICK w \in Wheres : IsAt(m, w)
  BY DEF PlacesInv
<1>2. /\ \A q \in Queues : m \in Range(messages[q]) <=> w = Backlog(q)
      /\ \A q \in Queues : m \in delayed[q] <=> w = Delay(q)
      /\ \A q \in Queues, s \in Slots : m \in Range(flights[q][s].batch) <=> w = Flight(q, s)
      /\ fate[m] = "live" <=> w # Nowhere
  BY <1>1 DEF IsAt
<1>3. ASSUME NEW q \in Queues, HeldBy(q, m)  PROVE fate[m] = "live" /\ home[m] = q
  <2>1. fate[m] = "live"
    BY <1>2, <1>3, WheresDiffer DEF HeldBy
  <2>2. \A p \in Queues : HeldBy(p, m) => p = q
    BY <1>2, <1>3, WheresDiffer DEF HeldBy
  <2>. QED  BY <1>3, <2>1, <2>2 DEF home
<1>4. fate[m] # "live" => place[m] = fate[m] /\ home[m] = NoQueue
  BY DEF place, home
<1>5. ASSUME NEW q \in Queues, m \in Range(messages[q]) \cup delayed[q]  PROVE place[m] = "waiting" /\ home[m] = q
  <2>1. HeldBy(q, m)
    BY <1>5 DEF HeldBy
  <2>2. \A stage : ~FlightOf(m, stage)
    BY <1>2, <1>5, WheresDiffer DEF FlightOf
  <2>. QED  BY <1>3, <2>1, <2>2 DEF place
<1>6. ASSUME NEW q \in Queues, NEW s \in Slots, m \in Range(flights[q][s].batch)
      PROVE  /\ home[m] = q
             /\ place[m] = IF flights[q][s].stage = "dispatching" THEN "inFlight" ELSE "forwarding"
  <2>1. HeldBy(q, m)
    BY <1>6 DEF HeldBy
  <2>2. \A stage : FlightOf(m, stage) <=> flights[q][s].stage = stage
    BY <1>2, <1>6, WheresDiffer DEF FlightOf
  <2>3. flights[q][s].stage \in {"dispatching", "forwarding"}
    <3>1. flights[q][s].stage # "idle"
      BY <1>6, EmptyRange DEF PlacesInv, IdleIsEmpty
    <3>. QED  BY <3>1 DEF PlacesInv, IInv, TypeOK, Flights
  <2>. QED  BY <1>3, <2>1, <2>2, <2>3 DEF place
<1>. QED  BY <1>4, <1>5, <1>6 DEF PlaceHome

AllHomed == \A m \in Msgs : PlaceHome(m)

LEMMA PlacesMapNext == PlacesInv' => \A m \in Msgs : PlaceHome(m)'
<1>1. PlacesInv => AllHomed
  BY PlacesMap DEF AllHomed
<1>2. PlacesInv' => AllHomed'
  BY <1>1, PTL
<1>. QED  BY <1>2 DEF AllHomed

LEMMA MappedFunctions ==
  /\ place = [m \in Msgs |-> place[m]] /\ home = [m \in Msgs |-> home[m]]
  /\ place' = [m \in Msgs |-> place'[m]] /\ home' = [m \in Msgs |-> home'[m]]
BY DEF place, home

\* A message that stays where it is
LEMMA Unmoved ==
  ASSUME PlacesInv, PlacesInv', NEW m \in Msgs, fate'[m] = fate[m],
         \A q \in Queues : m \in Range(messages'[q]) \cup delayed'[q] <=> m \in Range(messages[q]) \cup delayed[q],
         \A q \in Queues, s \in Slots :
           /\ m \in Range(flights'[q][s].batch) <=> m \in Range(flights[q][s].batch)
           /\ m \in Range(flights[q][s].batch) => flights'[q][s].stage = flights[q][s].stage
  PROVE  place'[m] = place[m] /\ home'[m] = home[m]
<1>1. PlaceHome(m) /\ PlaceHome(m)'
  BY PlacesMap, PlacesMapNext
<1>2. PICK w \in Wheres : IsAt(m, w)
  BY DEF PlacesInv
<1>3. CASE w = Nowhere
  BY <1>1, <1>2, <1>3 DEF IsAt, PlaceHome
<1>4. ASSUME NEW q \in Queues, w = Backlog(q) \/ w = Delay(q)  PROVE place'[m] = place[m] /\ home'[m] = home[m]
  <2>1. m \in Range(messages[q]) \cup delayed[q]
    BY <1>2, <1>4 DEF IsAt
  <2>. QED  BY <1>1, <2>1 DEF PlaceHome
<1>5. ASSUME NEW q \in Queues, NEW s \in Slots, w = Flight(q, s)  PROVE place'[m] = place[m] /\ home'[m] = home[m]
  <2>1. m \in Range(flights[q][s].batch)
    BY <1>2, <1>5 DEF IsAt
  <2>. QED  BY <1>1, <2>1 DEF PlaceHome
<1>. QED  BY <1>3, <1>4, <1>5, WheresAre

LEMMA InitDelivers == Init => Delivery!Init
<1>. SUFFICES ASSUME Init PROVE Delivery!Init
  OBVIOUS
<1>1. PlacesInv
  BY InitPlaces
<1>2. \A m \in Msgs : place[m] = "unsent" /\ home[m] = NoQueue
  BY DEF Init, place, home
<1>. QED  BY <1>2, MappedFunctions DEF Init, Delivery!Init

\* POST accepts messages.
LEMMA PostDelivers ==
  ASSUME PlacesInv, PlacesInv', NEW q \in Queues, PostMessage(q) \/ PostBatch(q)
  PROVE  Delivery!Next
<1>0. PICK batch \in Seq(Msgs), later \in SUBSET Msgs, now \in Seq(Msgs) : PostEffect(q, batch, later, now)
  BY PostMoves
<1>1. /\ Range(batch) \subseteq Msgs /\ later \subseteq Range(batch)
      /\ Range(now) = Range(batch) \ later /\ Distinct(now) /\ Enqueue(q, now, later)
      /\ \A m \in Range(batch) : fate[m] = "unsent" /\ fate'[m] = "live"
      /\ \A m \in Msgs \ Range(batch) : fate'[m] = fate[m]
      /\ UNCHANGED <<flights, failedAttempts, deliveries, acked>>
      /\ \A p \in Queues : Range(messages'[p]) = IF p = q THEN Range(messages[q]) \cup Range(now) ELSE Range(messages[p])
      /\ \A p \in Queues : delayed'[p] = IF p = q THEN delayed[q] \cup later ELSE delayed[p]
  BY <1>0 DEF PostEffect
<1>. DEFINE S == Range(batch)
<1>2. ASSUME NEW m \in S
      PROVE  place[m] = "unsent" /\ place'[m] = "waiting" /\ home'[m] = q /\ deliveries[m] = 0
  <2>1. m \in Msgs /\ fate[m] = "unsent" /\ PlaceHome(m) /\ PlaceHome(m)'
    BY <1>1, PlacesMap, PlacesMapNext
  <2>2. m \in Range(messages'[q]) \cup delayed'[q]
    BY <1>1
  <2>3. ~FlightOf(m, "dispatching")
    <3>1. PICK w \in Wheres : IsAt(m, w)
      BY <2>1 DEF PlacesInv
    <3>. QED  BY <2>1, <3>1, WheresDiffer DEF IsAt, FlightOf
  <2>4. failedAttempts[m] = 0 /\ deliveries[m] = failedAttempts[m] + 0
    BY <2>1, <2>3 DEF PlacesInv, AttemptsMatch
  <2>. QED  BY <2>1, <2>2, <2>4 DEF PlaceHome
<1>3. ASSUME NEW m \in Msgs \ S PROVE place'[m] = place[m] /\ home'[m] = home[m]
  <2>1. /\ fate'[m] = fate[m]
        /\ \A p \in Queues : m \in Range(messages'[p]) \cup delayed'[p] <=> m \in Range(messages[p]) \cup delayed[p]
        /\ \A p \in Queues, t \in Slots :
             /\ m \in Range(flights'[p][t].batch) <=> m \in Range(flights[p][t].batch)
             /\ m \in Range(flights[p][t].batch) => flights'[p][t].stage = flights[p][t].stage
    BY <1>1
  <2>. QED  BY <2>1, Unmoved
<1>4. S \subseteq Msgs /\ deliveries' = deliveries /\ deliveries = [m \in Msgs |-> deliveries[m]]
  BY <1>1 DEF PlacesInv, IInv, TypeOK
<1>. HIDE DEF S
<1>5. /\ place' = [m \in Msgs |-> IF m \in S THEN "waiting" ELSE place[m]]
      /\ home' = [m \in Msgs |-> IF m \in S THEN q ELSE home[m]]
      /\ deliveries' = [m \in Msgs |-> IF m \in S THEN 0 ELSE deliveries[m]]
  BY <1>2, <1>3, <1>4, MappedFunctions
<1>6. S \in SUBSET {m \in Msgs : place[m] = "unsent"}
  BY <1>2, <1>4
<1>7. Delivery!Accept(q, S)
  BY <1>5, <1>6 DEF Delivery!Accept, Delivery!Move, Delivery!Rehome, Delivery!SetAttempts
<1>. QED  BY <1>6, <1>7 DEF Delivery!Next

\* The end of a delay is invisible.
LEMMA DelayStutters ==
  ASSUME PlacesInv, PlacesInv', NEW q \in Queues, NEW x \in Msgs, DelayElapses(q, x)
  PROVE  UNCHANGED Delivery!vars
<1>1. /\ x \in delayed[q] /\ UNCHANGED <<flights, deliveries, fate>>
      /\ \A p \in Queues : delayed'[p] = IF p = q THEN delayed[q] \ {x} ELSE delayed[p]
      /\ \A p \in Queues : Range(messages'[p]) = IF p = q THEN Range(messages[q]) \cup {x} ELSE Range(messages[p])
  <2>1. TypeOK /\ <<x>> \in Seq(Msgs) /\ Range(<<x>>) = {x}
    BY DEF PlacesInv, IInv, Range
  <2>. QED  BY <2>1, PushMembers DEF DelayElapses, TypeOK
<1>2. ASSUME NEW m \in Msgs PROVE place'[m] = place[m] /\ home'[m] = home[m]
  <2>1. /\ fate'[m] = fate[m]
        /\ \A p \in Queues : m \in Range(messages'[p]) \cup delayed'[p] <=> m \in Range(messages[p]) \cup delayed[p]
        /\ \A p \in Queues, t \in Slots :
             /\ m \in Range(flights'[p][t].batch) <=> m \in Range(flights[p][t].batch)
             /\ m \in Range(flights[p][t].batch) => flights'[p][t].stage = flights[p][t].stage
    BY <1>1
  <2>. QED  BY <2>1, Unmoved
<1>3. place' = place /\ home' = home
  BY <1>2, MappedFunctions
<1>. QED  BY <1>1, <1>3 DEF Delivery!vars

\* The start of a flush delivers the batch.
LEMMA FlushDelivers ==
  ASSUME PlacesInv, PlacesInv', NEW q \in Queues, FlushTimerFires(q) \/ OrphanTimerFires(q)
  PROVE  Delivery!Next
<1>0. PICK s \in Slots, batch \in Seq(Msgs) : FlushEffect(q, s, batch)
  BY FlushMoves
<1>1. /\ flights[q][s].stage = "idle" /\ Range(flights[q][s].batch) = {}
      /\ flights'[q][s] = [stage |-> "dispatching", batch |-> batch]
      /\ \A p \in Queues, t \in Slots : ~(p = q /\ t = s) => flights'[p][t] = flights[p][t]
      /\ Range(batch) \subseteq Range(messages[q]) /\ Distinct(batch) /\ Distinct(messages'[q])
      /\ Cardinality(Range(batch)) <= BatchSize[q]
      /\ \A p \in Queues : Range(messages'[p]) = IF p = q THEN Range(messages[q]) \ Range(batch) ELSE Range(messages[p])
      /\ \A p \in Queues : p # q => messages'[p] = messages[p]
      /\ deliveries' = [m \in Msgs |-> IF m \in Range(batch) THEN deliveries[m] + 1 ELSE deliveries[m]]
      /\ UNCHANGED <<delayed, failedAttempts, fate, acked>>
  BY <1>0 DEF FlushEffect
<1>. DEFINE S == Range(batch)
<1>2. S \subseteq Msgs
  BY RangeFinite
<1>3. ASSUME NEW m \in S
      PROVE  place[m] = "waiting" /\ home[m] = q /\ place'[m] = "inFlight" /\ home'[m] = q
  <2>1. PlaceHome(m) /\ PlaceHome(m)'
    BY <1>2, PlacesMap, PlacesMapNext
  <2>2. m \in Range(messages[q]) /\ m \in Range(flights'[q][s].batch) /\ flights'[q][s].stage = "dispatching"
    BY <1>1
  <2>. QED  BY <2>1, <2>2 DEF PlaceHome
<1>4. ASSUME NEW m \in Msgs \ S PROVE place'[m] = place[m] /\ home'[m] = home[m]
  <2>1. m \notin Range(flights'[q][s].batch) /\ m \notin Range(flights[q][s].batch)
    BY <1>1
  <2>2. /\ fate'[m] = fate[m]
        /\ \A p \in Queues : m \in Range(messages'[p]) \cup delayed'[p] <=> m \in Range(messages[p]) \cup delayed[p]
        /\ \A p \in Queues, t \in Slots :
             /\ m \in Range(flights'[p][t].batch) <=> m \in Range(flights[p][t].batch)
             /\ m \in Range(flights[p][t].batch) => flights'[p][t].stage = flights[p][t].stage
    BY <1>1, <2>1
  <2>. QED  BY <2>2, Unmoved
<1>. HIDE DEF S
<1>5. /\ place' = [m \in Msgs |-> IF m \in S THEN "inFlight" ELSE place[m]]
      /\ home' = home
  <2>1. place' = [m \in Msgs |-> IF m \in S THEN "inFlight" ELSE place[m]]
    BY <1>2, <1>3, <1>4, MappedFunctions
  <2>2. \A m \in Msgs : home'[m] = home[m]
    BY <1>3, <1>4
  <2>. QED  BY <2>1, <2>2, MappedFunctions
<1>6. S \in SUBSET Delivery!At(q, "waiting")
  BY <1>2, <1>3 DEF Delivery!At
<1>7. Delivery!Deliver(q, S)
  <2>1. S \subseteq Delivery!At(q, "waiting") /\ Delivery!Move(S, "inFlight") /\ home' = home
    BY <1>5, <1>6 DEF Delivery!Move
  <2>2. /\ Cardinality(S) <= BatchSize[q]
        /\ deliveries' = [m \in Msgs |-> IF m \in S THEN deliveries[m] + 1 ELSE deliveries[m]]
    BY <1>1 DEF S
  <2>3. Delivery!Cardinality(S) = Cardinality(S)
    BY DEF Delivery!Cardinality, Cardinality
  <2>. QED  BY <2>1, <2>2, <2>3 DEF Delivery!Deliver
<1>. QED  BY <1>6, <1>7 DEF Delivery!Next

\* The end of a flush is the consumer's answer.
LEMMA SettleAnswers ==
  ASSUME PlacesInv, PlacesInv', NEW q \in Queues, NEW s \in Slots, flights[q][s].stage = "dispatching",
         NEW retried \in SUBSET Range(flights[q][s].batch), NEW slow, Settle(q, s, retried, slow)
  PROVE  Delivery!Next
<1>. DEFINE S == Range(flights[q][s].batch)
            again == Again(q, retried)
            dead == Dead(q, retried)
<1>1. SettleEffect(q, s, retried, slow)
  BY SettleMoves
<1>2. /\ S \subseteq Msgs /\ retried \subseteq S /\ again \subseteq retried /\ dead \subseteq retried \ again
      /\ \A p \in Queues : Range(messages'[p]) = IF p = q THEN Range(messages[q]) \cup (again \ slow) ELSE Range(messages[p])
      /\ \A p \in Queues : delayed'[p] = IF p = q THEN delayed[q] \cup (again \cap slow) ELSE delayed[p]
      /\ Range(flights'[q][s].batch) = dead
      /\ flights'[q][s].stage = (IF dead = {} THEN "idle" ELSE "forwarding")
      /\ \A p \in Queues, t \in Slots : ~(p = q /\ t = s) => flights'[p][t] = flights[p][t]
      /\ fate' = [m \in Msgs |-> IF m \in S \ retried THEN "acked"
                                 ELSE IF m \in retried \ (again \cup dead) THEN "dropped" ELSE fate[m]]
      /\ deliveries' = deliveries
  BY <1>1 DEF SettleEffect
<1>3. /\ again = {m \in retried : deliveries[m] <= MaxRetries[q]}
      /\ dead = (IF DLQ[q] = NoQueue THEN {} ELSE retried \ again)
  <2>1. ASSUME NEW m \in retried
        PROVE  failedAttempts[m] + 1 < MaxRetries[q] + 1 <=> deliveries[m] <= MaxRetries[q]
    <3>1. m \in Msgs /\ fate[m] = "live" /\ FlightOf(m, "dispatching")
      <4>1. m \in Msgs /\ m \in Range(flights[q][s].batch) /\ IsAt(m, Flight(q, s))
        BY <1>1 DEF SettleEffect
      <4>. QED  BY <4>1, WheresDiffer DEF IsAt, FlightOf
    <3>2. failedAttempts[m] \in Nat /\ MaxRetries[q] \in Nat
      BY <3>1, MaxRetriesAssumption DEF PlacesInv, IInv, TypeOK
    <3>3. deliveries[m] = failedAttempts[m] + 1
      BY <3>1 DEF PlacesInv, AttemptsMatch
    <3>. QED  BY <3>2, <3>3
  <2>. QED  BY <2>1 DEF Again, Dead
<1>. HIDE DEF S, again, dead
<1>4. ASSUME NEW m \in S
      PROVE  /\ m \in Msgs /\ place[m] = "inFlight" /\ home[m] = q
             /\ m \notin retried => place'[m] = "acked" /\ home'[m] = NoQueue
             /\ m \in again => place'[m] = "waiting" /\ home'[m] = q
             /\ m \in dead => place'[m] = "forwarding" /\ home'[m] = q
             /\ m \in retried \ (again \cup dead) => place'[m] = "dropped" /\ home'[m] = NoQueue
  <2>1. m \in Msgs /\ m \in Range(flights[q][s].batch) /\ PlaceHome(m) /\ PlaceHome(m)'
    BY <1>2, PlacesMap, PlacesMapNext DEF S
  <2>2. place[m] = "inFlight" /\ home[m] = q
    BY <2>1 DEF PlaceHome
  <2>3. ASSUME m \notin retried  PROVE place'[m] = "acked" /\ home'[m] = NoQueue
    <3>1. fate'[m] = "acked"
      BY <1>2, <2>1, <2>3
    <3>. QED  BY <2>1, <3>1 DEF PlaceHome
  <2>4. ASSUME m \in again  PROVE place'[m] = "waiting" /\ home'[m] = q
    <3>1. m \in Range(messages'[q]) \cup delayed'[q]
      BY <1>2, <2>4
    <3>. QED  BY <2>1, <3>1 DEF PlaceHome
  <2>5. ASSUME m \in dead  PROVE place'[m] = "forwarding" /\ home'[m] = q
    <3>1. m \in Range(flights'[q][s].batch) /\ flights'[q][s].stage = "forwarding"
      BY <1>2, <2>5
    <3>. QED  BY <2>1, <3>1 DEF PlaceHome
  <2>6. ASSUME m \in retried \ (again \cup dead)  PROVE place'[m] = "dropped" /\ home'[m] = NoQueue
    <3>1. fate'[m] = "dropped"
      BY <1>2, <2>1, <2>6
    <3>. QED  BY <2>1, <3>1 DEF PlaceHome
  <2>. QED  BY <2>1, <2>2, <2>3, <2>4, <2>5, <2>6
<1>5. ASSUME NEW m \in Msgs \ S PROVE place'[m] = place[m] /\ home'[m] = home[m]
  <2>1. m \notin Range(flights'[q][s].batch) /\ m \notin Range(flights[q][s].batch) /\ m \notin again
        /\ fate'[m] = fate[m]
    BY <1>2, <1>5 DEF S
  <2>2. /\ \A p \in Queues : m \in Range(messages'[p]) \cup delayed'[p] <=> m \in Range(messages[p]) \cup delayed[p]
        /\ \A p \in Queues, t \in Slots :
             /\ m \in Range(flights'[p][t].batch) <=> m \in Range(flights[p][t].batch)
             /\ m \in Range(flights[p][t].batch) => flights'[p][t].stage = flights[p][t].stage
    BY <1>2, <2>1
  <2>. QED  BY <2>1, <2>2, Unmoved
<1>6. place' = [m \in Msgs |-> IF m \notin S THEN place[m]
                               ELSE IF m \notin retried THEN "acked"
                               ELSE IF m \in again THEN "waiting"
                               ELSE IF m \in dead THEN "forwarding" ELSE "dropped"]
  <2>1. ASSUME NEW m \in Msgs
        PROVE  place'[m] = IF m \notin S THEN place[m]
                           ELSE IF m \notin retried THEN "acked"
                           ELSE IF m \in again THEN "waiting"
                           ELSE IF m \in dead THEN "forwarding" ELSE "dropped"
    BY <1>4, <1>5
  <2>. QED  BY <2>1, MappedFunctions
<1>7. home' = [m \in Msgs |-> IF m \in S \ (again \cup dead) THEN NoQueue ELSE home[m]]
  <2>1. ASSUME NEW m \in Msgs
        PROVE  home'[m] = IF m \in S \ (again \cup dead) THEN NoQueue ELSE home[m]
    BY <1>4, <1>5
  <2>. QED  BY <2>1, MappedFunctions
<1>8. S \in SUBSET Delivery!At(q, "inFlight")
  BY <1>2, <1>4 DEF Delivery!At
<1>9. Delivery!Answer(q, S, retried)
  BY <1>2, <1>3, <1>6, <1>7, <1>8 DEF Delivery!Answer, Delivery!Rehome
<1>10. retried \in SUBSET S
  BY <1>2
<1>. QED  BY <1>8, <1>9, <1>10 DEF Delivery!Next

LEMMA AnswerAnswers ==
  ASSUME PlacesInv, PlacesInv', NEW q \in Queues, NEW s \in Slots,
         ConsumerResponds(q, s) \/ DispatchRejected(q, s)
  PROVE  Delivery!Next
<1>1. PICK retried \in SUBSET Range(flights[q][s].batch) : \E slow : Settle(q, s, retried, slow)
  BY AnswerSettles
<1>. QED  BY <1>1, AnswerSettles, SettleAnswers

\* The dead-letter queue accepts the batch, or the batch is lost.
LEMMA DeadLetterForwards ==
  ASSUME PlacesInv, PlacesInv', NEW q \in Queues, NEW s \in Slots,
         DeadLetterArrives(q, s) \/ DeadLetterFails(q, s)
  PROVE  Delivery!Next
<1>. DEFINE S == Range(flights[q][s].batch)
<1>1. TypeOK /\ S \subseteq Msgs
  <2>1. TypeOK /\ flights[q][s].batch \in Seq(Msgs)
    BY DEF PlacesInv, IInv, TypeOK, Flights
  <2>. QED  BY <2>1, RangeFinite
<1>2. /\ flights[q][s].stage = "forwarding"
      /\ flights'[q][s].stage = "idle" /\ Range(flights'[q][s].batch) = {}
      /\ \A p \in Queues, t \in Slots : ~(p = q /\ t = s) => flights'[p][t] = flights[p][t]
  BY <1>1, EmptyRange DEF DeadLetterArrives, DeadLetterFails, EndFlush, TypeOK, Idle
<1>3. ASSUME NEW m \in S
      PROVE  m \in Msgs /\ place[m] = "forwarding" /\ home[m] = q /\ PlaceHome(m)'
  BY <1>1, <1>2, PlacesMap, PlacesMapNext DEF PlaceHome
<1>4. S \in SUBSET Delivery!At(q, "forwarding")
  BY <1>3 DEF Delivery!At
<1>5. ASSUME NEW m \in Msgs \ S
      PROVE  \A p \in Queues, t \in Slots :
               /\ m \in Range(flights'[p][t].batch) <=> m \in Range(flights[p][t].batch)
               /\ m \in Range(flights[p][t].batch) => flights'[p][t].stage = flights[p][t].stage
  BY <1>2, <1>5
<1>6. CASE DeadLetterArrives(q, s)
  <2>1. PICK d \in Queues, now \in Seq(Msgs), later \in SUBSET Msgs : ForwardEffect(q, s, d, now, later)
    BY <1>6, DeadLetterMoves
  <2>2. /\ d = DLQ[q] /\ Range(now) \cup later = S
        /\ \A p \in Queues : Range(messages'[p]) = IF p = d THEN Range(messages[d]) \cup Range(now) ELSE Range(messages[p])
        /\ \A p \in Queues : delayed'[p] = IF p = d THEN delayed[d] \cup later ELSE delayed[p]
    BY <2>1 DEF ForwardEffect
  <2>3. /\ fate' = fate
        /\ deliveries' = [m \in Msgs |-> IF m \in S THEN 0 ELSE deliveries[m]]
    BY <1>6 DEF DeadLetterArrives
  <2>. HIDE DEF S
  <2>4. ASSUME NEW m \in S  PROVE place'[m] = "waiting" /\ home'[m] = d
    <3>1. m \in Range(messages'[d]) \cup delayed'[d]
      BY <2>2
    <3>. QED  BY <1>3, <3>1 DEF PlaceHome
  <2>5. ASSUME NEW m \in Msgs \ S  PROVE place'[m] = place[m] /\ home'[m] = home[m]
    <3>1. fate'[m] = fate[m]
      BY <2>3
    <3>2. \A p \in Queues : m \in Range(messages'[p]) \cup delayed'[p] <=> m \in Range(messages[p]) \cup delayed[p]
      BY <2>2
    <3>. QED  BY <1>5, <3>1, <3>2, Unmoved
  <2>6. /\ place' = [m \in Msgs |-> IF m \in S THEN "waiting" ELSE place[m]]
        /\ home' = [m \in Msgs |-> IF m \in S THEN DLQ[q] ELSE home[m]]
    BY <2>2, <2>4, <2>5, MappedFunctions
  <2>7. Delivery!Forward(q, S)
    BY <1>4, <2>3, <2>6 DEF Delivery!Forward, Delivery!Move, Delivery!Rehome, Delivery!SetAttempts
  <2>. QED  BY <1>4, <2>7 DEF Delivery!Next
<1>7. CASE DeadLetterFails(q, s)
  <2>1. /\ fate' = [m \in Msgs |-> IF m \in S THEN "lost" ELSE fate[m]]
        /\ UNCHANGED <<messages, delayed, deliveries>>
    BY <1>7 DEF DeadLetterFails
  <2>. HIDE DEF S
  <2>2. ASSUME NEW m \in S  PROVE place'[m] = "lost" /\ home'[m] = NoQueue
    BY <1>3, <2>1 DEF PlaceHome
  <2>3. ASSUME NEW m \in Msgs \ S  PROVE place'[m] = place[m] /\ home'[m] = home[m]
    <3>1. fate'[m] = fate[m]
      BY <2>1
    <3>2. \A p \in Queues : m \in Range(messages'[p]) \cup delayed'[p] <=> m \in Range(messages[p]) \cup delayed[p]
      BY <2>1
    <3>. QED  BY <1>5, <3>1, <3>2, Unmoved
  <2>4. /\ place' = [m \in Msgs |-> IF m \in S THEN "lost" ELSE place[m]]
        /\ home' = [m \in Msgs |-> IF m \in S THEN NoQueue ELSE home[m]]
    BY <2>2, <2>3, MappedFunctions
  <2>5. Delivery!Lose(q, S)
    BY <1>4, <2>1, <2>4 DEF Delivery!Lose, Delivery!Move, Delivery!Rehome
  <2>. QED  BY <1>4, <2>5 DEF Delivery!Next
<1>. QED  BY <1>6, <1>7

LEMMA NextDelivers == PlacesInv /\ PlacesInv' /\ [Next]_vars => [Delivery!Next]_(Delivery!vars)
<1>. SUFFICES ASSUME PlacesInv, PlacesInv', [Next]_vars PROVE Delivery!Next \/ UNCHANGED Delivery!vars
  OBVIOUS
<1>1. CASE UNCHANGED vars
  BY <1>1 DEF vars, Delivery!vars, place, home, HeldBy, FlightOf
<1>2. CASE Next
  BY <1>2, PostDelivers, DelayStutters, FlushDelivers, AnswerAnswers, DeadLetterForwards DEF Next
<1>. QED  BY <1>1, <1>2

\* The brokers keep the promise of QueueDelivery: whatever the interleaving of
\* sends, timers, flushes, answers and forwards, a message is handed over in
\* batches of at most maxBatchSize, at most maxRetries + 1 times per queue, and
\* leaves only by being acknowledged, dropped, forwarded, or lost on the way to
\* the dead-letter queue.
THEOREM BrokersImplementDelivery == Spec => ImplementsDelivery
<1>1. Init => Delivery!Init
  BY InitDelivers
<1>2. PlacesInv /\ PlacesInv' /\ [Next]_vars => [Delivery!Next]_(Delivery!vars)
  BY NextDelivers
<1>. QED  BY <1>1, <1>2, PlacesInvariance, PTL DEF Spec, ImplementsDelivery, Delivery!Spec
=============================================================================
