----------------------------- MODULE ServingProofs -----------------------------
(***************************************************************************)
(* Theorems about what stands between a developer's browser and workerd:   *)
(* the worker proxy, and the port that it listens on.                      *)
(*                                                                         *)
(* The proxy, for any requests, targets and number of controller calls: a  *)
(* request is in one place until it is answered once, new requests only    *)
(* wait while there is no target, and only GET and HEAD are ever sent      *)
(* twice.                                                                  *)
(*                                                                         *)
(* The ports, for any number of instances, tasks and ports: as long as all *)
(* dev servers find() theirs, no search is given a port that another one   *)
(* was given.  The argument: the search that holds the lock is the only    *)
(* one with a lookup under way, so nobody can come to own the port it has  *)
(* seen unreserved and unbound before it reserves that port itself.  With  *)
(* check(), which takes no lock, the argument fails, and so does the       *)
(* invariant.  Ports of find(0) are not reserved, and outside of it.       *)
(***************************************************************************)
EXTENDS WorkerProxy, PortAllocator, FiniteSetTheorems, TLAPS

-----------------------------------------------------------------------------
(* The worker proxy *)

Fetched(r) == \E f \in inFlight : f.request = r

\* The places of r, without counting: at most one fetch, at most one of the
\* queues and fetches, and none before r came in or after it was answered.
Placed(r) ==
  /\ \A f, g \in inFlight : f.request = r /\ g.request = r => f = g
  /\ answers[r] \in {0, 1}
  /\ r \in requestQueue => r \notin retryRequestQueue /\ ~Fetched(r)
  /\ r \in retryRequestQueue => ~Fetched(r)
  /\ answers[r] = 1 \/ r \notin asked =>
       r \notin requestQueue /\ r \notin retryRequestQueue /\ ~Fetched(r)
  /\ r \notin asked => answers[r] = 0
  /\ r \in asked =>
       r \in requestQueue \/ r \in retryRequestQueue \/ Fetched(r) \/ answers[r] = 1

\* A request that must not be repeated was not sent yet while it still waits
\* to be: without this part, "sent at most once" is not inductive.
SentOnce(r) ==
  r \notin Idempotent =>
    /\ r \notin retryRequestQueue
    /\ sends[r] <= 1
    /\ r \notin asked \/ r \in requestQueue => sends[r] = 0

ProxyInv ==
  /\ ProxyTypeOK
  /\ QueuedOnlyWithoutTarget
  /\ \A r \in Requests : Placed(r) /\ SentOnce(r)

LEMMA ProxyInitInv == ProxyInit => ProxyInv
BY MaxCallsAssumption
   DEF ProxyInit, ProxyInv, ProxyTypeOK, QueuedOnlyWithoutTarget, Placed, SentOnce, Fetched

\* processRequestQueue(), when `new' is what was queued and perhaps a request
\* that came in with it.
LEMMA ProcessPreserves ==
  ASSUME ProxyInv, NEW t \in Targets \cup {NoTarget}, NEW new \in SUBSET Requests,
         requestQueue \subseteq new, new \ requestQueue \subseteq Requests \ asked,
         ProcessRequestQueue(t, new),
         target' = t, asked' = asked \cup new, answers' = answers,
         puts' \subseteq Targets, calls' \in 0..MaxCalls
  PROVE  ProxyInv'
<1>1. ProxyTypeOK
  BY DEF ProxyInv
<1>2. asked' \subseteq Requests
  BY <1>1 DEF ProxyTypeOK
<1>. DEFINE sent == retryRequestQueue \cup new
            fresh == {[request |-> r, target |-> t] : r \in sent}
<1>3. CASE t = NoTarget
  <2>1. requestQueue' = new /\ UNCHANGED <<retryRequestQueue, inFlight, sends>>
    BY <1>3 DEF ProcessRequestQueue
  <2>2. ProxyTypeOK'
    BY <1>1, <1>2, <2>1 DEF ProxyTypeOK
  <2>3. \A r \in Requests : Placed(r)'
    BY <2>1 DEF ProxyInv, Placed, Fetched
  <2>4. \A r \in Requests : SentOnce(r)'
    BY <2>1 DEF ProxyInv, SentOnce
  <2>. QED  BY <1>3, <2>2, <2>3, <2>4 DEF ProxyInv, QueuedOnlyWithoutTarget
<1>4. CASE t # NoTarget
  <2>1. /\ requestQueue' = {} /\ retryRequestQueue' = {}
        /\ inFlight' = inFlight \cup fresh
        /\ sends' = [r \in Requests |-> IF r \in sent THEN sends[r] + 1 ELSE sends[r]]
    BY <1>4 DEF ProcessRequestQueue
  <2>2. sent \subseteq Requests /\ fresh \subseteq Fetches
    BY <1>1, <1>4 DEF ProxyTypeOK, Fetches
  <2>3. ProxyTypeOK'
    BY <1>1, <1>2, <2>1, <2>2 DEF ProxyTypeOK
  <2>4. ASSUME NEW r \in Requests PROVE Placed(r)'
    <3>1. Placed(r)
      BY DEF ProxyInv
    <3>2. r \in sent => ~Fetched(r) /\ answers[r] = 0
      BY <3>1 DEF Placed
    <3>3. \A f \in fresh : f.request = r => r \in sent /\ f = [request |-> r, target |-> t]
      OBVIOUS
    <3>4. Fetched(r)' <=> Fetched(r) \/ r \in sent
      <4>1. r \in sent => [request |-> r, target |-> t] \in fresh
        OBVIOUS
      <4>. QED  BY <2>1, <3>3, <4>1 DEF Fetched
    <3>. QED  BY <2>1, <3>1, <3>2, <3>3, <3>4 DEF Placed, Fetched
  <2>5. ASSUME NEW r \in Requests PROVE SentOnce(r)'
    <3>1. SentOnce(r) /\ sends[r] \in Nat
      BY <1>1 DEF ProxyInv, ProxyTypeOK
    <3>2. sends'[r] = IF r \in sent THEN sends[r] + 1 ELSE sends[r]
      BY <2>1
    <3>. QED  BY <2>1, <3>1, <3>2 DEF SentOnce
  <2>. QED  BY <2>1, <2>3, <2>4, <2>5 DEF ProxyInv, QueuedOnlyWithoutTarget
<1>. QED  BY <1>3, <1>4

LEMMA AnswerPreserves ==
  ASSUME ProxyInv, NEW f \in inFlight, Answer(f)
  PROVE  ProxyInv'
<1>1. ProxyTypeOK /\ f.request \in Requests
  BY DEF ProxyInv, ProxyTypeOK, Fetches
<1>2. ProxyTypeOK'
  BY <1>1 DEF Answer, ProxyTypeOK
<1>3. ASSUME NEW r \in Requests PROVE Placed(r)'
  <2>1. Placed(r) /\ answers[r] \in Nat
    BY <1>1 DEF ProxyInv, ProxyTypeOK
  <2>2. CASE r = f.request
    <3>1. ~Fetched(r)' /\ Fetched(r)
      BY <2>1, <2>2 DEF Answer, Placed, Fetched
    <3>2. answers'[r] = answers[r] + 1
      BY <1>1, <2>2 DEF Answer, ProxyTypeOK
    <3>. QED  BY <2>1, <3>1, <3>2 DEF Answer, Placed, Fetched
  <2>3. CASE r # f.request
    <3>1. (Fetched(r)' <=> Fetched(r)) /\ answers'[r] = answers[r]
      BY <1>1, <2>3 DEF Answer, Fetched, ProxyTypeOK
    <3>. QED  BY <2>1, <3>1 DEF Answer, Placed
  <2>. QED  BY <2>2, <2>3
<1>4. \A r \in Requests : SentOnce(r)'
  BY DEF ProxyInv, SentOnce, Answer
<1>. QED  BY <1>2, <1>3, <1>4 DEF ProxyInv, QueuedOnlyWithoutTarget, Answer

LEMMA RetryPreserves ==
  ASSUME ProxyInv, NEW f \in Fetches, FetchFailsRetryable(f)
  PROVE  ProxyInv'
<1>1. ProxyTypeOK /\ f.request \in Requests /\ f.request \in Idempotent
  BY DEF ProxyInv, Fetches, FetchFailsRetryable, Retryable
<1>2. ProxyTypeOK'
  BY <1>1 DEF FetchFailsRetryable, ProxyTypeOK
<1>3. ASSUME NEW r \in Requests PROVE Placed(r)'
  <2>1. Placed(r)
    BY DEF ProxyInv
  <2>2. CASE r = f.request
    <3>1. ~Fetched(r)' /\ Fetched(r)
      BY <2>1, <2>2 DEF FetchFailsRetryable, Placed, Fetched
    <3>. QED  BY <2>1, <2>2, <3>1 DEF FetchFailsRetryable, Placed
  <2>3. CASE r # f.request
    <3>1. Fetched(r)' <=> Fetched(r)
      BY <2>3 DEF FetchFailsRetryable, Fetched
    <3>. QED  BY <2>1, <2>3, <3>1 DEF FetchFailsRetryable, Placed
  <2>. QED  BY <2>2, <2>3
<1>4. \A r \in Requests : SentOnce(r)'
  BY <1>1 DEF ProxyInv, SentOnce, FetchFailsRetryable
<1>. QED  BY <1>2, <1>3, <1>4 DEF ProxyInv, QueuedOnlyWithoutTarget, FetchFailsRetryable

LEMMA ProxyNextPreserves == ProxyInv /\ [ProxyNext]_proxyVars => ProxyInv'
<1>. SUFFICES ASSUME ProxyInv, [ProxyNext]_proxyVars PROVE ProxyInv'
  OBVIOUS
<1>. USE MaxCallsAssumption
<1>0. ProxyTypeOK
  BY DEF ProxyInv
<1>1. ASSUME NEW r \in Requests, UserRequest(r) PROVE ProxyInv'
  <2>1. requestQueue \subseteq asked
    BY DEF ProxyInv, Placed, ProxyTypeOK
  <2>2. asked' = asked \cup (requestQueue \cup {r})
    BY <1>1, <2>1 DEF UserRequest
  <2>. QED
    BY <1>0, <1>1, <2>2, ProcessPreserves DEF UserRequest, ProxyTypeOK
<1>2. ASSUME NEW t \in Targets, PutApplies(t) PROVE ProxyInv'
  <2>1. asked' = asked \cup requestQueue
    BY <1>2 DEF ProxyInv, Placed, ProxyTypeOK, PutApplies
  <2>. QED
    BY <1>0, <1>2, <2>1, ProcessPreserves DEF PutApplies, ProxyTypeOK
<1>3. ASSUME NEW t \in Targets, PutArrives(t) \/ PutInvalid(t) PROVE ProxyInv'
  <2>1. ProxyTypeOK'
    BY <1>0, <1>3 DEF PutArrives, PutInvalid, ProxyTypeOK
  <2>2. UNCHANGED <<requestQueue, retryRequestQueue, inFlight, answers, sends, asked>>
    BY <1>3 DEF PutArrives, PutInvalid
  <2>3. target' = target
    BY <1>3 DEF PutArrives, PutInvalid
  <2>. QED
    BY <2>1, <2>2, <2>3
    DEF ProxyInv, QueuedOnlyWithoutTarget, Placed, SentOnce, Fetched
<1>4. CASE Delete
  <2>1. ProxyTypeOK'
    BY <1>0, <1>4 DEF Delete, ProxyTypeOK
  <2>. QED
    BY <1>4, <2>1 DEF Delete, ProxyInv, QueuedOnlyWithoutTarget, Placed, SentOnce, Fetched
<1>5. ASSUME NEW f \in Fetches, FetchSucceeds(f) \/ FetchFailsForGood(f) PROVE ProxyInv'
  BY <1>5, AnswerPreserves DEF FetchSucceeds, FetchFailsForGood
<1>6. CASE UNCHANGED proxyVars
  BY <1>6 DEF proxyVars, ProxyInv, ProxyTypeOK, QueuedOnlyWithoutTarget, Placed, SentOnce, Fetched
<1>. QED
  BY <1>1, <1>2, <1>3, <1>4, <1>5, <1>6, RetryPreserves DEF ProxyNext

\* `ProxyInv` holds in every reachable state of the proxy, whatever runtimes come and go.
THEOREM ProxyInvariance == ProxySpec => []ProxyInv
BY ProxyInitInv, ProxyNextPreserves, PTL DEF ProxySpec

-----------------------------------------------------------------------------
\* Every variable keeps its type.
THEOREM ProxyTypeCorrect == ProxySpec => []ProxyTypeOK
<1>1. ProxyInv => ProxyTypeOK
  BY DEF ProxyInv
<1>. QED  BY <1>1, ProxyInvariance, PTL

\* A request is in exactly one queue or fetch until it is answered, once.
THEOREM RequestsAreNeverForgotten == ProxySpec => []OneHolderOrAnswer
<1>1. ProxyInv => OneHolderOrAnswer
  <2>. SUFFICES ASSUME ProxyInv, NEW r \in asked PROVE Holders(r) + answers[r] = 1
    BY DEF OneHolderOrAnswer
  <2>. DEFINE fs == {f \in inFlight : f.request = r}
  <2>1. Placed(r)
    BY DEF ProxyInv, ProxyTypeOK
  <2>2. Cardinality(fs) = IF Fetched(r) THEN 1 ELSE 0
    <3>1. CASE Fetched(r)
      <4>1. PICK f \in inFlight : f.request = r
        BY <3>1 DEF Fetched
      <4>2. fs = {f}
        BY <2>1, <4>1 DEF Placed
      <4>. QED  BY <3>1, <4>2, FS_Singleton
    <3>2. CASE ~Fetched(r)
      <4>1. fs = {}
        BY <3>2 DEF Fetched
      <4>. QED  BY <3>2, <4>1, FS_EmptySet
    <3>. QED  BY <3>1, <3>2
  <2>. QED  BY <2>1, <2>2 DEF Placed, Holders
<1>. QED  BY <1>1, ProxyInvariance, PTL

\* What is neither GET nor HEAD is sent to an upstream at most once.
THEOREM OnlyIdempotentIsRepeated == ProxySpec => []NonIdempotentSentOnce
<1>1. ProxyInv => NonIdempotentSentOnce
  BY DEF ProxyInv, SentOnce, NonIdempotentSentOnce
<1>. QED  BY <1>1, ProxyInvariance, PTL

\* New requests only wait while there is no target.
THEOREM WaitsOnlyForTarget == ProxySpec => []QueuedOnlyWithoutTarget
<1>1. ProxyInv => QueuedOnlyWithoutTarget
  BY DEF ProxyInv
<1>. QED  BY <1>1, ProxyInvariance, PTL

-----------------------------------------------------------------------------
(* The ports *)

InSearch(t) == tasks[t].stage \in {"searching", "looking", "found"}

\* Searches start above port 0, and the ports that are looked at, granted or bound exist.
PortsExist ==
  \A t \in Tasks :
    /\ tasks[t].port >= 1
    /\ tasks[t].stage \in {"looking", "found", "granted", "listening"} => tasks[t].port \in Ports

\* Where t can be when r is its record: a server without a port does not search until
\* it has to retry.
AttemptFits(t, r) ==
  /\ r.stage = "idle" => r.attempt = 1
  /\ t \in Ephemeral /\ r.attempt = 1 =>
       r.stage \in {"idle", "granted", "listening", "closed", "inUse"}

AttemptsInOrder == \A t \in Tasks : AttemptFits(t, tasks[t])

\* The lock
OneSearch == \A t, u \in Tasks : InSearch(t) /\ InSearch(u) => t = u

\* A lookup belongs to the search under way.
LookupsAreWaitedFor ==
  \A i \in Instances, p \in Ports : lookup[i][p] # "none" =>
    \E t \in Tasks : tasks[t].stage = "looking" /\ tasks[t].port = p /\ InstanceOf[t] = i

\* The port that a search looks at is not reserved, and if its lookup says so,
\* nobody's.
LooksAtUnreserved ==
  \A t \in Tasks : tasks[t].stage \in {"looking", "found"} => tasks[t].port \notin reserved

FreeIsNobodys ==
  \A t \in Tasks :
    \/ tasks[t].stage = "looking" /\ lookup[InstanceOf[t]][tasks[t].port] = "free"
    \/ tasks[t].stage = "found" /\ tasks[t].free
    => \A u \in Tasks : ~FromOs(u) => ~Owns(u, tasks[t].port)

IInv ==
  /\ TypeOK
  /\ PortsExist
  /\ OneSearch
  /\ LookupsAreWaitedFor
  /\ LooksAtUnreserved
  /\ FreeIsNobodys
  /\ GrantIsReserved
  /\ AttemptsInOrder
  /\ DistinctPorts

\* What the search limit is
LEMMA LimitFacts ==
  ASSUME NEW n \in Nat, n >= 1
  PROVE  Minimum(MaxPort, n + MaxSearch - 1) \in 0..MaxPort
BY BoundsAssumption, PortsAssumption DEF Minimum

\* A task that moves on without touching the caches and the reservations, and
\* without coming to look at a port or to own one, keeps the invariant.
LEMMA QuietMove ==
  ASSUME IInv, NEW t \in Tasks, NEW r \in Task,
         tasks' = [tasks EXCEPT ![t] = r],
         UNCHANGED <<reserved, taken, lookup>>,
         others' \subseteq Ports, othersCount' \in 0..MaxOthers,
         tasks[t].stage # "looking",
         r.port >= 1,
         r.stage \notin {"looking", "found"},
         r.stage = "searching" => InSearch(t) \/ \A u \in Tasks : ~InSearch(u),
         r.stage # "granted",
         r.stage = "listening" => /\ tasks[t].stage = "granted"
                                  /\ r.port = tasks[t].port /\ r.attempt = tasks[t].attempt,
         AttemptFits(t, r)
  PROVE  IInv'
<1>1. /\ tasks'[t] = r
      /\ \A u \in Tasks \ {t} : tasks'[u] = tasks[u]
  BY DEF IInv, TypeOK
<1>2. TypeOK'
  BY DEF IInv, TypeOK
<1>3. PortsExist'
  BY <1>1 DEF IInv, PortsExist
<1>4. OneSearch'
  BY <1>1 DEF IInv, OneSearch, InSearch
<1>5. LookupsAreWaitedFor'
  BY <1>1 DEF IInv, LookupsAreWaitedFor
<1>6. LooksAtUnreserved'
  BY <1>1 DEF IInv, LooksAtUnreserved
<1>7. \A u \in Tasks, p \in Ports :
        Owns(u, p)' => Owns(u, p) /\ tasks'[u].attempt = tasks[u].attempt
  BY <1>1 DEF Owns
<1>8. FreeIsNobodys'
  <2> SUFFICES ASSUME NEW u \in Tasks,
                      \/ tasks'[u].stage = "looking" /\ lookup'[InstanceOf[u]][tasks'[u].port] = "free"
                      \/ tasks'[u].stage = "found" /\ tasks'[u].free,
                      NEW w \in Tasks, ~FromOs(w)'
               PROVE  ~Owns(w, tasks[u].port)' /\ tasks'[u] = tasks[u]
    BY DEF FreeIsNobodys, Owns
  <2>1. u # t /\ tasks'[u] = tasks[u]
    BY <1>1
  <2>2. tasks[u].port \in Ports /\ (~FromOs(w) => ~Owns(w, tasks[u].port))
    BY <2>1 DEF IInv, FreeIsNobodys, PortsExist
  <2>3. Owns(w, tasks[u].port)' => Owns(w, tasks[u].port) /\ ~FromOs(w)
    BY <1>1, <1>7, <2>1, <2>2 DEF FromOs, Owns
  <2> QED BY <2>1, <2>2, <2>3
<1>9. GrantIsReserved'
  BY <1>1 DEF IInv, GrantIsReserved, FromOs
<1>10. DistinctPorts'
  BY <1>7 DEF IInv, DistinctPorts, FromOs
<1>11. AttemptsInOrder'
  BY <1>1 DEF IInv, AttemptsInOrder, AttemptFits
<1> QED
  BY <1>2, <1>3, <1>4, <1>5, <1>6, <1>8, <1>9, <1>10, <1>11 DEF IInv

\* A step that leaves the tasks and the lookups alone, and reserves nothing new,
\* keeps the invariant if the ports of granted tasks stay reserved.
LEMMA NoMove ==
  ASSUME IInv, UNCHANGED <<tasks, lookup>>,
         reserved' \subseteq reserved, taken' \in [Instances -> SUBSET Ports],
         others' \subseteq Ports, othersCount' \in 0..MaxOthers,
         \A t \in Tasks : tasks[t].stage = "granted" /\ tasks[t].port \in reserved
                          => tasks[t].port \in reserved'
  PROVE  IInv'
<1>1. TypeOK'
  BY DEF IInv, TypeOK
<1>2. PortsExist' /\ OneSearch' /\ LookupsAreWaitedFor'
  BY DEF IInv, PortsExist, OneSearch, InSearch, LookupsAreWaitedFor
<1>3. LooksAtUnreserved' /\ GrantIsReserved' /\ AttemptsInOrder'
  BY DEF IInv, LooksAtUnreserved, GrantIsReserved, FromOs, AttemptsInOrder, AttemptFits
<1>4. FreeIsNobodys' /\ DistinctPorts'
  BY DEF IInv, FreeIsNobodys, DistinctPorts, Owns, FromOs
<1> QED BY <1>1, <1>2, <1>3, <1>4 DEF IInv

\* The search asks the cache for a port that is not reserved.
LEMMA Asks ==
  ASSUME IInv, NEW t \in Tasks, tasks[t].stage = "searching",
         tasks[t].port \in Ports, tasks[t].port \notin reserved, CacheGet(t),
         UNCHANGED <<reserved, taken, others, othersCount>>
  PROVE  IInv'
<1> DEFINE i == InstanceOf[t]
           p == tasks[t].port
<1>1. i \in Instances
  BY TasksAssumption
<1>2. lookup[i][p] = "none"
  BY <1>1 DEF IInv, LookupsAreWaitedFor, OneSearch, InSearch, TypeOK
<1>3. \A j \in Instances, q \in Ports : lookup[j][q] = "none"
  BY DEF IInv, LookupsAreWaitedFor, OneSearch, InSearch
<1>4. \A u \in Tasks \ {t} : tasks'[u] = tasks[u] /\ ~InSearch(u)
  BY DEF IInv, TypeOK, CacheGet, SetTask, OneSearch, InSearch
<1>5. /\ tasks'[t].port = p /\ tasks'[t].attempt = tasks[t].attempt
      /\ tasks'[t].limit = tasks[t].limit
      /\ tasks'[t].stage \in {"found", "looking"}
      /\ tasks'[t].stage = "found" => ~tasks'[t].free /\ lookup' = lookup
      /\ tasks'[t].stage = "looking" =>
           lookup' = [lookup EXCEPT ![i][p] = IF p \in Bound THEN "bound" ELSE "free"]
  BY <1>2 DEF IInv, TypeOK, Task, CacheGet, SetTask
<1>6. TypeOK'
  <2> DEFINE f == [tasks[t] EXCEPT !.stage = "found", !.free = FALSE]
             l == [tasks[t] EXCEPT !.stage = "looking"]
             v == IF p \in Bound THEN "bound" ELSE "free"
  <2>1. tasks \in [Tasks -> Task] /\ tasks[t] \in Task
    BY DEF IInv, TypeOK
  <2>2. f \in Task /\ l \in Task
    BY <2>1 DEF Task, Stages
  <2>3. tasks' = [tasks EXCEPT ![t] = f] \/ tasks' = [tasks EXCEPT ![t] = l]
    BY DEF CacheGet, SetTask
  <2> HIDE DEF f, l
  <2>4. tasks' \in [Tasks -> Task]
    BY <2>1, <2>2, <2>3
  <2>5. v \in {"none", "free", "bound"}
    OBVIOUS
  <2>6. lookup' = lookup \/ lookup' = [lookup EXCEPT ![i][p] = v]
    BY <1>5
  <2> HIDE DEF v
  <2>7. lookup' \in [Instances -> [Ports -> {"none", "free", "bound"}]]
    <3>1. lookup \in [Instances -> [Ports -> {"none", "free", "bound"}]]
      BY DEF IInv, TypeOK
    <3>2. p \in Ports
      OBVIOUS
    <3> HIDE DEF p, i
    <3>3. CASE lookup' = [lookup EXCEPT ![i][p] = v]
      BY <1>1, <2>5, <3>1, <3>2, <3>3
    <3> QED BY <2>6, <3>1, <3>3
  <2> QED BY <2>4, <2>7 DEF IInv, TypeOK
<1>7. PortsExist'
  BY <1>4, <1>5 DEF IInv, PortsExist
<1>8. OneSearch'
  BY <1>4 DEF OneSearch, InSearch
<1>9. LookupsAreWaitedFor'
  <2> SUFFICES ASSUME NEW j \in Instances, NEW q \in Ports, lookup'[j][q] # "none"
               PROVE  tasks'[t].stage = "looking" /\ j = i /\ q = p
    BY <1>5 DEF LookupsAreWaitedFor
  <2> QED BY <1>1, <1>3, <1>5 DEF IInv, TypeOK
<1>10. LooksAtUnreserved'
  BY <1>4, <1>5 DEF IInv, LooksAtUnreserved
<1>11. \A u \in Tasks, q \in Ports : Owns(u, q)' <=> u # t /\ Owns(u, q)
  BY <1>4, <1>5 DEF Owns
<1>12. FreeIsNobodys'
  <2> SUFFICES ASSUME tasks'[t].stage = "looking", lookup'[i][p] = "free", NEW w \in Tasks,
                      ~FromOs(w)
               PROVE  ~Owns(w, p)
    BY <1>4, <1>5, <1>11 DEF FreeIsNobodys, InSearch, FromOs
  <2>1. p \notin Bound
    BY <1>1, <1>5 DEF IInv, TypeOK
  <2>2. tasks[w].stage = "listening" => tasks[w].port # p
    BY <2>1 DEF Bound
  <2>3. tasks[w].stage = "granted" => tasks[w].port # p
    BY DEF IInv, GrantIsReserved
  <2> QED BY <2>2, <2>3 DEF Owns
<1>13. GrantIsReserved'
  BY <1>4, <1>5 DEF IInv, GrantIsReserved, FromOs
<1>14. DistinctPorts'
  BY <1>4, <1>11 DEF IInv, DistinctPorts, FromOs
<1>15. AttemptsInOrder'
  BY <1>4, <1>5 DEF IInv, AttemptsInOrder, AttemptFits
<1> QED
  BY <1>6, <1>7, <1>8, <1>9, <1>10, <1>12, <1>13, <1>14, <1>15 DEF IInv

\* The search reserves the port that it found free.
LEMMA Takes ==
  ASSUME IInv, NEW t \in Tasks, tasks[t].stage = "found", tasks[t].free,
         Reserve(t), SetTask(t, "granted"), UNCHANGED <<lookup, others, othersCount>>
  PROVE  IInv'
<1> DEFINE p == tasks[t].port
<1>1. p \in Ports /\ InstanceOf[t] \in Instances
  BY TasksAssumption DEF IInv, PortsExist
<1>2. \A u \in Tasks \ {t} : tasks'[u] = tasks[u] /\ ~InSearch(u)
  BY DEF IInv, TypeOK, SetTask, OneSearch, InSearch
<1>3. /\ tasks'[t].port = p /\ tasks'[t].stage = "granted"
      /\ tasks'[t].attempt = tasks[t].attempt /\ tasks[t].attempt \in 1..MaxServe
      /\ tasks[t].limit \in Int
  BY DEF IInv, TypeOK, Task, SetTask
<1>4. TypeOK'
  BY <1>1 DEF IInv, TypeOK, Task, Stages, SetTask, Reserve
<1>5. PortsExist'
  BY <1>1, <1>2, <1>3 DEF IInv, PortsExist
<1>6. OneSearch' /\ LooksAtUnreserved' /\ FreeIsNobodys'
  BY <1>2, <1>3 DEF OneSearch, InSearch, LooksAtUnreserved, FreeIsNobodys
<1>7. LookupsAreWaitedFor'
  BY <1>2 DEF IInv, LookupsAreWaitedFor, InSearch
<1>8. GrantIsReserved'
  BY <1>2, <1>3 DEF IInv, GrantIsReserved, Reserve, FromOs
<1>9. \A u \in Tasks : ~FromOs(u) => ~Owns(u, p)
  BY DEF IInv, FreeIsNobodys
<1>10. ~FromOs(t)
  BY DEF IInv, AttemptsInOrder, AttemptFits, FromOs
<1>11. AttemptsInOrder'
  BY <1>2, <1>3, <1>10 DEF IInv, AttemptsInOrder, AttemptFits, FromOs
<1>12. DistinctPorts'
  <2> SUFFICES ASSUME NEW u \in Tasks, NEW w \in Tasks, u # w, NEW q \in Ports,
                      Owns(u, q)', Owns(w, q)'
               PROVE  FromOs(u)' \/ FromOs(w)'
    BY DEF DistinctPorts
  <2>1. CASE u # t /\ w # t
    BY <1>2, <2>1 DEF IInv, DistinctPorts, Owns, FromOs
  <2>2. CASE u = t
    <3>1. q = p /\ Owns(w, p) /\ w # t
      BY <1>2, <1>3, <2>2 DEF Owns
    <3> QED BY <1>2, <1>9, <3>1 DEF FromOs
  <2>3. CASE w = t
    <3>1. q = p /\ Owns(u, p) /\ u # t
      BY <1>2, <1>3, <2>3 DEF Owns
    <3> QED BY <1>2, <1>9, <3>1 DEF FromOs
  <2> QED BY <2>1, <2>2, <2>3
<1> QED
  BY <1>4, <1>5, <1>6, <1>7, <1>8, <1>11, <1>12 DEF IInv

\* The OS hands out a port.
LEMMA Assigns ==
  ASSUME IInv, NEW t \in Tasks, FindEphemeral(t)
  PROVE  IInv'
<1>1. PICK p \in OsPorts \ Bound :
        /\ tasks' = [tasks EXCEPT ![t].stage = "granted", ![t].port = p]
        /\ taken' = [taken EXCEPT ![InstanceOf[t]] = @ \cup {p}]
  BY DEF FindEphemeral
<1>2. /\ t \in Ephemeral /\ tasks[t].stage = "idle"
      /\ UNCHANGED <<reserved, lookup, others, othersCount>>
  BY DEF FindEphemeral
<1>3. p \in Ports /\ InstanceOf[t] \in Instances /\ p >= 1
  BY TasksAssumption, PortsAssumption DEF Ports
<1>4. \A u \in Tasks \ {t} : tasks'[u] = tasks[u]
  BY <1>1 DEF IInv, TypeOK
<1>5. /\ tasks'[t].port = p /\ tasks'[t].stage = "granted"
      /\ tasks'[t].attempt = tasks[t].attempt
  BY <1>1 DEF IInv, TypeOK, Task
<1>6. tasks[t].attempt = 1
  BY <1>2 DEF IInv, AttemptsInOrder, AttemptFits
<1>7. TypeOK'
  <2> DEFINE r == [tasks[t] EXCEPT !.stage = "granted", !.port = p]
  <2>1. p \in 0..MaxPort + 1
    BY <1>3, PortsAssumption DEF Ports
  <2>2. r \in Task
    BY <2>1 DEF IInv, TypeOK, Task, Stages
  <2>3. tasks' = [tasks EXCEPT ![t] = r]
    BY <1>1
  <2> HIDE DEF r
  <2>4. tasks' \in [Tasks -> Task]
    BY <2>2, <2>3 DEF IInv, TypeOK
  <2>5. taken' \in [Instances -> SUBSET Ports]
    BY <1>1, <1>3 DEF IInv, TypeOK
  <2> QED BY <1>2, <2>4, <2>5 DEF IInv, TypeOK
<1>8. PortsExist'
  BY <1>3, <1>4, <1>5 DEF IInv, PortsExist
<1>9. OneSearch' /\ LooksAtUnreserved'
  BY <1>2, <1>4, <1>5 DEF IInv, OneSearch, InSearch, LooksAtUnreserved
<1>10. LookupsAreWaitedFor'
  BY <1>2, <1>4 DEF IInv, LookupsAreWaitedFor
<1>11. FreeIsNobodys' /\ GrantIsReserved'
  BY <1>2, <1>4, <1>5, <1>6 DEF IInv, FreeIsNobodys, GrantIsReserved, FromOs, Owns
<1>12. AttemptsInOrder'
  BY <1>2, <1>4, <1>5, <1>6 DEF IInv, AttemptsInOrder, AttemptFits
<1>13. DistinctPorts'
  BY <1>2, <1>4, <1>5, <1>6 DEF IInv, DistinctPorts, Owns, FromOs
<1> QED
  BY <1>7, <1>8, <1>9, <1>10, <1>11, <1>12, <1>13 DEF IInv

\* A lookup answers the search that waits for it.
LEMMA Answers ==
  ASSUME IInv, NEW i \in Instances, NEW p \in Ports, LookupEnds(i, p)
  PROVE  IInv'
<1>1. PICK free \in BOOLEAN :
        /\ free => lookup[i][p] = "free"
        /\ taken' = IF free THEN taken ELSE [taken EXCEPT ![i] = @ \cup {p}]
        /\ tasks' = [t \in Tasks |->
             IF tasks[t].stage = "looking" /\ InstanceOf[t] = i /\ tasks[t].port = p
             THEN [tasks[t] EXCEPT !.stage = "found", !.free = free] ELSE tasks[t]]
  BY DEF LookupEnds
<1> DEFINE Waits(t) == tasks[t].stage = "looking" /\ InstanceOf[t] = i /\ tasks[t].port = p
<1>2. \A t \in Tasks : ~Waits(t) => tasks'[t] = tasks[t]
  BY <1>1
<1>3. \A t \in Tasks : Waits(t) =>
        /\ tasks'[t].stage = "found" /\ tasks'[t].port = p /\ tasks'[t].free = free
        /\ tasks'[t].attempt = tasks[t].attempt /\ tasks'[t].limit = tasks[t].limit
  BY <1>1 DEF IInv, TypeOK, Task
<1> HIDE DEF Waits
<1>4. UNCHANGED <<reserved, others, othersCount>> /\ lookup' = [lookup EXCEPT ![i][p] = "none"]
  BY DEF LookupEnds
<1>5. TypeOK'
  <2>1. tasks' \in [Tasks -> Task]
    BY <1>1 DEF IInv, TypeOK, Task, Stages
  <2>2. taken' \in [Instances -> SUBSET Ports]
    BY <1>1 DEF IInv, TypeOK
  <2>3. lookup' \in [Instances -> [Ports -> {"none", "free", "bound"}]]
    BY <1>4 DEF IInv, TypeOK
  <2> QED BY <1>4, <2>1, <2>2, <2>3 DEF IInv, TypeOK
<1>6. PortsExist'
  BY <1>2, <1>3 DEF IInv, PortsExist, Waits, Ports
<1>7. OneSearch'
  BY <1>2, <1>3 DEF IInv, OneSearch, InSearch, Waits
<1>8. LookupsAreWaitedFor'
  <2> SUFFICES ASSUME NEW j \in Instances, NEW q \in Ports, lookup'[j][q] # "none"
               PROVE  \E t \in Tasks : /\ tasks'[t].stage = "looking"
                                       /\ tasks'[t].port = q /\ InstanceOf[t] = j
    BY DEF LookupsAreWaitedFor
  <2>1. lookup[j][q] # "none" /\ ~(j = i /\ q = p)
    BY <1>4 DEF IInv, TypeOK
  <2>2. PICK t \in Tasks : /\ tasks[t].stage = "looking"
                           /\ tasks[t].port = q /\ InstanceOf[t] = j
    BY <2>1 DEF IInv, LookupsAreWaitedFor
  <2> QED BY <1>2, <2>1, <2>2 DEF Waits
<1>9. LooksAtUnreserved'
  BY <1>2, <1>3, <1>4 DEF IInv, LooksAtUnreserved, Waits
<1>10. \A u \in Tasks, q \in Ports : Owns(u, q)' <=> Owns(u, q)
  BY <1>2, <1>3 DEF Owns, Waits
<1>11. FreeIsNobodys'
  <2> SUFFICES ASSUME NEW u \in Tasks,
                      \/ tasks'[u].stage = "looking" /\ lookup'[InstanceOf[u]][tasks'[u].port] = "free"
                      \/ tasks'[u].stage = "found" /\ tasks'[u].free,
                      NEW w \in Tasks, ~FromOs(w)
               PROVE  ~Owns(w, tasks[u].port) /\ tasks[u].port \in Ports /\ tasks'[u].port = tasks[u].port
    BY <1>2, <1>3, <1>10 DEF FreeIsNobodys, Owns, FromOs
  <2>1. InstanceOf[u] \in Instances
    BY TasksAssumption
  <2>2. CASE Waits(u)
    BY <1>1, <1>3, <2>2 DEF Waits, IInv, FreeIsNobodys
  <2>3. CASE ~Waits(u)
    <3>1. tasks'[u] = tasks[u] /\ tasks[u].port \in Ports
      BY <1>2, <2>3 DEF IInv, PortsExist
    <3>2. lookup'[InstanceOf[u]][tasks[u].port] = "free"
          => lookup[InstanceOf[u]][tasks[u].port] = "free"
      BY <1>4, <2>1, <3>1 DEF IInv, TypeOK
    <3> QED BY <3>1, <3>2 DEF IInv, FreeIsNobodys
  <2> QED BY <2>2, <2>3
<1>12. GrantIsReserved'
  BY <1>2, <1>3, <1>4 DEF IInv, GrantIsReserved, FromOs, Waits
<1>13. \A u \in Tasks : tasks'[u].attempt = tasks[u].attempt
  BY <1>2, <1>3
<1>14. DistinctPorts'
  BY <1>10, <1>13 DEF IInv, DistinctPorts, FromOs
<1>15. AttemptsInOrder'
  BY <1>2, <1>3 DEF IInv, AttemptsInOrder, AttemptFits, Waits
<1> QED
  BY <1>5, <1>6, <1>7, <1>8, <1>9, <1>11, <1>12, <1>14, <1>15 DEF IInv

\* The invariant of the searches, when all servers find() their ports.
THEOREM Searches ==
  ASSUME Strict = {}
  PROVE  Spec => []IInv
<1>1. Init => IInv
  BY TasksAssumption, BoundsAssumption, PortsAssumption
    DEF Init, IInv, TypeOK, Task, Stages, PortsExist, OneSearch, InSearch, LookupsAreWaitedFor,
    LooksAtUnreserved, FreeIsNobodys, GrantIsReserved, DistinctPorts, Owns, Ports,
    AttemptsInOrder, AttemptFits
<1>2. IInv /\ [Next]_vars => IInv'
  <2> SUFFICES ASSUME IInv, [Next]_vars PROVE IInv'
    OBVIOUS
  <2>0. /\ tasks \in [Tasks -> Task]
        /\ others \subseteq Ports /\ othersCount \in 0..MaxOthers
        /\ taken \in [Instances -> SUBSET Ports]
        /\ \A t \in Tasks :
             /\ tasks[t].port >= 1 /\ tasks[t].port \in Nat
             /\ tasks[t].attempt \in 1..MaxServe
             /\ AttemptFits(t, tasks[t])
    BY DEF IInv, TypeOK, Task, PortsExist, AttemptsInOrder
  <2>1. ASSUME NEW t \in Tasks, Find(t) PROVE IInv'
    <3> DEFINE r == [tasks[t] EXCEPT !.stage = "waiting"]
    <3>1. /\ r \in Task /\ r.port = tasks[t].port /\ r.stage = "waiting"
          /\ r.attempt = tasks[t].attempt
      BY <2>0 DEF Task, Stages
    <3>2. tasks' = [tasks EXCEPT ![t] = r]
      BY <2>1 DEF Find, SetTask
    <3> HIDE DEF r
    <3>3. AttemptFits(t, r)
      BY <2>0, <2>1, <3>1 DEF AttemptFits, Find
    <3> QED BY <2>0, <2>1, <3>1, <3>2, <3>3, QuietMove DEF Find
  <2>2. ASSUME NEW t \in Tasks, SearchBegins(t) PROVE IInv'
    <3> DEFINE l == Minimum(MaxPort, tasks[t].port + MaxSearch - 1)
               r == [tasks[t] EXCEPT !.stage = "searching", !.limit = l]
    <3>1. l \in 0..MaxPort
      BY <2>0, LimitFacts
    <3>2. tasks' = [tasks EXCEPT ![t] = r]
      BY <2>2 DEF SearchBegins
    <3> HIDE DEF l
    <3>3. /\ r \in Task /\ r.port = tasks[t].port /\ r.stage = "searching"
          /\ r.attempt = tasks[t].attempt /\ r.limit = l
      BY <2>0, <3>1 DEF Task, Stages
    <3>4. \A u \in Tasks : ~InSearch(u)
      BY <2>2 DEF SearchBegins, LockFree, InSearch
    <3> HIDE DEF r
    <3>6. AttemptFits(t, r)
      BY <2>0, <2>2, <3>3 DEF AttemptFits, SearchBegins
    <3> QED BY <2>0, <2>2, <3>2, <3>3, <3>4, <3>6, QuietMove DEF SearchBegins
  <2>3. ASSUME NEW t \in Tasks, SearchLooks(t) PROVE IInv'
    <3>1. CASE tasks[t].port > tasks[t].limit
      <4> DEFINE r == [tasks[t] EXCEPT !.stage = "exhausted"]
      <4>1. /\ r \in Task /\ r.port = tasks[t].port /\ r.stage = "exhausted"
            /\ r.attempt = tasks[t].attempt
        BY <2>0 DEF Task, Stages
      <4>2. tasks[t].limit \in Nat
        BY <2>0 DEF Task
      <4>3. ~(tasks[t].port <= tasks[t].limit)
        BY <2>0, <3>1, <4>2
      <4>4. tasks' = [tasks EXCEPT ![t] = r] /\ UNCHANGED lookup
        BY <2>3, <4>3 DEF SearchLooks, SetTask
      <4> HIDE DEF r
      <4>5. AttemptFits(t, r)
        BY <2>0, <2>3, <4>1 DEF AttemptFits, SearchLooks
      <4> QED BY <2>0, <2>3, <4>1, <4>4, <4>5, QuietMove DEF SearchLooks
    <3>2. CASE tasks[t].port <= tasks[t].limit /\ tasks[t].port \in reserved
      <4> DEFINE r == [tasks[t] EXCEPT !.port = @ + 1]
      <4>1. /\ r \in Task /\ r.port >= 1 /\ r.stage = "searching"
            /\ r.attempt = tasks[t].attempt /\ r.limit = tasks[t].limit
        BY <2>0, <2>3, <3>2, PortsAssumption DEF Task, SearchLooks
      <4>2. tasks[t].limit \in Nat /\ ~(tasks[t].port > tasks[t].limit)
        BY <2>0, <3>2 DEF Task
      <4>3. tasks' = [tasks EXCEPT ![t] = r] /\ UNCHANGED lookup
        BY <2>3, <3>2, <4>2 DEF SearchLooks
      <4> HIDE DEF r
      <4>4. InSearch(t)
        BY <2>3 DEF SearchLooks, InSearch
      <4>5. AttemptFits(t, r)
        BY <2>0, <2>3, <4>1 DEF AttemptFits, SearchLooks
      <4> QED BY <2>0, <2>3, <4>1, <4>3, <4>4, <4>5, QuietMove DEF SearchLooks
    <3>3. CASE tasks[t].port <= tasks[t].limit /\ tasks[t].port \notin reserved
      <4>1. tasks[t].limit \in 0..MaxPort
        BY <2>0 DEF Task
      <4>2. tasks[t].port \in Ports /\ ~(tasks[t].port > tasks[t].limit)
        BY <2>0, <3>3, <4>1, PortsAssumption DEF Ports
      <4> QED BY <2>3, <3>3, <4>2, Asks DEF SearchLooks
    <3>4. tasks[t].limit \in Nat
      BY <2>0 DEF Task
    <3> QED BY <2>0, <3>1, <3>2, <3>3, <3>4
  <2>4. ASSUME NEW t \in Tasks, SearchGoesOn(t) PROVE IInv'
    <3>1. CASE tasks[t].free
      BY <2>4, <3>1, Takes DEF SearchGoesOn
    <3>2. CASE ~tasks[t].free
      <4> DEFINE r == [tasks[t] EXCEPT !.stage = "searching", !.port = @ + 1]
      <4>1. tasks[t].port \in Ports
        BY <2>4 DEF SearchGoesOn, IInv, PortsExist
      <4> DEFINE q == tasks[t].port + 1
      <4>5. q \in 0..MaxPort + 1 /\ q >= 1
        BY <4>1, PortsAssumption DEF Ports
      <4> HIDE DEF q
      <4>6. [tasks[t] EXCEPT !.stage = "searching", !.port = q] \in Task
        BY <2>0, <4>5 DEF Task, Stages
      <4>2. /\ r \in Task /\ r.port >= 1 /\ r.stage = "searching"
            /\ r.attempt = tasks[t].attempt /\ r.limit = tasks[t].limit
        BY <2>0, <4>5, <4>6 DEF q, Task
      <4>3. tasks' = [tasks EXCEPT ![t] = r]
        BY <2>4, <3>2 DEF SearchGoesOn
      <4> HIDE DEF r
      <4>4. InSearch(t)
        BY <2>4 DEF SearchGoesOn, InSearch
      <4>7. AttemptFits(t, r)
        BY <2>0, <2>4, <4>2 DEF AttemptFits, SearchGoesOn
      <4> QED BY <2>0, <2>4, <3>2, <4>2, <4>3, <4>4, <4>7, QuietMove DEF SearchGoesOn
    <3> QED BY <3>1, <3>2
  <2>5. ASSUME NEW t \in Tasks, Binds(t) PROVE IInv'
    <3> DEFINE r == [tasks[t] EXCEPT !.stage = "listening"]
    <3>1. /\ r \in Task /\ r.port = tasks[t].port /\ r.stage = "listening"
          /\ r.attempt = tasks[t].attempt
      BY <2>0 DEF Task, Stages
    <3>2. tasks' = [tasks EXCEPT ![t] = r]
      BY <2>5 DEF Binds, SetTask
    <3> HIDE DEF r
    <3>3. AttemptFits(t, r)
      BY <2>0, <2>5, <3>1 DEF AttemptFits, Binds
    <3> QED BY <2>0, <2>5, <3>1, <3>2, <3>3, QuietMove DEF Binds
  <2>6. ASSUME NEW t \in Tasks, BindFails(t) PROVE IInv'
    <3>1. tasks[t].port \in Ports /\ tasks[t].stage = "granted"
      BY <2>6 DEF BindFails, IInv, PortsExist
    <3>2. CASE Retries(t)
      <4> DEFINE r == [tasks[t] EXCEPT !.stage = "waiting", !.port = @ + 1, !.attempt = @ + 1]
      <4>1. tasks[t].attempt \in 1..MaxServe /\ tasks[t].attempt < MaxServe
        BY <2>0, <3>2 DEF Task, Retries
      <4> DEFINE q == tasks[t].port + 1
                 n == tasks[t].attempt + 1
      <4>4. q \in 0..MaxPort + 1 /\ q >= 1 /\ n \in 1..MaxServe
        BY <3>1, <4>1, PortsAssumption, BoundsAssumption DEF Ports
      <4> HIDE DEF q, n
      <4>5. [tasks[t] EXCEPT !.stage = "waiting", !.port = q, !.attempt = n] \in Task
        BY <2>0, <4>4 DEF Task, Stages
      <4>2. /\ r \in Task /\ r.port >= 1 /\ r.stage = "waiting"
            /\ r.port = q /\ r.attempt = n
        BY <2>0, <4>4, <4>5 DEF q, n, Task
      <4>3. tasks' = [tasks EXCEPT ![t] = r]
        BY <2>6, <3>2 DEF BindFails
      <4> HIDE DEF r
      <4>7. n # 1
        BY <4>1 DEF n
      <4>8. AttemptFits(t, r)
        BY <4>2, <4>7 DEF AttemptFits
      <4> QED BY <2>0, <2>6, <3>1, <4>2, <4>3, <4>8, QuietMove DEF BindFails
    <3>3. CASE ~Retries(t)
      <4> DEFINE r == [tasks[t] EXCEPT !.stage = "inUse"]
      <4>1. /\ r \in Task /\ r.port = tasks[t].port /\ r.stage = "inUse"
            /\ r.attempt = tasks[t].attempt
        BY <2>0 DEF Task, Stages
      <4>2. tasks' = [tasks EXCEPT ![t] = r]
        BY <2>6, <3>3 DEF BindFails, SetTask
      <4> HIDE DEF r
      <4>3. AttemptFits(t, r)
        BY <2>0, <3>1, <4>1 DEF AttemptFits
      <4> QED BY <2>0, <2>6, <3>1, <4>1, <4>2, <4>3, QuietMove DEF BindFails
    <3> QED BY <3>2, <3>3
  <2>7. ASSUME NEW t \in Tasks, Closes(t) PROVE IInv'
    <3> DEFINE r == [tasks[t] EXCEPT !.stage = "closed"]
    <3>1. /\ r \in Task /\ r.port = tasks[t].port /\ r.stage = "closed"
          /\ r.attempt = tasks[t].attempt
      BY <2>0 DEF Task, Stages
    <3>2. tasks' = [tasks EXCEPT ![t] = r]
      BY <2>7 DEF Closes, SetTask
    <3> HIDE DEF r
    <3>3. AttemptFits(t, r)
      BY <2>0, <2>7, <3>1 DEF AttemptFits, Closes
    <3> QED BY <2>0, <2>7, <3>1, <3>2, <3>3, QuietMove DEF Closes
  <2>8. ASSUME NEW i \in Instances, NEW p \in Ports, LookupEnds(i, p) PROVE IInv'
    BY <2>8, Answers
  <2>9. ASSUME NEW i \in Instances, NEW p \in Ports, CacheExpires(i, p) PROVE IInv'
    <3>1. taken' \in [Instances -> SUBSET Ports]
      BY <2>0, <2>9 DEF CacheExpires
    <3> QED BY <2>0, <2>9, <3>1, NoMove DEF CacheExpires
  <2>10. ASSUME NEW p \in Ports, ReservationExpires(p) PROVE IInv'
    BY <2>0, <2>10, NoMove DEF ReservationExpires
  <2>11. ASSUME NEW p \in Ports, OtherTakes(p) \/ OtherReleases(p) PROVE IInv'
    <3>1. others' \subseteq Ports /\ othersCount' \in 0..MaxOthers
      BY <2>0, <2>11, BoundsAssumption DEF OtherTakes, OtherReleases
    <3> QED BY <2>0, <2>11, <3>1, NoMove DEF OtherTakes, OtherReleases
  <2>12. CASE UNCHANGED vars
    BY <2>0, <2>12, NoMove DEF vars
  <2>13. ASSUME NEW t \in Tasks, CheckBegins(t) \/ CheckEnds(t) PROVE FALSE
    BY <2>13 DEF CheckBegins, CheckEnds
  <2>14. ASSUME NEW t \in Tasks, FindEphemeral(t) PROVE IInv'
    BY <2>14, Assigns
  <2> QED
    BY <2>1, <2>2, <2>3, <2>4, <2>5, <2>6, <2>7, <2>8, <2>9, <2>10, <2>11, <2>12, <2>13, <2>14
    DEF Next
<1> QED BY <1>1, <1>2, PTL DEF Spec

\* Port.ts's "makes allocation atomic across instances": whatever the instances, the
\* OS, the ports that are asked for and the other programs do, no port is given to two
\* dev servers that search for theirs, at first or in a retry.
THEOREM SearchesAreAtomic ==
  ASSUME Strict = {}
  PROVE  Spec => []DistinctPorts
<1>1. Spec => []IInv
  BY Searches
<1>2. IInv => DistinctPorts
  BY DEF IInv
<1> QED BY <1>1, <1>2, PTL

\* The port that a search was granted is reserved until its server listens or
\* fails, also when the search is the retry of a server without a port.
THEOREM GrantsAreReserved ==
  ASSUME Strict = {}
  PROVE  Spec => []GrantIsReserved
<1>1. Spec => []IInv
  BY Searches
<1>2. IInv => GrantIsReserved
  BY DEF IInv
<1> QED BY <1>1, <1>2, PTL
-----------------------------------------------------------------------------
(* Types, also with servers that check() their port *)

TypeInv ==
  /\ TypeOK
  /\ PortsExist
  /\ \A t \in Tasks : tasks[t].stage = "idle" => tasks[t].port \in Ports

\* Task t goes on with the record r.
LEMMA TypeMove ==
  ASSUME TypeInv, NEW t \in Tasks, NEW r \in Task,
         tasks' = [tasks EXCEPT ![t] = r],
         r.port >= 1,
         r.stage \in {"looking", "found", "granted", "listening"} => r.port \in Ports,
         r.stage # "idle",
         reserved' \subseteq Ports, taken' \in [Instances -> SUBSET Ports],
         lookup' \in [Instances -> [Ports -> {"none", "free", "bound"}]],
         UNCHANGED <<others, othersCount>>
  PROVE  TypeInv'
<1>1. tasks'[t] = r /\ \A u \in Tasks \ {t} : tasks'[u] = tasks[u]
  BY DEF TypeInv, TypeOK
<1>2. TypeOK'
  BY DEF TypeInv, TypeOK
<1>3. PortsExist'
  BY <1>1 DEF TypeInv, PortsExist
<1> QED BY <1>1, <1>2, <1>3 DEF TypeInv

\* A task asks the cache for an existing port.
LEMMA TypeCache ==
  ASSUME TypeInv, NEW t \in Tasks, tasks[t].port \in Ports, CacheGet(t),
         UNCHANGED <<reserved, taken, others, othersCount>>
  PROVE  TypeInv'
<1> DEFINE i == InstanceOf[t]
           p == tasks[t].port
           v == IF p \in Bound THEN "bound" ELSE "free"
           f == [tasks[t] EXCEPT !.stage = "found", !.free = FALSE]
           l == [tasks[t] EXCEPT !.stage = "looking"]
<1>1. i \in Instances
  BY TasksAssumption
<1>2. tasks[t] \in Task /\ lookup \in [Instances -> [Ports -> {"none", "free", "bound"}]]
  BY DEF TypeInv, TypeOK
<1>3. /\ f \in Task /\ f.stage = "found" /\ f.port = p
      /\ l \in Task /\ l.stage = "looking" /\ l.port = p
  BY <1>2 DEF Task, Stages
<1>4. tasks' = [tasks EXCEPT ![t] = f] \/ tasks' = [tasks EXCEPT ![t] = l]
  BY DEF CacheGet, SetTask
<1>5. lookup' = lookup \/ lookup' = [lookup EXCEPT ![i][p] = v]
  BY DEF CacheGet
<1>6. p >= 1 /\ p \in Ports
  BY DEF Ports
<1>7. v \in {"none", "free", "bound"}
  OBVIOUS
<1> HIDE DEF f, l, v, p, i
<1>8. lookup' \in [Instances -> [Ports -> {"none", "free", "bound"}]]
  <2>1. CASE lookup' = lookup
    BY <1>2, <2>1
  <2>2. CASE lookup' = [lookup EXCEPT ![i][p] = v]
    BY <1>1, <1>2, <1>6, <1>7, <2>2
  <2> QED BY <1>5, <2>1, <2>2
<1>9. reserved' \subseteq Ports /\ taken' \in [Instances -> SUBSET Ports]
  BY DEF TypeInv, TypeOK
<1> QED BY <1>3, <1>4, <1>6, <1>8, <1>9, TypeMove

\* The type invariant, and that only existing ports are probed, reserved and bound
\* although a retry from the last port goes past it: for searches, checks and
\* ports of the OS alike.
THEOREM PortsTypeCorrect == Spec => [](TypeOK /\ PortsExist)
<1>1. Init => TypeInv
  BY TasksAssumption, BoundsAssumption, PortsAssumption
    DEF Init, TypeInv, TypeOK, Task, Stages, PortsExist, Ports
<1>2. TypeInv /\ [Next]_vars => TypeInv'
  <2> SUFFICES ASSUME TypeInv, [Next]_vars PROVE TypeInv'
    OBVIOUS
  <2>0. /\ tasks \in [Tasks -> Task] /\ reserved \subseteq Ports
        /\ taken \in [Instances -> SUBSET Ports]
        /\ lookup \in [Instances -> [Ports -> {"none", "free", "bound"}]]
        /\ others \subseteq Ports /\ othersCount \in 0..MaxOthers
        /\ \A t \in Tasks :
             /\ tasks[t].port >= 1 /\ tasks[t].port \in 0..MaxPort + 1
             /\ tasks[t].attempt \in 1..MaxServe /\ tasks[t].limit \in 0..MaxPort
             /\ tasks[t].stage \in {"looking", "found", "granted", "listening", "idle"}
                => tasks[t].port \in Ports
    BY DEF TypeInv, TypeOK, Task, PortsExist
  <2>a. \A p \in Ports : p + 1 \in 0..MaxPort + 1 /\ p + 1 >= 1 /\ p \in 0..MaxPort + 1
    BY PortsAssumption DEF Ports
  <2>b. \A t \in Tasks : tasks[t].port <= tasks[t].limit => tasks[t].port \in Ports
    BY <2>0, PortsAssumption DEF Ports
  <2>c. {"waiting", "searching", "granted", "listening", "closed", "inUse", "exhausted", "found"}
        \subseteq Stages
    BY DEF Stages
  \* A task that only comes to another stage
  <2>d. ASSUME NEW t \in Tasks, NEW s \in Stages \ {"idle"}, SetTask(t, s),
               s \in {"looking", "found", "granted", "listening"} => tasks[t].port \in Ports,
               reserved' \subseteq Ports, taken' \in [Instances -> SUBSET Ports],
               UNCHANGED <<lookup, others, othersCount>>
        PROVE  TypeInv'
    <3> DEFINE r == [tasks[t] EXCEPT !.stage = s]
    <3>1. r \in Task /\ r.stage = s /\ r.port = tasks[t].port
      BY <2>0, <2>d DEF Task
    <3>2. tasks' = [tasks EXCEPT ![t] = r]
      BY <2>d DEF SetTask
    <3> HIDE DEF r
    <3> QED BY <2>0, <2>d, <3>1, <3>2, TypeMove
  <2>e. ASSUME NEW t \in Tasks, Reserve(t), tasks[t].port \in Ports
        PROVE  reserved' \subseteq Ports /\ taken' \in [Instances -> SUBSET Ports]
    BY <2>0, <2>e, TasksAssumption DEF Reserve
  <2>1. ASSUME NEW t \in Tasks, Find(t) PROVE TypeInv'
    BY <2>0, <2>1, <2>c, <2>d DEF Find
  <2>2. ASSUME NEW t \in Tasks, SearchBegins(t) PROVE TypeInv'
    <3> DEFINE n == Minimum(MaxPort, tasks[t].port + MaxSearch - 1)
               r == [tasks[t] EXCEPT !.stage = "searching", !.limit = n]
    <3>1. tasks[t].port \in Nat /\ tasks[t].port >= 1
      BY <2>0
    <3>2. n \in 0..MaxPort
      BY <3>1, LimitFacts
    <3>3. tasks' = [tasks EXCEPT ![t] = r]
      BY <2>2 DEF SearchBegins
    <3> HIDE DEF n
    <3>4. r \in Task /\ r.port = tasks[t].port /\ r.stage = "searching"
      BY <2>0, <3>2 DEF Task, Stages
    <3> HIDE DEF r
    <3> QED BY <2>0, <2>2, <3>3, <3>4, TypeMove DEF SearchBegins
  <2>3. ASSUME NEW t \in Tasks, SearchLooks(t) PROVE TypeInv'
    <3>1. CASE SetTask(t, "exhausted") /\ UNCHANGED lookup
      BY <2>0, <2>3, <2>c, <2>d, <3>1 DEF SearchLooks
    <3>2. CASE /\ tasks[t].port <= tasks[t].limit
               /\ tasks' = [tasks EXCEPT ![t].port = @ + 1] /\ UNCHANGED lookup
      <4> DEFINE q == tasks[t].port + 1
                 r == [tasks[t] EXCEPT !.port = q]
      <4>1. q \in 0..MaxPort + 1 /\ q >= 1
        BY <2>a, <2>b, <3>2
      <4>2. tasks' = [tasks EXCEPT ![t] = r]
        BY <3>2
      <4> HIDE DEF q
      <4>3. r \in Task /\ r.port = q /\ r.stage = "searching"
        BY <2>0, <2>3, <4>1 DEF Task, SearchLooks
      <4> HIDE DEF r
      <4> QED BY <2>0, <2>3, <3>2, <4>1, <4>2, <4>3, TypeMove DEF SearchLooks
    <3>3. CASE tasks[t].port <= tasks[t].limit /\ CacheGet(t)
      BY <2>3, <2>b, <3>3, TypeCache DEF SearchLooks
    <3> QED BY <2>3, <3>1, <3>2, <3>3 DEF SearchLooks
  <2>4. ASSUME NEW t \in Tasks, SearchGoesOn(t) PROVE TypeInv'
    <3>1. CASE tasks[t].free
      BY <2>0, <2>4, <2>c, <2>d, <2>e, <3>1 DEF SearchGoesOn
    <3>2. CASE ~tasks[t].free
      <4> DEFINE q == tasks[t].port + 1
                 r == [tasks[t] EXCEPT !.stage = "searching", !.port = q]
      <4>1. q \in 0..MaxPort + 1 /\ q >= 1
        BY <2>0, <2>4, <2>a DEF SearchGoesOn
      <4>2. tasks' = [tasks EXCEPT ![t] = r]
        BY <2>4, <3>2 DEF SearchGoesOn
      <4> HIDE DEF q
      <4>3. r \in Task /\ r.port = q /\ r.stage = "searching"
        BY <2>0, <4>1 DEF Task, Stages
      <4> HIDE DEF r
      <4> QED BY <2>0, <2>4, <3>2, <4>1, <4>2, <4>3, TypeMove DEF SearchGoesOn
    <3> QED BY <3>1, <3>2
  <2>5. ASSUME NEW t \in Tasks, FindEphemeral(t) PROVE TypeInv'
    <3>1. PICK p \in OsPorts :
            /\ tasks' = [tasks EXCEPT ![t].stage = "granted", ![t].port = p]
            /\ taken' = [taken EXCEPT ![InstanceOf[t]] = @ \cup {p}]
      BY <2>5 DEF FindEphemeral
    <3>2. p \in Ports /\ p >= 1 /\ p \in 0..MaxPort + 1 /\ InstanceOf[t] \in Instances
      BY <2>a, PortsAssumption, TasksAssumption DEF Ports
    <3> DEFINE r == [tasks[t] EXCEPT !.stage = "granted", !.port = p]
    <3>3. r \in Task /\ r.port = p /\ r.stage = "granted"
      BY <2>0, <3>2 DEF Task, Stages
    <3>4. tasks' = [tasks EXCEPT ![t] = r]
      BY <3>1
    <3> HIDE DEF r
    <3>5. taken' \in [Instances -> SUBSET Ports]
      BY <2>0, <3>1, <3>2
    <3> QED BY <2>0, <2>5, <3>2, <3>3, <3>4, <3>5, TypeMove DEF FindEphemeral
  <2>6. ASSUME NEW t \in Tasks, CheckBegins(t) PROVE TypeInv'
    <3>1. CASE SetTask(t, "inUse") /\ UNCHANGED lookup
      BY <2>0, <2>6, <2>c, <2>d, <3>1 DEF CheckBegins
    <3>2. CASE CacheGet(t)
      BY <2>0, <2>6, <3>2, TypeCache DEF CheckBegins
    <3> QED BY <2>6, <3>1, <3>2 DEF CheckBegins
  <2>7. ASSUME NEW t \in Tasks, CheckEnds(t) PROVE TypeInv'
    <3>1. CASE tasks[t].free
      BY <2>0, <2>7, <2>c, <2>d, <2>e, <3>1 DEF CheckEnds
    <3>2. CASE ~tasks[t].free
      BY <2>0, <2>7, <2>c, <2>d, <3>2 DEF CheckEnds
    <3> QED BY <3>1, <3>2
  <2>8. ASSUME NEW t \in Tasks, Binds(t) \/ Closes(t) PROVE TypeInv'
    BY <2>0, <2>8, <2>c, <2>d DEF Binds, Closes
  <2>9. ASSUME NEW t \in Tasks, BindFails(t) PROVE TypeInv'
    <3>1. CASE Retries(t)
      <4> DEFINE q == tasks[t].port + 1
                 n == tasks[t].attempt + 1
                 r == [tasks[t] EXCEPT !.stage = "waiting", !.port = q, !.attempt = n]
      <4>1. q \in 0..MaxPort + 1 /\ q >= 1
        BY <2>0, <2>9, <2>a DEF BindFails
      <4>2. n \in 1..MaxServe
        BY <2>0, <3>1, BoundsAssumption DEF Retries
      <4>3. tasks' = [tasks EXCEPT ![t] = r]
        BY <2>9, <3>1 DEF BindFails
      <4> HIDE DEF q, n
      <4>4. r \in Task /\ r.port = q /\ r.stage = "waiting"
        BY <2>0, <4>1, <4>2 DEF Task, Stages
      <4> HIDE DEF r
      <4> QED BY <2>0, <2>9, <4>1, <4>3, <4>4, TypeMove DEF BindFails
    <3>2. CASE ~Retries(t)
      BY <2>0, <2>9, <2>c, <2>d, <3>2 DEF BindFails
    <3> QED BY <3>1, <3>2
  <2>10. ASSUME NEW i \in Instances, NEW p \in Ports, LookupEnds(i, p) PROVE TypeInv'
    <3>1. PICK free \in BOOLEAN :
            /\ taken' = IF free THEN taken ELSE [taken EXCEPT ![i] = @ \cup {p}]
            /\ tasks' = [t \in Tasks |->
                 IF tasks[t].stage = "looking" /\ InstanceOf[t] = i /\ tasks[t].port = p
                 THEN [tasks[t] EXCEPT !.stage = "found", !.free = free] ELSE tasks[t]]
      BY <2>10 DEF LookupEnds
    <3>2. \A t \in Tasks :
            LET r == [tasks[t] EXCEPT !.stage = "found", !.free = free]
            IN r \in Task /\ r.stage = "found" /\ r.port = tasks[t].port
      BY <2>0 DEF Task, Stages
    <3>3. tasks' \in [Tasks -> Task]
      BY <2>0, <3>1, <3>2
    <3>4. \A t \in Tasks :
            \/ tasks'[t] = tasks[t]
            \/ tasks'[t].stage = "found" /\ tasks'[t].port = p
      BY <3>1, <3>2
    <3>5. taken' \in [Instances -> SUBSET Ports]
      BY <2>0, <3>1
    <3>6. lookup' \in [Instances -> [Ports -> {"none", "free", "bound"}]]
      BY <2>0, <2>10 DEF LookupEnds
    <3>7. TypeOK'
      BY <2>0, <2>10, <3>3, <3>5, <3>6 DEF LookupEnds, TypeOK
    <3>8. p >= 1
      BY DEF Ports
    <3> QED BY <2>0, <3>4, <3>7, <3>8 DEF TypeInv, PortsExist
  <2>11. ASSUME UNCHANGED <<tasks, lookup>>, reserved' \subseteq Ports,
                taken' \in [Instances -> SUBSET Ports],
                others' \subseteq Ports, othersCount' \in 0..MaxOthers
         PROVE  TypeInv'
    BY <2>0, <2>11 DEF TypeInv, TypeOK, PortsExist
  <2>12. ASSUME NEW i \in Instances, NEW p \in Ports, CacheExpires(i, p) PROVE TypeInv'
    <3>1. taken' \in [Instances -> SUBSET Ports]
      BY <2>0, <2>12 DEF CacheExpires
    <3> QED BY <2>0, <2>11, <2>12, <3>1 DEF CacheExpires
  <2>13. ASSUME NEW p \in Ports, ReservationExpires(p) PROVE TypeInv'
    BY <2>0, <2>11, <2>13 DEF ReservationExpires
  <2>14. ASSUME NEW p \in Ports, OtherTakes(p) \/ OtherReleases(p) PROVE TypeInv'
    <3>1. others' \subseteq Ports /\ othersCount' \in 0..MaxOthers
      BY <2>0, <2>14, BoundsAssumption DEF OtherTakes, OtherReleases
    <3> QED BY <2>0, <2>11, <2>14, <3>1 DEF OtherTakes, OtherReleases
  <2>15. CASE UNCHANGED vars
    BY <2>0, <2>11, <2>15 DEF vars
  <2> QED
    BY <2>1, <2>2, <2>3, <2>4, <2>5, <2>6, <2>7, <2>8, <2>9, <2>10, <2>12, <2>13, <2>14, <2>15
    DEF Next
<1>3. TypeInv => TypeOK /\ PortsExist
  BY DEF TypeInv
<1> QED BY <1>1, <1>2, <1>3, PTL DEF Spec
=============================================================================
