---------------------------- MODULE WorkerProxy ----------------------------
(***************************************************************************)
(* The stable front door of a dev server                                   *)
(* (src/proxy/WorkerProxy.worker.ts): a Durable Object that forwards user  *)
(* requests to the worker that currently runs, its `target'.  A controller *)
(* sets the target (PUT) and unsets it (DELETE) around restarts; requests  *)
(* that come in between wait, and requests whose worker went away while    *)
(* they were in flight are kept for a retry when they are GET or HEAD.     *)
(***************************************************************************)
EXTENDS Integers, FiniteSets

CONSTANTS
  Requests,     \* user requests
  Idempotent,   \* those with method GET or HEAD
  Targets,      \* upstream URLs
  NoTarget,     \* `target' is undefined
  MaxCalls      \* bound: calls of the controller

ASSUME RequestsAssumption == Idempotent \subseteq Requests
ASSUME TargetsAssumption == NoTarget \notin Targets
ASSUME MaxCallsAssumption == MaxCalls \in Nat

VARIABLES
  target,             \* the current upstream, or NoTarget
  puts,               \* targets of PUT requests whose body is being read
  calls,              \* controller calls so far
  requestQueue,       \* requests that were never sent
  retryRequestQueue,  \* requests to send again
  inFlight,           \* the running fetches: [request, target]
  answers,            \* [r] history: how often r's promise was resolved
  sends,              \* [r] history: how often r was sent upstream
  asked               \* history: the requests that came in

proxyVars == <<target, puts, calls, requestQueue, retryRequestQueue, inFlight, answers, sends, asked>>

Fetches == [request : Requests, target : Targets]

ProxyTypeOK ==
  /\ target \in Targets \cup {NoTarget}
  /\ puts \subseteq Targets
  /\ calls \in 0..MaxCalls
  /\ requestQueue \subseteq Requests
  /\ retryRequestQueue \subseteq Requests
  /\ inFlight \subseteq Fetches
  /\ answers \in [Requests -> Nat]
  /\ sends \in [Requests -> Nat]
  /\ asked \subseteq Requests

ProxyInit ==
  /\ target = NoTarget
  /\ puts = {}
  /\ calls = 0
  /\ requestQueue = {}
  /\ retryRequestQueue = {}
  /\ inFlight = {}
  /\ answers = [r \in Requests |-> 0]
  /\ sends = [r \in Requests |-> 0]
  /\ asked = {}

-----------------------------------------------------------------------------
\* Mutant: the retries are sent but stay in their queue.
ProcessKeepsRetries(t, new) ==
  IF t = NoTarget
  THEN requestQueue' = new /\ UNCHANGED <<retryRequestQueue, inFlight, sends>>
  ELSE LET sent == retryRequestQueue \cup new IN
       /\ requestQueue' = {}
       /\ UNCHANGED retryRequestQueue
       /\ inFlight' = inFlight \cup {[request |-> r, target |-> t] : r \in sent}
       /\ sends' = [r \in Requests |-> IF r \in sent THEN sends[r] + 1 ELSE sends[r]]

\* processRequestQueue() with target t, when `new' is in the request queue:
\* every waiting request is sent to t, the retries first.  The fetches are
\* concurrent, so their order is not kept.
ProcessRequestQueue(t, new) ==
  IF t = NoTarget
  THEN requestQueue' = new /\ UNCHANGED <<retryRequestQueue, inFlight, sends>>
  ELSE LET sent == retryRequestQueue \cup new IN
       /\ requestQueue' = {}
       /\ retryRequestQueue' = {}
       /\ inFlight' = inFlight \cup {[request |-> r, target |-> t] : r \in sent}
       /\ sends' = [r \in Requests |-> IF r \in sent THEN sends[r] + 1 ELSE sends[r]]

\* handleUserWorkerRequest()
UserRequest(r) ==
  /\ r \notin asked
  /\ asked' = asked \cup {r}
  /\ ProcessRequestQueue(target, requestQueue \cup {r})
  /\ UNCHANGED <<target, puts, calls, answers>>

\* A PUT arrives; its body is read asynchronously.
PutArrives(t) ==
  /\ calls < MaxCalls
  /\ calls' = calls + 1
  /\ puts' = puts \cup {t}
  /\ UNCHANGED <<target, requestQueue, retryRequestQueue, inFlight, answers, sends, asked>>

\* Mutant: a new target that does not release the waiting requests.
PutWithoutProcessing(t) ==
  /\ t \in puts
  /\ puts' = puts \ {t}
  /\ target' = t
  /\ UNCHANGED <<calls, requestQueue, retryRequestQueue, inFlight, answers, sends, asked>>

\* ... and when it is there, it becomes the target, whatever came in between.
PutApplies(t) ==
  /\ t \in puts
  /\ puts' = puts \ {t}
  /\ target' = t
  /\ ProcessRequestQueue(t, requestQueue)
  /\ UNCHANGED <<calls, answers, asked>>

\* The body is not a URL: 400, and the target stays.
PutInvalid(t) ==
  /\ t \in puts
  /\ puts' = puts \ {t}
  /\ UNCHANGED <<target, calls, requestQueue, retryRequestQueue, inFlight, answers, sends, asked>>

Delete ==
  /\ calls < MaxCalls
  /\ calls' = calls + 1
  /\ target' = NoTarget
  /\ UNCHANGED <<puts, requestQueue, retryRequestQueue, inFlight, answers, sends, asked>>

-----------------------------------------------------------------------------
(* routeUserWorkerRequest() *)

Answer(f) ==
  /\ inFlight' = inFlight \ {f}
  /\ answers' = [answers EXCEPT ![f.request] = @ + 1]
  /\ UNCHANGED <<target, puts, calls, requestQueue, retryRequestQueue, sends, asked>>

\* The upstream responds.
FetchSucceeds(f) == f \in inFlight /\ Answer(f)

\* Mutant: requests of any method are retried.
RetriesAnyMethod(f) == target # NoTarget /\ target # f.target

\* The 503 of the catch is retryable when the target has changed since and the
\* method allows it.
Retryable(f) == target # NoTarget /\ target # f.target /\ f.request \in Idempotent

\* The fetch throws: a retryable request waits in retryRequestQueue, where only
\* the next processRequestQueue() will find it; any other is answered 502 or 503.
FetchFailsForGood(f) == f \in inFlight /\ ~Retryable(f) /\ Answer(f)

FetchFailsRetryable(f) ==
  /\ f \in inFlight
  /\ Retryable(f)
  /\ inFlight' = inFlight \ {f}
  /\ retryRequestQueue' = retryRequestQueue \cup {f.request}
  /\ UNCHANGED <<target, puts, calls, requestQueue, answers, sends, asked>>

ProxyNext ==
  \/ \E r \in Requests : UserRequest(r)
  \/ \E t \in Targets : PutArrives(t) \/ PutApplies(t) \/ PutInvalid(t)
  \/ Delete
  \/ \E f \in Fetches : FetchSucceeds(f) \/ FetchFailsForGood(f) \/ FetchFailsRetryable(f)

ProxySpec == ProxyInit /\ [][ProxyNext]_proxyVars

\* A body is read and a fetch settles, one way or the other.  Nobody has to
\* call the controller or to send a request.
ProxyFairness ==
  /\ \A t \in Targets : WF_proxyVars(PutApplies(t) \/ PutInvalid(t))
  /\ \A f \in Fetches :
       WF_proxyVars(FetchSucceeds(f) \/ FetchFailsForGood(f) \/ FetchFailsRetryable(f))

ProxyFairSpec == ProxySpec /\ ProxyFairness

-----------------------------------------------------------------------------
(* Properties *)

\* How many places hold request r
Holders(r) ==
  Cardinality({f \in inFlight : f.request = r})
    + (IF r \in requestQueue THEN 1 ELSE 0) + (IF r \in retryRequestQueue THEN 1 ELSE 0)

\* A request that came in is answered once, or else it is in one queue or in
\* one fetch: none is forgotten, sent twice at a time or answered twice.
OneHolderOrAnswer == \A r \in asked : Holders(r) + answers[r] = 1

\* "Only GET and HEAD requests are retried automatically": whatever else is
\* sent to an upstream once is never sent again.
NonIdempotentSentOnce == \A r \in Requests \ Idempotent : sends[r] <= 1

\* A request is only kept waiting for its first upstream while there is none.
QueuedOnlyWithoutTarget == requestQueue # {} => target = NoTarget

\* When the target settles, every request that is not waiting for a retry is
\* answered.
AnsweredUnlessRetried ==
  <>[](target # NoTarget) =>
    \A r \in Requests : r \in asked ~> answers[r] = 1 \/ r \in retryRequestQueue

\* What the hint of the 503 says of GET and HEAD: "Only GET and HEAD requests are
\* retried automatically".  So when the target settles, they are sent again.
RetriedAutomatically ==
  <>[](target # NoTarget) =>
    \A r \in Idempotent : r \in retryRequestQueue ~> r \notin retryRequestQueue
=============================================================================
