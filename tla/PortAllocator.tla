----------------------------- MODULE PortAllocator -----------------------------
(***************************************************************************)
(* How dev servers come by their ports (src/internal/Port.ts, and the      *)
(* retries of serve() in src/proxy/WorkerProxy.ts).  Every runtime         *)
(* instance has a Ports of its own with a cache of ports that were taken;  *)
(* the search lock and the reservation table are shared by the instances   *)
(* of the process.  find() looks for a free port upwards, check() wants    *)
(* exactly one; then a workerd is spawned that really binds the port.      *)
(***************************************************************************)
EXTENDS Integers, FiniteSets

CONSTANTS
  Tasks,         \* serve() calls
  Strict,        \* those with strictPort, which check() their port
  Ephemeral,     \* those without a port, which find(0)
  Instances,
  InstanceOf,    \* [t] the runtime instance that serves t
  MaxPort,       \* MAX_PORT
  OsPorts,       \* the ports the OS hands out for port 0
  Wanted,        \* [t] the port t asks for
  MaxSearch,     \* MAX_PORT_SEARCH_ATTEMPTS
  MaxServe,      \* MAX_SERVE_ATTEMPTS
  MaxOthers      \* bound: ports taken by other programs

Ports == 1..MaxPort

ASSUME PortsAssumption == MaxPort \in Nat \ {0} /\ OsPorts \subseteq Ports
ASSUME TasksAssumption ==
  /\ Strict \subseteq Tasks /\ Ephemeral \subseteq Tasks \ Strict
  /\ InstanceOf \in [Tasks -> Instances]
  /\ Wanted \in [Tasks -> Ports]
ASSUME BoundsAssumption ==
  MaxSearch \in Nat \ {0} /\ MaxServe \in Nat \ {0} /\ MaxOthers \in Nat

VARIABLES
  tasks,       \* [t] a serve() call
  reserved,    \* globalReservations: the ports whose expiry has not passed
  taken,       \* [i] the ports that i's cache has as not available
  lookup,      \* [i][p] a lookup of i's cache under way, by how p was at its start
  others,      \* the ports that other programs listen on
  othersCount  \* how many they have taken so far

vars == <<tasks, reserved, taken, lookup, others, othersCount>>

Stages == {"idle", "waiting", "searching", "looking", "found", "granted",
           "listening", "closed", "inUse", "exhausted"}

\* A search stops at limit; `free' is what the lookup returned.
Task == [stage : Stages, port : 0..MaxPort + 1, limit : 0..MaxPort, attempt : 1..MaxServe,
         free : BOOLEAN]

TypeOK ==
  /\ tasks \in [Tasks -> Task]
  /\ reserved \subseteq Ports
  /\ taken \in [Instances -> SUBSET Ports]
  /\ lookup \in [Instances -> [Ports -> {"none", "free", "bound"}]]
  /\ others \subseteq Ports
  /\ othersCount \in 0..MaxOthers

Init ==
  /\ tasks = [t \in Tasks |->
       [stage |-> "idle", port |-> Wanted[t], limit |-> 0, attempt |-> 1, free |-> FALSE]]
  /\ reserved = {}
  /\ taken = [i \in Instances |-> {}]
  /\ lookup = [i \in Instances |-> [p \in Ports |-> "none"]]
  /\ others = {}
  /\ othersCount = 0

-----------------------------------------------------------------------------
Minimum(a, b) == IF a <= b THEN a ELSE b

\* Ports that a program listens on
Bound == others \cup {tasks[t].port : t \in {u \in Tasks : tasks[u].stage = "listening"}}

SetTask(t, stage) == tasks' = [tasks EXCEPT ![t].stage = stage]

\* Nobody holds the permit of globalSearchLock
LockFree ==
  \A t \in Tasks \ Strict : tasks[t].stage \notin {"searching", "looking", "found"}

\* Cache.get(cache, p) by t: a cached answer, or else t waits for the lookup of p
\* that is under way or for one that starts.
CacheGet(t) ==
  LET i == InstanceOf[t]
      p == tasks[t].port
  IN
  IF p \in taken[i]
  THEN /\ tasks' = [tasks EXCEPT ![t].stage = "found", ![t].free = FALSE]
       /\ UNCHANGED lookup
  ELSE /\ SetTask(t, "looking")
       /\ lookup' = IF lookup[i][p] # "none" THEN lookup
                    ELSE [lookup EXCEPT ![i][p] = IF p \in Bound THEN "bound" ELSE "free"]

\* The probe of p binds one host after the other.  It may succeed if p was free
\* at first, and may fail if p is not free or another instance probes it too.
LookupEnds(i, p) ==
  /\ lookup[i][p] # "none"
  /\ \E free \in BOOLEAN :
       /\ free => lookup[i][p] = "free"
       /\ ~free => \/ lookup[i][p] = "bound"
                   \/ p \in Bound
                   \/ \E j \in Instances \ {i} : lookup[j][p] # "none"
       /\ taken' = IF free THEN taken ELSE [taken EXCEPT ![i] = @ \cup {p}]
       /\ tasks' = [t \in Tasks |->
            IF tasks[t].stage = "looking" /\ InstanceOf[t] = i /\ tasks[t].port = p
            THEN [tasks[t] EXCEPT !.stage = "found", !.free = free] ELSE tasks[t]]
  /\ lookup' = [lookup EXCEPT ![i][p] = "none"]
  /\ UNCHANGED <<reserved, others, othersCount>>

\* reserve(port)
Reserve(t) ==
  /\ reserved' = reserved \cup {tasks[t].port}
  /\ taken' = [taken EXCEPT ![InstanceOf[t]] = @ \cup {tasks[t].port}]

-----------------------------------------------------------------------------
(* find() *)

\* find(port) waits for the permit, and
Find(t) ==
  /\ tasks[t].stage = "idle"
  /\ t \notin Strict \cup Ephemeral
  /\ SetTask(t, "waiting")
  /\ UNCHANGED <<reserved, taken, lookup, others, othersCount>>

\* Mutant: a search that does not wait for the lock.
SearchUnlocked(t) ==
  /\ tasks[t].stage = "waiting"
  /\ tasks' = [tasks EXCEPT ![t].stage = "searching",
                            ![t].limit = Minimum(MaxPort, tasks[t].port + MaxSearch - 1)]
  /\ UNCHANGED <<reserved, taken, lookup, others, othersCount>>

\* Mutant: the limit of a search ignores MAX_PORT.
SearchUncapped(t) ==
  /\ tasks[t].stage = "waiting"
  /\ LockFree
  /\ tasks' = [tasks EXCEPT ![t].stage = "searching", ![t].limit = tasks[t].port + MaxSearch - 1]
  /\ UNCHANGED <<reserved, taken, lookup, others, othersCount>>

\* starts the search when it has it.
SearchBegins(t) ==
  /\ tasks[t].stage = "waiting"
  /\ LockFree
  /\ tasks' = [tasks EXCEPT ![t].stage = "searching",
                            ![t].limit = Minimum(MaxPort, tasks[t].port + MaxSearch - 1)]
  /\ UNCHANGED <<reserved, taken, lookup, others, othersCount>>

\* The head of the loop: dies past the limit, skips a reserved port, or asks the
\* cache for it.
SearchLooks(t) ==
  /\ tasks[t].stage = "searching"
  /\ \/ /\ tasks[t].port > tasks[t].limit
        /\ SetTask(t, "exhausted")
        /\ UNCHANGED lookup
     \/ /\ tasks[t].port <= tasks[t].limit
        /\ tasks[t].port \in reserved
        /\ tasks' = [tasks EXCEPT ![t].port = @ + 1]
        /\ UNCHANGED lookup
     \/ /\ tasks[t].port <= tasks[t].limit
        /\ tasks[t].port \notin reserved
        /\ CacheGet(t)
  /\ UNCHANGED <<reserved, taken, others, othersCount>>

\* Mutant: a port that is not available is tried again.
StaysAtPort(t) ==
  /\ tasks[t].stage = "found"
  /\ t \notin Strict
  /\ \/ tasks[t].free /\ Reserve(t) /\ SetTask(t, "granted")
     \/ ~tasks[t].free /\ SetTask(t, "searching") /\ UNCHANGED <<reserved, taken>>
  /\ UNCHANGED <<lookup, others, othersCount>>

\* The cache has answered: the port is reserved and returned, or the next is tried.
SearchGoesOn(t) ==
  /\ tasks[t].stage = "found"
  /\ t \notin Strict
  /\ \/ tasks[t].free /\ Reserve(t) /\ SetTask(t, "granted")
     \/ /\ ~tasks[t].free
        /\ tasks' = [tasks EXCEPT ![t].stage = "searching", ![t].port = @ + 1]
        /\ UNCHANGED <<reserved, taken>>
  /\ UNCHANGED <<lookup, others, othersCount>>

\* find(0): the OS picks a port that is not bound.  It is not reserved, "so a caller
\* handed one can immediately request it back"; only the instance's cache has it.
FindEphemeral(t) ==
  /\ tasks[t].stage = "idle"
  /\ t \in Ephemeral
  /\ \E p \in OsPorts \ Bound :
       /\ tasks' = [tasks EXCEPT ![t].stage = "granted", ![t].port = p]
       /\ taken' = [taken EXCEPT ![InstanceOf[t]] = @ \cup {p}]
  /\ UNCHANGED <<reserved, lookup, others, othersCount>>

-----------------------------------------------------------------------------
(* check(), which takes no lock *)

CheckBegins(t) ==
  /\ tasks[t].stage = "idle"
  /\ t \in Strict
  /\ \/ tasks[t].port \in reserved /\ SetTask(t, "inUse") /\ UNCHANGED lookup
     \/ tasks[t].port \notin reserved /\ CacheGet(t)
  /\ UNCHANGED <<reserved, taken, others, othersCount>>

CheckEnds(t) ==
  /\ tasks[t].stage = "found"
  /\ t \in Strict
  /\ \/ tasks[t].free /\ Reserve(t) /\ SetTask(t, "granted")
     \/ ~tasks[t].free /\ SetTask(t, "inUse") /\ UNCHANGED <<reserved, taken>>
  /\ UNCHANGED <<lookup, others, othersCount>>

-----------------------------------------------------------------------------
(* serve(): workerd binds the port it was given *)

Binds(t) ==
  /\ tasks[t].stage = "granted"
  /\ tasks[t].port \notin Bound
  /\ SetTask(t, "listening")
  /\ UNCHANGED <<reserved, taken, lookup, others, othersCount>>

\* The conditions of serveWithRetry
Retries(t) == t \notin Strict /\ tasks[t].port <= MaxPort /\ tasks[t].attempt < MaxServe

\* EADDRINUSE: find() again from the next port, or give up.
BindFails(t) ==
  /\ tasks[t].stage = "granted"
  /\ tasks[t].port \in Bound
  /\ IF Retries(t)
     THEN tasks' = [tasks EXCEPT ![t].stage = "waiting", ![t].port = @ + 1, ![t].attempt = @ + 1]
     ELSE SetTask(t, "inUse")
  /\ UNCHANGED <<reserved, taken, lookup, others, othersCount>>

\* The server's scope closes.
Closes(t) ==
  /\ tasks[t].stage = "listening"
  /\ SetTask(t, "closed")
  /\ UNCHANGED <<reserved, taken, lookup, others, othersCount>>

-----------------------------------------------------------------------------
(* Time and other programs *)

\* RESERVATION_TTL_MS has passed: long enough for the workerd that won the port
\* to listen, or to fail.
ReservationExpires(p) ==
  /\ p \in reserved
  /\ \A t \in Tasks : tasks[t].stage = "granted" => tasks[t].port # p
  /\ reserved' = reserved \ {p}
  /\ UNCHANGED <<tasks, taken, lookup, others, othersCount>>

CacheExpires(i, p) ==
  /\ p \in taken[i]
  /\ taken' = [taken EXCEPT ![i] = @ \ {p}]
  /\ UNCHANGED <<tasks, reserved, lookup, others, othersCount>>

OtherTakes(p) ==
  /\ othersCount < MaxOthers
  /\ p \notin Bound
  /\ others' = others \cup {p}
  /\ othersCount' = othersCount + 1
  /\ UNCHANGED <<tasks, reserved, taken, lookup>>

OtherReleases(p) ==
  /\ p \in others
  /\ others' = others \ {p}
  /\ UNCHANGED <<tasks, reserved, taken, lookup, othersCount>>

Next ==
  \/ \E t \in Tasks :
       \/ Find(t)
       \/ SearchBegins(t)
       \/ SearchLooks(t)
       \/ SearchGoesOn(t)
       \/ FindEphemeral(t)
       \/ CheckBegins(t)
       \/ CheckEnds(t)
       \/ Binds(t)
       \/ BindFails(t)
       \/ Closes(t)
  \/ \E i \in Instances, p \in Ports : LookupEnds(i, p) \/ CacheExpires(i, p)
  \/ \E p \in Ports : ReservationExpires(p) \/ OtherTakes(p) \/ OtherReleases(p)

Spec == Init /\ [][Next]_vars

\* Fibers run, sockets answer, and the permit goes to whoever waits for it.
Fairness ==
  /\ \A t \in Tasks :
       /\ SF_vars(SearchBegins(t))
       /\ WF_vars(SearchLooks(t)) /\ WF_vars(SearchGoesOn(t))
       /\ WF_vars(CheckEnds(t)) /\ WF_vars(Binds(t) \/ BindFails(t))
  /\ \A i \in Instances, p \in Ports : WF_vars(LookupEnds(i, p))

FairSpec == Spec /\ Fairness

-----------------------------------------------------------------------------
(* Properties *)

Owns(t, p) == tasks[t].port = p /\ tasks[t].stage \in {"granted", "listening"}

\* t has the port that find(0) gave it, not one that a retry has searched for.
FromOs(t) == t \in Ephemeral /\ tasks[t].attempt = 1

\* "Makes allocation atomic across instances": no port is given to two dev servers at
\* a time, by searches of any instances and retries.  (A port of find(0) is not
\* reserved, so a search of another instance may come across it.)
DistinctPorts ==
  \A t, u \in Tasks : t # u =>
    \A p \in Ports : Owns(t, p) /\ Owns(u, p) => FromOs(t) \/ FromOs(u)

\* A port that a search returned stays out of every other search until its server
\* listens: the reservation outlives whatever the other instances do meanwhile.
GrantIsReserved ==
  \A t \in Tasks : tasks[t].stage = "granted" /\ ~FromOs(t) => tasks[t].port \in reserved

\* Every serve() ends: with a server, or with an error.
EveryServeEnds ==
  \A t \in Tasks :
    tasks[t].stage # "idle" ~> tasks[t].stage \in {"listening", "closed", "inUse", "exhausted"}
=============================================================================
