--------------------------- MODULE RegistryTargets ---------------------------
(***************************************************************************)
(* How a worker learns where the workers it is bound to run                *)
(* (src/registry/RegistryProxy.ts, RegistryProxy.worker.ts).  Its registry *)
(* proxy, a service inside its workerd, holds a map of targets: it is      *)
(* built into the service's code when the worker is configured, and pushed *)
(* by HTTP whenever the registry changes once the worker runs.  Requests   *)
(* resolve their target in that map.                                       *)
(*                                                                         *)
(* The registry here is its SubscriptionRef (module Registry has the       *)
(* files), reduced to one target: its debug port address.                  *)
(***************************************************************************)
EXTENDS Integers, Sequences

CONSTANTS
  DebugPorts,      \* debug port addresses of the target
  NotRunning,      \* the map has no entry for it
  MaxChanges       \* bound: changes of the registry

ASSUME DebugPortsAssumption == NotRunning \notin DebugPorts /\ MaxChanges \in Nat

VARIABLES
  registered,      \* the registry's target
  changes,         \* so far
  worker,          \* the subscribing worker: "down", "booting", "running"
  value,           \* the target in the proxy's map
  subscription,    \* changes that the stream has not yet passed on
  emitted,         \* what Stream.changes let through last
  pusher,          \* the fiber: "idle", "posting" (what it emitted) or "failed"
  resolved         \* what a resolver has cached

targetVars == <<registered, changes, worker, value, subscription, emitted, pusher, resolved>>

RegistryTarget == DebugPorts \cup {NotRunning}

TargetsTypeOK ==
  /\ registered \in RegistryTarget
  /\ changes \in 0..MaxChanges
  /\ worker \in {"down", "booting", "running"}
  /\ value \in RegistryTarget
  /\ subscription \in Seq(RegistryTarget)
  /\ emitted \in RegistryTarget
  /\ pusher \in {"idle", "posting", "failed"}
  /\ resolved \in RegistryTarget

TargetsInit ==
  /\ registered = NotRunning
  /\ changes = 0
  /\ worker = "down"
  /\ value = NotRunning
  /\ subscription = <<>>
  /\ emitted = NotRunning
  /\ pusher = "idle"
  /\ resolved = NotRunning

-----------------------------------------------------------------------------
\* The target starts, stops, or starts again elsewhere.
RegistryChanges(t) ==
  /\ t # registered
  /\ changes < MaxChanges
  /\ changes' = changes + 1
  /\ registered' = t
  /\ subscription' = IF worker = "running" THEN Append(subscription, t) ELSE subscription
  /\ UNCHANGED <<worker, value, emitted, pusher, resolved>>

\* defer: registry.read() and buildWorkerModules()
ConfigureWorker ==
  /\ worker = "down"
  /\ worker' = "booting"
  /\ value' = registered
  /\ UNCHANGED <<registered, changes, subscription, emitted, pusher, resolved>>

\* Mutant: only later changes are pushed.
StartWithoutCurrent ==
  /\ worker = "booting"
  /\ worker' = "running"
  /\ subscription' = <<>>
  /\ emitted' = value
  /\ UNCHANGED <<registered, changes, value, pusher, resolved>>

\* start: the subscription begins with the current target, which may have changed
\* since the worker was configured.  It is pushed in any case.
StartSubscribed ==
  /\ worker = "booting"
  /\ worker' = "running"
  /\ emitted' = registered
  /\ pusher' = "posting"
  /\ UNCHANGED <<registered, changes, value, subscription, resolved>>

\* Stream.changes skips what was emitted last; runForEach posts one by one.
Emit ==
  /\ pusher = "idle"
  /\ subscription # <<>>
  /\ subscription' = Tail(subscription)
  /\ emitted' = Head(subscription)
  /\ pusher' = IF emitted' = emitted THEN "idle" ELSE "posting"
  /\ UNCHANGED <<registered, changes, worker, value, resolved>>

\* Target.set()
PostArrives ==
  /\ pusher = "posting"
  /\ value' = emitted
  /\ pusher' = "idle"
  /\ UNCHANGED <<registered, changes, worker, subscription, emitted, resolved>>

\* The request fails, and with it the fiber: nothing is ever pushed again.
PostFails ==
  /\ pusher = "posting"
  /\ pusher' = "failed"
  /\ UNCHANGED <<registered, changes, worker, value, subscription, emitted, resolved>>

\* A request resolves its target: the cached fetcher is kept while the address is
\* the same.  Without a target services and objects answer 503, and a message for
\* a queue is accepted and dropped.
Resolve ==
  /\ worker = "running"
  /\ resolved' = value
  /\ UNCHANGED <<registered, changes, worker, value, subscription, emitted, pusher>>

TargetsNext ==
  \/ \E t \in RegistryTarget : RegistryChanges(t)
  \/ ConfigureWorker
  \/ StartSubscribed
  \/ Emit
  \/ PostArrives
  \/ PostFails
  \/ Resolve

TargetsSpec == TargetsInit /\ [][TargetsNext]_targetVars

\* The fiber runs, a request over the loopback interface ends, and users go on
\* sending requests.
TargetsFairness ==
  /\ WF_targetVars(Emit)
  /\ WF_targetVars(PostArrives \/ PostFails)
  /\ WF_targetVars(Resolve)

-----------------------------------------------------------------------------
(* Properties *)

\* Unless a push has failed, the requests of a running worker end up at the target
\* that the registry has, however the target started, moved or stopped while the
\* worker was configured and started.
RequestsFollowRegistry ==
  <>[](worker = "running") =>
    \/ <>(pusher = "failed")
    \/ <>[](resolved = registered)

\* When nothing is left to push, the map in the proxy of a running worker is the
\* registry's: neither a change between configuration and subscription, nor one that
\* Stream.changes skipped, is missing.
MapIsCurrent ==
  worker = "running" /\ pusher = "idle" /\ subscription = <<>> => value = registered
=============================================================================
