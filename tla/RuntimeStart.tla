---------------------------- MODULE RuntimeStart ----------------------------
(***************************************************************************)
(* Runtime.start (src/Runtime.ts) with what it needs of Workerd.ts,        *)
(* PluginContext.ts and Docker.ts.  A start prepares the plugins and the   *)
(* container image at a time, spawns workerd, waits until it listens, and  *)
(* runs the start hooks of the plugins.  It leaves workerd, an image tag,  *)
(* an alias of the tag and the containers that workerd creates; finalizers *)
(* of the caller's scope and, for a parent that exits without closing its  *)
(* scopes, exit hooks take them away.                                      *)
(*                                                                         *)
(* Starts of one worker follow each other or overlap, each with a tag of   *)
(* its own for the same image, so tags are named by their start.  Effects  *)
(* without asynchronous parts do not interleave: spawning up to the        *)
(* registration of the finalizer, and the finalizers of workerd and alias. *)
(***************************************************************************)
EXTENDS Integers, Sequences

CONSTANTS
  Starts,
  WithEnv,      \* those whose container has environment variables
  MaxRetries    \* Effect.retry's `times'

ASSUME StartsAssumption == WithEnv \subseteq Starts /\ MaxRetries \in Nat

VARIABLES
  stages,       \* [s] how far a start, then its scope, has come
  plugins,      \* [s] preparePlugins has ended
  prebuilt,     \* starts whose container is given by a tag of the user's
  images,       \* [s] how far prepareContainers has come
  tags,         \* Docker: the starts whose tag exists
  aliases,      \* registeredImages
  imageHooks,   \* starts with an exit hook for their containers
  processes,    \* [s] the workerd of each attempt
  containers,   \* [s] the container of the worker's Durable Object
  declined,     \* history: starts for whose cleanup docker has not done all it was told
  exited        \* the parent process has

startVars == <<stages, plugins, prebuilt, images, tags, aliases, imageHooks, processes, containers, declined, exited>>
preparation == <<plugins, prebuilt, images>>
docker == <<tags, aliases, imageHooks>>

InFlight == {"preparing", "serving", "configuring", "booting", "starting"}
ScopeIsOpen == InFlight \cup {"running", "failed"}

StartTypeOK ==
  /\ stages \in [Starts -> {"idle", "cleaning", "removing", "untagging", "closed"} \cup ScopeIsOpen]
  /\ plugins \in [Starts -> BOOLEAN]
  /\ images \in [Starts -> {"none", "building", "built", "broken", "kept", "unusable"}]
  /\ prebuilt \subseteq Starts /\ tags \subseteq Starts /\ aliases \subseteq WithEnv /\ imageHooks \subseteq Starts \ prebuilt
  /\ processes \in [Starts -> Seq({"booting", "listening", "dead"})]
  /\ \A s \in Starts : Len(processes[s]) <= MaxRetries + 1
  /\ containers \in [Starts -> {"none", "requested", "sent", "created", "late", "orphan"}]
  /\ declined \subseteq Starts
  /\ exited \in BOOLEAN

StartInit ==
  /\ stages = [s \in Starts |-> "idle"]
  /\ plugins = [s \in Starts |-> FALSE]
  /\ images = [s \in Starts |-> "none"]
  /\ prebuilt = {}
  /\ tags = {}
  /\ aliases = {}
  /\ imageHooks = {}
  /\ processes = [s \in Starts |-> <<>>]
  /\ containers = [s \in Starts |-> "none"]
  /\ declined = {}
  /\ exited = FALSE

Stage(s, stage) == stages' = [stages EXCEPT ![s] = stage]

-----------------------------------------------------------------------------
(* Preparing *)

StartBegins(s) ==
  /\ stages[s] = "idle"
  /\ Stage(s, "preparing")
  /\ \/ /\ images' = [images EXCEPT ![s] = "building"]
        /\ UNCHANGED <<prebuilt, tags>>
     \/ /\ images' = [images EXCEPT ![s] = "built"]
        /\ prebuilt' = prebuilt \cup {s} /\ tags' = tags \cup {s}
  /\ UNCHANGED <<plugins, aliases, imageHooks, processes, containers, declined, exited>>

PluginsReady(s) ==
  /\ stages[s] = "preparing" /\ ~plugins[s]
  /\ plugins' = [plugins EXCEPT ![s] = TRUE]
  /\ UNCHANGED <<stages, prebuilt, images, docker, processes, containers, declined, exited>>

\* run() reports the exit code of docker, and build() does not look at it: a
\* build that fails leaves no image, and the start goes on.
BuildEnds(s) ==
  /\ stages[s] = "preparing" /\ images[s] = "building"
  /\ \/ tags' = tags \cup {s} /\ images' = [images EXCEPT ![s] = "built"]
     \/ tags' = tags /\ images' = [images EXCEPT ![s] = "broken"]
  /\ UNCHANGED <<stages, plugins, prebuilt, aliases, imageHooks, processes, containers, declined, exited>>

\* validate() passes unless docker does not run; then follow, without a pause,
\* the exit hook, the finalizer and registerImage.  A user's tag has neither of
\* the first two.
ImageKept(s) ==
  /\ stages[s] = "preparing" /\ images[s] \in {"built", "broken"}
  /\ images' = [images EXCEPT ![s] = IF images[s] = "built" THEN "kept" ELSE "unusable"]
  /\ imageHooks' = imageHooks \cup ({s} \ prebuilt)
  /\ aliases' = aliases \cup ({s} \cap WithEnv)
  /\ UNCHANGED <<stages, plugins, prebuilt, tags, processes, containers, declined, exited>>

\* One of the two fails (docker cannot be run, no image to pull, an unknown
\* plugin ...), and the other is interrupted.
PreparationFails(s) ==
  /\ stages[s] = "preparing"
  /\ Stage(s, "failed")
  /\ UNCHANGED <<preparation, docker, processes, containers, declined, exited>>

Prepared(s) ==
  /\ stages[s] = "preparing" /\ plugins[s] /\ images[s] \in {"kept", "unusable"}
  /\ Stage(s, "serving")
  /\ UNCHANGED <<preparation, docker, processes, containers, declined, exited>>

-----------------------------------------------------------------------------
(* Workerd.serve *)

Attempts(s) == Len(processes[s])

\* A SystemError is retried, and what the attempt has added to the scope stays.
SystemErrorAfter(s) == Stage(s, IF Attempts(s) <= MaxRetries THEN "serving" ELSE "failed")

\* With the exit hook and the finalizer that kill it.  A process that cannot be
\* spawned counts as an attempt, with a dead process.
Spawn(s) ==
  /\ stages[s] = "serving"
  /\ \/ processes' = [processes EXCEPT ![s] = Append(@, "booting")] /\ Stage(s, "configuring")
     \/ /\ processes' = [processes EXCEPT ![s] = Append(@, "dead")]
        /\ Stage(s, IF Attempts(s) < MaxRetries THEN "serving" ELSE "failed")
  /\ UNCHANGED <<preparation, docker, containers, declined, exited>>

\* The configuration is written to stdin; if that fails the process may live on.
ConfigureEnds(s) ==
  /\ stages[s] = "configuring"
  /\ Stage(s, "booting") \/ SystemErrorAfter(s)
  /\ UNCHANGED <<preparation, docker, processes, containers, declined, exited>>

\* All sockets of the last attempt listen: the control fd wins the race.
ControlEnds(s) ==
  /\ stages[s] = "booting" /\ processes[s][Attempts(s)] = "booting"
  /\ processes' = [processes EXCEPT ![s][Attempts(s)] = "listening"]
  /\ Stage(s, "starting")
  /\ UNCHANGED <<preparation, docker, containers, declined, exited>>

ProcessDies(s, k) ==
  /\ k <= Attempts(s) /\ processes[s][k] # "dead"
  /\ processes' = [processes EXCEPT ![s][k] = "dead"]
  /\ UNCHANGED <<stages, preparation, docker, containers, declined, exited>>

\* classifyWorkerdError: a ConfigError ends the start
ErrorEnds(s) ==
  /\ stages[s] = "booting" /\ processes[s][Attempts(s)] = "dead"
  /\ Stage(s, "failed") \/ SystemErrorAfter(s)
  /\ UNCHANGED <<preparation, docker, processes, containers, declined, exited>>

\* The start hooks of the plugins, one after the other
HooksEnd(s) ==
  /\ stages[s] = "starting"
  /\ Stage(s, "running") \/ Stage(s, "failed")
  /\ UNCHANGED <<preparation, docker, processes, containers, declined, exited>>

-----------------------------------------------------------------------------
(* Containers: workerd asks Docker's proxy, the proxy asks Docker *)

Listening(s) == \E k \in 1..Attempts(s) : processes[s][k] = "listening"

SetContainer(s, state) == containers' = [containers EXCEPT ![s] = state]

WorkerdCreates(s) ==
  /\ Listening(s) /\ containers[s] = "none"
  /\ SetContainer(s, "requested")
  /\ UNCHANGED <<stages, preparation, docker, processes, declined, exited>>

\* The proxy has read the body; Docker refuses an alias it does not know.
ProxyForwards(s) ==
  /\ containers[s] = "requested" /\ ~exited
  /\ SetContainer(s, IF s \in WithEnv \ aliases THEN "none" ELSE "sent")
  /\ UNCHANGED <<stages, preparation, docker, processes, declined, exited>>

DockerCreates(s) ==
  /\ containers[s] \in {"sent", "late"}
  /\ SetContainer(s, IF s \notin tags THEN "none"
                     ELSE IF containers[s] = "sent" THEN "created" ELSE "orphan")
  /\ UNCHANGED <<stages, preparation, docker, processes, declined, exited>>

\* A request that was on its way when workerd was killed
Overtaken(s) ==
  IF containers[s] \in (IF s \in WithEnv THEN {"sent"} ELSE {"requested", "sent"})
  THEN "late" ELSE containers[s]

-----------------------------------------------------------------------------
(* The scope closes *)

\* Mutant: only the attempt that serves is killed.
LastKilled(s) == [k \in 1..Attempts(s) |-> IF k = Attempts(s) THEN "dead" ELSE processes[s][k]]

AllKilled(s) == [k \in 1..Attempts(s) |-> "dead"]

\* The start has ended, or is interrupted.  The last finalizers run first.
ScopeCloses(s) ==
  /\ stages[s] \in ScopeIsOpen
  /\ processes' = [processes EXCEPT ![s] = AllKilled(s)]
  /\ SetContainer(s, Overtaken(s))
  /\ aliases' = aliases \ {s}
  /\ Stage(s, IF s \in imageHooks THEN "cleaning" ELSE "closed")
  /\ UNCHANGED <<preparation, tags, imageHooks, declined, exited>>

Created(s) == containers[s] \in {"created", "orphan"}

\* removeContainer: list, then rm --force.  run() reports the exit code of docker, and
\* neither looks at it: a list that docker declines is empty.
ListContainers(s) ==
  /\ stages[s] = "cleaning"
  /\ \/ Stage(s, IF Created(s) THEN "removing" ELSE "untagging") /\ UNCHANGED declined
     \/ Created(s) /\ Stage(s, "untagging") /\ declined' = declined \cup {s}
  /\ UNCHANGED <<preparation, docker, processes, containers, exited>>

RemoveContainers(s) ==
  /\ stages[s] = "removing"
  /\ \/ SetContainer(s, "none") /\ UNCHANGED declined
     \/ UNCHANGED containers /\ declined' = declined \cup {s}
  /\ Stage(s, "untagging")
  /\ UNCHANGED <<preparation, docker, processes, exited>>

\* removeImageTag, whatever docker answers, and then the exit hook is removed.
RemoveImageTag(s) ==
  /\ stages[s] = "untagging"
  /\ \/ tags' = tags \ {s} /\ UNCHANGED declined
     \/ UNCHANGED tags /\ declined' = declined \cup {s}
  /\ imageHooks' = imageHooks \ {s}
  /\ Stage(s, "closed")
  /\ UNCHANGED <<preparation, aliases, processes, containers, exited>>

\* Docker cannot be run: the rest of the finalizer is skipped.
CleanupFails(s) ==
  /\ stages[s] \in {"cleaning", "removing"}
  /\ Stage(s, "closed")
  /\ UNCHANGED <<preparation, docker, processes, containers, declined, exited>>

\* The parent exits: the exit hooks kill every workerd whose finalizer has not run,
\* and removeContainerSync tries to remove the containers; the proxy is gone.
ParentExits ==
  /\ ~exited
  /\ exited' = TRUE
  /\ processes' = [s \in Starts |-> AllKilled(s)]
  /\ \E failing \in SUBSET {s \in imageHooks : Created(s)} :
       /\ containers' = [s \in Starts |->
            CASE s \in imageHooks \ failing /\ Created(s) -> "none"
              [] containers[s] = "requested" -> "none"
              [] OTHER -> Overtaken(s)]
       /\ declined' = declined \cup failing
  /\ imageHooks' = {}
  /\ aliases' = {}
  /\ UNCHANGED <<stages, preparation, tags>>

StartNext ==
  \/ /\ ~exited
     /\ \E s \in Starts :
          \/ StartBegins(s) \/ PluginsReady(s) \/ BuildEnds(s) \/ ImageKept(s)
          \/ PreparationFails(s) \/ Prepared(s)
          \/ Spawn(s) \/ ConfigureEnds(s) \/ ControlEnds(s) \/ ErrorEnds(s) \/ HooksEnd(s)
          \/ \E k \in 1..(MaxRetries + 1) : ProcessDies(s, k)
          \/ WorkerdCreates(s) \/ ProxyForwards(s)
          \/ ScopeCloses(s) \/ ListContainers(s) \/ RemoveContainers(s) \/ RemoveImageTag(s)
          \/ CleanupFails(s)
  \/ \E s \in Starts : DockerCreates(s)
  \/ ParentExits

StartSpec == StartInit /\ [][StartNext]_startVars

-----------------------------------------------------------------------------
(* Properties *)

Gone(s) == exited \/ stages[s] = "closed"

\* When a start's scope has closed or the parent has exited, no workerd of any
\* attempt lives and no alias is left; no container but the user's, one that Docker
\* was asked for when workerd was killed, one that docker declined to list or remove,
\* or one left to the exit hook since docker could not be run; and no tag but for
\* these reasons, or when the start failed before the tag had a finalizer.
NothingOutlivesItsScope ==
  \A s \in Starts : Gone(s) =>
    /\ \A k \in 1..Attempts(s) : processes[s][k] = "dead"
    /\ s \notin aliases
    /\ s \notin prebuilt /\ containers[s] = "created" => s \in imageHooks \cup declined
    /\ s \in tags \ prebuilt /\ ~exited => s \in imageHooks \cup declined \/ images[s] = "built"

\* "Each start cleans up ONLY its own image tag when its scope closes": the image
\* of a start whose scope is open is there, and so are the user's images.
LiveImagesStay ==
  /\ \A s \in Starts : images[s] = "kept" /\ stages[s] \in ScopeIsOpen => s \in tags
  /\ prebuilt \subseteq tags

\* Cleaning up takes away what a start has made, and nothing else.
CleanupIsExact == NothingOutlivesItsScope /\ LiveImagesStay
=============================================================================
