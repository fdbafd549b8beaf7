---------------------------- MODULE LifecycleProofs ----------------------------
(***************************************************************************)
(* For any starts of a runtime, and any edits of a dev server's entry:     *)
(* cleaning up is exact, and an open dev server has one runtime.           *)
(***************************************************************************)
EXTENDS RuntimeStart, DevServer, SequenceTheorems, TLAPS

-----------------------------------------------------------------------------
(* Starts: what a start has made, per stage *)

ScopeIsClosing == {"cleaning", "removing", "untagging"}

\* An attempt is made with prepared containers, and not after the scope.
AttemptsFit(s) ==
  /\ stages[s] \in {"idle", "preparing"} => processes[s] = <<>>
  /\ stages[s] = "serving" => Attempts(s) <= MaxRetries
  /\ stages[s] \in {"configuring", "booting"} => Attempts(s) > 0
  /\ stages[s] \in ScopeIsClosing \cup {"closed"} \/ exited =>
       \A k \in 1..Attempts(s) : processes[s][k] = "dead"
  /\ processes[s] # <<>> \/ stages[s] \in {"serving", "configuring", "booting", "starting", "running"} =>
       images[s] \in {"kept", "unusable"}

\* Exit hooks go with the image that they are for, and stay when docker cannot be run.
HooksFit(s) ==
  /\ s \in imageHooks => images[s] \in {"kept", "unusable"} /\ ~exited
  /\ images[s] \in {"kept", "unusable"} /\ stages[s] \in ScopeIsOpen /\ ~exited =>
       s \in imageHooks \cup prebuilt
  /\ stages[s] \in ScopeIsClosing /\ ~exited => s \in imageHooks
  /\ s \in aliases => stages[s] \in ScopeIsOpen /\ ~exited

TagsFit(s) ==
  /\ stages[s] = "idle" => images[s] = "none" /\ s \notin prebuilt
  /\ s \in prebuilt => s \in tags
  /\ s \in tags => images[s] \in {"built", "kept"}
  /\ images[s] \in {"built", "kept"} /\ stages[s] \in ScopeIsOpen => s \in tags
  /\ stages[s] = "closed" /\ s \in tags \ prebuilt /\ ~exited =>
       s \in imageHooks \cup declined \/ images[s] = "built"

\* Only workerd asks for a container, and a request of it that is on its way when
\* it is killed is late, unless its alias stops it.
ContainersFit(s) ==
  /\ containers[s] # "none" => images[s] \in {"kept", "unusable"}
  /\ containers[s] = "sent" => stages[s] \in ScopeIsOpen /\ ~exited
  /\ containers[s] = "requested" => stages[s] \in ScopeIsOpen \/ s \in WithEnv
  /\ containers[s] = "requested" => ~exited
  /\ containers[s] = "created" => s \in imageHooks \cup prebuilt \cup declined
  /\ stages[s] = "untagging" /\ containers[s] = "created" => s \in declined

StartFits(s) == AttemptsFit(s) /\ HooksFit(s) /\ TagsFit(s) /\ ContainersFit(s)

StartInv == StartTypeOK /\ \A s \in Starts : StartFits(s)

LEMMA FittingIsExact == StartInv => CleanupIsExact
<1>. SUFFICES ASSUME StartInv PROVE CleanupIsExact
  OBVIOUS
<1>1. prebuilt \subseteq Starts
  BY DEF StartInv, StartTypeOK
<1>2. NothingOutlivesItsScope
  BY DEF StartInv, StartFits, AttemptsFit, HooksFit, TagsFit, ContainersFit, NothingOutlivesItsScope, Gone,
         ScopeIsOpen, InFlight
<1>3. LiveImagesStay
  BY <1>1 DEF StartInv, StartFits, TagsFit, LiveImagesStay
<1>. QED  BY <1>2, <1>3 DEF CleanupIsExact

LEMMA StartInitInv == StartInit => StartInv
<1>. SUFFICES ASSUME StartInit PROVE StartInv
  OBVIOUS
<1>1. StartTypeOK
  <2>1. processes \in [Starts -> Seq({"booting", "listening", "dead"})]
        /\ \A s \in Starts : Len(processes[s]) <= MaxRetries + 1
    BY StartsAssumption DEF StartInit
  <2>. QED  BY <2>1 DEF StartInit, StartTypeOK, ScopeIsOpen, InFlight
<1>2. ASSUME NEW s \in Starts PROVE StartFits(s)
  BY StartsAssumption DEF StartInit, StartFits, AttemptsFit, HooksFit, TagsFit, ContainersFit, Attempts,
     ScopeIsClosing, ScopeIsOpen, InFlight
<1>. QED  BY <1>1, <1>2 DEF StartInv

\* A step of one start leaves the others alone.
Only(s) ==
  /\ exited' = exited
  /\ \A t \in Starts \ {s} :
       /\ stages'[t] = stages[t] /\ images'[t] = images[t]
       /\ processes'[t] = processes[t] /\ containers'[t] = containers[t]
       /\ (t \in tags') = (t \in tags) /\ (t \in aliases') = (t \in aliases)
       /\ (t \in prebuilt') = (t \in prebuilt) /\ (t \in imageHooks') = (t \in imageHooks)
       /\ (t \in declined') = (t \in declined)

LEMMA OneStartAtATime ==
  ASSUME StartInv, NEW s \in Starts, Only(s), StartTypeOK', StartFits(s)' PROVE StartInv'
<1>1. ASSUME NEW t \in Starts \ {s} PROVE StartFits(t)'
  <2>1. StartFits(t)
    BY DEF StartInv
  <2>2. AttemptsFit(t)'
    BY <2>1 DEF Only, StartFits, AttemptsFit, Attempts
  <2>3. HooksFit(t)' /\ TagsFit(t)' /\ ContainersFit(t)'
    BY <2>1 DEF Only, StartFits, HooksFit, TagsFit, ContainersFit
  <2>. QED  BY <2>2, <2>3 DEF StartFits
<1>. QED  BY <1>1 DEF StartInv

\* Preparation
LEMMA PreparingFits ==
  ASSUME StartInv, NEW s \in Starts, ~exited,
         StartBegins(s) \/ PluginsReady(s) \/ BuildEnds(s) \/ ImageKept(s)
  PROVE  StartInv'
<1>. USE StartsAssumption DEF StartBegins, PluginsReady, BuildEnds, ImageKept, Stage, docker, preparation, ScopeIsOpen, InFlight
<1>0. StartTypeOK /\ StartFits(s)
  BY DEF StartInv
<1>1. StartTypeOK'
  <2>1. CASE StartBegins(s)
    <3>1. s \notin imageHooks
      BY <1>0, <2>1 DEF StartFits, TagsFit, HooksFit
    <3>2. stages' \in [Starts -> {"idle", "cleaning", "removing", "untagging", "closed"} \cup ScopeIsOpen]
      BY <1>0, <2>1 DEF StartTypeOK
    <3>3. PICK image \in {"building", "built"} : images' = [images EXCEPT ![s] = image]
      BY <2>1
    <3>4. images' \in [Starts -> {"none", "building", "built", "broken", "kept", "unusable"}]
      BY <1>0, <3>3 DEF StartTypeOK
    <3>5. prebuilt' \in {prebuilt, prebuilt \cup {s}} /\ tags' \in {tags, tags \cup {s}}
      BY <2>1
    <3>. QED  BY <1>0, <2>1, <3>1, <3>2, <3>4, <3>5 DEF StartTypeOK
  <2>4. CASE PluginsReady(s)
    BY <1>0, <2>4 DEF StartTypeOK
  <2>2. CASE BuildEnds(s)
    BY <1>0, <2>2 DEF StartTypeOK
  <2>3. CASE ImageKept(s)
    BY <1>0, <2>3 DEF StartTypeOK
  <2>. QED  BY <2>1, <2>2, <2>3, <2>4
<1>2. Only(s)
  BY <1>0 DEF Only, StartTypeOK
<1>3. AttemptsFit(s)'
  BY <1>0 DEF StartFits, StartTypeOK, AttemptsFit, Attempts, ScopeIsClosing
<1>4. HooksFit(s)'
  BY <1>0 DEF StartFits, StartTypeOK, HooksFit, ScopeIsClosing, TagsFit
<1>5. TagsFit(s)'
  BY <1>0 DEF StartFits, StartTypeOK, TagsFit, HooksFit, ScopeIsClosing
<1>6. ContainersFit(s)'
  BY <1>0 DEF StartFits, StartTypeOK, ContainersFit, HooksFit, TagsFit
<1>. QED  BY <1>1, <1>2, <1>3, <1>4, <1>5, <1>6, OneStartAtATime DEF StartFits

\* Where only the stage changes
LEMMA StageFits ==
  ASSUME StartInv, NEW s \in Starts, ~exited,
         PreparationFails(s) \/ Prepared(s) \/ ConfigureEnds(s) \/ ErrorEnds(s) \/ HooksEnd(s) \/ ListContainers(s) \/ CleanupFails(s)
  PROVE  StartInv'
<1>. USE StartsAssumption DEF PreparationFails, Prepared, ConfigureEnds, ErrorEnds, HooksEnd, ListContainers, CleanupFails, Stage, docker, preparation, ScopeIsOpen, InFlight
<1>0. StartTypeOK /\ StartFits(s)
  BY DEF StartInv
<1>1. StartTypeOK'
  <2>1. stages' \in [Starts -> {"idle", "cleaning", "removing", "untagging", "closed"} \cup ScopeIsOpen]
    BY <1>0 DEF StartTypeOK, SystemErrorAfter
  <2>2. /\ UNCHANGED <<plugins, prebuilt, images, tags, aliases, imageHooks, processes, containers, exited>>
        /\ declined' \in {declined, declined \cup {s}}
    OBVIOUS
  <2>. QED  BY <1>0, <2>1, <2>2 DEF StartTypeOK
<1>2. Only(s)
  BY <1>0 DEF Only, StartTypeOK, SystemErrorAfter
<1>3. AttemptsFit(s)'
  BY <1>0 DEF StartFits, StartTypeOK, AttemptsFit, Attempts, ScopeIsClosing, SystemErrorAfter
<1>4. HooksFit(s)'
  BY <1>0 DEF StartFits, StartTypeOK, HooksFit, ScopeIsClosing, SystemErrorAfter
<1>5. TagsFit(s)'
  BY <1>0 DEF StartFits, StartTypeOK, TagsFit, HooksFit, ScopeIsClosing, SystemErrorAfter
<1>6. ContainersFit(s)'
  BY <1>0 DEF StartFits, StartTypeOK, ContainersFit, HooksFit, SystemErrorAfter, Created
<1>. QED  BY <1>1, <1>2, <1>3, <1>4, <1>5, <1>6, OneStartAtATime DEF StartFits

\* The attempts
LEMMA AttemptsKeepFitting ==
  ASSUME StartInv, NEW s \in Starts, ~exited,
         Spawn(s) \/ ControlEnds(s) \/ \E k \in 1..(MaxRetries + 1) : ProcessDies(s, k)
  PROVE  StartInv'
<1>. USE StartsAssumption DEF Spawn, ControlEnds, ProcessDies, Stage, docker, preparation, ScopeIsOpen, InFlight
<1>0. StartTypeOK /\ StartFits(s)
  BY DEF StartInv
<1>1. StartTypeOK'
  <2>. DEFINE Process == {"booting", "listening", "dead"}
  <2>1. stages' \in [Starts -> {"idle", "cleaning", "removing", "untagging", "closed"} \cup ScopeIsOpen]
    BY <1>0 DEF StartTypeOK
  <2>2. processes' \in [Starts -> Seq(Process)]
    <3>1. processes[s] \in Seq(Process)
      BY <1>0 DEF StartTypeOK
    <3>2. CASE Spawn(s)
      <4>1. PICK x \in Process : processes' = [processes EXCEPT ![s] = Append(processes[s], x)]
        BY <3>2 DEF Spawn
      <4>2. Append(processes[s], x) \in Seq(Process)
        BY <3>1
      <4>. QED  BY <1>0, <4>1, <4>2 DEF StartTypeOK
    <3>3. ASSUME NEW k \in 1..Len(processes[s]), NEW x \in Process,
                 processes' = [processes EXCEPT ![s][k] = x]
          PROVE  processes' \in [Starts -> Seq(Process)]
      <4>1. [processes[s] EXCEPT ![k] = x] \in Seq(Process)
        BY <3>1
      <4>. QED  BY <1>0, <3>3, <4>1 DEF StartTypeOK
    <3>4. CASE ControlEnds(s)
      <4>1. Len(processes[s]) \in 1..Len(processes[s])
        BY <1>0, <3>1, <3>4 DEF ControlEnds, StartFits, AttemptsFit, Attempts
      <4>2. processes' = [processes EXCEPT ![s][Len(processes[s])] = "listening"]
        BY <3>4 DEF ControlEnds, Attempts
      <4>. QED  BY <3>3, <4>1, <4>2
    <3>. QED  BY <3>1, <3>2, <3>3, <3>4 DEF Attempts
  <2>3. \A t \in Starts : Len(processes'[t]) <= MaxRetries + 1
    <3>1. processes[s] \in Seq(Process) /\ Len(processes[s]) <= MaxRetries + 1 /\ Len(processes[s]) \in Nat
      BY <1>0 DEF StartTypeOK
    <3>2. Len(processes'[s]) <= MaxRetries + 1
      <4>1. CASE Spawn(s)
        BY <1>0, <3>1, <4>1 DEF StartTypeOK, StartFits, AttemptsFit, Attempts
      <4>2. CASE ControlEnds(s) \/ \E k \in 1..(MaxRetries + 1) : ProcessDies(s, k)
        BY <1>0, <3>1, <4>2 DEF StartTypeOK
      <4>. QED  BY <4>1, <4>2
    <3>. QED  BY <1>0, <3>2 DEF StartTypeOK
  <2>. QED  BY <1>0, <2>1, <2>2, <2>3 DEF StartTypeOK
<1>2. Only(s)
  BY <1>0 DEF Only, StartTypeOK
<1>3. AttemptsFit(s)'
  BY <1>0 DEF StartFits, StartTypeOK, AttemptsFit, Attempts, ScopeIsClosing
<1>4. HooksFit(s)'
  BY <1>0 DEF StartFits, StartTypeOK, HooksFit, ScopeIsClosing
<1>5. TagsFit(s)'
  BY <1>0 DEF StartFits, StartTypeOK, TagsFit, HooksFit, ScopeIsClosing
<1>6. ContainersFit(s)'
  BY <1>0 DEF StartFits, StartTypeOK, ContainersFit, HooksFit
<1>. QED  BY <1>1, <1>2, <1>3, <1>4, <1>5, <1>6, OneStartAtATime DEF StartFits

\* The container
LEMMA ContainerFits ==
  ASSUME StartInv, NEW s \in Starts, ~exited,
         WorkerdCreates(s) \/ ProxyForwards(s) \/ RemoveContainers(s)
  PROVE  StartInv'
<1>. USE StartsAssumption DEF WorkerdCreates, ProxyForwards, RemoveContainers, Stage, docker, preparation, ScopeIsOpen, InFlight
<1>0. StartTypeOK /\ StartFits(s)
  BY DEF StartInv
<1>1. StartTypeOK'
  <2>1. stages' \in [Starts -> {"idle", "cleaning", "removing", "untagging", "closed"} \cup ScopeIsOpen]
    BY <1>0 DEF StartTypeOK
  <2>2. containers' \in [Starts -> {"none", "requested", "sent", "created", "late", "orphan"}]
    BY <1>0 DEF StartTypeOK, SetContainer
  <2>. QED  BY <1>0, <2>1, <2>2 DEF StartTypeOK
<1>2. Only(s)
  BY <1>0 DEF Only, StartTypeOK, SetContainer
<1>3. AttemptsFit(s)'
  BY <1>0 DEF StartFits, StartTypeOK, AttemptsFit, Attempts, ScopeIsClosing, SetContainer
<1>4. HooksFit(s)'
  BY <1>0 DEF StartFits, StartTypeOK, HooksFit, ScopeIsClosing, SetContainer
<1>5. TagsFit(s)'
  BY <1>0 DEF StartFits, StartTypeOK, TagsFit, HooksFit, ScopeIsClosing, SetContainer
<1>6. ContainersFit(s)'
  <2>1. WorkerdCreates(s) => stages[s] \in ScopeIsOpen /\ images[s] \in {"kept", "unusable"}
    BY <1>0 DEF StartFits, StartTypeOK, AttemptsFit, Listening, Attempts, ScopeIsClosing
  <2>. QED  BY <1>0, <2>1 DEF StartFits, StartTypeOK, ContainersFit, HooksFit, SetContainer
<1>. QED  BY <1>1, <1>2, <1>3, <1>4, <1>5, <1>6, OneStartAtATime DEF StartFits

\* The end of the scope
LEMMA ClosingFits ==
  ASSUME StartInv, NEW s \in Starts, ~exited,
         ScopeCloses(s) \/ RemoveImageTag(s)
  PROVE  StartInv'
<1>. USE StartsAssumption DEF ScopeCloses, RemoveImageTag, Stage, docker, preparation, ScopeIsOpen, InFlight
<1>0. StartTypeOK /\ StartFits(s)
  BY DEF StartInv
<1>1. StartTypeOK'
  <2>1. stages' \in [Starts -> {"idle", "cleaning", "removing", "untagging", "closed"} \cup ScopeIsOpen]
    BY <1>0 DEF StartTypeOK
  <2>2. containers' \in [Starts -> {"none", "requested", "sent", "created", "late", "orphan"}]
    BY <1>0 DEF StartTypeOK, SetContainer, Overtaken
  <2>3. AllKilled(s) \in Seq({"booting", "listening", "dead"}) /\ Len(AllKilled(s)) = Len(processes[s])
    BY <1>0 DEF StartTypeOK, AllKilled, Attempts
  <2>4. processes' \in [Starts -> Seq({"booting", "listening", "dead"})]
    <3>1. processes' = processes \/ processes' = [processes EXCEPT ![s] = AllKilled(s)]
      OBVIOUS
    <3>. QED  BY <1>0, <2>3, <3>1 DEF StartTypeOK
  <2>5. \A t \in Starts : Len(processes'[t]) <= MaxRetries + 1
    BY <1>0, <2>3 DEF StartTypeOK
  <2>. QED  BY <1>0, <2>1, <2>2, <2>4, <2>5 DEF StartTypeOK
<1>2. Only(s)
  BY <1>0 DEF Only, StartTypeOK, SetContainer
<1>3. AttemptsFit(s)'
  BY <1>0 DEF StartFits, StartTypeOK, AttemptsFit, Attempts, ScopeIsClosing, SetContainer, AllKilled
<1>4. HooksFit(s)'
  BY <1>0 DEF StartFits, StartTypeOK, HooksFit, ScopeIsClosing, SetContainer
<1>5. TagsFit(s)'
  BY <1>0 DEF StartFits, StartTypeOK, TagsFit, HooksFit, ScopeIsClosing, SetContainer, ContainersFit, Created
<1>6. ContainersFit(s)'
  BY <1>0 DEF StartFits, StartTypeOK, ContainersFit, HooksFit, SetContainer, Overtaken
<1>. QED  BY <1>1, <1>2, <1>3, <1>4, <1>5, <1>6, OneStartAtATime DEF StartFits

\* Docker answers whenever it does, after the end of the parent too.
LEMMA DockerFits == ASSUME StartInv, NEW s \in Starts, DockerCreates(s) PROVE StartInv'
<1>. USE StartsAssumption DEF DockerCreates, preparation, docker, SetContainer
<1>0. StartTypeOK /\ StartFits(s)
  BY DEF StartInv
<1>1. StartTypeOK'
  BY <1>0 DEF StartTypeOK
<1>2. Only(s)
  BY <1>0 DEF Only, StartTypeOK
<1>3. AttemptsFit(s)' /\ HooksFit(s)'
  BY <1>0 DEF StartFits, AttemptsFit, HooksFit, Attempts
<1>4. TagsFit(s)'
  BY <1>0 DEF StartFits, StartTypeOK, TagsFit, ContainersFit, ScopeIsOpen, InFlight
<1>5. ContainersFit(s)'
  BY <1>0 DEF StartFits, StartTypeOK, TagsFit, HooksFit, ContainersFit, ScopeIsOpen, InFlight
<1>. QED  BY <1>1, <1>2, <1>3, <1>4, <1>5, OneStartAtATime DEF StartFits

LEMMA ExitFits == ASSUME StartInv, ParentExits PROVE StartInv'
<1>. USE StartsAssumption DEF ParentExits, preparation
<1>0. StartTypeOK
  BY DEF StartInv
<1>1. PICK failing \in SUBSET {s \in imageHooks : Created(s)} :
        /\ containers' = [s \in Starts |->
             CASE s \in imageHooks \ failing /\ Created(s) -> "none"
               [] containers[s] = "requested" -> "none"
               [] OTHER -> Overtaken(s)]
        /\ declined' = declined \cup failing
  OBVIOUS
<1>2. StartTypeOK'
  <2>. DEFINE States == {"none", "requested", "sent", "created", "late", "orphan"}
              Process == {"booting", "listening", "dead"}
  <2>1. \A s \in Starts : AllKilled(s) \in Seq(Process) /\ Len(AllKilled(s)) = Len(processes[s])
    BY <1>0 DEF StartTypeOK, AllKilled, Attempts
  <2>2. processes' \in [Starts -> Seq(Process)] /\ \A s \in Starts : Len(processes'[s]) <= MaxRetries + 1
    BY <1>0, <2>1 DEF StartTypeOK
  <2>3. \A s \in Starts : Overtaken(s) \in States
    BY <1>0 DEF StartTypeOK, Overtaken
  <2>4. containers' \in [Starts -> States]
    BY <1>1, <2>3
  <2>5. declined' \subseteq Starts
    BY <1>0, <1>1 DEF StartTypeOK
  <2>. QED  BY <1>0, <2>2, <2>4, <2>5 DEF StartTypeOK
<1>3. ASSUME NEW s \in Starts PROVE StartFits(s)'
  <2>0. StartFits(s)
    BY <1>3 DEF StartInv
  <2>1. AttemptsFit(s)'
    BY <1>0, <1>1, <2>0 DEF StartTypeOK, StartFits, AttemptsFit, Attempts, AllKilled
  <2>2. HooksFit(s)' /\ TagsFit(s)'
    BY <1>1, <2>0 DEF StartFits, HooksFit, TagsFit
  <2>3. ContainersFit(s)'
    BY <1>0, <1>1, <2>0 DEF StartTypeOK, StartFits, ContainersFit, Created, Overtaken
  <2>. QED  BY <2>1, <2>2, <2>3 DEF StartFits
<1>. QED  BY <1>2, <1>3 DEF StartInv

LEMMA StartNextPreserves == StartInv /\ [StartNext]_startVars => StartInv'
<1>. SUFFICES ASSUME StartInv, [StartNext]_startVars PROVE StartInv'
  OBVIOUS
<1>1. CASE UNCHANGED startVars
  BY <1>1 DEF startVars, StartInv, StartTypeOK, StartFits, AttemptsFit, HooksFit, TagsFit, ContainersFit, Attempts
<1>2. CASE StartNext
  BY <1>2, PreparingFits, StageFits, AttemptsKeepFitting, ContainerFits, ClosingFits, DockerFits, ExitFits
  DEF StartNext
<1>. QED  BY <1>1, <1>2

\* What each start has made fits how far it has come, in every execution.
THEOREM StartInvariance == StartSpec => []StartInv
<1>. QED  BY StartInitInv, StartNextPreserves, PTL DEF StartSpec

\* Every variable of the starts keeps its type.
THEOREM StartTypeCorrect == StartSpec => []StartTypeOK
<1>1. StartInv => StartTypeOK
  BY DEF StartInv
<1>. QED  BY <1>1, StartInvariance, PTL

\* Whatever the starts, retries and failures, with the parent exiting at any moment:
\* cleaning up takes away what a start has made, but for what docker is asked for too
\* late or declines to remove, and nothing else.
THEOREM StartsCleanUp == StartSpec => []CleanupIsExact
<1>. QED  BY FittingIsExact, StartInvariance, PTL

-----------------------------------------------------------------------------
(* The dev server *)

Live(n) == runtimes[n].state \in {"starting", "up"}

\* The one runtime that may live, per step of a restart: the handle's until it is
\* closed, then the one just started.
Latest == Len(runtimes)
OneLives ==
  /\ restart = "none" => \A n \in Built : Live(n) => n = handle
  /\ restart = "closing" => \A n \in Built : ~Live(n)
  /\ restart \in {"starting", "connecting"} => \A n \in Built : Live(n) => n = Latest
  /\ restart = "connecting" => handle = Latest /\ runtimes[Latest].state = "up"
  /\ handle # 0

\* It was generated for what was last reported, unless another restart is to come.
UpToDate ==
  /\ restart = "none" /\ ~failed => Serves(handle)
  /\ restart = "none" /\ ~failed /\ queued = 0 => runtimes[handle].exports = exportTypes
  /\ restart \in {"starting", "connecting"} /\ queued = 0 => runtimes[Latest].exports = exportTypes

DevInv ==
  /\ DevTypeOK
  /\ Open => OneLives /\ UpToDate

RuntimeType == [exports : Exports, state : {"starting", "up", "stopped", "abandoned"},
                loaded : Exports \cup {Broken, NotLoaded}, updating : BOOLEAN]
ReportType(n) == [from : 1..n, event : {"reply", "hmr"}, exports : Exports \cup {Broken}]

\* The runtimes after one of them has changed
Changed(n, r) == [runtimes EXCEPT ![n] = r]

LEMMA ChangedRuntimes ==
  ASSUME runtimes \in Seq(RuntimeType), NEW n \in Built, NEW r \in RuntimeType
  PROVE  /\ Changed(n, r) \in Seq(RuntimeType) /\ Len(Changed(n, r)) = Len(runtimes)
         /\ Changed(n, r)[n] = r /\ \A m \in Built \ {n} : Changed(n, r)[m] = runtimes[m]
BY DEF Changed, Built

LEMMA MoreReports ==
  ASSUME NEW S, NEW T, S \subseteq T, NEW q \in Seq(S) PROVE q \in Seq(T)
OBVIOUS

LEMMA DevInitInv == DevInit => DevInv
<1>. SUFFICES ASSUME DevInit PROVE DevInv
  OBVIOUS
<1>. USE ExportsAssumption DEF DevInit
<1>1. Fresh(Configured, "up") \in RuntimeType
  BY DEF Fresh, RuntimeType
<1>2. runtimes \in Seq(RuntimeType) /\ Len(runtimes) = 1 /\ runtimes[1] = Fresh(Configured, "up")
  BY <1>1
<1>3. DevTypeOK
  <2>1. Built = {1} /\ runtimes \in Seq(RuntimeType)
    BY <1>2 DEF Built
  <2>2. reports \in Seq(ReportType(Len(runtimes)))
    OBVIOUS
  <2>3. 0 \in 0..MaxEdits
    OBVIOUS
  <2>. QED  BY <2>1, <2>2, <2>3 DEF DevTypeOK, RuntimeType, ReportType, Built
<1>4. OneLives /\ UpToDate
  BY <1>2 DEF OneLives, UpToDate, Live, Serves, Latest, Built, Fresh
<1>. QED  BY <1>3, <1>4 DEF DevInv

\* Steps that leave alone what runtimes are for and whether they live
LEMMA QuietStep ==
  ASSUME DevInv, DevTypeOK', UNCHANGED <<restartVars, handle, address, channel, exportTypes>>,
         Len(runtimes') = Len(runtimes), Open' => Open,
         \A n \in Built : runtimes'[n].state = runtimes[n].state /\ runtimes'[n].exports = runtimes[n].exports
  PROVE  DevInv'
<1>. USE DEF restartVars
<1>1. Latest' = Latest /\ Built' = Built
  BY DEF Latest, Built
<1>2. Latest \in Built /\ (handle # 0 => handle \in Built)
  BY DEF DevInv, DevTypeOK, Latest, Built
<1>3. \A n \in Built : Live(n)' = Live(n) /\ (Serves(n)' = Serves(n))
  BY DEF Live, Serves
<1>4. OneLives => OneLives'
  BY <1>1, <1>2, <1>3 DEF OneLives
<1>5. OneLives /\ UpToDate => UpToDate'
  BY <1>1, <1>2, <1>3 DEF UpToDate, OneLives
<1>. QED  BY <1>4, <1>5 DEF DevInv

\* DevTypeOK in the parts that steps change
LEMMA DevTypes ==
  DevTypeOK <=>
    /\ entry \in Exports \cup {Broken} /\ edits \in 0..MaxEdits
    /\ moment \in {"early", "serving", "quiet"}
    /\ devServer \in {"detecting", "applying", "serving", "closing", "closed"}
    /\ exportTypes \in Exports
    /\ queued \in Nat /\ restart \in {"none", "closing", "starting", "connecting"} /\ failed \in BOOLEAN
    /\ runtimes \in Seq(RuntimeType)
    /\ handle \in {0} \cup Built /\ address \in Built /\ channel \in Built
    /\ reports \in Seq(ReportType(Len(runtimes)))
BY DEF DevTypeOK, RuntimeType, ReportType, Built

\* A runner of a runtime loads something, or an update is on its way to it.
LEMMA RunnerStep ==
  ASSUME DevInv, NEW n \in Built, NEW r \in RuntimeType, runtimes' = Changed(n, r),
         r.state = runtimes[n].state, r.exports = runtimes[n].exports,
         UNCHANGED <<devServer, exportTypes, restartVars, routes>>,
         entry' \in Exports \cup {Broken}, edits' \in 0..MaxEdits, moment' \in {"early", "serving", "quiet"},
         reports' \in Seq(ReportType(Len(runtimes)))
  PROVE  DevInv'
<1>. USE DEF restartVars, routes
<1>0. DevTypeOK
  BY DEF DevInv
<1>1. /\ runtimes' \in Seq(RuntimeType) /\ Len(runtimes') = Len(runtimes)
      /\ runtimes'[n] = r /\ \A m \in Built \ {n} : runtimes'[m] = runtimes[m]
  BY <1>0, ChangedRuntimes, DevTypes
<1>2. DevTypeOK'
  BY <1>0, <1>1 DEF DevTypeOK, RuntimeType, ReportType, Built
<1>. QED  BY <1>1, <1>2, QuietStep DEF Open

LEMMA EditPreserves == ASSUME DevInv, NEW e \in Exports \cup {Broken}, Edit(e) PROVE DevInv'
<1>0. DevTypeOK
  BY DEF DevInv
<1>. DEFINE b == runtimes[channel].state = "up"
            r == [runtimes[channel] EXCEPT !.updating = b]
<1>1. channel \in Built /\ runtimes[channel] \in RuntimeType
  BY <1>0, DevTypes DEF Built
<1>2. b \in BOOLEAN
  OBVIOUS
<1>3. runtimes' = Changed(channel, r)
  BY <1>1, DevTypes, <1>0 DEF Edit, Changed
<1>4. r \in RuntimeType /\ r.state = runtimes[channel].state /\ r.exports = runtimes[channel].exports
  <2>. HIDE DEF b
  <2>. QED  BY <1>1, <1>2 DEF RuntimeType
<1>5. /\ UNCHANGED <<devServer, exportTypes, restartVars, routes, reports>> /\ entry' \in Exports \cup {Broken}
      /\ edits' \in 0..MaxEdits /\ moment' \in {"early", "serving", "quiet"}
  BY <1>0, ExportsAssumption DEF Edit, DevTypeOK
<1>. HIDE DEF r
<1>. QED  BY <1>0, <1>1, <1>3, <1>4, <1>5, RunnerStep, DevTypes

LEMMA FirstImportPreserves == ASSUME DevInv, NEW n \in Built, FirstImport(n) PROVE DevInv'
<1>0. DevTypeOK
  BY DEF DevInv
<1>. DEFINE r == [runtimes[n] EXCEPT !.loaded = entry]
            report == [from |-> n, event |-> "reply", exports |-> entry]
<1>1. runtimes[n] \in RuntimeType /\ entry \in Exports \cup {Broken}
  BY <1>0, DevTypes DEF Built
<1>2. r \in RuntimeType /\ r.state = runtimes[n].state /\ r.exports = runtimes[n].exports
  BY <1>1 DEF RuntimeType
<1>3. reports' \in Seq(ReportType(Len(runtimes)))
  <2>1. report \in ReportType(Len(runtimes))
    BY <1>1 DEF ReportType, Built
  <2>. HIDE DEF report
  <2>2. <<report>> \in Seq(ReportType(Len(runtimes))) /\ <<>> \in Seq(ReportType(Len(runtimes)))
    BY <2>1
  <2>3. Reply(n) \in {<<report>>, <<>>}
    BY DEF Reply, report
  <2>. HIDE DEF report
  <2>4. reports \in Seq(ReportType(Len(runtimes))) /\ reports' = reports \o Reply(n)
    BY <1>0, DevTypes DEF FirstImport
  <2>5. Reply(n) \in Seq(ReportType(Len(runtimes)))
    BY <2>2, <2>3
  <2>. QED  BY <2>4, <2>5, ConcatProperties
<1>4. UNCHANGED <<devServer, exportTypes, restartVars, routes>> /\ UNCHANGED <<entry, edits, moment>>
  BY DEF FirstImport, source
<1>5. CASE entry = Broken
  <2>1. runtimes' = runtimes
    BY <1>5 DEF FirstImport
  <2>2. DevTypeOK'
    BY <1>0, <1>3, <1>4, <2>1 DEF DevTypeOK, RuntimeType, ReportType, Built, routes, restartVars
  <2>. QED  BY <1>4, <2>1, <2>2, QuietStep DEF Open, routes
<1>6. CASE entry # Broken
  <2>1. runtimes' = Changed(n, r)
    BY <1>6 DEF FirstImport, Changed
  <2>. HIDE DEF r
  <2>. QED  BY <1>0, <1>2, <1>3, <1>4, <2>1, RunnerStep, DevTypes
<1>. QED  BY <1>5, <1>6

LEMMA HotUpdatePreserves == ASSUME DevInv, NEW n \in Built, HotUpdate(n) PROVE DevInv'
<1>0. DevTypeOK
  BY DEF DevInv
<1>. DEFINE held == runtimes[n].loaded # NotLoaded
            quiet == [runtimes[n] EXCEPT !.updating = FALSE]
            r == [quiet EXCEPT !.loaded = IF held THEN entry ELSE NotLoaded]
<1>1. runtimes[n] \in RuntimeType /\ entry \in Exports \cup {Broken}
  BY <1>0, DevTypes DEF Built
<1>2. quiet \in RuntimeType /\ quiet.state = runtimes[n].state /\ quiet.exports = runtimes[n].exports
  BY <1>1 DEF RuntimeType
<1>3. r \in RuntimeType /\ r.state = runtimes[n].state /\ r.exports = runtimes[n].exports
  <2>. HIDE DEF quiet, held
  <2>. QED  BY <1>1, <1>2 DEF RuntimeType
<1>4. runtimes' = Changed(n, r)
  BY <1>0, <1>1, DevTypes DEF HotUpdate, Changed, Built
<1>5. reports' \in Seq(ReportType(Len(runtimes)))
  <2>1. [from |-> n, event |-> "hmr", exports |-> entry] \in ReportType(Len(runtimes))
    BY <1>1 DEF ReportType, Built
  <2>. QED  BY <1>0, <2>1, DevTypes DEF HotUpdate
<1>6. UNCHANGED <<devServer, exportTypes, restartVars, routes>> /\ UNCHANGED <<entry, edits, moment>>
  BY DEF HotUpdate, source
<1>. HIDE DEF r
<1>. QED  BY <1>0, <1>3, <1>4, <1>5, <1>6, RunnerStep, DevTypes

\* A report that changes the export types asks for another restart.
LEMMA DeliverPreserves == ASSUME DevInv, Deliver PROVE DevInv'
<1>0. DevTypeOK
  BY DEF DevInv
<1>. DEFINE report == Head(reports)
<1>1. reports # <<>> /\ reports' = Tail(reports) /\ UNCHANGED source /\ UNCHANGED <<runtimes, routes>>
  BY DEF Deliver
<1>2. reports' \in Seq(ReportType(Len(runtimes))) /\ report.exports \in Exports \cup {Broken}
  <2>1. reports \in Seq(ReportType(Len(runtimes)))
    BY <1>0, DevTypes
  <2>2. Tail(reports) \in Seq(ReportType(Len(runtimes))) /\ Head(reports) \in ReportType(Len(runtimes))
    BY <1>1, <2>1
  <2>. QED  BY <1>1, <2>2 DEF ReportType
<1>. HIDE DEF report
<1>3. /\ restart' = restart /\ failed' = failed
      /\ \/ exportTypes' = exportTypes /\ queued' = queued
         \/ exportTypes' \in Exports /\ queued' = queued + 1
      /\ devServer' \in {devServer, "applying", "serving"}
      /\ Open' => Open
  BY <1>2 DEF Deliver, report, ApplyExportTypes, restartVars, Open
<1>4. DevTypeOK'
  BY <1>0, <1>1, <1>2, <1>3 DEF DevTypeOK, RuntimeType, ReportType, Built, source, routes
<1>5. OneLives => OneLives'
  BY <1>1, <1>3 DEF OneLives, Live, Latest, Built, routes
<1>6. UpToDate => UpToDate'
  <2>1. queued \in Nat /\ (queued' # queued => queued' # 0)
    BY <1>0, <1>3 DEF DevTypeOK
  <2>. QED  BY <1>1, <1>3, <2>1 DEF UpToDate, Serves, Latest, routes
<1>. QED  BY <1>3, <1>4, <1>5, <1>6 DEF DevInv

\* The other steps of detection and of reports
LEMMA DetectionPreserves ==
  ASSUME DevInv, Lost \/ DetectionTimesOut \/ DetectionApplied PROVE DevInv'
<1>0. DevTypeOK
  BY DEF DevInv
<1>1. /\ UNCHANGED source /\ UNCHANGED <<exportTypes, restartVars, runtimes, routes>>
      /\ devServer' \in {devServer, "serving"} /\ (Open' => Open)
      /\ reports' = reports \/ (reports # <<>> /\ reports' = Tail(reports))
  BY DEF Lost, DetectionTimesOut, DetectionApplied, Open, restartVars, routes
<1>2. reports' \in Seq(ReportType(Len(runtimes)))
  <2>1. reports \in Seq(ReportType(Len(runtimes)))
    BY <1>0, DevTypes
  <2>. QED  BY <1>1, <2>1
<1>3. DevTypeOK'
  BY <1>0, <1>1, <1>2 DEF DevTypeOK, RuntimeType, ReportType, Built, source, routes, restartVars
<1>. QED  BY <1>1, <1>3, QuietStep DEF routes

\* HandleClosed stops the handle's runtime.
LEMMA HandleCloses ==
  ASSUME DevTypeOK, runtimes' = HandleClosed
  PROVE  /\ runtimes' \in Seq(RuntimeType) /\ Len(runtimes') = Len(runtimes)
         /\ handle # 0 => runtimes'[handle].state = "stopped"
         /\ \A n \in Built \ {handle} : runtimes'[n] = runtimes[n]
<1>1. CASE handle = 0
  BY <1>1, DevTypes DEF HandleClosed
<1>2. CASE handle # 0
  <2>. DEFINE r == [runtimes[handle] EXCEPT !.state = "stopped"]
  <2>1. handle \in Built /\ runtimes \in Seq(RuntimeType) /\ runtimes[handle] \in RuntimeType
    BY <1>2, DevTypes DEF Built
  <2>2. r \in RuntimeType /\ r.state = "stopped"
    BY <2>1 DEF RuntimeType
  <2>3. runtimes' = Changed(handle, r)
    BY <1>2 DEF HandleClosed, Changed
  <2>. HIDE DEF r
  <2>4. /\ Changed(handle, r) \in Seq(RuntimeType) /\ Len(Changed(handle, r)) = Len(runtimes)
        /\ Changed(handle, r)[handle] = r
        /\ \A m \in Built \ {handle} : Changed(handle, r)[m] = runtimes[m]
    BY <2>1, <2>2, ChangedRuntimes
  <2>. QED  BY <2>2, <2>3, <2>4
<1>. QED  BY <1>1, <1>2

LEMMA RestartBeginsPreserves == ASSUME DevInv, RestartBegins PROVE DevInv'
<1>0. DevTypeOK
  BY DEF DevInv
<1>1. /\ runtimes' \in Seq(RuntimeType) /\ Len(runtimes') = Len(runtimes)
      /\ handle # 0 => runtimes'[handle].state = "stopped"
      /\ \A n \in Built \ {handle} : runtimes'[n] = runtimes[n]
  BY <1>0, HandleCloses DEF RestartBegins
<1>2. DevTypeOK'
  BY <1>0, <1>1 DEF DevTypeOK, RuntimeType, ReportType, Built, source, routes, RestartBegins
<1>3. Open /\ OneLives => OneLives'
  BY <1>1 DEF OneLives, Live, Built, Latest, RestartBegins, routes
<1>4. UpToDate'
  BY DEF UpToDate, RestartBegins
<1>. QED  BY <1>2, <1>3, <1>4 DEF DevInv, Open, RestartBegins

LEMMA NewRuntimePreserves == ASSUME DevInv, NewRuntime PROVE DevInv'
<1>. USE DEF NewRuntime, source, routes
<1>0. DevTypeOK
  BY DEF DevInv
<1>. DEFINE r == Fresh(exportTypes, "starting")
<1>1. r \in RuntimeType /\ r.exports = exportTypes
  BY <1>0 DEF RuntimeType, Fresh, DevTypeOK
<1>. HIDE DEF r
<1>2. /\ runtimes' \in Seq(RuntimeType) /\ Len(runtimes') = Len(runtimes) + 1
      /\ runtimes'[Len(runtimes')] = r /\ \A n \in Built : runtimes'[n] = runtimes[n]
      /\ Len(runtimes) \in Nat
  BY <1>0, <1>1, DevTypes DEF r, Built
<1>3. Built \subseteq Built' /\ Built' = Built \cup {Latest'}
  BY <1>2 DEF Built, Latest
<1>4. DevTypeOK'
  <2>1. ReportType(Len(runtimes)) \subseteq ReportType(Len(runtimes'))
    BY <1>2 DEF ReportType
  <2>2. reports' \in Seq(ReportType(Len(runtimes')))
    BY <1>0, <2>1, DevTypes, MoreReports
  <2>. QED  BY <1>0, <1>2, <1>3, <2>2 DEF DevTypeOK, RuntimeType, ReportType, Built
<1>5. OneLives => OneLives'
  BY <1>2, <1>3 DEF OneLives, Live, Latest
<1>6. UpToDate'
  BY <1>1, <1>2 DEF UpToDate, Latest
<1>. QED  BY <1>4, <1>5, <1>6 DEF DevInv, Open

\* The start ends, one way or the other.
LEMMA StartEndsPreserves == ASSUME DevInv, RuntimeUp \/ RuntimeFails PROVE DevInv'
<1>. USE DEF RestartFails, source, routes
<1>0. DevTypeOK
  BY DEF DevInv
<1>1. PICK state \in {"up", "abandoned"} :
        /\ runtimes' = [runtimes EXCEPT ![Len(runtimes)].state = state]
        /\ state = "up" => RuntimeUp
        /\ state = "abandoned" => RuntimeFails
  BY DEF RuntimeUp, RuntimeFails
<1>. DEFINE r == [runtimes[Len(runtimes)] EXCEPT !.state = state]
<1>2. Latest \in Built /\ runtimes \in Seq(RuntimeType) /\ runtimes[Latest] \in RuntimeType
  <2>1. Built # {} /\ runtimes \in Seq(RuntimeType)
    BY <1>0, DevTypes
  <2>. QED  BY <2>1 DEF Latest, Built
<1>3. r \in RuntimeType /\ r.state = state /\ r.exports = runtimes[Latest].exports
  BY <1>2 DEF RuntimeType, Latest
<1>4. runtimes' = Changed(Latest, r)
  BY <1>1 DEF Changed, Latest
<1>. HIDE DEF r
<1>5. /\ runtimes' \in Seq(RuntimeType) /\ Len(runtimes') = Len(runtimes)
      /\ runtimes'[Latest] = r /\ \A n \in Built \ {Latest} : runtimes'[n] = runtimes[n]
  BY <1>2, <1>3, <1>4, ChangedRuntimes
<1>6. Built' = Built /\ Latest' = Latest
  BY <1>5 DEF Built, Latest
<1>7. /\ UNCHANGED <<entry, edits, moment, devServer, exportTypes, address, channel, reports, queued>>
      /\ restart = "starting"
      /\ \/ state = "up" /\ handle' = Latest /\ restart' = "connecting" /\ failed' = failed
         \/ state = "abandoned" /\ handle' = handle /\ restart' = "none" /\ failed'
  BY <1>1 DEF RuntimeUp, RuntimeFails, Latest
<1>8. DevTypeOK'
  BY <1>0, <1>2, <1>5, <1>6, <1>7 DEF DevTypeOK, RuntimeType, ReportType, Built
<1>9. Open /\ OneLives => OneLives'
  <2>1. handle \in {0} \cup Built /\ 0 \notin Built
    BY <1>0 DEF DevTypeOK, Built
  <2>. QED  BY <1>2, <1>3, <1>5, <1>6, <1>7, <2>1 DEF OneLives, Live
<1>10. Open /\ UpToDate => UpToDate'
  BY <1>3, <1>5, <1>6, <1>7 DEF UpToDate
<1>. QED  BY <1>7, <1>8, <1>9, <1>10 DEF DevInv, Open

LEMMA ConnectPreserves == ASSUME DevInv, Connected \/ ConnectFails PROVE DevInv'
<1>. USE DEF RestartFails, source, routes
<1>0. DevTypeOK
  BY DEF DevInv
<1>1. /\ UNCHANGED <<entry, edits, moment, devServer, exportTypes, queued, runtimes, handle, reports>>
      /\ restart = "connecting" /\ restart' = "none"
      /\ \/ failed' = TRUE /\ address' = address /\ channel' \in {channel, Latest}
         \/ handle # 0 /\ failed' = FALSE /\ address' = handle /\ channel' = Latest
  BY DEF Connected, ConnectFails, Latest
<1>2. Latest \in Built
  <2>1. Built # {} /\ runtimes \in Seq(RuntimeType)
    BY <1>0, DevTypes
  <2>. QED  BY <2>1 DEF Latest, Built
<1>3. DevTypeOK'
  BY <1>0, <1>1, <1>2 DEF DevTypeOK, RuntimeType, ReportType, Built
<1>4. OneLives => OneLives'
  BY <1>1 DEF OneLives, Live, Latest, Built
<1>5. OneLives /\ UpToDate => UpToDate'
  BY <1>1 DEF OneLives, UpToDate, Serves, Latest
<1>. QED  BY <1>1, <1>3, <1>4, <1>5 DEF DevInv, Open

LEMMA ClosePreserves == ASSUME DevInv, CloseServer \/ ServerClosed PROVE DevInv'
<1>. USE DEF source, routes, restartVars
<1>0. DevTypeOK
  BY DEF DevInv
<1>1. runtimes' \in Seq(RuntimeType) /\ Len(runtimes') = Len(runtimes)
  BY <1>0, HandleCloses, DevTypes DEF CloseServer, ServerClosed
<1>2. DevTypeOK'
  BY <1>0, <1>1 DEF DevTypeOK, RuntimeType, ReportType, Built, CloseServer, ServerClosed
<1>3. ~Open'
  BY DEF Open, CloseServer, ServerClosed
<1>. QED  BY <1>2, <1>3 DEF DevInv

LEMMA DevNextPreserves == DevInv /\ [DevNext]_devVars => DevInv'
<1>. SUFFICES ASSUME DevInv, [DevNext]_devVars PROVE DevInv'
  OBVIOUS
<1>1. CASE UNCHANGED devVars
  BY <1>1 DEF devVars, DevInv, DevTypeOK, OneLives, UpToDate, Live, Serves, Open, Built, Latest
<1>2. CASE DevNext
  BY <1>2, EditPreserves, FirstImportPreserves, HotUpdatePreserves, DeliverPreserves, DetectionPreserves,
     RestartBeginsPreserves, NewRuntimePreserves, StartEndsPreserves, ConnectPreserves, ClosePreserves
  DEF DevNext
<1>. QED  BY <1>1, <1>2

\* As long as the dev server is open, restarts leave one runtime.
THEOREM DevInvariance == DevSpec => []DevInv
<1>. QED  BY DevInitInv, DevNextPreserves, PTL DEF DevSpec

\* Every variable of the dev server keeps its type.
THEOREM DevTypeCorrect == DevSpec => []DevTypeOK
<1>1. DevInv => DevTypeOK
  BY DEF DevInv
<1>. QED  BY <1>1, DevInvariance, PTL

\* The invariant says which runtime serves.
LEMMA OneOfThemServes == DevInv => OneRuntimeServes
<1>. SUFFICES ASSUME DevInv, Open PROVE OneRuntimeServes
  BY DEF OneRuntimeServes
<1>1. restart \in {"none", "closing", "starting", "connecting"} /\ OneLives /\ UpToDate
  BY DEF DevInv, DevTypeOK
<1>2. \A m, n \in Built : Live(m) /\ Live(n) => m = n
  BY <1>1 DEF OneLives
<1>3. restart = "none" /\ queued = 0 /\ ~failed => Serves(handle) /\ runtimes[handle].exports = exportTypes
  BY <1>1 DEF UpToDate
<1>. QED  BY <1>2, <1>3 DEF OneRuntimeServes, Live

\* Whatever is edited, requested and reported while restarts are under way, an open
\* dev server never has two live runtimes, and once it has caught up the requests,
\* the hot channel and close() mean the one for the exports last reported.
THEOREM RestartsLeaveOneRuntime == DevSpec => []OneRuntimeServes
<1>. QED  BY OneOfThemServes, DevInvariance, PTL
=============================================================================
