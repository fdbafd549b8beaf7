--------------------------- MODULE RequestPathsProofs ---------------------------
(***************************************************************************)
(* The sum of the parts that requests, sessions and messages pass through  *)
(* (MCRequestPaths): each of its behaviours is one of every part, so what  *)
(* was proved of the parts holds of the sum, for all values of the         *)
(* constants and not only for those that the run has.  Resting parts take  *)
(* no steps; two of them rest in a state that they do not start from.      *)
(***************************************************************************)
EXTENDS MCRequestPaths, BindingProofs, RegistryProofs, LifecycleProofs, ServingProofs

\* A resting remote session has neither a session nor a request.
LEMMA RestingRemote == RemoteResting => RemoteInv
<1>. SUFFICES ASSUME RemoteResting PROVE RemoteInv
  OBVIOUS
<1>. USE AgesAssumption DEF RemoteResting
<1>1. Deployed = {}
  BY DEF Deployed
<1>2. RemoteTypeOK
  BY <1>1 DEF RemoteTypeOK, RequestStages
<1>3. OneDeploys /\ SessionsInOrder /\ RetriedIsExpired /\ RefusalsAreDue
  BY <1>1, NoCallAssumption DEF OneDeploys, SessionsInOrder, RetriedIsExpired, RefusalsAreDue
<1>4. SharedRefresh /\ SurfacesOnlyRefused
  BY <1>1 DEF SharedRefresh, SurfacesOnlyRefused
<1>. QED  BY <1>2, <1>3, <1>4 DEF RemoteInv

\* A resting dev server is closed.
LEMMA RestingServer == DevResting => DevInv
<1>. SUFFICES ASSUME DevResting PROVE DevInv
  OBVIOUS
<1>. USE ExportsAssumption DEF DevResting
<1>1. Fresh(Configured, "stopped") \in RuntimeType
  BY DEF Fresh, RuntimeType
<1>2. runtimes \in Seq(RuntimeType) /\ Len(runtimes) = 1
  BY <1>1
<1>3. Built = {1}
  BY <1>2 DEF Built
<1>4. reports \in Seq(ReportType(Len(runtimes))) /\ 0 \in 0..MaxEdits
  OBVIOUS
<1>5. DevTypeOK
  BY <1>2, <1>3, <1>4 DEF DevTypeOK, RuntimeType, ReportType, Built
<1>. QED  BY <1>5 DEF DevInv, Open

\* A behaviour of the sum is one of every part that rests in its initial state.
THEOREM PathsDoNotMix ==
  PathsSpec => /\ ProxySpec /\ Spec /\ RegistrySpec /\ BrowserSpec /\ PullSpec
               /\ TargetsSpec /\ StartSpec /\ PlatformSpec
<1>1. PathsInit => /\ ProxyInit /\ Init /\ RegistryInit /\ BrowserInit /\ PullInit
                   /\ TargetsInit /\ StartInit /\ PlatformInit
  BY DEF PathsInit
<1>2. [PathsNext]_pathsVars =>
        /\ [ProxyNext]_proxyVars /\ [Next]_vars /\ [RegistryNext]_registryVars
        /\ [BrowserNext]_browserVars /\ [PullNext]_pullVars /\ [TargetsNext]_targetVars
        /\ [StartNext]_startVars /\ [PlatformNext]_platformVars
  BY DEF PathsNext, pathsVars
<1>. QED
  BY <1>1, <1>2, PTL DEF PathsSpec, ProxySpec, Spec, RegistrySpec, BrowserSpec, PullSpec,
    TargetsSpec, StartSpec, PlatformSpec

\* The remote session keeps its invariant, working or at rest.
THEOREM RemoteInPaths == PathsSpec => []RemoteInv
<1>1. PathsInit => RemoteInv
  BY RemoteInitInv, RestingRemote DEF PathsInit
<1>2. RemoteInv /\ [PathsNext]_pathsVars => RemoteInv'
  <2>1. [PathsNext]_pathsVars => [RemoteNext]_remoteVars
    BY DEF PathsNext, pathsVars
  <2>. QED  BY <2>1, RemoteNextPreserves
<1>. QED  BY <1>1, <1>2, PTL DEF PathsSpec

\* So does the dev server, which rests closed.
THEOREM DevServerInPaths == PathsSpec => []DevInv
<1>1. PathsInit => DevInv
  BY DevInitInv, RestingServer DEF PathsInit
<1>2. DevInv /\ [PathsNext]_pathsVars => DevInv'
  <2>1. [PathsNext]_pathsVars => [DevNext]_devVars
    BY DEF PathsNext, pathsVars
  <2>. QED  BY <2>1, DevNextPreserves
<1>. QED  BY <1>1, <1>2, PTL DEF PathsSpec

\* Every variable of the part that works keeps its type.
THEOREM PathsTypeCorrect == PathsSpec => []PathsTypeOK
<1>1. RemoteInv /\ DevInv => RemoteTypeOK /\ DevTypeOK
  BY DEF RemoteInv, DevInv
<1>2. /\ ProxyTypeOK /\ TypeOK /\ RegistryTypeOK /\ RemoteTypeOK /\ BrowserTypeOK
      /\ PullTypeOK /\ TargetsTypeOK /\ StartTypeOK /\ DevTypeOK /\ PlatformTypeOK
      => PathsTypeOK
  BY DEF PathsTypeOK
<1>3. PlatformInv => PlatformTypeOK
  BY DEF PlatformInv
<1>. QED
  BY <1>1, <1>2, <1>3, PathsDoNotMix, RemoteInPaths, DevServerInPaths, ProxyTypeCorrect,
     PortsTypeCorrect, RegistryTypeCorrect, BrowserTypeCorrect, PullTypeCorrect,
     TargetsTypeCorrect, StartTypeCorrect, PlatformInvariance, PTL

\* All that run RequestPaths checks, for any instance in which the ports are searched
\* for and the processes of the registry keep their heartbeats.
THEOREM RequestPathsHold ==
  ASSUME Strict = {}, ~Suspends
  PROVE  PathsSpec => [](/\ OneHolderOrAnswer /\ NonIdempotentSentOnce
                         /\ DistinctPorts
                         /\ SnapshotInSync /\ EagerUpdateSurvives
                         /\ SharedRefresh /\ SurfacesOnlyRefused
                         /\ EveryChromeCanBeKilled /\ CleanupIsExact
                         /\ OneRuntimeServes /\ AnswersAreComplete /\ MapIsCurrent)
<1>1. Spec => []DistinctPorts
  BY SearchesAreAtomic
<1>2. RegistrySpec => []EagerUpdateSurvives
  BY RefreshesKeepTheUpdate
<1>3. RemoteInv => SharedRefresh /\ SurfacesOnlyRefused
  BY DEF RemoteInv
<1>4. DevInv => OneRuntimeServes
  BY OneOfThemServes
<1>. QED
  BY <1>1, <1>2, <1>3, <1>4, PathsDoNotMix, RemoteInPaths, DevServerInPaths,
     RequestsAreNeverForgotten, OnlyIdempotentIsRepeated, SnapshotsAreInSync, NoChromeIsLeft,
     StartsCleanUp, AnswersMeanWhatTheySay, PushedMapsAreCurrent, PTL
=============================================================================
