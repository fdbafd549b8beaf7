---------------------------- MODULE MCRequestPaths ----------------------------
(* The parts of a dev server that requests, sessions and messages pass     *)
(* through, for TLC.  They do not share state, so each behaviour is about  *)
(* one of them: `path' says which, and the others rest.                    *)
EXTENDS WorkerProxy, PortAllocator, Registry, RemoteSession, Browser, QueuePull,
        RegistryTargets, RuntimeStart, DevServer, MCPlatformProxy, TLC

CONSTANTS get1, get2, post1, t1, t2,       \* proxy: requests and upstreams
          a, b, c, first, second,          \* ports: serve() calls and instances
          p1, p2, i1, i2, i3,              \* registry: processes, registrations
          call1, call2, call3,             \* remote: requests
          s1, c1, c2,                      \* browser: a session, raw connections
          m1, m2, m3,                      \* pull: messages
          start1, start2,                  \* runtime: starts
          e1, e2                           \* vite: export types

VARIABLE path

pathsVars ==
  <<proxyVars, vars, registryVars, remoteVars, browserVars, pullVars, targetVars,
    startVars, devVars, platformVars, path>>

MCInstanceOf == [t \in Tasks |-> IF t = c THEN second ELSE first]
MCWanted == [t \in Tasks |-> 1]
MCProcessOf == [i \in Registrations |-> IF i = i3 THEN p2 ELSE p1]

\* A resting part is in its initial state, if nothing has to happen there.
RemoteResting ==
  /\ time = 0
  /\ prefetch = [state |-> "none", minted |-> 0]
  /\ session = 0
  /\ sessions = [n \in {} |-> n]
  /\ refused = {}
  /\ deployer = NoCall
  /\ requests = [r \in Calls |-> [stage |-> "idle", stale |-> 0, used |-> 0, accepted |-> FALSE]]

\* A dev server that was closed
DevResting ==
  /\ entry = Configured /\ edits = 0 /\ moment = "early"
  /\ devServer = "closed" /\ exportTypes = Configured
  /\ queued = 0 /\ restart = "none" /\ failed = FALSE
  /\ runtimes = <<Fresh(Configured, "stopped")>>
  /\ handle = 0 /\ address = 1 /\ channel = 1
  /\ reports = <<>>

PathsInit ==
  /\ path \in {"proxy", "ports", "registry", "remote", "browser", "pull", "targets", "runtime",
               "vite", "platform"}
  /\ ProxyInit
  /\ Init
  /\ RegistryInit
  /\ IF path = "remote" THEN RemoteInit ELSE RemoteResting
  /\ BrowserInit
  /\ PullInit
  /\ TargetsInit
  /\ StartInit
  /\ IF path = "vite" THEN DevInit ELSE DevResting
  /\ PlatformInit

PathsNext ==
  \/ /\ path = "proxy" /\ ProxyNext
     /\ UNCHANGED <<vars, registryVars, remoteVars, browserVars, pullVars, targetVars,
                    startVars, devVars, platformVars, path>>
  \/ /\ path = "ports" /\ Next
     /\ UNCHANGED <<proxyVars, registryVars, remoteVars, browserVars, pullVars,
                    targetVars, startVars, devVars, platformVars, path>>
  \/ /\ path = "registry" /\ RegistryNext
     /\ UNCHANGED <<proxyVars, vars, remoteVars, browserVars, pullVars, targetVars,
                    startVars, devVars, platformVars, path>>
  \/ /\ path = "remote" /\ RemoteNext
     /\ UNCHANGED <<proxyVars, vars, registryVars, browserVars, pullVars, targetVars,
                    startVars, devVars, platformVars, path>>
  \/ /\ path = "browser" /\ BrowserNext
     /\ UNCHANGED <<proxyVars, vars, registryVars, remoteVars, pullVars, targetVars,
                    startVars, devVars, platformVars, path>>
  \/ /\ path = "pull" /\ PullNext
     /\ UNCHANGED <<proxyVars, vars, registryVars, remoteVars, browserVars, targetVars,
                    startVars, devVars, platformVars, path>>
  \/ /\ path = "targets" /\ TargetsNext
     /\ UNCHANGED <<proxyVars, vars, registryVars, remoteVars, browserVars, pullVars,
                    startVars, devVars, platformVars, path>>
  \/ /\ path = "runtime" /\ StartNext
     /\ UNCHANGED <<proxyVars, vars, registryVars, remoteVars, browserVars, pullVars,
                    targetVars, devVars, platformVars, path>>
  \/ /\ path = "vite" /\ DevNext
     /\ UNCHANGED <<proxyVars, vars, registryVars, remoteVars, browserVars, pullVars,
                    targetVars, startVars, platformVars, path>>
  \/ /\ path = "platform" /\ PlatformNext
     /\ UNCHANGED <<proxyVars, vars, registryVars, remoteVars, browserVars, pullVars,
                    targetVars, startVars, devVars, path>>

PathsSpec == PathsInit /\ [][PathsNext]_pathsVars

PathsFairSpec ==
  /\ PathsSpec
  /\ ProxyFairness /\ Fairness /\ RemoteFairness /\ BrowserFairness /\ PullFairness /\ TargetsFairness
  /\ DevFairness

\* Resting parts do not change.
PathsTypeOK ==
  /\ path = "proxy" => ProxyTypeOK
  /\ path = "ports" => TypeOK
  /\ path = "registry" => RegistryTypeOK
  /\ path = "remote" => RemoteTypeOK
  /\ path = "browser" => BrowserTypeOK
  /\ path = "pull" => PullTypeOK
  /\ path = "targets" => TargetsTypeOK
  /\ path = "runtime" => StartTypeOK
  /\ path = "vite" => DevTypeOK
  /\ path = "platform" => PlatformTypeOK

\* The registrations of one process are interchangeable.
PathsSymmetry == Permutations({i1, i2})
=============================================================================
