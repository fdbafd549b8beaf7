---------------------------- MODULE RemoteSession ----------------------------
(***************************************************************************)
(* The session of the remote bindings (src/remote-bindings/).  Requests to *)
(* a remote binding go through one Durable Object, RemoteBindingProxy,     *)
(* which sends them to a preview worker with a preview token.  The token   *)
(* comes from a deployment: at the start of the runtime one is prefetched  *)
(* in a detached fiber, and the first request for a session takes its      *)
(* result; later ones deploy on demand.  The control plane ends a token    *)
(* when it is old, or earlier.                                             *)
(*                                                                         *)
(* A deployment on demand takes no time that the ages tell apart (each of  *)
(* its calls times out after 30 s); whether a token is accepted is decided *)
(* when the request is sent.  blockConcurrencyWhile runs one callback at a *)
(* time, and resets the object when the callback throws.                   *)
(***************************************************************************)
EXTENDS Integers, FiniteSets

CONSTANTS
  Calls,        \* requests to a remote binding
  NoCall,
  MaxAge,       \* SESSION_MAX_AGE_MS
  TokenLife,    \* the control plane's own limit
  MaxTime,      \* bound: the last instant
  MaxSessions   \* bound: deployments that succeed

ASSUME NoCallAssumption == NoCall \notin Calls
ASSUME AgesAssumption ==
  /\ MaxAge \in Nat /\ TokenLife \in Nat \ {0} /\ MaxTime \in Nat /\ MaxSessions \in Nat
  /\ MaxAge <= TokenLife

VARIABLES
  time,
  prefetch,    \* the entry in `prefetches': its state, and the instant of its token
  session,     \* this.session: the number of a session, or 0
  sessions,    \* history: the sessions so far, [minted, createdAt] by number
  refused,     \* sessions whose token the control plane has ended early
  deployer,    \* the request inside blockConcurrencyWhile
  requests     \* [r] how far a request has come

remoteVars == <<time, prefetch, session, sessions, refused, deployer, requests>>

Numbered == 1..MaxSessions
RequestStages == {"idle", "waiting", "deploying", "sent", "answered", "surfaced", "error"}

RemoteTypeOK ==
  /\ time \in 0..MaxTime
  /\ prefetch \in [state : {"deploying", "ready", "failed", "none"}, minted : 0..MaxTime]
  /\ session \in {0} \cup DOMAIN sessions
  /\ \E n \in 0..MaxSessions : sessions \in [1..n -> [minted : 0..MaxTime, createdAt : 0..MaxTime]]
  /\ refused \subseteq Numbered
  /\ deployer \in Calls \cup {NoCall}
  /\ requests \in [Calls -> [stage : RequestStages, stale : {0} \cup Numbered,
                                used : {0} \cup Numbered, accepted : BOOLEAN]]

RemoteInit ==
  /\ time = 0
  /\ prefetch = [state |-> "deploying", minted |-> 0]
  /\ session = 0
  /\ sessions = [n \in {} |-> n]
  /\ refused = {}
  /\ deployer = NoCall
  /\ requests = [r \in Calls |-> [stage |-> "idle", stale |-> 0, used |-> 0, accepted |-> FALSE]]

-----------------------------------------------------------------------------
Deployed == DOMAIN sessions

Expired(n) == n \in refused \/ time - sessions[n].minted >= TokenLife

\* Mutant: a session that was just refused is usable.
UsableWhenRefused(n, stale) == n # 0 /\ time - sessions[n].createdAt < MaxAge

\* isUsable
IsUsable(n, stale) == n # 0 /\ n # stale /\ time - sessions[n].createdAt < MaxAge

SetStage(r, stage) == requests' = [requests EXCEPT ![r].stage = stage]

\* proxy(): the request leaves with the token of session n; its first one was
\* `stale', if this is the retry.
Proxy(r, n, stale) ==
  requests' = [requests EXCEPT
    ![r] = [stage |-> "sent", stale |-> stale, used |-> n, accepted |-> ~Expired(n)]]

\* configure(stale): the cached session, or a place in the queue
Configure(r, stale) ==
  IF IsUsable(session, stale) THEN Proxy(r, session, stale)
  ELSE requests' = [requests EXCEPT
         ![r] = [stage |-> "waiting", stale |-> stale, used |-> 0, accepted |-> FALSE]]

RequestArrives(r) ==
  /\ requests[r].stage = "idle"
  /\ Configure(r, 0)
  /\ UNCHANGED <<time, prefetch, session, sessions, refused, deployer>>

\* Mutant: no second look at the session under the lock.
DeploysAgain(r) ==
  /\ requests[r].stage = "waiting"
  /\ deployer = NoCall
  /\ SetStage(r, "deploying")
  /\ deployer' = r
  /\ session' = 0
  /\ UNCHANGED <<time, prefetch, sessions, refused>>

\* Under the lock: another request may have refreshed the session meanwhile.
EnterLock(r) ==
  /\ requests[r].stage = "waiting"
  /\ deployer = NoCall
  /\ IF IsUsable(session, requests[r].stale)
     THEN Proxy(r, session, requests[r].stale) /\ UNCHANGED <<session, deployer>>
     ELSE SetStage(r, "deploying") /\ deployer' = r /\ session' = 0
  /\ UNCHANGED <<time, prefetch, sessions, refused>>

\* The route takes the prefetched result, or deploys.  The session is as old as
\* this moment, and so is its token if it was not prefetched.
DeploySucceeds(r) ==
  LET n == Cardinality(Deployed) + 1
      minted == IF prefetch.state = "ready" THEN prefetch.minted ELSE time
  IN
  /\ requests[r].stage = "deploying"
  /\ n <= MaxSessions
  /\ prefetch.state \in {"ready", "none"}
  /\ sessions' = [m \in 1..n |->
       IF m = n THEN [minted |-> minted, createdAt |-> time] ELSE sessions[m]]
  /\ session' = n
  /\ deployer' = NoCall
  /\ prefetch' = [state |-> "none", minted |-> 0]
  /\ requests' = [requests EXCEPT
       ![r] = [stage |-> "sent", stale |-> requests[r].stale, used |-> n,
               accepted |-> time - minted < TokenLife]]
  /\ UNCHANGED <<time, refused>>

\* Mutant: the failure is handled without the reset.
LockNotReleased(r) ==
  /\ requests[r].stage = "deploying"
  /\ prefetch.state \in {"failed", "none"}
  /\ prefetch' = [state |-> "none", minted |-> 0]
  /\ SetStage(r, "error")
  /\ UNCHANGED <<time, session, sessions, refused, deployer>>

\* The deployment fails, now or when it was prefetched: the callback throws, and
\* the object is reset with all its requests.
DeployFails(r) ==
  /\ requests[r].stage = "deploying"
  /\ prefetch.state \in {"failed", "none"}
  /\ prefetch' = [state |-> "none", minted |-> 0]
  /\ deployer' = NoCall
  /\ requests' = [q \in Calls |->
       IF requests[q].stage \in {"waiting", "deploying", "sent"}
       THEN [requests[q] EXCEPT !.stage = "error"] ELSE requests[q]]
  /\ UNCHANGED <<time, session, sessions, refused>>

\* isStaleSessionResponse: a first refusal is retried with another session.
ResponseArrives(r) ==
  LET retried == requests[r].stale # 0 IN
    /\ requests[r].stage = "sent"
    /\ \/ requests[r].accepted /\ SetStage(r, "answered")
       \/ ~requests[r].accepted /\ retried /\ SetStage(r, "surfaced")
       \/ ~requests[r].accepted /\ ~retried /\ Configure(r, requests[r].used)
    /\ UNCHANGED <<time, prefetch, session, sessions, refused, deployer>>

-----------------------------------------------------------------------------
(* The prefetch, the control plane and time *)

PrefetchEnds ==
  /\ prefetch.state = "deploying"
  /\ \E state \in {"ready", "failed"} : prefetch' = [state |-> state, minted |-> time]
  /\ UNCHANGED <<time, session, sessions, refused, deployer, requests>>

\* The control plane ends a token before its time.
TokenRefused(n) ==
  /\ n \in Deployed \ refused
  /\ refused' = refused \cup {n}
  /\ UNCHANGED <<time, prefetch, session, sessions, deployer, requests>>

\* Deployments take less than an instant.
RemoteTick ==
  /\ time < MaxTime
  /\ deployer = NoCall
  /\ prefetch.state # "deploying"
  /\ time' = time + 1
  /\ UNCHANGED <<prefetch, session, sessions, refused, deployer, requests>>

RemoteNext ==
  \/ \E r \in Calls :
       \/ RequestArrives(r)
       \/ EnterLock(r)
       \/ DeploySucceeds(r)
       \/ DeployFails(r)
       \/ ResponseArrives(r)
  \/ PrefetchEnds
  \/ \E n \in Numbered : TokenRefused(n)
  \/ RemoteTick

RemoteSpec == RemoteInit /\ [][RemoteNext]_remoteVars

\* Calls to the control plane time out, the lock is handed on in order, and a
\* response comes or fails.
RemoteFairness ==
  /\ WF_remoteVars(PrefetchEnds)
  /\ \A r \in Calls :
       /\ SF_remoteVars(EnterLock(r))
       /\ WF_remoteVars(DeploySucceeds(r) \/ DeployFails(r))
       /\ WF_remoteVars(ResponseArrives(r))

-----------------------------------------------------------------------------
(* Properties *)

\* A session that is no longer the cached one has been refused, or is too old:
\* "concurrent requests that all hit the same expired session share one redeploy
\* instead of each minting a new preview session".
SharedRefresh ==
  \A n \in Deployed \ {session} :
    \/ n \in refused
    \/ time - sessions[n].createdAt >= MaxAge
    \/ Expired(n)

\* A request is answered with the refusal of an expired token only if the control
\* plane ended that token early: neither an old session nor a prefetched token
\* that waited too long is enough, since there is a retry.
SurfacesOnlyRefused ==
  \A r \in Calls : requests[r].stage = "surfaced" => requests[r].used \in refused

\* Each request is answered, with whatever result.
RequestsEnd == \A r \in Calls :
  requests[r].stage = "waiting" ~> requests[r].stage \in {"answered", "surfaced", "error"}
=============================================================================
