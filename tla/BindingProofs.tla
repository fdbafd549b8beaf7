---------------------------- MODULE BindingProofs ----------------------------
(***************************************************************************)
(* For any requests, ages and times: a remote session is replaced only     *)
(* when it is refused or old, and a refusal reaches the client only if the *)
(* control plane ended the token.  For any sessions and connections: every *)
(* Chrome is in the reach of whoever kills it.  For any expressions: what  *)
(* a caller awaits is the whole of it.  For any messages, and any targets: *)
(* a pulled message is kept until the broker has it, and a proxy that has  *)
(* nothing to push has the registry's targets.                             *)
(***************************************************************************)
EXTENDS RemoteSession, Browser, PlatformProxy, QueuePull, RegistryTargets,
        FiniteSetTheorems, NaturalsInduction, SequenceTheorems, TLAPS

-----------------------------------------------------------------------------
(* Remote sessions *)

\* Only the request under the lock deploys, and there is no session meanwhile.
OneDeploys ==
  /\ \A r \in Calls : requests[r].stage = "deploying" <=> deployer = r
  /\ deployer # NoCall => session = 0

\* The session is the last one, and only the first can have an older token.
SessionsInOrder ==
  /\ session # 0 => session = Cardinality(Deployed)
  /\ Deployed # {} => prefetch.state = "none"
  /\ \A n \in Deployed : n = 1 \/ sessions[n].minted = sessions[n].createdAt

\* A request retries because of an expired token: without this part, the session
\* that EnterLock discards might be usable.
RetriedIsExpired ==
  \A r \in Calls : requests[r].stale # 0 => requests[r].stale \in Deployed /\ Expired(requests[r].stale)

\* The first answer may refuse an old token; that of a retry cannot.
RefusalsAreDue ==
  \A r \in Calls :
    requests[r].stage = "sent" /\ ~requests[r].accepted =>
      /\ requests[r].used \in Deployed
      /\ Expired(requests[r].used)
      /\ requests[r].stale # 0 => requests[r].used \in refused

RemoteInv ==
  /\ RemoteTypeOK
  /\ OneDeploys /\ SessionsInOrder /\ RetriedIsExpired /\ RefusalsAreDue
  /\ SharedRefresh /\ SurfacesOnlyRefused

\* What RemoteTypeOK says of the history: it is numbered, and a new session takes
\* the next number.
LEMMA Numbering ==
  ASSUME RemoteTypeOK
  PROVE  /\ Cardinality(Deployed) \in 0..MaxSessions
         /\ Deployed = 1..Cardinality(Deployed)
         /\ Deployed \subseteq Numbered
         /\ \A n \in Deployed : sessions[n] \in [minted : 0..MaxTime, createdAt : 0..MaxTime]
<1>. USE AgesAssumption
<1>1. PICK n \in 0..MaxSessions : sessions \in [1..n -> [minted : 0..MaxTime, createdAt : 0..MaxTime]]
  BY DEF RemoteTypeOK
<1>2. Deployed = 1..n
  BY <1>1 DEF Deployed
<1>3. Cardinality(Deployed) = n
  BY <1>2, FS_Interval
<1>. QED  BY <1>1, <1>2, <1>3 DEF Numbered

LEMMA RemoteInitInv == RemoteInit => RemoteInv
<1>. SUFFICES ASSUME RemoteInit PROVE RemoteInv
  OBVIOUS
<1>. USE AgesAssumption, NoCallAssumption DEF RemoteInit
<1>1. Deployed = {}
  BY DEF Deployed
<1>2. sessions \in [1..0 -> [minted : 0..MaxTime, createdAt : 0..MaxTime]]
  BY <1>1 DEF Deployed
<1>3. RemoteTypeOK
  BY <1>1, <1>2 DEF RemoteTypeOK, RequestStages
<1>. QED
  BY <1>1, <1>3
     DEF RemoteInv, OneDeploys, SessionsInOrder, RetriedIsExpired, RefusalsAreDue,
         SharedRefresh, SurfacesOnlyRefused

\* What has expired stays so while time passes and tokens are refused.
LEMMA ExpiryIsFinal ==
  ASSUME RemoteTypeOK, RemoteTypeOK', refused \subseteq refused', time <= time',
         NEW n \in Deployed, n \in Deployed', sessions'[n] = sessions[n]
  PROVE  /\ Expired(n) => Expired(n)'
         /\ time - sessions[n].createdAt >= MaxAge => time' - sessions'[n].createdAt >= MaxAge
<1>1. sessions[n] \in [minted : 0..MaxTime, createdAt : 0..MaxTime]
  BY Numbering
<1>2. time \in Nat /\ time' \in Nat
  BY AgesAssumption DEF RemoteTypeOK
<1>. QED  BY <1>1, <1>2, AgesAssumption DEF Expired

\* proxy() with a usable session, whether it is the first try or the retry.
LEMMA ProxyPreserves ==
  ASSUME RemoteInv, NEW r \in Calls, requests[r].stage \in {"idle", "waiting", "sent"},
         NEW stale \in {0} \cup Deployed, stale # 0 => Expired(stale),
         IsUsable(session, stale), Proxy(r, session, stale),
         UNCHANGED <<time, prefetch, session, sessions, refused, deployer>>
  PROVE  RemoteInv'
<1>. USE AgesAssumption, NoCallAssumption
<1>0. RemoteTypeOK /\ session \in Deployed /\ session # stale
  BY DEF RemoteInv, RemoteTypeOK, IsUsable, Deployed
<1>1. Deployed' = Deployed /\ (\A n : Expired(n)' <=> Expired(n))
  BY DEF Deployed, Expired
<1>2. /\ requests'[r] = [stage |-> "sent", stale |-> stale, used |-> session, accepted |-> ~Expired(session)]
      /\ \A q \in Calls \ {r} : requests'[q] = requests[q]
  BY <1>0 DEF Proxy, RemoteTypeOK
<1>3. RemoteTypeOK'
  <2>1. Expired(session) \in BOOLEAN
    BY DEF Expired
  <2>. QED  BY <1>0, <2>1, Numbering DEF Proxy, RemoteTypeOK, RequestStages
<1>4. OneDeploys'
  BY <1>2 DEF RemoteInv, OneDeploys
<1>5. SessionsInOrder' /\ SharedRefresh'
  BY <1>1 DEF RemoteInv, SessionsInOrder, SharedRefresh
<1>6. RetriedIsExpired'
  BY <1>1, <1>2 DEF RemoteInv, RetriedIsExpired
<1>7. stale # 0 /\ Expired(session) => session \in refused
  <2>. SUFFICES ASSUME stale # 0, Expired(session) PROVE session \in refused
    OBVIOUS
  <2>0. Deployed = 1..Cardinality(Deployed) /\ Cardinality(Deployed) \in Nat
    BY <1>0, Numbering
  <2>1. session # 1
    <3>1. session = Cardinality(Deployed)
      BY <1>0, <2>0 DEF RemoteInv, SessionsInOrder
    <3>2. stale \in 1..Cardinality(Deployed)
      BY <2>0
    <3>. QED  BY <1>0, <2>0, <3>1, <3>2
  <2>2. sessions[session].minted = sessions[session].createdAt
    BY <1>0, <2>1 DEF RemoteInv, SessionsInOrder
  <2>3. sessions[session].minted \in Int /\ time \in Int
    <3>1. \A n \in Deployed : sessions[n] \in [minted : 0..MaxTime, createdAt : 0..MaxTime]
      BY <1>0, Numbering
    <3>. QED  BY <1>0, <3>1 DEF RemoteTypeOK
  <2>4. time - sessions[session].minted < TokenLife
    BY <2>2, <2>3 DEF IsUsable
  <2>. QED  BY <2>3, <2>4 DEF Expired
<1>8. RefusalsAreDue'
  <2>1. ASSUME NEW q \in Calls, requests'[q].stage = "sent", ~requests'[q].accepted
        PROVE  LET n == requests'[q].used IN
               n \in Deployed /\ Expired(n) /\ (requests'[q].stale # 0 => n \in refused)
    <3>1. CASE q = r
      <4>. DEFINE ok == ~Expired(session)
      <4>1. requests'[r] = [stage |-> "sent", stale |-> stale, used |-> session, accepted |-> ok]
        BY <1>2
      <4>. HIDE DEF ok
      <4>2. ~ok
        BY <2>1, <3>1, <4>1
      <4>3. Expired(session)
        BY <4>2 DEF ok
      <4>. QED  BY <1>0, <1>2, <1>7, <3>1, <4>3
    <3>2. CASE q # r
      BY <1>2, <2>1, <3>2 DEF RemoteInv, RefusalsAreDue
    <3>. QED  BY <3>1, <3>2
  <2>. QED  BY <1>1, <2>1 DEF RefusalsAreDue, Expired
<1>9. SurfacesOnlyRefused'
  BY <1>2 DEF RemoteInv, SurfacesOnlyRefused
<1>. QED  BY <1>3, <1>4, <1>5, <1>6, <1>8, <1>9 DEF RemoteInv

\* configure(), for the first try and after a refusal
LEMMA ConfigurePreserves ==
  ASSUME RemoteInv, NEW r \in Calls, requests[r].stage \in {"idle", "sent"},
         NEW stale \in {0} \cup Deployed, stale # 0 => Expired(stale), Configure(r, stale),
         UNCHANGED <<time, prefetch, session, sessions, refused, deployer>>
  PROVE  RemoteInv'
<1>0. RemoteTypeOK
  BY DEF RemoteInv
<1>1. CASE IsUsable(session, stale)
  BY <1>1, ProxyPreserves DEF Configure
<1>2. CASE ~IsUsable(session, stale)
  <2>. DEFINE waits == [stage |-> "waiting", stale |-> stale, used |-> 0, accepted |-> FALSE]
  <2>1. requests' = [requests EXCEPT ![r] = waits]
    BY <1>2 DEF Configure
  <2>2. Deployed' = Deployed /\ (\A n : Expired(n)' <=> Expired(n))
    BY DEF Deployed, Expired
  <2>3. RemoteTypeOK'
    <3>1. stale \in {0} \cup Numbered
      BY <1>0, Numbering
    <3>2. waits \in [stage : RequestStages, stale : {0} \cup Numbered,
                     used : {0} \cup Numbered, accepted : BOOLEAN]
      BY <1>0, <3>1 DEF RemoteTypeOK, RequestStages
    <3>. QED  BY <1>0, <2>1, <3>2 DEF RemoteTypeOK
  <2>4. requests'[r] = waits /\ \A q \in Calls \ {r} : requests'[q] = requests[q]
    BY <1>0, <2>1 DEF RemoteTypeOK
  <2>. QED
    BY <2>2, <2>3, <2>4
       DEF RemoteInv, OneDeploys, SessionsInOrder, RetriedIsExpired, RefusalsAreDue,
           SharedRefresh, SurfacesOnlyRefused
<1>. QED  BY <1>1, <1>2

\* Under the lock the session is looked at again, and given up if it is not usable.
LEMMA EnterLockPreserves == ASSUME RemoteInv, NEW r \in Calls, EnterLock(r) PROVE RemoteInv'
<1>. USE AgesAssumption, NoCallAssumption
<1>. DEFINE stale == requests[r].stale
<1>0. RemoteTypeOK /\ stale \in {0} \cup Deployed /\ (stale # 0 => Expired(stale))
  BY DEF RemoteInv, RetriedIsExpired
<1>1. CASE IsUsable(session, stale)
  BY <1>0, <1>1, ProxyPreserves DEF EnterLock
<1>2. CASE ~IsUsable(session, stale)
  <2>1. /\ requests' = [requests EXCEPT ![r].stage = "deploying"]
        /\ deployer' = r /\ session' = 0
        /\ UNCHANGED <<time, prefetch, sessions, refused>>
        /\ requests[r].stage = "waiting" /\ deployer = NoCall
    BY <1>2 DEF EnterLock, SetStage
  <2>2. Deployed' = Deployed /\ (\A n : Expired(n)' <=> Expired(n))
    BY <2>1 DEF Deployed, Expired
  <2>3. RemoteTypeOK'
    BY <1>0, <2>1 DEF RemoteTypeOK, RequestStages
  <2>4. /\ requests'[r].stage = "deploying" /\ requests'[r].stale = requests[r].stale
        /\ \A q \in Calls \ {r} : requests'[q] = requests[q]
    BY <1>0, <2>1 DEF RemoteTypeOK
  <2>5. OneDeploys'
    BY <2>1, <2>4 DEF RemoteInv, OneDeploys
  <2>6. session # 0 /\ session # stale => time - sessions[session].createdAt >= MaxAge
    <3>1. session # 0 => sessions[session] \in [minted : 0..MaxTime, createdAt : 0..MaxTime] /\ time \in Int
      BY <1>0, Numbering DEF RemoteTypeOK, Deployed
    <3>. QED  BY <1>2, <3>1 DEF IsUsable
  <2>7. SharedRefresh'
    BY <1>0, <2>1, <2>2, <2>6 DEF RemoteInv, SharedRefresh
  <2>8. SessionsInOrder' /\ RetriedIsExpired'
    BY <2>1, <2>2, <2>4 DEF RemoteInv, SessionsInOrder, RetriedIsExpired
  <2>9. RefusalsAreDue' /\ SurfacesOnlyRefused'
    BY <2>1, <2>2, <2>4 DEF RemoteInv, RefusalsAreDue, SurfacesOnlyRefused
  <2>. QED  BY <2>3, <2>5, <2>7, <2>8, <2>9 DEF RemoteInv
<1>. QED  BY <1>1, <1>2

LEMMA DeploySucceedsPreserves == ASSUME RemoteInv, NEW r \in Calls, DeploySucceeds(r) PROVE RemoteInv'
<1>. USE AgesAssumption, NoCallAssumption
<1>. DEFINE n == Cardinality(Deployed) + 1
            minted == IF prefetch.state = "ready" THEN prefetch.minted ELSE time
            fits == time - minted < TokenLife
<1>0. RemoteTypeOK
  BY DEF RemoteInv
<1>1. /\ sessions' = [m \in 1..n |->
           IF m = n THEN [minted |-> minted, createdAt |-> time] ELSE sessions[m]]
      /\ session' = n /\ deployer' = NoCall /\ prefetch' = [state |-> "none", minted |-> 0]
      /\ UNCHANGED <<time, refused>>
      /\ n <= MaxSessions /\ prefetch.state \in {"ready", "none"} /\ requests[r].stage = "deploying"
  BY DEF DeploySucceeds
<1>2. requests' = [requests EXCEPT
        ![r] = [stage |-> "sent", stale |-> requests[r].stale, used |-> n, accepted |-> fits]]
  BY DEF DeploySucceeds
<1>3. /\ n \in 1..MaxSessions /\ Deployed = 1..(n-1) /\ Deployed' = 1..n
      /\ Deployed' = Deployed \cup {n} /\ n \notin Deployed
  BY <1>0, <1>1, Numbering DEF Deployed
<1>4. minted \in 0..MaxTime /\ time \in 0..MaxTime /\ fits \in BOOLEAN
  BY <1>0, <1>1 DEF RemoteTypeOK
<1>5. \A m \in Deployed : sessions'[m] = sessions[m]
  BY <1>1, <1>3
<1>6. sessions'[n] = [minted |-> minted, createdAt |-> time]
  BY <1>1, <1>3
<1>7. \A m \in Deployed : Expired(m)' <=> Expired(m)
  BY <1>1, <1>5 DEF Expired
<1>8. requests[r].stale # 0 => minted = time
  <2>1. requests[r].stale # 0 => Deployed # {}
    BY DEF RemoteInv, RetriedIsExpired
  <2>. QED  BY <1>1, <2>1 DEF RemoteInv, SessionsInOrder
<1>9. session = 0 /\ deployer = r
  BY <1>1 DEF RemoteInv, OneDeploys
<1>. HIDE DEF minted, fits
<1>10. sessions' \in [1..n -> [minted : 0..MaxTime, createdAt : 0..MaxTime]]
  <2>1. \A m \in Deployed : sessions[m] \in [minted : 0..MaxTime, createdAt : 0..MaxTime]
    BY <1>0, Numbering
  <2>. QED  BY <1>1, <1>3, <1>4, <2>1
<1>11. RemoteTypeOK'
  <2>1. session' \in {0} \cup DOMAIN sessions'
    BY <1>1, <1>3 DEF Deployed
  <2>2. n \in 0..MaxSessions /\ n \in Numbered
    BY <1>3 DEF Numbered
  <2>3. requests' \in [Calls -> [stage : RequestStages, stale : {0} \cup Numbered,
                                used : {0} \cup Numbered, accepted : BOOLEAN]]
    BY <1>0, <1>2, <1>4, <2>2 DEF RemoteTypeOK, RequestStages
  <2>4. \E k \in 0..MaxSessions :
          sessions' \in [1..k -> [minted : 0..MaxTime, createdAt : 0..MaxTime]]
    BY <1>10, <2>2
  <2>. QED  BY <1>0, <1>1, <2>1, <2>3, <2>4 DEF RemoteTypeOK
<1>12. requests'[r] = [stage |-> "sent", stale |-> requests[r].stale, used |-> n, accepted |-> fits]
  BY <1>0, <1>2 DEF RemoteTypeOK
<1>13. \A q \in Calls \ {r} : requests'[q] = requests[q]
  BY <1>0, <1>2 DEF RemoteTypeOK
<1>14. OneDeploys'
  BY <1>1, <1>9, <1>12, <1>13 DEF RemoteInv, OneDeploys
<1>15. SessionsInOrder'
  <2>1. Cardinality(Deployed') = n
    BY <1>3, FS_Interval
  <2>2. \A m \in Deployed : m = 1 \/ sessions[m].minted = sessions[m].createdAt
    BY DEF RemoteInv, SessionsInOrder
  <2>3. n = 1 \/ minted = time
    <3>1. n # 1 => Deployed # {}
      BY <1>3
    <3>. QED  BY <1>1, <3>1 DEF RemoteInv, SessionsInOrder, minted
  <2>. QED  BY <1>1, <1>3, <1>5, <1>6, <2>1, <2>2, <2>3 DEF SessionsInOrder
<1>16. RetriedIsExpired'
  BY <1>3, <1>7, <1>12, <1>13 DEF RemoteInv, RetriedIsExpired
<1>17. ~fits => time' - sessions'[n].minted >= TokenLife
  BY <1>1, <1>4, <1>6 DEF fits
<1>18. requests[r].stale # 0 => fits
  BY <1>4, <1>8 DEF fits
<1>19. RefusalsAreDue'
  <2>1. ASSUME NEW q \in Calls, requests'[q].stage = "sent", ~requests'[q].accepted
        PROVE  LET k == requests'[q].used IN
               /\ k \in Deployed'
               /\ k \in refused \/ time' - sessions'[k].minted >= TokenLife
               /\ requests'[q].stale # 0 => k \in refused
    <3>1. CASE q = r
      BY <1>3, <1>12, <1>17, <1>18, <2>1, <3>1
    <3>2. CASE q # r
      BY <1>1, <1>3, <1>5, <1>13, <2>1, <3>2 DEF RemoteInv, RefusalsAreDue, Expired
    <3>. QED  BY <3>1, <3>2
  <2>. QED  BY <1>1, <2>1 DEF RefusalsAreDue, Expired
<1>20. SharedRefresh'
  BY <1>1, <1>3, <1>5, <1>7, <1>9 DEF RemoteInv, SharedRefresh
<1>21. SurfacesOnlyRefused'
  BY <1>1, <1>12, <1>13 DEF RemoteInv, SurfacesOnlyRefused
<1>. QED  BY <1>11, <1>14, <1>15, <1>16, <1>19, <1>20, <1>21 DEF RemoteInv

LEMMA DeployFailsPreserves == ASSUME RemoteInv, NEW r \in Calls, DeployFails(r) PROVE RemoteInv'
<1>. USE AgesAssumption, NoCallAssumption
<1>0. RemoteTypeOK
  BY DEF RemoteInv
<1>. DEFINE Failed(q) == [stage |-> "error", stale |-> requests[q].stale, used |-> requests[q].used,
                          accepted |-> requests[q].accepted]
<1>1. \A q \in Calls :
        requests'[q] = IF requests[q].stage \in {"waiting", "deploying", "sent"}
                       THEN Failed(q) ELSE requests[q]
  <2>1. ASSUME NEW q \in Calls PROVE [requests[q] EXCEPT !.stage = "error"] = Failed(q)
    BY <1>0 DEF RemoteTypeOK
  <2>. QED  BY <2>1 DEF DeployFails
<1>2. Deployed' = Deployed /\ (\A n : Expired(n)' <=> Expired(n))
  BY DEF DeployFails, Deployed, Expired
<1>3. RemoteTypeOK'
  <2>1. \A q \in Calls : requests'[q] \in
          [stage : RequestStages, stale : {0} \cup Numbered, used : {0} \cup Numbered, accepted : BOOLEAN]
    <3>. SUFFICES ASSUME NEW q \in Calls
                  PROVE  requests'[q] \in [stage : RequestStages, stale : {0} \cup Numbered,
                                           used : {0} \cup Numbered, accepted : BOOLEAN]
      OBVIOUS
    <3>1. requests[q] \in [stage : RequestStages, stale : {0} \cup Numbered,
                           used : {0} \cup Numbered, accepted : BOOLEAN]
      BY <1>0 DEF RemoteTypeOK
    <3>2. Failed(q) \in [stage : RequestStages, stale : {0} \cup Numbered,
                         used : {0} \cup Numbered, accepted : BOOLEAN]
      BY <3>1 DEF RequestStages
    <3>3. requests'[q] = Failed(q) \/ requests'[q] = requests[q]
      BY <1>1
    <3>. QED  BY <3>1, <3>2, <3>3
  <2>2. DOMAIN requests' = Calls /\ requests' = [q \in Calls |-> requests'[q]]
    BY DEF DeployFails
  <2>. QED  BY <1>0, <2>1, <2>2 DEF DeployFails, RemoteTypeOK
<1>4. OneDeploys' /\ SessionsInOrder' /\ SharedRefresh'
  BY <1>1, <1>2 DEF DeployFails, RemoteInv, OneDeploys, SessionsInOrder, SharedRefresh
<1>5. RetriedIsExpired' /\ RefusalsAreDue' /\ SurfacesOnlyRefused'
  BY <1>1, <1>2 DEF DeployFails, RemoteInv, RetriedIsExpired, RefusalsAreDue, SurfacesOnlyRefused
<1>. QED  BY <1>3, <1>4, <1>5 DEF RemoteInv

LEMMA ResponsePreserves == ASSUME RemoteInv, NEW r \in Calls, ResponseArrives(r) PROVE RemoteInv'
<1>. USE AgesAssumption, NoCallAssumption
<1>0. RemoteTypeOK /\ requests[r].stage = "sent"
      /\ UNCHANGED <<time, prefetch, session, sessions, refused, deployer>>
  BY DEF RemoteInv, ResponseArrives
<1>1. CASE ~requests[r].accepted /\ requests[r].stale = 0 /\ Configure(r, requests[r].used)
  <2>1. requests[r].used \in Deployed /\ Expired(requests[r].used)
    BY <1>0, <1>1 DEF RemoteInv, RefusalsAreDue
  <2>. QED  BY <1>0, <1>1, <2>1, ConfigurePreserves
<1>2. ASSUME NEW stage \in {"answered", "surfaced"}, SetStage(r, stage),
             stage = "surfaced" => ~requests[r].accepted /\ requests[r].stale # 0
      PROVE  RemoteInv'
  <2>1. RemoteTypeOK'
    BY <1>0, <1>2 DEF RemoteTypeOK, SetStage, RequestStages
  <2>2. /\ requests'[r].stage = stage
        /\ requests'[r].stale = requests[r].stale /\ requests'[r].used = requests[r].used
        /\ \A q \in Calls \ {r} : requests'[q] = requests[q]
    BY <1>0, <1>2 DEF RemoteTypeOK, SetStage
  <2>3. Deployed' = Deployed /\ (\A n : Expired(n)' <=> Expired(n))
    BY <1>0 DEF Deployed, Expired
  <2>4. OneDeploys' /\ SessionsInOrder' /\ SharedRefresh'
    BY <1>0, <2>2, <2>3 DEF RemoteInv, OneDeploys, SessionsInOrder, SharedRefresh
  <2>5. RetriedIsExpired' /\ RefusalsAreDue'
    BY <1>0, <2>2, <2>3 DEF RemoteInv, RetriedIsExpired, RefusalsAreDue
  <2>6. SurfacesOnlyRefused'
    BY <1>0, <1>2, <2>2 DEF RemoteInv, RefusalsAreDue, SurfacesOnlyRefused
  <2>. QED  BY <2>1, <2>4, <2>5, <2>6 DEF RemoteInv
<1>. QED  BY <1>1, <1>2 DEF ResponseArrives

\* Neither time nor the control plane changes what requests and sessions know.
LEMMA AgeingPreserves ==
  ASSUME RemoteInv, RemoteTypeOK', time <= time', refused \subseteq refused',
         UNCHANGED <<session, sessions, deployer, requests>>,
         prefetch' = prefetch \/ prefetch.state = "deploying"
  PROVE  RemoteInv'
<1>0. RemoteTypeOK
  BY DEF RemoteInv
<1>1. Deployed' = Deployed
  BY DEF Deployed
<1>2. \A n \in Deployed :
        /\ Expired(n) => Expired(n)'
        /\ time - sessions[n].createdAt >= MaxAge => time' - sessions'[n].createdAt >= MaxAge
  BY <1>0, <1>1, ExpiryIsFinal
<1>3. OneDeploys' /\ SessionsInOrder'
  BY <1>1 DEF RemoteInv, OneDeploys, SessionsInOrder
<1>4. RetriedIsExpired' /\ RefusalsAreDue' /\ SurfacesOnlyRefused'
  BY <1>1, <1>2 DEF RemoteInv, RetriedIsExpired, RefusalsAreDue, SurfacesOnlyRefused
<1>5. SharedRefresh'
  BY <1>1, <1>2 DEF RemoteInv, SharedRefresh
<1>. QED  BY <1>3, <1>4, <1>5 DEF RemoteInv

LEMMA RemoteNextPreserves == RemoteInv /\ [RemoteNext]_remoteVars => RemoteInv'
<1>. SUFFICES ASSUME RemoteInv, [RemoteNext]_remoteVars PROVE RemoteInv'
  OBVIOUS
<1>. USE AgesAssumption
<1>0. RemoteTypeOK /\ time \in 0..MaxTime /\ prefetch \in [state : {"deploying", "ready", "failed", "none"}, minted : 0..MaxTime]
  BY DEF RemoteInv, RemoteTypeOK
<1>1. ASSUME NEW r \in Calls, RequestArrives(r) PROVE RemoteInv'
  BY <1>1, ConfigurePreserves DEF RequestArrives
<1>2. CASE PrefetchEnds
  <2>1. /\ time' \in 0..MaxTime /\ time <= time'
        /\ prefetch' \in [state : {"deploying", "ready", "failed", "none"}, minted : 0..MaxTime]
        /\ prefetch' = prefetch \/ prefetch.state = "deploying"
        /\ UNCHANGED <<session, sessions, refused, deployer, requests>>
    BY <1>0, <1>2 DEF PrefetchEnds
  <2>2. RemoteTypeOK'
    BY <1>0, <2>1 DEF RemoteTypeOK
  <2>. QED  BY <2>1, <2>2, AgeingPreserves
<1>3. ASSUME NEW n \in Numbered, TokenRefused(n) PROVE RemoteInv'
  <2>1. RemoteTypeOK'
    BY <1>0, <1>3 DEF TokenRefused, RemoteTypeOK
  <2>. QED  BY <1>0, <1>3, <2>1, AgeingPreserves DEF TokenRefused, RemoteTypeOK
<1>4. CASE RemoteTick
  <2>1. /\ time' \in 0..MaxTime /\ time <= time'
        /\ prefetch' \in [state : {"deploying", "ready", "failed", "none"}, minted : 0..MaxTime]
        /\ prefetch' = prefetch \/ prefetch.state = "deploying"
        /\ UNCHANGED <<session, sessions, refused, deployer, requests>>
    BY <1>0, <1>4 DEF RemoteTick
  <2>2. RemoteTypeOK'
    BY <1>0, <2>1 DEF RemoteTypeOK
  <2>. QED  BY <2>1, <2>2, AgeingPreserves
<1>5. CASE UNCHANGED remoteVars
  <2>1. RemoteTypeOK'
    BY <1>0, <1>5 DEF remoteVars, RemoteTypeOK
  <2>. QED  BY <1>0, <1>5, <2>1, AgeingPreserves DEF remoteVars, RemoteTypeOK
<1>. QED
  BY <1>1, <1>2, <1>3, <1>4, <1>5, EnterLockPreserves, DeploySucceedsPreserves,
     DeployFailsPreserves, ResponsePreserves DEF RemoteNext

\* `RemoteInv` holds in every reachable state, however the requests, the deploys and the
\* expirations of sessions and tokens interleave.
THEOREM RemoteInvariance == RemoteSpec => []RemoteInv
BY RemoteInitInv, RemoteNextPreserves, PTL DEF RemoteSpec

\* Every variable of the remote session keeps its type.
THEOREM RemoteTypeCorrect == RemoteSpec => []RemoteTypeOK
<1>1. RemoteInv => RemoteTypeOK
  BY DEF RemoteInv
<1>. QED  BY <1>1, RemoteInvariance, PTL

\* Requests that find the same session expired share one deployment: no usable
\* session is ever replaced.
THEOREM RefreshesAreShared == RemoteSpec => []SharedRefresh
<1>1. RemoteInv => SharedRefresh
  BY DEF RemoteInv
<1>. QED  BY <1>1, RemoteInvariance, PTL

\* The retry hides every refusal that is only due to the age of a token.
THEOREM OnlyEarlyRefusalsSurface == RemoteSpec => []SurfacesOnlyRefused
<1>1. RemoteInv => SurfacesOnlyRefused
  BY DEF RemoteInv
<1>. QED  BY <1>1, RemoteInvariance, PTL

-----------------------------------------------------------------------------
(* Browser sessions *)

\* No launch begins after the shutdown.
NoLateLaunch == ~up => \A s \in Sessions : acquired[s] = "launching" => s \in overtaken

\* The finalizer and /browser/close take from browserProcesses what they kill: every
\* running Chrome is there once its launch has been answered, up to the shutdown.
BrowserInv == BrowserTypeOK /\ NoLateLaunch /\ EveryChromeCanBeKilled

\* The types of the object side, by the names that BrowserTypeOK does not give them
Fields == [info : BOOLEAN, connected : BOOLEAN, socket : BOOLEAN, legacy : BOOLEAN,
           timer : {"none", "armed", "asking"}]
RawStates == [of : Sessions, page : BOOLEAN, state : {"idle", "connecting", "open", "lost", "closed"}]

LEMMA BrowserInitInv == BrowserInit => BrowserInv
BY SessionsAssumption DEF BrowserInit, BrowserInv, BrowserTypeOK, NoLateLaunch, EveryChromeCanBeKilled

\* BrowserSession's handlers leave the Node side alone.
LEMMA ObjectSidePreserves ==
  ASSUME BrowserInv, BrowserTypeOK', UNCHANGED nodeSide,
         \A s \in Sessions : acquired[s] = "launching" <=> acquired'[s] = "launching"
  PROVE  BrowserInv'
BY DEF BrowserInv, nodeSide, NoLateLaunch, EveryChromeCanBeKilled

LEMMA ClosingKeepsTypes ==
  ASSUME BrowserTypeOK, NEW s \in Sessions, NEW timer \in {"none", "armed", "asking"}
  PROVE  /\ CloseSession(s, timer) /\ UNCHANGED <<nodeSide, acquired>> => BrowserTypeOK'
         /\ CloseWebSockets(s) /\ UNCHANGED <<nodeSide, acquired>> => BrowserTypeOK'
         /\ StoppedTimer(s) \in {"none", "armed", "asking"}
         /\ \A those : Closed(those) \in [Connections -> RawStates]
<1>1. \A those : Closed(those) \in [Connections -> RawStates]
  BY DEF BrowserTypeOK, Closed, RawStates
<1>2. CloseSession(s, timer) /\ UNCHANGED <<nodeSide, acquired>> => BrowserTypeOK'
  BY <1>1 DEF CloseSession, NoSession, BrowserTypeOK, RawStates, nodeSide
<1>3. CloseWebSockets(s) /\ UNCHANGED <<nodeSide, acquired>> => BrowserTypeOK'
  <2>. SUFFICES ASSUME CloseWebSockets(s), UNCHANGED <<nodeSide, acquired>> PROVE BrowserTypeOK'
    OBVIOUS
  <2>1. browser' \in [Sessions -> Fields]
    BY DEF CloseWebSockets, BrowserTypeOK, Fields
  <2>. QED  BY <1>1, <2>1 DEF CloseWebSockets, BrowserTypeOK, Fields, RawStates, nodeSide
<1>. QED  BY <1>1, <1>2, <1>3 DEF StoppedTimer

\* The launch of a Chrome, its end, and whoever ends it
LEMMA NodeSidePreserves ==
  ASSUME BrowserInv, NEW s \in Sessions,
         \/ AcquireStarts(s) \/ ChromeStarts(s) \/ LaunchFails(s) \/ LaunchAnswers(s)
         \/ ChromeExits(s) \/ ExitEvent(s) \/ LoopbackClose(s) \/ Shutdown
  PROVE  BrowserInv'
<1>0. BrowserTypeOK /\ NoLateLaunch /\ EveryChromeCanBeKilled
  BY DEF BrowserInv
<1>. USE <1>0 DEF BrowserInv, BrowserTypeOK, NoLateLaunch, EveryChromeCanBeKilled, nodeSide, objectSide
<1>1. CASE AcquireStarts(s)
  BY <1>1 DEF AcquireStarts
<1>2. CASE ChromeStarts(s)
  BY <1>2 DEF ChromeStarts
<1>3. CASE LaunchFails(s)
  BY <1>3 DEF LaunchFails
<1>4. CASE LaunchAnswers(s)
  BY <1>4 DEF LaunchAnswers
<1>5. CASE ChromeExits(s)
  BY <1>5 DEF ChromeExits
<1>6. CASE ExitEvent(s)
  BY <1>6 DEF ExitEvent
<1>7. CASE LoopbackClose(s)
  BY <1>7 DEF LoopbackClose, Killed
<1>8. CASE Shutdown
  BY <1>8 DEF Shutdown, Killed
<1>. QED  BY <1>1, <1>2, <1>3, <1>4, <1>5, <1>6, <1>7, <1>8

LEMMA SessionPreserves ==
  ASSUME BrowserInv, NEW s \in Sessions,
         \/ SetSessionInfo(s) \/ ChromeSocketOpens(s) \/ ChromeSocketFails(s)
         \/ ChromeSocketCloses(s) \/ GetSessionInfo(s) \/ StatusCheck(s) \/ StatusAnswers(s)
         \/ ConnectDevtools(s) \/ LegacyCloses(s)
  PROVE  BrowserInv'
<1>0. BrowserTypeOK
  BY DEF BrowserInv
<1>1. browser \in [Sessions -> Fields]
  BY <1>0 DEF BrowserTypeOK, Fields
<1>2. CASE SetSessionInfo(s) \/ ChromeSocketOpens(s) \/ ChromeSocketFails(s)
  <2>1. BrowserTypeOK'
    <3>1. browser' \in [Sessions -> Fields]
      <4>1. CASE SetSessionInfo(s)
        BY <1>1, <4>1 DEF SetSessionInfo, Fields
      <4>2. CASE ChromeSocketOpens(s)
        BY <1>1, <4>2 DEF ChromeSocketOpens, Fields
      <4>3. CASE ChromeSocketFails(s)
        BY <1>1, <4>3 DEF ChromeSocketFails, objectSide
      <4>. QED  BY <1>2, <4>1, <4>2, <4>3
    <3>2. acquired' \in [Sessions -> {"idle", "launching", "launched", "posting", "done", "failed"}]
      BY <1>0, <1>2 DEF SetSessionInfo, ChromeSocketOpens, ChromeSocketFails, BrowserTypeOK
    <3>3. UNCHANGED <<nodeSide, connections>>
      BY <1>2 DEF SetSessionInfo, ChromeSocketOpens, ChromeSocketFails, objectSide
    <3>. QED  BY <1>0, <3>1, <3>2, <3>3 DEF BrowserTypeOK, Fields, nodeSide
  <2>2. UNCHANGED nodeSide /\ \A q \in Sessions : acquired[q] = "launching" <=> acquired'[q] = "launching"
    BY <1>0, <1>2 DEF SetSessionInfo, ChromeSocketOpens, ChromeSocketFails, BrowserTypeOK
  <2>. QED  BY <2>1, <2>2, ObjectSidePreserves
<1>3. CASE ChromeSocketCloses(s) \/ GetSessionInfo(s) \/ LegacyCloses(s)
  BY <1>0, <1>3, ClosingKeepsTypes, ObjectSidePreserves
     DEF ChromeSocketCloses, GetSessionInfo, LegacyCloses
<1>4. CASE StatusCheck(s) \/ ConnectDevtools(s)
  <2>1. BrowserTypeOK'
    <3>1. browser' \in [Sessions -> Fields]
      <4>1. CASE StatusCheck(s)
        <5>1. AgainIfOpen(s) \in {"none", "armed"}
          BY DEF AgainIfOpen
        <5>2. \/ browser' = [browser EXCEPT ![s].timer = "asking"]
              \/ browser' = [browser EXCEPT ![s].timer = AgainIfOpen(s)]
          BY <4>1 DEF StatusCheck
        <5>. QED  BY <1>1, <5>1, <5>2 DEF Fields
      <4>2. CASE ConnectDevtools(s)
        BY <1>1, <4>2 DEF ConnectDevtools, Fields
      <4>. QED  BY <1>4, <4>1, <4>2
    <3>. QED  BY <1>0, <1>4, <3>1 DEF StatusCheck, ConnectDevtools, BrowserTypeOK, Fields, nodeSide
  <2>. QED  BY <1>4, <2>1, ObjectSidePreserves DEF StatusCheck, ConnectDevtools
<1>5. CASE StatusAnswers(s)
  <2>1. BrowserTypeOK'
    <3>1. CASE s \in browserProcesses
      <4>1. AgainIfOpen(s) \in {"none", "armed"}
        BY DEF AgainIfOpen
      <4>2. browser' \in [Sessions -> Fields]
        BY <1>1, <1>5, <3>1, <4>1 DEF StatusAnswers, Fields
      <4>. QED  BY <1>0, <1>5, <3>1, <4>2 DEF StatusAnswers, BrowserTypeOK, Fields, nodeSide
    <3>2. CASE s \notin browserProcesses
      BY <1>0, <1>5, <3>2, ClosingKeepsTypes DEF StatusAnswers
    <3>. QED  BY <3>1, <3>2
  <2>. QED  BY <1>5, <2>1, ObjectSidePreserves DEF StatusAnswers
<1>. QED  BY <1>2, <1>3, <1>4, <1>5

LEMMA ConnectionPreserves ==
  ASSUME BrowserInv, NEW c \in Connections, NEW s \in Sessions, NEW page \in BOOLEAN,
         RawConnects(c, s, page) \/ RawOpens(c) \/ RawCloses(c)
  PROVE  BrowserInv'
<1>0. BrowserTypeOK
  BY DEF BrowserInv
<1>1. BrowserTypeOK'
  <2>1. CASE RawConnects(c, s, page)
    BY <1>0, <2>1 DEF RawConnects, BrowserTypeOK, nodeSide
  <2>2. CASE RawOpens(c)
    <3>1. browser' \in [Sessions -> Fields]
      <4>1. browser \in [Sessions -> Fields] /\ connections[c].of \in Sessions
        BY <1>0 DEF BrowserTypeOK, Fields
      <4>2. PICK t \in Sessions : browser' = browser \/ browser' = [browser EXCEPT ![t].connected = TRUE]
        BY <2>2, <4>1 DEF RawOpens
      <4>3. [browser EXCEPT ![t].connected = TRUE] \in [Sessions -> Fields]
        BY <4>1 DEF Fields
      <4>. QED  BY <4>1, <4>2, <4>3
    <3>2. connections' \in [Connections -> RawStates]
      <4>1. connections \in [Connections -> RawStates]
        BY <1>0 DEF BrowserTypeOK, RawStates
      <4>2. \E state \in {"open", "lost"} : connections' = [connections EXCEPT ![c].state = state]
        BY <2>2 DEF RawOpens
      <4>. QED  BY <4>1, <4>2 DEF RawStates
    <3>. QED  BY <1>0, <2>2, <3>1, <3>2 DEF RawOpens, BrowserTypeOK, Fields, RawStates, nodeSide
  <2>3. CASE RawCloses(c)
    BY <1>0, <2>3, ClosingKeepsTypes, SessionsAssumption
       DEF RawCloses, BrowserTypeOK, RawStates, nodeSide
  <2>. QED  BY <2>1, <2>2, <2>3
<1>2. UNCHANGED <<nodeSide, acquired>>
  BY DEF RawConnects, RawOpens, RawCloses
<1>. QED  BY <1>1, <1>2, ObjectSidePreserves

LEMMA BrowserNextPreserves == BrowserInv /\ [BrowserNext]_browserVars => BrowserInv'
<1>. SUFFICES ASSUME BrowserInv, [BrowserNext]_browserVars PROVE BrowserInv'
  OBVIOUS
<1>1. ASSUME NEW s \in Sessions, CloseBrowser(s) PROVE BrowserInv'
  BY <1>1 DEF CloseBrowser, BrowserInv, BrowserTypeOK, NoLateLaunch, EveryChromeCanBeKilled, objectSide
<1>2. CASE Shutdown
  BY <1>2, SessionsAssumption, NodeSidePreserves
<1>3. ASSUME NEW c \in Connections, RawOpens(c) \/ RawCloses(c) PROVE BrowserInv'
  BY <1>3, SessionsAssumption, ConnectionPreserves
<1>4. CASE UNCHANGED browserVars
  BY <1>4 DEF browserVars, BrowserInv, BrowserTypeOK, NoLateLaunch, EveryChromeCanBeKilled
<1>. QED
  BY <1>1, <1>2, <1>3, <1>4, NodeSidePreserves, SessionPreserves, ConnectionPreserves DEF BrowserNext

\* `BrowserInv` holds in every reachable state, in whatever order Chromes launch and exit and
\* clients connect and go.
THEOREM BrowserInvariance == BrowserSpec => []BrowserInv
BY BrowserInitInv, BrowserNextPreserves, PTL DEF BrowserSpec

\* Until the shutdown every Chrome that runs is being launched, or is known to
\* /browser/close and the finalizer, whatever fails or exits; after it only Chromes run
\* whose launch it overtook.
THEOREM NoChromeIsLeft == BrowserSpec => []EveryChromeCanBeKilled
<1>1. BrowserInv => EveryChromeCanBeKilled
  BY DEF BrowserInv
<1>. QED  BY <1>1, BrowserInvariance, PTL

\* Every variable of the browser simulator keeps its type.
THEOREM BrowserTypeCorrect == BrowserSpec => []BrowserTypeOK
<1>1. BrowserInv => BrowserTypeOK
  BY DEF BrowserInv
<1>. QED  BY <1>1, BrowserInvariance, PTL

-----------------------------------------------------------------------------
(* The platform proxy *)

\* Induction over the depth of an expression is on a counterexample of least depth.
LEMMA LeastNumber ==
  ASSUME NEW T, T \subseteq Nat, T # {}
  PROVE  \E k \in T : \A m \in T : k <= m
<1>1. \E k \in T : \A m \in T : ~ (<<m, k>> \in OpToRel(<, Nat))
  BY NatLessThanWellFounded, WFMin
<1>2. \A m, k \in Nat : m < k => <<m, k>> \in OpToRel(<, Nat)
  <2>. SUFFICES ASSUME NEW m \in Nat, NEW k \in Nat, m < k PROVE <<m, k>> \in OpToRel(<, Nat)
    OBVIOUS
  <2>1. <<m, k>> \in Nat \X Nat /\ <<m, k>>[1] = m /\ <<m, k>>[2] = k
    OBVIOUS
  <2>. QED  BY <2>1 DEF OpToRel
<1>3. \A m, k \in Nat : m < k \/ k <= m
  OBVIOUS
<1>. QED  BY <1>1, <1>2, <1>3

TheCall(e) == [place |-> <<>>, stub |-> e]
Deeper(C) == C \cup UNION {Operands(c) : c \in C}

\* The recursive function of CallsWithin exists: the calls down to each depth.
LEMMA DepthsExist ==
  ASSUME NEW e \in Stubs, NEW N \in Nat
  PROVE  \E f : f = [n \in 0..N |-> IF n = 0 THEN {TheCall(e)} ELSE Deeper(f[n - 1])]
<1>. DEFINE IsDepths(f, m) == f = [n \in 0..m |-> IF n = 0 THEN {TheCall(e)} ELSE Deeper(f[n - 1])]
            bad == {m \in Nat : ~ \E f : IsDepths(f, m)}
<1>1. SUFFICES ASSUME bad # {} PROVE FALSE
  OBVIOUS
<1>2. PICK m \in bad : \A k \in bad : m <= k
  BY <1>1, LeastNumber
<1>3. CASE m = 0
  <2>1. IsDepths([n \in 0..0 |-> {TheCall(e)}], 0)
    OBVIOUS
  <2>. QED  BY <1>2, <1>3, <2>1
<1>4. CASE m # 0
  <2>. HIDE DEF IsDepths
  <2>1. m - 1 \in Nat /\ m - 1 \notin bad
    <3>1. m \in Nat
      OBVIOUS
    <3>2. m - 1 \in Nat /\ ~(m <= m - 1)
      BY <1>4, <3>1
    <3>. QED  BY <1>2, <3>2
  <2>2. PICK f : IsDepths(f, m - 1)
    BY <2>1
  <2>. USE DEF IsDepths
  <2>. DEFINE g == [n \in 0..m |-> IF n = m THEN Deeper(f[m - 1]) ELSE f[n]]
  <2>3. ASSUME NEW n \in 0..m PROVE g[n] = IF n = 0 THEN {TheCall(e)} ELSE Deeper(g[n - 1])
    <3>1. CASE n = m
      BY <1>4, <2>1, <3>1
    <3>2. CASE n # m
      <4>1. n \in 0..(m - 1) /\ (n # 0 => n - 1 \in 0..(m - 1))
        BY <2>1, <3>2
      <4>2. f[n] = IF n = 0 THEN {TheCall(e)} ELSE Deeper(f[n - 1])
        BY <2>2, <4>1
      <4>. QED  BY <2>1, <3>2, <4>1, <4>2
    <3>. QED  BY <3>1, <3>2
  <2>4. IsDepths(g, m)
    BY <2>3
  <2>. QED  BY <1>2, <2>4
<1>. QED  BY <1>3, <1>4

\* What an expression consists of: the call itself, and calls of operands
LEMMA CallsHaveParents ==
  ASSUME NEW e \in Stubs
  PROVE  /\ TheCall(e) \in CallsOf[e]
         /\ \A c \in CallsOf[e] : c.stub \in Stubs /\ c.place \in Seq(Nat)
         /\ \A c \in CallsOf[e] : c = TheCall(e) \/ \E p \in CallsOf[e] : c \in Operands(p)
<1>. DEFINE N == Cardinality(Stubs)
            f == CHOOSE g : g = [n \in 0..N |-> IF n = 0 THEN {TheCall(e)} ELSE Deeper(g[n - 1])]
<1>1. N \in Nat
  BY ArgsAssumption, FS_CardinalityType
<1>2. f = [n \in 0..N |-> IF n = 0 THEN {TheCall(e)} ELSE Deeper(f[n - 1])]
  BY <1>1, DepthsExist
<1>3. CallsOf[e] = f[N]
  BY DEF CallsOf, CallsWithin, TheCall, Deeper
<1>. DEFINE HaveParents(C) ==
       /\ TheCall(e) \in C
       /\ \A c \in C : c.stub \in Stubs /\ c.place \in Seq(Nat)
       /\ \A c \in C : c = TheCall(e) \/ \E p \in C : c \in Operands(p)
<1>. HIDE DEF f
<1>4. HaveParents({TheCall(e)})
  BY DEF TheCall
<1>5. ASSUME NEW C, HaveParents(C) PROVE HaveParents(Deeper(C))
  <2>1. ASSUME NEW c \in C, NEW d \in Operands(c) PROVE d.stub \in Stubs /\ d.place \in Seq(Nat)
    <3>1. PICK i \in Chained(c.stub) : d = [place |-> Append(c.place, i), stub |-> Operand(c.stub, i)]
      BY <2>1 DEF Operands
    <3>2. Len(ArgsOf[c.stub]) \in Nat
      BY <1>5, ArgsAssumption
    <3>3. i \in Nat /\ Operand(c.stub, i) \in Stubs
      BY <3>2 DEF Chained
    <3>. QED  BY <1>5, <3>1, <3>3
  <2>. QED  BY <1>5, <2>1 DEF Deeper
<1>. DEFINE bad == {n \in 0..N : ~ HaveParents(f[n])}
<1>6. ASSUME bad # {} PROVE FALSE
  <2>. HIDE DEF HaveParents
  <2>1. PICK n \in bad : \A k \in bad : n <= k
    <3>1. bad \subseteq Nat
      OBVIOUS
    <3>. QED  BY <1>6, <3>1, LeastNumber
  <2>2. CASE n = 0
    BY <1>1, <1>2, <1>4, <2>1, <2>2
  <2>3. CASE n # 0
    <3>1. n \in 0..N /\ n - 1 \in 0..N /\ ~(n <= n - 1)
      BY <1>1, <2>3
    <3>2. n - 1 \notin bad /\ f[n] = Deeper(f[n - 1])
      BY <1>2, <2>1, <2>3, <3>1
    <3>3. HaveParents(f[n - 1])
      BY <3>1, <3>2
    <3>. QED  BY <1>5, <3>2, <3>3
  <2>. QED  BY <2>2, <2>3
<1>7. HaveParents(f[N])
  BY <1>1, <1>6
<1>. QED  BY <1>3, <1>7

LEMMA PathsDiffer ==
  ASSUME NEW s \in Seq(Nat), NEW t \in Seq(Nat), NEW i \in Nat, NEW j \in Nat,
         Append(s, i) = Append(t, j)
  PROVE  s = t /\ i = j
BY AppendInjective

\* A call is known by its place.
LEMMA PlacesAreUnique ==
  ASSUME NEW e \in Stubs, NEW c \in CallsOf[e], NEW d \in CallsOf[e], c.place = d.place
  PROVE  c = d
<1>. DEFINE Twins(k) ==
       \E x, y \in CallsOf[e] : x.place = y.place /\ Len(x.place) = k /\ x # y
            bad == {k \in Nat : Twins(k)}
<1>1. \A x \in CallsOf[e] : x.place \in Seq(Nat) /\ Len(x.place) \in Nat
  BY CallsHaveParents
<1>2. ASSUME bad # {} PROVE FALSE
  <2>1. PICK k \in bad : \A m \in bad : k <= m
    BY <1>2, LeastNumber
  <2>2. PICK x \in CallsOf[e], y \in CallsOf[e] : x.place = y.place /\ Len(x.place) = k /\ x # y
    OBVIOUS
  <2>. HIDE DEF bad
  <2>3. ASSUME NEW z \in CallsOf[e], NEW p \in CallsOf[e], z \in Operands(p)
        PROVE  \E i \in Nat : z = [place |-> Append(p.place, i), stub |-> Operand(p.stub, i)]
    <3>1. PICK i \in Chained(p.stub) : z = [place |-> Append(p.place, i), stub |-> Operand(p.stub, i)]
      BY <2>3 DEF Operands
    <3>2. p.stub \in Stubs
      BY CallsHaveParents
    <3>3. Len(ArgsOf[p.stub]) \in Nat
      BY <3>2, ArgsAssumption
    <3>4. i \in Nat
      BY <3>3 DEF Chained
    <3>. QED  BY <3>1, <3>4
  <2>4. x # TheCall(e) /\ y # TheCall(e)
    <3>1. \A z \in CallsOf[e] : z # TheCall(e) => z.place # <<>>
      <4>. SUFFICES ASSUME NEW z \in CallsOf[e], z # TheCall(e) PROVE z.place # <<>>
        OBVIOUS
      <4>1. PICK p \in CallsOf[e] : z \in Operands(p)
        BY CallsHaveParents
      <4>2. PICK i \in Nat : z = [place |-> Append(p.place, i), stub |-> Operand(p.stub, i)]
        BY <2>3, <4>1
      <4>3. p.place \in Seq(Nat)
        BY <1>1
      <4>4. Append(p.place, i) # <<>>
        BY <4>3, AppendProperties
      <4>. QED  BY <4>2, <4>4
    <3>2. TheCall(e).place = <<>>
      BY DEF TheCall
    <3>. QED  BY <2>2, <3>1, <3>2
  <2>5. PICK p \in CallsOf[e], i \in Nat : x = [place |-> Append(p.place, i), stub |-> Operand(p.stub, i)]
    <3>1. PICK p \in CallsOf[e] : x \in Operands(p)
      BY <2>4, CallsHaveParents
    <3>. QED  BY <2>3, <3>1
  <2>6. PICK q \in CallsOf[e], j \in Nat : y = [place |-> Append(q.place, j), stub |-> Operand(q.stub, j)]
    <3>1. PICK q \in CallsOf[e] : y \in Operands(q)
      BY <2>4, CallsHaveParents
    <3>. QED  BY <2>3, <3>1
  <2>7. Append(p.place, i) = Append(q.place, j)
    BY <2>2, <2>5, <2>6
  <2>8. p.place = q.place /\ i = j
    <3>1. p.place \in Seq(Nat) /\ q.place \in Seq(Nat)
      BY <1>1
    <3>. QED  BY <2>7, <3>1, PathsDiffer
  <2>9. Len(p.place) \in Nat /\ k = Len(p.place) + 1
    BY <1>1, <2>2, <2>5
  <2>10. p # q
    BY <2>2, <2>5, <2>6, <2>8
  <2>11. Len(p.place) \in bad
    BY <2>8, <2>9, <2>10 DEF bad
  <2>. QED  BY <2>1, <2>9, <2>11
<1>. QED  BY <1>1, <1>2

\* If an expression's own call has returned, and no call without those of its
\* operands, all have.
LEMMA RootComesLast ==
  ASSUME NEW e \in Stubs, NEW S, S \subseteq CallsOf[e], TheCall(e) \in S,
         \A c \in S : \A i \in Chained(c.stub) : \E d \in S : d.place = Append(c.place, i)
  PROVE  S = CallsOf[e]
<1>. DEFINE bad == {k \in Nat : \E c \in CallsOf[e] \ S : Len(c.place) = k}
<1>1. \A x \in CallsOf[e] : x.place \in Seq(Nat) /\ Len(x.place) \in Nat
  BY CallsHaveParents
<1>2. ASSUME bad # {} PROVE FALSE
  <2>1. PICK k \in bad : \A m \in bad : k <= m
    BY <1>2, LeastNumber
  <2>2. PICK c \in CallsOf[e] \ S : Len(c.place) = k
    OBVIOUS
  <2>. HIDE DEF bad
  <2>3. PICK p \in CallsOf[e] : c \in Operands(p)
    BY <2>2, CallsHaveParents
  <2>4. PICK i \in Chained(p.stub) : c = [place |-> Append(p.place, i), stub |-> Operand(p.stub, i)]
    BY <2>3 DEF Operands
  <2>5. i \in Nat
    <3>1. p.stub \in Stubs
      BY CallsHaveParents
    <3>2. Len(ArgsOf[p.stub]) \in Nat
      BY <3>1, ArgsAssumption
    <3>. QED  BY <3>2 DEF Chained
  <2>6. Len(p.place) \in Nat /\ k = Len(p.place) + 1
    BY <1>1, <2>2, <2>4, <2>5
  <2>7. p \in S
    <3>1. Len(p.place) \notin bad
      BY <2>1, <2>6
    <3>. QED  BY <2>6, <3>1 DEF bad
  <2>8. PICK d \in S : d.place = c.place
    BY <2>4, <2>7
  <2>. QED  BY <2>2, <2>8, PlacesAreUnique
<1>. QED  BY <1>1, <1>2

AllCalls == UNION {CallsOf[e] : e \in Stubs}

\* The two halves of AnswersAreComplete: how a request is answered, and in which
\* order its calls were evaluated.
Fits(x) ==
  /\ answer[x] = "resolved" => evaluated[x] = CallsOf[x.stub] /\ threw[x] = {}
  /\ answer[x] = "rejected" =>
       threw[x] # {} \/ disposed \/ x.stub \in Opaque \/ HasForeign(x.stub)
  /\ threw[x] # {} => answer[x] = "rejected"
OperandsFirst(x) == \A c \in evaluated[x] : OperandsDone(x, c)

PlatformInv ==
  /\ PlatformTypeOK
  /\ evaluated \in [SendIds -> SUBSET AllCalls] /\ threw \in [SendIds -> SUBSET AllCalls]
  /\ \A x \in SendIds : Fits(x) /\ OperandsFirst(x)

LEMMA PlatformInitInv == PlatformInit => PlatformInv
BY DEF PlatformInit, PlatformInv, PlatformTypeOK, Fits, OperandsFirst

\* What has returned stays so.
LEMMA OrderIsKept ==
  ASSUME PlatformInv, evaluated' = evaluated
  PROVE  \A x \in SendIds : OperandsFirst(x)'
BY DEF PlatformInv, OperandsFirst, OperandsDone

LEMMA SendPreserves == ASSUME PlatformInv, NEW x \in SendIds, Send(x) PROVE PlatformInv'
<1>0. PlatformTypeOK
  BY DEF PlatformInv
<1>1. PICK a \in {"rejected", "pending"} :
        /\ answer' = [answer EXCEPT ![x] = a]
        /\ a = "rejected" => disposed \/ HasForeign(x.stub)
  BY DEF Send
<1>2. answer[x] = "unsent" /\ UNCHANGED <<evaluated, threw, disposed>>
  BY DEF Send
<1>3. PlatformTypeOK'
  BY <1>0, <1>1, <1>2 DEF PlatformTypeOK
<1>4. \A y \in SendIds : Fits(y)'
  BY <1>0, <1>1, <1>2 DEF PlatformTypeOK, PlatformInv, Fits
<1>. QED  BY <1>2, <1>3, <1>4, OrderIsKept DEF PlatformInv

LEMMA EvaluatePreserves ==
  ASSUME PlatformInv, NEW x \in SendIds, NEW c \in CallsOf[x.stub], Evaluate(x, c)
  PROVE  PlatformInv'
<1>0. PlatformTypeOK /\ x.stub \in Stubs
  BY DEF PlatformInv, SendIds
<1>1. /\ evaluated' = [evaluated EXCEPT ![x] = evaluated[x] \cup {c}]
      /\ UNCHANGED <<answer, threw, disposed>>
      /\ OperandsDone(x, c)
      /\ answer[x] # "resolved"
  BY <1>0 DEF Evaluate, Arrived, Ready, PlatformInv, Fits
<1>2. /\ evaluated'[x] = evaluated[x] \cup {c}
      /\ \A y \in SendIds \ {x} : evaluated'[y] = evaluated[y]
      /\ evaluated' \in [SendIds -> SUBSET AllCalls]
  BY <1>0, <1>1 DEF PlatformInv, AllCalls
<1>3. PlatformTypeOK'
  BY <1>0, <1>1, <1>2 DEF PlatformTypeOK
<1>4. ASSUME NEW y \in SendIds PROVE OperandsFirst(y)'
  <2>1. evaluated[y] \subseteq evaluated'[y]
    BY <1>2
  <2>2. \A d : OperandsDone(y, d) => OperandsDone(y, d)'
    BY <2>1 DEF OperandsDone
  <2>3. \A d \in evaluated'[y] : OperandsDone(y, d)
    BY <1>1, <1>2 DEF PlatformInv, OperandsFirst
  <2>. QED  BY <2>2, <2>3 DEF OperandsFirst
<1>5. \A y \in SendIds : Fits(y)'
  BY <1>0, <1>1, <1>2 DEF PlatformInv, Fits
<1>. QED  BY <1>1, <1>2, <1>3, <1>4, <1>5 DEF PlatformInv

LEMMA ThrowsPreserves ==
  ASSUME PlatformInv, NEW x \in SendIds, NEW c \in CallsOf[x.stub], Throws(x, c)
  PROVE  PlatformInv'
<1>0. PlatformTypeOK /\ x.stub \in Stubs
  BY DEF PlatformInv, SendIds
<1>1. /\ threw'[x] = threw[x] \cup {c}
      /\ \A y \in SendIds \ {x} : threw'[y] = threw[y]
      /\ threw' \in [SendIds -> SUBSET AllCalls]
      /\ answer' = [answer EXCEPT ![x] = "rejected"]
      /\ UNCHANGED <<evaluated, disposed>>
  BY <1>0 DEF Throws, PlatformInv, AllCalls
<1>2. PlatformTypeOK'
  BY <1>0, <1>1 DEF PlatformTypeOK
<1>3. \A y \in SendIds : Fits(y)'
  BY <1>0, <1>1 DEF PlatformTypeOK, PlatformInv, Fits
<1>. QED  BY <1>1, <1>2, <1>3, OrderIsKept DEF PlatformInv

\* The worker answers when the last call has returned, and that one needs all the others.
LEMMA RespondPreserves == ASSUME PlatformInv, NEW x \in SendIds, Respond(x) PROVE PlatformInv'
<1>0. PlatformTypeOK /\ x.stub \in Stubs
  BY DEF PlatformInv, SendIds
<1>1. PICK a \in {"rejected", "resolved"} :
        answer' = [answer EXCEPT ![x] = a] /\ (a = "rejected" => x.stub \in Opaque)
  BY DEF Respond
<1>2. answer[x] = "pending" /\ UNCHANGED <<evaluated, threw, disposed>>
  BY DEF Respond
<1>3. evaluated[x] = CallsOf[x.stub]
  <2>1. evaluated[x] \subseteq CallsOf[x.stub] /\ TheCall(x.stub) \in evaluated[x]
    BY <1>0 DEF PlatformTypeOK, Respond, TheCall
  <2>2. \A c \in evaluated[x] : \A i \in Chained(c.stub) :
          \E d \in evaluated[x] : d.place = Append(c.place, i)
    BY DEF PlatformInv, OperandsFirst, OperandsDone
  <2>. QED  BY <1>0, <2>1, <2>2, RootComesLast
<1>4. threw[x] = {}
  BY <1>0, <1>2 DEF PlatformInv, Fits
<1>5. PlatformTypeOK'
  BY <1>0, <1>1, <1>2 DEF PlatformTypeOK
<1>6. \A y \in SendIds : Fits(y)'
  BY <1>0, <1>1, <1>2, <1>3, <1>4 DEF PlatformTypeOK, PlatformInv, Fits
<1>. QED  BY <1>2, <1>5, <1>6, OrderIsKept DEF PlatformInv

LEMMA PlatformNextPreserves == PlatformInv /\ [PlatformNext]_platformVars => PlatformInv'
<1>. SUFFICES ASSUME PlatformInv, [PlatformNext]_platformVars PROVE PlatformInv'
  OBVIOUS
<1>1. ASSUME NEW e \in Stubs, Await(e) \/ Fetch(e) PROVE PlatformInv'
  <2>1. PICK n \in 0..MaxFetches : Send([stub |-> e, use |-> n])
    BY <1>1, SendsAssumption DEF Await, Fetch
  <2>2. [stub |-> e, use |-> n] \in SendIds
    BY DEF SendIds
  <2>. QED  BY <2>1, <2>2, SendPreserves
<1>2. CASE Dispose
  <2>1. /\ answer' = [x \in SendIds |-> IF answer[x] = "pending" THEN "rejected" ELSE answer[x]]
        /\ disposed' = TRUE /\ UNCHANGED <<evaluated, threw>>
    BY <1>2 DEF Dispose
  <2>2. PlatformTypeOK'
    BY <2>1 DEF PlatformInv, PlatformTypeOK
  <2>3. \A x \in SendIds : Fits(x)'
    BY <2>1 DEF PlatformInv, Fits
  <2>. QED  BY <2>1, <2>2, <2>3, OrderIsKept DEF PlatformInv
<1>3. CASE UNCHANGED platformVars
  <2>1. PlatformTypeOK' /\ \A x \in SendIds : Fits(x)'
    BY <1>3 DEF platformVars, PlatformInv, PlatformTypeOK, Fits
  <2>. QED  BY <1>3, <2>1, OrderIsKept DEF platformVars, PlatformInv
<1>. QED
  BY <1>1, <1>2, <1>3, EvaluatePreserves, ThrowsPreserves, RespondPreserves DEF PlatformNext

\* `PlatformInv` holds in every reachable state, in whatever order the calls of the requests are
\* evaluated, return or throw.
THEOREM PlatformInvariance == PlatformSpec => []PlatformInv
BY PlatformInitInv, PlatformNextPreserves, PTL DEF PlatformSpec

\* A result is that of the whole expression, each call on the values of its operands,
\* and an error has a cause: for expressions of any shape and depth.
THEOREM AnswersMeanWhatTheySay == PlatformSpec => []AnswersAreComplete
<1>1. PlatformInv => AnswersAreComplete
  BY DEF PlatformInv, Fits, OperandsFirst, AnswersAreComplete
<1>. QED  BY <1>1, PlatformInvariance, PTL

-----------------------------------------------------------------------------
(* The pull loop *)

\* Types of the pull loop; in particular the broker has what will be acknowledged.
THEOREM PullTypeCorrect == PullSpec => []PullTypeOK
<1>1. PullInit => PullTypeOK
  BY PullBatchAssumption DEF PullInit, PullTypeOK
<1>2. PullTypeOK /\ [PullNext]_pullVars => PullTypeOK'
  <2>. SUFFICES ASSUME PullTypeOK, [PullNext]_pullVars PROVE PullTypeOK'
    OBVIOUS
  <2>. USE DEF PullTypeOK
  <2>1. ASSUME NEW m \in Pulled, PullSend(m)  PROVE PullTypeOK'
    BY <2>1 DEF PullSend
  <2>2. ASSUME NEW m \in Pulled, PostAccepted(m)  PROVE PullTypeOK'
    BY <2>2 DEF PostAccepted, AfterPost
  <2>3. ASSUME NEW m \in Pulled, PostRefused(m)  PROVE PullTypeOK'
    BY <2>3, PullBatchAssumption DEF PostRefused, AfterPost
  <2>4. ASSUME NEW m \in Pulled, LeaseLapses(m)  PROVE PullTypeOK'
    BY <2>4, PullBatchAssumption DEF LeaseLapses
  <2>5. ASSUME NEW batch \in SUBSET Pulled, Pull(batch)  PROVE PullTypeOK'
    BY <2>5 DEF Pull
  <2>6. CASE Ack
    BY <2>6 DEF Ack
  <2>7. CASE IterationFails
    BY <2>7, PullBatchAssumption DEF IterationFails
  <2>8. CASE UNCHANGED pullVars
    BY <2>8 DEF pullVars
  <2>. QED  BY <2>1, <2>2, <2>3, <2>4, <2>5, <2>6, <2>7, <2>8 DEF PullNext
<1>. QED  BY <1>1, <1>2, PTL DEF PullSpec

\* No message of a real queue is lost on its way to the local broker.
THEOREM PulledMessagesAreKept == PullSpec => KeptUntilAccepted
<1>. DEFINE Kept == \A m \in visible \cup leased : m \in (visible \cup leased)' \/ m \in accepted'
<1>1. PullTypeOK /\ [PullNext]_pullVars => [Kept]_pullVars
  <2>. SUFFICES ASSUME PullTypeOK, PullNext PROVE Kept
    OBVIOUS
  <2>1. ASSUME NEW m \in Pulled, PullSend(m) \/ PostAccepted(m) \/ PostRefused(m) \/ LeaseLapses(m)  PROVE Kept
    BY <2>1 DEF PullSend, PostAccepted, PostRefused, LeaseLapses
  <2>2. ASSUME NEW batch \in SUBSET Pulled, Pull(batch)  PROVE Kept
    BY <2>2 DEF Pull
  <2>3. CASE Ack
    BY <2>3 DEF Ack, PullTypeOK
  <2>4. CASE IterationFails
    BY <2>4 DEF IterationFails
  <2>. QED  BY <2>1, <2>2, <2>3, <2>4 DEF PullNext
<1>. QED  BY <1>1, PullTypeCorrect, PTL DEF PullSpec, KeptUntilAccepted

-----------------------------------------------------------------------------
(* The targets of the registry proxy *)

\* What the stream passes on, and then the fiber posts, leads to the registry's target.
TargetsInv ==
  /\ TargetsTypeOK
  /\ worker # "running" => subscription = <<>> /\ pusher = "idle"
  /\ worker = "running" =>
       IF subscription = <<>> THEN emitted = registered ELSE subscription[Len(subscription)] = registered
  /\ worker = "running" /\ pusher = "idle" => value = emitted

\* One target's way to the proxy is always as TargetsInv says.
THEOREM TargetsInvariance == TargetsSpec => []TargetsInv
<1>1. TargetsInit => TargetsInv
  BY DebugPortsAssumption DEF TargetsInit, TargetsInv, TargetsTypeOK, RegistryTarget
<1>2. TargetsInv /\ [TargetsNext]_targetVars => TargetsInv'
  <2>. SUFFICES ASSUME TargetsInv, [TargetsNext]_targetVars PROVE TargetsInv'
    OBVIOUS
  <2>1. ASSUME NEW t \in RegistryTarget, RegistryChanges(t)  PROVE TargetsInv'
    <3>1. changes' \in 0..MaxChanges /\ registered' = t /\ UNCHANGED <<worker, value, emitted, pusher, resolved>>
      BY <2>1, DebugPortsAssumption DEF RegistryChanges, TargetsInv, TargetsTypeOK
    <3>2. CASE worker = "running"
      <4>1. subscription \in Seq(RegistryTarget) /\ subscription' = Append(subscription, t)
        BY <2>1, <3>2 DEF RegistryChanges, TargetsInv, TargetsTypeOK
      <4>2. /\ subscription' \in Seq(RegistryTarget) /\ subscription' # <<>>
            /\ subscription'[Len(subscription')] = t
        BY <4>1
      <4>. QED  BY <3>1, <3>2, <4>2 DEF TargetsInv, TargetsTypeOK
    <3>3. CASE worker # "running"
      BY <2>1, <3>1, <3>3 DEF RegistryChanges, TargetsInv, TargetsTypeOK
    <3>. QED  BY <3>2, <3>3
  <2>2. CASE ConfigureWorker
    BY <2>2 DEF ConfigureWorker, TargetsInv, TargetsTypeOK
  <2>3. CASE StartSubscribed
    BY <2>3 DEF StartSubscribed, TargetsInv, TargetsTypeOK
  <2>4. CASE Emit
    <3>1. /\ subscription \in Seq(RegistryTarget) /\ subscription # <<>> /\ worker = "running"
          /\ subscription' = Tail(subscription) /\ emitted' = Head(subscription)
      BY <2>4 DEF Emit, TargetsInv, TargetsTypeOK
    <3>2. /\ subscription' \in Seq(RegistryTarget) /\ emitted' \in RegistryTarget
          /\ IF subscription' = <<>> THEN emitted' = subscription[Len(subscription)]
             ELSE subscription'[Len(subscription')] = subscription[Len(subscription)]
      BY <3>1
    <3>. QED  BY <2>4, <3>1, <3>2 DEF Emit, TargetsInv, TargetsTypeOK
  <2>5. CASE PostArrives
    BY <2>5 DEF PostArrives, TargetsInv, TargetsTypeOK
  <2>6. CASE PostFails
    BY <2>6 DEF PostFails, TargetsInv, TargetsTypeOK
  <2>7. CASE Resolve
    BY <2>7 DEF Resolve, TargetsInv, TargetsTypeOK
  <2>8. CASE UNCHANGED targetVars
    BY <2>8 DEF targetVars, TargetsInv, TargetsTypeOK
  <2>. QED  BY <2>1, <2>2, <2>3, <2>4, <2>5, <2>6, <2>7, <2>8 DEF TargetsNext
<1>. QED  BY <1>1, <1>2, PTL DEF TargetsSpec

\* Types of one target's way to the proxy.
THEOREM TargetsTypeCorrect == TargetsSpec => []TargetsTypeOK
<1>1. TargetsInv => TargetsTypeOK
  BY DEF TargetsInv
<1>. QED  BY <1>1, TargetsInvariance, PTL

\* A proxy with nothing left to push sends requests where the registry says.
THEOREM PushedMapsAreCurrent == TargetsSpec => []MapIsCurrent
<1>1. TargetsInv => MapIsCurrent
  BY DEF TargetsInv, MapIsCurrent
<1>. QED  BY <1>1, TargetsInvariance, PTL
=============================================================================
