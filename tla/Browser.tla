------------------------------- MODULE Browser -------------------------------
(***************************************************************************)
(* The local Browser Rendering simulator (src/bindings/browser/).  Each    *)
(* session has a Chrome process, which the Node side launches, watches and *)
(* kills (Browser.ts), and a Durable Object, BrowserSession, which keeps a *)
(* WebSocket to that Chrome as a health indicator and proxies the clients' *)
(* DevTools connections (Browser.worker.ts).  The router talks to both.    *)
(*                                                                         *)
(* A kill ends the process at once; its `exit' event comes later.  What is *)
(* sent over the connections is not modelled.  At shutdown workerd stops,  *)
(* and with it every Durable Object.                                       *)
(***************************************************************************)
EXTENDS Integers

CONSTANTS
  Sessions,     \* session ids, one for each launch
  Connections   \* raw WebSocket connections of clients

ASSUME SessionsAssumption == Sessions # {}

VARIABLES
  up,                \* the runtime has not been shut down
  process,           \* [s] the Chrome of s
  browserProcesses,  \* the keys of that Map
  acquired,          \* [s] how far the acquisition of s has come
  browser,           \* [s] the fields of the BrowserSession of s
  closing,           \* the /browser/close requests under way
  connections,       \* [c] the session and the state of a raw connection
  overtaken          \* history: the launches that were under way at the shutdown

browserVars == <<up, process, browserProcesses, acquired, browser, closing, connections, overtaken>>

BrowserTypeOK ==
  /\ up \in BOOLEAN
  /\ process \in [Sessions -> {"none", "alive", "exited", "gone"}]
  /\ browserProcesses \subseteq Sessions
  /\ acquired \in [Sessions -> {"idle", "launching", "launched", "posting", "done", "failed"}]
  /\ browser \in [Sessions -> [info : BOOLEAN,        \* this.sessionInfo is set,
                               connected : BOOLEAN,   \* ... and has a connectionId
                               socket : BOOLEAN,      \* this.chromeWs is set
                               legacy : BOOLEAN,      \* this.legacyServerWs is set
                               timer : {"none", "armed", "asking"}]]
  /\ closing \subseteq Sessions
  /\ connections \in [Connections ->
       [of : Sessions, page : BOOLEAN, state : {"idle", "connecting", "open", "lost", "closed"}]]
  /\ overtaken \subseteq Sessions

BrowserInit ==
  /\ up = TRUE
  /\ process = [s \in Sessions |-> "none"]
  /\ browserProcesses = {}
  /\ acquired = [s \in Sessions |-> "idle"]
  /\ browser = [s \in Sessions |-> [info |-> FALSE, connected |-> FALSE, socket |-> FALSE,
                                    legacy |-> FALSE, timer |-> "none"]]
  /\ closing = {}
  /\ connections = [c \in Connections |->
       [of |-> CHOOSE s \in Sessions : TRUE, page |-> FALSE, state |-> "idle"]]
  /\ overtaken = {}

-----------------------------------------------------------------------------
(* The Node side *)

nodeSide == <<up, process, browserProcesses, closing, overtaken>>
objectSide == <<browser, connections>>

\* GET /v1/acquire, as far as /browser/launch
AcquireStarts(s) ==
  /\ up
  /\ acquired[s] = "idle"
  /\ acquired' = [acquired EXCEPT ![s] = "launching"]
  /\ UNCHANGED <<nodeSide, objectSide>>

\* Chrome prints its endpoint and answers the readiness probe.
ChromeStarts(s) ==
  /\ acquired[s] = "launching"
  /\ process[s] = "none"
  /\ process' = [process EXCEPT ![s] = "alive"]
  /\ UNCHANGED <<up, browserProcesses, acquired, closing, overtaken, objectSide>>

\* Mutant: a Chrome that is not ready is left running.
LaunchAbandons(s) ==
  /\ acquired[s] = "launching"
  /\ acquired' = [acquired EXCEPT ![s] = "failed"]
  /\ UNCHANGED <<nodeSide, objectSide>>

\* No install, no endpoint, or not ready in time: the process is killed, since
\* nobody knows of it.
LaunchFails(s) ==
  /\ acquired[s] = "launching"
  /\ acquired' = [acquired EXCEPT ![s] = "failed"]
  /\ process' = [process EXCEPT ![s] = "gone"]
  /\ UNCHANGED <<up, browserProcesses, closing, overtaken, objectSide>>

\* The launch is answered.  The Chrome may have exited since its last sign of
\* life: then there is no `exit' event left to remove its entry.  Nor does anything
\* stop a launch that the finalizer has overtaken.
LaunchAnswers(s) ==
  /\ acquired[s] = "launching"
  /\ process[s] # "none"
  /\ browserProcesses' = browserProcesses \cup {s}
  /\ acquired' = [acquired EXCEPT ![s] = "launched"]
  /\ UNCHANGED <<up, process, closing, overtaken, objectSide>>

\* Kill the live ones among `those'.
Killed(those) ==
  [s \in Sessions |-> IF s \in those /\ process[s] = "alive" THEN "exited" ELSE process[s]]

\* A Chrome crashes, or a user closes its window.
ChromeExits(s) ==
  /\ process[s] = "alive"
  /\ process' = [process EXCEPT ![s] = IF acquired[s] = "launching" THEN "gone" ELSE "exited"]
  /\ UNCHANGED <<up, browserProcesses, acquired, closing, overtaken, objectSide>>

ExitEvent(s) ==
  /\ process[s] = "exited"
  /\ process' = [process EXCEPT ![s] = "gone"]
  /\ browserProcesses' = browserProcesses \ {s}
  /\ UNCHANGED <<up, acquired, closing, overtaken, objectSide>>

\* /browser/close; a session that is not there is a 404.
LoopbackClose(s) ==
  /\ s \in closing
  /\ closing' = closing \ {s}
  /\ browserProcesses' = browserProcesses \ {s}
  /\ process' = Killed({s} \cap browserProcesses)
  /\ UNCHANGED <<up, acquired, overtaken, objectSide>>

\* The finalizer, which kills what is in the map.
Shutdown ==
  /\ up
  /\ up' = FALSE
  /\ process' = Killed(browserProcesses)
  /\ browserProcesses' = {}
  /\ overtaken' = {s \in Sessions : acquired[s] = "launching"}
  /\ UNCHANGED <<acquired, closing, objectSide>>

-----------------------------------------------------------------------------
(* BrowserSession *)

OpenOf(s) == {c \in Connections : connections[c].of = s /\ connections[c].state \in {"open", "lost"}}

Closed(those) ==
  [c \in Connections |-> IF c \in those THEN [connections[c] EXCEPT !.state = "closed"] ELSE connections[c]]

\* closeWebSockets(): the legacy connection and all raw ones
CloseWebSockets(s) ==
  /\ browser' = [browser EXCEPT ![s].legacy = FALSE, ![s].connected = FALSE]
  /\ connections' = Closed(OpenOf(s))

NoSession(timer) ==
  [info |-> FALSE, connected |-> FALSE, socket |-> FALSE, legacy |-> FALSE, timer |-> timer]

\* closeSession() stops the timer; a status check under way goes on.
StoppedTimer(s) == IF browser[s].timer = "asking" THEN "asking" ELSE "none"

\* Mutant: the connections end, the session stays.
CloseConnectionsOnly(s, timer) ==
  /\ browser' = [browser EXCEPT ![s].socket = FALSE, ![s].legacy = FALSE, ![s].timer = timer]
  /\ connections' = Closed(OpenOf(s))

CloseSession(s, timer) ==
  /\ browser' = [browser EXCEPT ![s] = NoSession(timer)]
  /\ connections' = Closed(OpenOf(s))

\* #setSessionInfo stores the session, then connects to Chrome.
SetSessionInfo(s) ==
  /\ up
  /\ acquired[s] = "launched"
  /\ acquired' = [acquired EXCEPT ![s] = "posting"]
  /\ browser' = [browser EXCEPT ![s].info = TRUE]
  /\ UNCHANGED <<nodeSide, connections>>

ChromeSocketOpens(s) ==
  /\ up
  /\ acquired[s] = "posting"
  /\ process[s] = "alive"
  /\ acquired' = [acquired EXCEPT ![s] = "done"]
  /\ browser' = [browser EXCEPT ![s].socket = TRUE, ![s].timer = "armed"]
  /\ UNCHANGED <<nodeSide, connections>>

\* After its retries; the session info stays.
ChromeSocketFails(s) ==
  /\ up
  /\ acquired[s] = "posting"
  /\ acquired' = [acquired EXCEPT ![s] = "failed"]
  /\ UNCHANGED <<nodeSide, objectSide>>

\* The `close' event of chromeWs
ChromeSocketCloses(s) ==
  /\ up
  /\ browser[s].socket
  /\ process[s] # "alive"
  /\ CloseSession(s, StoppedTimer(s))
  /\ UNCHANGED <<nodeSide, acquired>>

\* #getSessionInfo: GET /v1/sessions asks every session that /browser/sessionIds
\* named.  One without a socket is taken for dead.
GetSessionInfo(s) ==
  /\ up
  /\ acquired[s] \in {"launched", "posting", "done", "failed"}
  /\ ~browser[s].socket
  /\ CloseSession(s, StoppedTimer(s))
  /\ UNCHANGED <<nodeSide, acquired>>

\* The check is scheduled again while there is a socket.
AgainIfOpen(s) == IF browser[s].socket THEN "armed" ELSE "none"

\* The timer of #scheduleStatusCheck fires.
StatusCheck(s) ==
  /\ up
  /\ browser[s].timer = "armed"
  /\ browser' = [browser EXCEPT ![s].timer =
       IF browser[s].info THEN "asking" ELSE AgainIfOpen(s)]
  /\ UNCHANGED <<nodeSide, acquired, connections>>

\* /browser/status answers.
StatusAnswers(s) ==
  /\ up
  /\ browser[s].timer = "asking"
  /\ IF s \in browserProcesses
     THEN browser' = [browser EXCEPT ![s].timer = AgainIfOpen(s)] /\ UNCHANGED connections
     ELSE CloseSession(s, "none")
  /\ UNCHANGED <<nodeSide, acquired>>

\* #connectDevtools
ConnectDevtools(s) ==
  /\ up
  /\ browser[s].info /\ browser[s].socket /\ ~browser[s].legacy
  /\ browser' = [browser EXCEPT ![s].legacy = TRUE, ![s].connected = TRUE]
  /\ UNCHANGED <<nodeSide, acquired, connections>>

\* The client of the legacy connection leaves: the others are cut off with it.
LegacyCloses(s) ==
  /\ up
  /\ browser[s].legacy
  /\ CloseWebSockets(s)
  /\ UNCHANGED <<nodeSide, acquired>>

\* #connect, and the same for a page, as far as the fetch of #proxyRawWebSocket
RawConnects(c, s, page) ==
  /\ up
  /\ connections[c].state = "idle"
  /\ browser[s].info
  /\ connections' = [connections EXCEPT ![c] = [of |-> s, page |-> page, state |-> "connecting"]]
  /\ UNCHANGED <<nodeSide, acquired, browser>>

\* The pair is there.  If the session is not, #connect throws, and the client
\* never gets its end of the pair.
RawOpens(c) ==
  LET s == connections[c].of IN
    /\ up
    /\ connections[c].state = "connecting"
    /\ process[s] = "alive"
    /\ \/ /\ connections[c].page
          /\ connections' = [connections EXCEPT ![c].state = "open"]
          /\ UNCHANGED browser
       \/ /\ ~connections[c].page
          /\ browser[s].info
          /\ connections' = [connections EXCEPT ![c].state = "open"]
          /\ browser' = [browser EXCEPT ![s].connected = TRUE]
       \/ /\ ~connections[c].page
          /\ ~browser[s].info
          /\ connections' = [connections EXCEPT ![c].state = "lost"]
          /\ UNCHANGED browser
    /\ UNCHANGED <<nodeSide, acquired>>

\* The fetch fails, or one end of the pair closes; a lost one has only Chrome's.
RawCloses(c) ==
  /\ up
  /\ \/ connections[c].state \in {"connecting", "open"}
     \/ connections[c].state = "lost" /\ process[connections[c].of] # "alive"
  /\ connections' = Closed({c})
  /\ UNCHANGED <<nodeSide, acquired, browser>>

\* #closeBrowser: DELETE /v1/devtools/browser/:sessionId
CloseBrowser(s) ==
  /\ up
  /\ browser[s].info
  /\ closing' = closing \cup {s}
  /\ UNCHANGED <<up, process, browserProcesses, acquired, overtaken, objectSide>>

-----------------------------------------------------------------------------
BrowserNext ==
  \/ \E s \in Sessions :
       \/ AcquireStarts(s) \/ ChromeStarts(s) \/ LaunchFails(s) \/ LaunchAnswers(s)
       \/ ChromeExits(s) \/ ExitEvent(s) \/ LoopbackClose(s)
       \/ SetSessionInfo(s) \/ ChromeSocketOpens(s) \/ ChromeSocketFails(s) \/ ChromeSocketCloses(s)
       \/ GetSessionInfo(s) \/ StatusCheck(s) \/ StatusAnswers(s)
       \/ ConnectDevtools(s) \/ LegacyCloses(s) \/ CloseBrowser(s)
  \/ \E c \in Connections :
       \/ \E s \in Sessions, page \in BOOLEAN : RawConnects(c, s, page)
       \/ RawOpens(c) \/ RawCloses(c)
  \/ Shutdown

BrowserSpec == BrowserInit /\ [][BrowserNext]_browserVars

\* Events are delivered, timers fire, and calls between the two sides end.
\* A connection to a dead Chrome is closed.
BrowserFairness ==
  /\ \A s \in Sessions :
       /\ WF_browserVars(ExitEvent(s))
       /\ WF_browserVars(LoopbackClose(s))
       /\ WF_browserVars(ChromeSocketOpens(s) \/ ChromeSocketFails(s))
       /\ WF_browserVars(ChromeSocketCloses(s))
       /\ WF_browserVars(StatusCheck(s))
       /\ WF_browserVars(StatusAnswers(s))
  /\ \A c \in Connections :
       WF_browserVars(process[connections[c].of] # "alive" /\ RawCloses(c))

-----------------------------------------------------------------------------
(* Properties *)

\* Until the shutdown, a Chrome that runs is being launched, or it is in the map from
\* which /browser/close and the finalizer take what they kill, whatever fails.  The
\* shutdown leaves no Chrome but those whose launch it overtakes: their entries come
\* into a map that nobody reads any more.
EveryChromeCanBeKilled ==
  \A s \in Sessions : process[s] = "alive" =>
    \/ up /\ (acquired[s] = "launching" \/ s \in browserProcesses)
    \/ ~up /\ s \in overtaken

\* A session does not survive its Chrome: when the process of a session that was
\* acquired is gone, the session and all its connections end too.
SessionEndsWithChrome ==
  \A s \in Sessions :
    acquired[s] = "done" /\ process[s] # "alive"
      ~> \/ ~up
         \/ ~browser[s].info /\ ~browser[s].legacy /\ OpenOf(s) = {}

\* The assertions of #connectDevtools: a session whose socket to Chrome is open
\* has its session info ("sessionInfo must be set before connecting").
SocketHasSession == \A s \in Sessions : browser[s].socket => browser[s].info
=============================================================================
