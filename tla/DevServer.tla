------------------------------ MODULE DevServer ------------------------------
(***************************************************************************)
(* The dev server of the Vite plugin (src/dev-plugin.ts,                   *)
(* dev-environment.ts, module-runner.worker.ts), from the moment its first *)
(* runtime is up.  A runtime is generated for the exports of the entry     *)
(* module.  The module runner in it evaluates the entry, once on demand    *)
(* and again for every hot update; after a hot update the entry reports    *)
(* its exports over a WebSocket, and when they have changed the runtime is *)
(* replaced.  The restarts run one after the other on the promise          *)
(* `applying', while the user edits, requests come in and the dev server   *)
(* may be closed.                                                          *)
(*                                                                         *)
(* Exports stand for the merged export types.  Runtimes are numbered.  One *)
(* configureServer is modelled, with one environment.                      *)
(***************************************************************************)
EXTENDS Integers, Sequences

CONSTANTS
  Exports,        \* export types that the entry can have
  Configured,     \* those that follow from the options
  Broken,         \* an entry that cannot be evaluated
  MaxEdits,       \* bound: edits of the entry
  MaxRuntimes     \* bound: runtimes

ASSUME ExportsAssumption ==
  Configured \in Exports /\ Broken \notin Exports /\ MaxEdits \in Nat /\ MaxRuntimes \in Nat \ {0}

VARIABLES
  entry,          \* the exports of the entry as the user wrote it
  edits,
  moment,         \* history: when the last edit was made: "early", "serving", "quiet"
  devServer,      \* "detecting", "applying" (the first report), "serving", "closing", "closed"
  exportTypes,    \* what the plugin last asked a runtime for
  queued,         \* restarts on `applying' that have not begun
  restart,        \* the one that runs: "none", "closing", "starting", "connecting"
  failed,         \* history: the last restart has failed
  runtimes,       \* [n] what it was generated for, its state, what its runner has loaded,
                  \*     and whether a hot update is on its way to it
  handle,         \* the runtime that close() would close; 0 for none
  address,        \* the runtime that requests and upgrades are sent to
  channel,        \* the runtime at the other end of the hot channel's socket
  reports         \* messages on its way from runners: [from, event, exports]

devVars == <<entry, edits, moment, devServer, exportTypes, queued, restart, failed, runtimes,
             handle, address, channel, reports>>
source == <<entry, edits, moment>>
restartVars == <<queued, restart, failed>>
routes == <<handle, address, channel>>

NotLoaded == "not loaded"
Fresh(e, state) == [exports |-> e, state |-> state, loaded |-> NotLoaded, updating |-> FALSE]
Built == 1..Len(runtimes)

DevTypeOK ==
  /\ entry \in Exports \cup {Broken} /\ edits \in 0..MaxEdits
  /\ moment \in {"early", "serving", "quiet"}
  /\ devServer \in {"detecting", "applying", "serving", "closing", "closed"}
  /\ exportTypes \in Exports
  /\ queued \in Nat /\ restart \in {"none", "closing", "starting", "connecting"} /\ failed \in BOOLEAN
  /\ runtimes \in Seq([exports : Exports, state : {"starting", "up", "stopped", "abandoned"},
                       loaded : Exports \cup {Broken, NotLoaded}, updating : BOOLEAN])
  /\ handle \in {0} \cup Built /\ address \in Built /\ channel \in Built
  /\ reports \in Seq([from : Built, event : {"reply", "hmr"}, exports : Exports \cup {Broken}])

\* configureServer has started a runtime, is connected to it, and asks for the
\* export types.
DevInit ==
  /\ entry \in Exports \cup {Broken} /\ edits = 0 /\ moment = "early"
  /\ devServer = "detecting"
  /\ exportTypes = Configured
  /\ queued = 0 /\ restart = "none" /\ failed = FALSE
  /\ runtimes = <<Fresh(Configured, "up")>>
  /\ handle = 1 /\ address = 1 /\ channel = 1
  /\ reports = <<>>

-----------------------------------------------------------------------------
(* The entry and the module runner *)

\* The runner has the entry, and nothing is under way.
Quiet ==
  /\ devServer = "serving" /\ queued = 0 /\ restart = "none" /\ ~failed
  /\ reports = <<>>
  /\ ~runtimes[channel].updating /\ runtimes[channel].loaded # NotLoaded

\* Vite sends a hot update, which reaches a runtime that is up.
Edit(e) ==
  /\ edits < MaxEdits /\ e # entry
  /\ entry' = e /\ edits' = edits + 1
  /\ moment' = IF Quiet THEN "quiet" ELSE IF devServer = "serving" THEN "serving" ELSE "early"
  /\ runtimes' = [runtimes EXCEPT ![channel].updating = runtimes[channel].state = "up"]
  /\ UNCHANGED <<devServer, exportTypes, restartVars, routes, reports>>

\* Only reportExportTypes replies, with nothing if the entry is broken.
Reply(n) == IF devServer = "detecting" THEN <<[from |-> n, event |-> "reply", exports |-> entry]>>
            ELSE <<>>

\* The runner of n imports the entry for the first time: for the detection, or
\* for a request when configureServer is through.
FirstImport(n) ==
  /\ n = address /\ runtimes[n].state = "up" /\ runtimes[n].loaded = NotLoaded
  /\ devServer # "applying"
  /\ \/ entry # Broken
     \/ devServer = "detecting" /\ reports = <<>>
  /\ runtimes' = IF entry = Broken THEN runtimes ELSE [runtimes EXCEPT ![n].loaded = entry]
  /\ reports' = reports \o Reply(n)
  /\ UNCHANGED <<source, devServer, exportTypes, restartVars, routes>>

\* The hot update arrives.  The accept callback of the entry reports its exports;
\* a runner that does not have the entry ignores the update.
HotUpdate(n) ==
  LET held == runtimes[n].loaded # NotLoaded IN
    /\ runtimes[n].updating /\ runtimes[n].state = "up"
    /\ runtimes' = [runtimes EXCEPT ![n].updating = FALSE,
                                    ![n].loaded = IF held THEN entry ELSE NotLoaded]
    /\ reports' = IF ~held \/ entry = Broken THEN reports
                  ELSE Append(reports, [from |-> n, event |-> "hmr", exports |-> entry])
    /\ UNCHANGED <<source, devServer, exportTypes, restartVars, routes>>

-----------------------------------------------------------------------------
(* Reports *)

\* applyExportTypes
ApplyExportTypes(e) ==
  IF e = exportTypes THEN UNCHANGED <<exportTypes, restartVars>>
  ELSE exportTypes' = e /\ queued' = queued + 1 /\ UNCHANGED <<restart, failed>>

\* HotChannel.dispatch, to the listeners there are now
Heard(report) ==
  /\ report.from = channel
  /\ report.event = IF devServer = "detecting" THEN "reply" ELSE "hmr"
  /\ devServer # "applying"

Deliver ==
  LET report == Head(reports) IN
    /\ reports # <<>>
    /\ reports' = Tail(reports)
    /\ IF ~Heard(report) THEN UNCHANGED <<devServer, exportTypes, restartVars>>
       ELSE /\ IF report.exports = Broken THEN UNCHANGED <<exportTypes, restartVars>>
               ELSE ApplyExportTypes(report.exports)
            /\ devServer' = IF devServer # "detecting" THEN devServer
                            ELSE IF queued' > 0 THEN "applying" ELSE "serving"
    /\ UNCHANGED <<source, runtimes, routes>>

\* The socket has broken with its runtime.
Lost ==
  /\ reports # <<>> /\ runtimes[Head(reports).from].state # "up"
  /\ reports' = Tail(reports)
  /\ UNCHANGED <<source, devServer, exportTypes, restartVars, runtimes, routes>>

\* requestExportTypes gives up after EXPORT_TYPES_TIMEOUT_MS.
DetectionTimesOut ==
  /\ devServer = "detecting"
  /\ devServer' = "serving"
  /\ UNCHANGED <<source, exportTypes, restartVars, runtimes, routes, reports>>

\* The first report has been applied: configureServer goes on.
DetectionApplied ==
  /\ devServer = "applying" /\ queued = 0 /\ restart = "none"
  /\ devServer' = "serving"
  /\ UNCHANGED <<source, exportTypes, restartVars, runtimes, routes, reports>>

-----------------------------------------------------------------------------
(* restartRuntime *)

\* runtimes with the one of the handle stopped
HandleClosed ==
  IF handle = 0 THEN runtimes ELSE [runtimes EXCEPT ![handle].state = "stopped"]

\* Mutant: a restart does not wait for the one before.
RestartAtOnce ==
  /\ queued > 0
  /\ queued' = queued - 1 /\ restart' = "closing" /\ UNCHANGED failed
  /\ runtimes' = HandleClosed
  /\ UNCHANGED <<source, devServer, exportTypes, routes, reports>>

RestartBegins ==
  /\ queued > 0 /\ restart = "none"
  /\ queued' = queued - 1 /\ restart' = "closing" /\ UNCHANGED failed
  /\ runtimes' = HandleClosed
  /\ UNCHANGED <<source, devServer, exportTypes, routes, reports>>

\* startServer reads the export types of this moment.
NewRuntime ==
  /\ restart = "closing" /\ Len(runtimes) < MaxRuntimes
  /\ restart' = "starting" /\ UNCHANGED <<queued, failed>>
  /\ runtimes' = Append(runtimes, Fresh(exportTypes, "starting"))
  /\ UNCHANGED <<source, devServer, exportTypes, routes, reports>>

RestartFails == restart' = "none" /\ failed' = TRUE /\ UNCHANGED queued

RuntimeUp ==
  /\ restart = "starting"
  /\ runtimes' = [runtimes EXCEPT ![Len(runtimes)].state = "up"]
  /\ handle' = Len(runtimes) /\ UNCHANGED <<address, channel>>
  /\ restart' = "connecting" /\ UNCHANGED <<queued, failed>>
  /\ UNCHANGED <<source, devServer, exportTypes, reports>>

\* The scope of a failed start is never closed.
RuntimeFails ==
  /\ restart = "starting"
  /\ runtimes' = [runtimes EXCEPT ![Len(runtimes)].state = "abandoned"]
  /\ RestartFails
  /\ UNCHANGED <<source, devServer, exportTypes, routes, reports>>

\* Mutant: the hot channel keeps its first socket.
KeepsFirstSocket ==
  /\ restart = "connecting"
  /\ handle # 0
  /\ address' = handle
  /\ restart' = "none" /\ UNCHANGED <<queued, failed>>
  /\ UNCHANGED <<source, devServer, exportTypes, runtimes, handle, channel, reports>>

\* The environment is connected, then requests and upgrades are sent there.  If
\* the handle is gone by then the restart has failed.
Connected ==
  /\ restart = "connecting" /\ runtimes[Len(runtimes)].state = "up"
  /\ channel' = Len(runtimes)
  /\ IF handle = 0 THEN RestartFails /\ UNCHANGED address
     ELSE /\ address' = handle
          /\ restart' = "none" /\ failed' = FALSE /\ UNCHANGED queued
  /\ UNCHANGED <<source, devServer, exportTypes, runtimes, handle, reports>>

ConnectFails ==
  /\ restart = "connecting"
  /\ RestartFails
  /\ UNCHANGED <<source, devServer, exportTypes, runtimes, routes, reports>>

-----------------------------------------------------------------------------
(* close(), from buildEnd and closeBundle *)

CloseServer ==
  /\ devServer \in {"serving", "closed"} /\ handle # 0
  /\ devServer' = "closing"
  /\ runtimes' = HandleClosed
  /\ UNCHANGED <<source, exportTypes, restartVars, routes, reports>>

ServerClosed ==
  /\ devServer = "closing"
  /\ devServer' = "closed"
  /\ handle' = 0
  /\ UNCHANGED <<source, exportTypes, restartVars, runtimes, address, channel, reports>>

DevNext ==
  \/ \E e \in Exports \cup {Broken} : Edit(e)
  \/ \E n \in Built : FirstImport(n) \/ HotUpdate(n)
  \/ Deliver \/ Lost \/ DetectionTimesOut \/ DetectionApplied
  \/ RestartBegins \/ NewRuntime \/ RuntimeUp \/ RuntimeFails \/ Connected \/ ConnectFails
  \/ CloseServer \/ ServerClosed

DevSpec == DevInit /\ [][DevNext]_devVars

\* The user keeps sending requests, the runtime starts or fails to, and promises
\* and sockets do what they have to.
DevFairness ==
  /\ WF_devVars(FirstImport(address)) /\ WF_devVars(HotUpdate(channel))
  /\ WF_devVars(Deliver \/ Lost)
  /\ WF_devVars(DetectionTimesOut \/ DetectionApplied)
  /\ WF_devVars(RestartBegins) /\ WF_devVars(NewRuntime)
  /\ WF_devVars(RuntimeUp \/ RuntimeFails)
  /\ WF_devVars(Connected \/ ConnectFails)
  /\ WF_devVars(ServerClosed)

-----------------------------------------------------------------------------
(* Properties *)

Serves(n) == n = handle /\ n = address /\ n = channel /\ runtimes[n].state = "up"

Open == devServer \notin {"closing", "closed"}

\* While the dev server is open no two runtimes live, except for starts that
\* failed; and when no restart is under way, requests, the hot channel and close()
\* all mean the one runtime, generated for the exports last reported, unless the
\* last restart has failed.
OneRuntimeServes ==
  Open =>
    /\ \A m, n \in Built :
         runtimes[m].state \in {"starting", "up"} /\ runtimes[n].state \in {"starting", "up"} => m = n
    /\ restart = "none" /\ queued = 0 /\ ~failed =>
         Serves(handle) /\ runtimes[handle].exports = exportTypes

Follows(e) ==
  \/ ~Open \/ failed
  \/ Serves(handle) /\ runtimes[handle].exports = e

\* Once the user stops editing, with an edit made in a quiet moment, the runtime
\* is generated for the exports of the entry and stays, unless the last restart
\* has failed or the server is closed.
RuntimeFollowsEntry == \A e \in Exports :
  <>[](entry = e /\ moment = "quiet") => <>[]Follows(e)

\* "From here on the entry reports its exports over HMR every time it is
\* re-evaluated, which is how entrypoints added later get picked up": the same,
\* whenever in a serving dev server the last edit was made.
EveryEditIsPickedUp == \A e \in Exports :
  <>[](entry = e /\ moment # "early") => <>[]Follows(e)
=============================================================================
