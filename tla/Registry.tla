------------------------------ MODULE Registry ------------------------------
(***************************************************************************)
(* The dev registry (src/registry/Registry.ts): one file per script in a   *)
(* directory shared by all processes of the machine, which is how a worker *)
(* finds the workers other processes run.  The module follows one script:  *)
(* `instances' of it register by writing the file, in their process, and   *)
(* unregister when their scope closes; every process keeps a snapshot      *)
(* `registry' that a watcher, or a poll, refreshes from disk.              *)
(*                                                                         *)
(* A file operation is an action of its own; updateLock, one per process,  *)
(* keeps a process's refresh and its writes apart, and nothing keeps the   *)
(* processes apart.  The content of the file is the instance that wrote it.*)
(***************************************************************************)
EXTENDS Integers, FiniteSets

CONSTANTS
  Registrations, \* registrations of the script
  Processes,
  ProcessOf,     \* [i] the process an instance runs in
  NoEntry,       \* no file, or no entry in a snapshot
  Torn,          \* a file that was opened for writing and not written yet
  Polling,       \* TRUE where the file system watcher is not supported
  Suspends,      \* TRUE if a process may miss heartbeats for STALE_AFTER_MS
  MaxRemovals    \* bound: forked removals of a stale file

ASSUME ProcessOfAssumption == ProcessOf \in [Registrations -> Processes]
ASSUME EntriesAssumption == NoEntry \notin Registrations /\ Torn \notin Registrations /\ Torn # NoEntry
ASSUME FlagsAssumption == Polling \in BOOLEAN /\ Suspends \in BOOLEAN
ASSUME MaxRemovalsAssumption == MaxRemovals \in Nat

VARIABLES
  file,       \* the content of the script's file
  stale,      \* its mtime is older than STALE_AFTER_MS
  phase,      \* [i] how far write() and the scope's finalizer have come
  beating,    \* [i] whether the heartbeat fiber runs
  registry,   \* [p] the entry of the script in p's snapshot
  watching,   \* [p] whether the fiber that refreshes p's snapshot still runs
  dirty,      \* [p] a watch event that p has yet to act on
  view,       \* [p] the refresh in progress: what stat and read returned
  removals    \* detached fs.remove calls that have not run yet

registryVars == <<file, stale, phase, beating, registry, watching, dirty, view, removals>>

Phases ==
  {"new", "opened", "unlinked", "written", "registered", "removing", "closed", "crashed"}
Contents == Registrations \cup {NoEntry, Torn}

NoView == [reading |-> FALSE, mtime |-> "unknown", content |-> NoEntry, read |-> FALSE]

RegistryTypeOK ==
  /\ file \in Contents
  /\ stale \in BOOLEAN
  /\ phase \in [Registrations -> Phases]
  /\ beating \in [Registrations -> BOOLEAN]
  /\ registry \in [Processes -> Registrations \cup {NoEntry}]
  /\ watching \in [Processes -> BOOLEAN]
  /\ dirty \in [Processes -> BOOLEAN]
  /\ view \in [Processes -> [reading : BOOLEAN, mtime : {"unknown", "gone", "stale", "fresh"},
                              content : Contents, read : BOOLEAN]]
  /\ removals \in 0..MaxRemovals

\* An empty directory; the first refresh of the watcher stream is still to come.
RegistryInit ==
  /\ file = NoEntry
  /\ stale = FALSE
  /\ phase = [i \in Registrations |-> "new"]
  /\ beating = [i \in Registrations |-> FALSE]
  /\ registry = [p \in Processes |-> NoEntry]
  /\ watching = [p \in Processes |-> TRUE]
  /\ dirty = [p \in Processes |-> TRUE]
  /\ view = [p \in Processes |-> NoView]
  /\ removals = 0

-----------------------------------------------------------------------------
(* The directory *)

SetPhase(i, ph) == phase' = [phase EXCEPT ![i] = ph]

\* A file operation that leaves `content' with a new mtime notifies all watchers.
PutFile(content) ==
  /\ file' = content
  /\ stale' = FALSE
  /\ dirty' = [p \in Processes |-> TRUE]

\* fs.remove / unlinkSync; a file that is gone already is an ignored error.  An
\* instance that has the file open goes on writing what no name refers to.
RemoveFile(ph) ==
  /\ IF file = NoEntry THEN UNCHANGED <<file, stale, dirty>> ELSE PutFile(NoEntry)
  /\ phase' = [i \in Registrations |-> IF ph[i] = "opened" THEN "unlinked" ELSE ph[i]]

\* The phases of write() in which it holds the updateLock of its process
Writing == {"opened", "unlinked", "written"}

\* Whether nobody holds p's updateLock
UpdateLockFree(p) ==
  /\ ~view[p].reading
  /\ \A i \in Registrations : ProcessOf[i] = p => phase[i] \notin Writing

-----------------------------------------------------------------------------
(* write(): the file under the lock, the snapshot, then the heartbeat *)

\* writeFileString opens and truncates the file ...
OpenFile(i) ==
  /\ phase[i] = "new"
  /\ UpdateLockFree(ProcessOf[i])
  /\ SetPhase(i, "opened")
  /\ PutFile(Torn)
  /\ UNCHANGED <<beating, registry, watching, view, removals>>

\* ... and writes it.
WriteFile(i) ==
  /\ phase[i] \in {"opened", "unlinked"}
  /\ SetPhase(i, "written")
  /\ IF phase[i] = "opened" THEN PutFile(i) ELSE UNCHANGED <<file, stale, dirty>>
  /\ UNCHANGED <<beating, registry, watching, view, removals>>

\* Immediately update the in-memory registry, and start the heartbeat.
UpdateSnapshot(i) ==
  /\ phase[i] = "written"
  /\ SetPhase(i, "registered")
  /\ registry' = [registry EXCEPT ![ProcessOf[i]] = i]
  /\ beating' = [beating EXCEPT ![i] = TRUE]
  /\ UNCHANGED <<file, stale, watching, dirty, view, removals>>

\* utimes every 30 seconds, on whatever the file holds by now; without a file
\* the heartbeat fiber fails, and the registration is never renewed.
Heartbeat(i) ==
  /\ phase[i] = "registered"
  /\ beating[i]
  /\ IF file = NoEntry
     THEN beating' = [beating EXCEPT ![i] = FALSE] /\ UNCHANGED <<file, stale, dirty>>
     ELSE PutFile(file) /\ UNCHANGED beating
  /\ UNCHANGED <<phase, registry, watching, view, removals>>

\* The finalizer (or the exit hook) reads the file back ...
ReadBack(i) ==
  /\ phase[i] = "registered"
  /\ SetPhase(i, IF file = i THEN "removing" ELSE "closed")
  /\ beating' = [beating EXCEPT ![i] = FALSE]
  /\ UNCHANGED <<file, stale, registry, watching, dirty, view, removals>>

\* ... and removes it if it held the instance's own entry when it was read.
Unregister(i) ==
  /\ phase[i] = "removing"
  /\ RemoveFile([phase EXCEPT ![i] = "closed"])
  /\ UNCHANGED <<beating, registry, watching, view, removals>>

\* The process dies without running finalizers: its entry stays.
Crash(i) ==
  /\ phase[i] = "registered"
  /\ SetPhase(i, "crashed")
  /\ beating' = [beating EXCEPT ![i] = FALSE]
  /\ UNCHANGED <<file, stale, registry, watching, dirty, view, removals>>

\* Time passes without a heartbeat.
GoesStale ==
  /\ file # NoEntry
  /\ Suspends \/ \A i \in Registrations : phase[i] \notin Writing /\ ~beating[i]
  /\ stale' = TRUE
  /\ UNCHANGED <<file, phase, beating, registry, watching, dirty, view, removals>>

-----------------------------------------------------------------------------
(* refresh: readAll under the lock, then the snapshot is replaced *)

\* Mutant: a refresh that does not take the update lock.
RefreshWithoutLock(p) ==
  /\ watching[p]
  /\ dirty[p] \/ Polling
  /\ ~view[p].reading
  /\ view' = [view EXCEPT ![p] = [NoView EXCEPT !.reading = TRUE]]
  /\ dirty' = [dirty EXCEPT ![p] = FALSE]
  /\ UNCHANGED <<file, stale, phase, beating, registry, watching, removals>>

RefreshBegin(p) ==
  /\ watching[p]
  /\ dirty[p] \/ Polling
  /\ UpdateLockFree(p)
  /\ view' = [view EXCEPT ![p] = [NoView EXCEPT !.reading = TRUE]]
  /\ dirty' = [dirty EXCEPT ![p] = FALSE]
  /\ UNCHANGED <<file, stale, phase, beating, registry, watching, removals>>

\* Either half of readEntry failed, which ends the other one: there is no file.
Missing(p) == view[p].mtime = "gone" \/ (view[p].read /\ view[p].content = NoEntry)

\* ensureNonStale: a stale file is removed by a detached fiber, later.
Stat(p) ==
  /\ view[p].reading
  /\ view[p].mtime = "unknown"
  /\ ~Missing(p)
  /\ LET mtime == IF file = NoEntry THEN "gone" ELSE IF stale THEN "stale" ELSE "fresh" IN
     /\ mtime = "stale" => removals < MaxRemovals
     /\ view' = [view EXCEPT ![p].mtime = mtime]
     /\ removals' = IF mtime = "stale" THEN removals + 1 ELSE removals
  /\ UNCHANGED <<file, stale, phase, beating, registry, watching, dirty>>

\* readFileString runs concurrently with the stat.  What it returned is parsed
\* in Effect.map ...
Read(p) ==
  /\ view[p].reading
  /\ ~view[p].read
  /\ ~Missing(p)
  /\ file # Torn
  /\ view' = [view EXCEPT ![p].content = file, ![p].read = TRUE]
  /\ UNCHANGED <<file, stale, phase, beating, registry, watching, dirty, removals>>

\* ... where an exception is a defect, which orElseSucceed does not catch: with
\* the refresh ends the fiber that ran it, and the snapshot stays as it is.
ReadTorn(p) ==
  /\ view[p].reading
  /\ ~view[p].read
  /\ ~Missing(p)
  /\ file = Torn
  /\ view' = [view EXCEPT ![p] = NoView]
  /\ watching' = [watching EXCEPT ![p] = FALSE]
  /\ UNCHANGED <<file, stale, phase, beating, registry, dirty, removals>>

ReadDone(p) == Missing(p) \/ (view[p].read /\ view[p].mtime # "unknown")

\* The entry that the refresh found: of a file that is there and fresh
Found(p) == IF ~Missing(p) /\ view[p].mtime = "fresh" THEN view[p].content ELSE NoEntry

\* Mutant: an event that came during the refresh is taken for handled.
DropsLateEvents(p) ==
  /\ ReadDone(p)
  /\ registry' = [registry EXCEPT ![p] = Found(p)]
  /\ view' = [view EXCEPT ![p] = NoView]
  /\ dirty' = [dirty EXCEPT ![p] = FALSE]
  /\ UNCHANGED <<file, stale, phase, beating, watching, removals>>

\* Mutant: a refresh updates the entries that the snapshot has, and adds none.
RefreshAddsNothing(p) ==
  /\ ReadDone(p)
  /\ registry' = [registry EXCEPT ![p] = IF @ = NoEntry THEN NoEntry ELSE Found(p)]
  /\ view' = [view EXCEPT ![p] = NoView]
  /\ UNCHANGED <<file, stale, phase, beating, watching, dirty, removals>>

\* The snapshot is replaced by what was read.
RefreshEnd(p) ==
  /\ ReadDone(p)
  /\ registry' = [registry EXCEPT ![p] = Found(p)]
  /\ view' = [view EXCEPT ![p] = NoView]
  /\ UNCHANGED <<file, stale, phase, beating, watching, dirty, removals>>

\* Mutant: a stale file is left where it is.
KeepStale ==
  /\ removals > 0
  /\ removals' = removals - 1
  /\ UNCHANGED <<file, stale, dirty, phase, beating, registry, watching, view>>

DetachedRemove ==
  /\ removals > 0
  /\ removals' = removals - 1
  /\ RemoveFile(phase)
  /\ UNCHANGED <<beating, registry, watching, view>>

-----------------------------------------------------------------------------
RegistryNext ==
  \/ \E i \in Registrations :
       \/ OpenFile(i)
       \/ WriteFile(i)
       \/ UpdateSnapshot(i)
       \/ Heartbeat(i)
       \/ ReadBack(i)
       \/ Unregister(i)
       \/ Crash(i)
  \/ \E p \in Processes : RefreshBegin(p) \/ Stat(p) \/ Read(p) \/ ReadTorn(p) \/ RefreshEnd(p)
  \/ GoesStale
  \/ DetachedRemove

RegistrySpec == RegistryInit /\ [][RegistryNext]_registryVars

\* File operations end, the lock goes to whoever waits for it, watch events are
\* acted on, heartbeats are sent, and an entry without them becomes stale.
RegistryFairness ==
  /\ \A i \in Registrations :
       /\ WF_registryVars(WriteFile(i)) /\ WF_registryVars(UpdateSnapshot(i))
       /\ WF_registryVars(Unregister(i)) /\ WF_registryVars(Heartbeat(i))
  /\ \A p \in Processes :
       /\ WF_registryVars(RefreshBegin(p)) /\ WF_registryVars(RefreshEnd(p))
       /\ WF_registryVars(Stat(p)) /\ WF_registryVars(Read(p) \/ ReadTorn(p))
  /\ WF_registryVars(GoesStale)
  /\ WF_registryVars(DetachedRemove)

RegistryFairSpec == RegistrySpec /\ RegistryFairness

-----------------------------------------------------------------------------
(* Properties *)

\* What a snapshot should say of the file
Entry == IF file \in Registrations THEN file ELSE NoEntry

\* A process that still watches, has no watch event to act on and no refresh or write under
\* way has the entry that is on disk, whatever other processes did to the file
\* in the meantime, except that it may already disregard a stale one.
SnapshotInSync ==
  \A p \in Processes :
    watching[p] /\ ~dirty[p] /\ UpdateLockFree(p) => registry[p] = Entry \/ (stale /\ registry[p] = NoEntry)

\* "a poll/watch refresh that started before `write` cannot overwrite the eager
\* in-memory update with a stale empty snapshot": as long as the file is the
\* instance's own, its process resolves the script to it.  (When no process
\* misses its heartbeats.)
EagerUpdateSurvives ==
  \A i \in Registrations : phase[i] = "registered" /\ file = i => registry[ProcessOf[i]] = i

\* A registration that stays on disk is found by every process that watches.
EventuallyVisible ==
  \A i \in Registrations, p \in Processes :
    <>[](file = i /\ beating[i] /\ watching[p]) => <>[](registry[p] = i)

\* The entry of a crashed process disappears from all snapshots that are still
\* refreshed, and from disk if there is one, unless another instance of the
\* script sends heartbeats: a superseded one touches its replacement's file.
CrashedEntryDisappears ==
  \A i \in Registrations, p \in Processes :
    phase[i] = "crashed" ~> \/ registry[p] # i /\ file # i
                            \/ ~watching[p]
                            \/ \E j \in Registrations : beating[j]

\* "If the watcher is not supported, we fall back to polling every 100ms": the
\* polling goes on.
KeepsPolling == Polling => \A p \in Processes : []<>view[p].reading

\* The finalizer removes the file "only while the file still holds THIS write's
\* content", since "removing it here would unregister the live replacement".
RemovesOnlyOwnEntry ==
  [][\A i \in Registrations : Unregister(i) => file \in {i, NoEntry}]_registryVars
=============================================================================
