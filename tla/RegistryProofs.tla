---------------------------- MODULE RegistryProofs ----------------------------
(***************************************************************************)
(* For any registrations and processes: a process that has nothing to do   *)
(* has in its snapshot what is on disk, and its own entry as long as the   *)
(* file holds it.  Both rest on the update lock, and on every change of    *)
(* the file being noticed.                                                 *)
(***************************************************************************)
EXTENDS Registry, TLAPS

\* The update lock of a process: a refresh and the writes exclude each other.
OneHolder ==
  /\ \A p \in Processes, i \in Registrations :
       view[p].reading /\ ProcessOf[i] = p => phase[i] \notin Writing
  /\ \A i, j \in Registrations :
       phase[i] \in Writing /\ phase[j] \in Writing /\ ProcessOf[i] = ProcessOf[j] => i = j

\* A refresh under way, and only one, has something in `view'; it never keeps a
\* torn file.
Views ==
  \A p \in Processes :
    /\ ~view[p].reading => view[p] = NoView
    /\ view[p].content # Torn

\* As long as no event comes, what a refresh has seen is so: without this part, its
\* end might replace the snapshot by something else than the file.
SeesTheFile(p) ==
  /\ view[p].mtime = "gone" => file = NoEntry
  /\ view[p].mtime = "fresh" => file # NoEntry
  /\ view[p].mtime = "stale" => stale
  /\ view[p].read => view[p].content = file

Events ==
  /\ \A p \in Processes : watching[p] /\ ~dirty[p] /\ view[p].reading => SeesTheFile(p)
  /\ \A i \in Registrations : phase[i] \in Writing => dirty[ProcessOf[i]]

\* Only i's own write puts i into the file, so the file is i's since then ...
OwnFile ==
  /\ \A i \in Registrations : phase[i] \in {"new", "opened", "unlinked"} => file # i
  /\ \A i, j \in Registrations :
       phase[i] \in Writing /\ ProcessOf[j] = ProcessOf[i] /\ j # i => file # j

\* ... and if no process misses its heartbeats it has been fresh since then, in
\* whatever a refresh has seen of it.
Kept(i) ==
  file = i =>
    /\ phase[i] \in {"written", "registered"} => ~stale
    /\ phase[i] = "registered" =>
         /\ beating[i]
         /\ registry[ProcessOf[i]] = i
         /\ view[ProcessOf[i]].mtime \in {"unknown", "fresh"}
         /\ view[ProcessOf[i]].read => view[ProcessOf[i]].content = i

RegistryInv ==
  /\ RegistryTypeOK
  /\ OneHolder /\ Views /\ Events /\ OwnFile
  /\ SnapshotInSync
  /\ ~Suspends => \A i \in Registrations : Kept(i)

ViewType == [reading : BOOLEAN, mtime : {"unknown", "gone", "stale", "fresh"},
             content : Contents, read : BOOLEAN]

LEMMA RegistryInitInv == RegistryInit => RegistryInv
<1>. SUFFICES ASSUME RegistryInit PROVE RegistryInv
  OBVIOUS
<1>. USE EntriesAssumption, ProcessOfAssumption DEF RegistryInit
<1>1. RegistryTypeOK
  <2>1. NoView \in ViewType
    BY DEF NoView, ViewType, Contents
  <2>2. view \in [Processes -> ViewType]
    BY <2>1
  <2>3. 0 \in 0..MaxRemovals
    BY MaxRemovalsAssumption
  <2>. QED  BY <2>2, <2>3 DEF RegistryTypeOK, Phases, Contents, ViewType
<1>2. OneHolder /\ Views /\ Events /\ OwnFile
  BY DEF OneHolder, Views, Events, OwnFile, NoView, Writing
<1>3. SnapshotInSync /\ \A i \in Registrations : Kept(i)
  BY DEF SnapshotInSync, Kept
<1>. QED  BY <1>1, <1>2, <1>3 DEF RegistryInv

-----------------------------------------------------------------------------
(* The registrations *)

LEMMA OpenFilePreserves == ASSUME RegistryInv, NEW i \in Registrations, OpenFile(i) PROVE RegistryInv'
<1>. USE ProcessOfAssumption, EntriesAssumption DEF OpenFile, SetPhase, PutFile
<1>0. RegistryTypeOK
  BY DEF RegistryInv
<1>1. phase'[i] = "opened" /\ \A j \in Registrations \ {i} : phase'[j] = phase[j]
  BY <1>0 DEF RegistryTypeOK
<1>2. file' = Torn /\ stale' = FALSE /\ dirty' = [p \in Processes |-> TRUE]
      /\ UNCHANGED <<beating, registry, watching, view, removals>>
  OBVIOUS
<1>3. RegistryTypeOK'
  BY <1>0 DEF RegistryTypeOK, Phases, Contents
<1>4. OneHolder'
  BY <1>1, <1>2 DEF RegistryInv, OneHolder, UpdateLockFree, Writing
<1>5. Views' /\ Events' /\ SnapshotInSync'
  BY <1>2 DEF RegistryInv, Views, Events, SnapshotInSync
<1>6. OwnFile'
  BY <1>2 DEF OwnFile
<1>7. \A j \in Registrations : Kept(j)'
  BY <1>2 DEF Kept
<1>. QED  BY <1>3, <1>4, <1>5, <1>6, <1>7 DEF RegistryInv

LEMMA WriteFilePreserves == ASSUME RegistryInv, NEW i \in Registrations, WriteFile(i) PROVE RegistryInv'
<1>. USE ProcessOfAssumption, EntriesAssumption DEF SetPhase, PutFile
<1>0. RegistryTypeOK
  BY DEF RegistryInv
<1>1. /\ phase[i] \in {"opened", "unlinked"} /\ phase'[i] = "written"
      /\ \A j \in Registrations \ {i} : phase'[j] = phase[j]
      /\ UNCHANGED <<beating, registry, watching, view, removals>>
  BY <1>0 DEF RegistryTypeOK, WriteFile
<1>2. \/ phase[i] = "opened" /\ file' = i /\ stale' = FALSE /\ dirty' = [p \in Processes |-> TRUE]
      \/ phase[i] = "unlinked" /\ UNCHANGED <<file, stale, dirty>>
  BY <1>1 DEF WriteFile
<1>3. RegistryTypeOK'
  BY <1>0, <1>2 DEF RegistryTypeOK, Phases, Contents, WriteFile
<1>4. OneHolder'
  BY <1>1 DEF RegistryInv, OneHolder, Writing
<1>5. Views'
  BY <1>1 DEF RegistryInv, Views
<1>6. Events'
  <2>1. \A p \in Processes : dirty[p] => dirty'[p]
    BY <1>2
  <2>2. \A p \in Processes : watching[p] /\ ~dirty'[p] /\ view[p].reading => SeesTheFile(p)'
    BY <1>1, <1>2 DEF RegistryInv, Events, SeesTheFile
  <2>3. \A j \in Registrations : phase'[j] \in Writing => dirty'[ProcessOf[j]]
    BY <1>1, <2>1 DEF RegistryInv, Events, Writing
  <2>. QED  BY <1>1, <2>2, <2>3 DEF Events
<1>7. OwnFile'
  BY <1>1, <1>2 DEF RegistryInv, OwnFile, OneHolder, Writing
<1>8. SnapshotInSync'
  <2>1. dirty'[ProcessOf[i]]
    BY <1>1, <1>2 DEF RegistryInv, Events, Writing
  <2>2. \A p \in Processes \ {ProcessOf[i]} : UpdateLockFree(p)' => UpdateLockFree(p)
    BY <1>1 DEF UpdateLockFree
  <2>. QED  BY <1>1, <1>2, <2>1, <2>2 DEF RegistryInv, SnapshotInSync, Entry
<1>9. ~Suspends => \A j \in Registrations : Kept(j)'
  BY <1>1, <1>2 DEF RegistryInv, OwnFile, Kept
<1>. QED  BY <1>3, <1>4, <1>5, <1>6, <1>7, <1>8, <1>9 DEF RegistryInv

LEMMA UpdateSnapshotPreserves ==
  ASSUME RegistryInv, NEW i \in Registrations, UpdateSnapshot(i) PROVE RegistryInv'
<1>. USE ProcessOfAssumption, EntriesAssumption DEF SetPhase
<1>0. RegistryTypeOK
  BY DEF RegistryInv
<1>1. /\ phase[i] = "written" /\ phase'[i] = "registered"
      /\ \A j \in Registrations \ {i} : phase'[j] = phase[j]
      /\ beating'[i] /\ \A j \in Registrations \ {i} : beating'[j] = beating[j]
      /\ registry'[ProcessOf[i]] = i /\ \A p \in Processes \ {ProcessOf[i]} : registry'[p] = registry[p]
      /\ UNCHANGED <<file, stale, watching, dirty, view, removals>>
  BY <1>0 DEF RegistryTypeOK, UpdateSnapshot
<1>2. RegistryTypeOK'
  BY <1>0 DEF RegistryTypeOK, Phases, UpdateSnapshot
<1>3. OneHolder' /\ Views'
  BY <1>1 DEF RegistryInv, OneHolder, Views, Writing
<1>4. Events'
  BY <1>1 DEF RegistryInv, Events, SeesTheFile, Writing
<1>5. OwnFile'
  BY <1>1 DEF RegistryInv, OwnFile, Writing
<1>6. SnapshotInSync'
  <2>1. dirty'[ProcessOf[i]]
    BY <1>1 DEF RegistryInv, Events, Writing
  <2>2. \A p \in Processes \ {ProcessOf[i]} : UpdateLockFree(p)' => UpdateLockFree(p)
    BY <1>1 DEF UpdateLockFree
  <2>. QED  BY <1>1, <2>1, <2>2 DEF RegistryInv, SnapshotInSync, Entry
<1>7. ASSUME ~Suspends, NEW j \in Registrations PROVE Kept(j)'
  <2>1. Kept(j)
    BY <1>7 DEF RegistryInv
  <2>2. CASE j = i
    <3>1. view[ProcessOf[i]] = NoView
      BY <1>1 DEF RegistryInv, OneHolder, Views, Writing
    <3>. QED  BY <1>1, <2>1, <2>2, <3>1 DEF Kept, NoView
  <2>3. CASE j # i
    <3>1. ProcessOf[j] = ProcessOf[i] => file # j
      BY <1>1, <2>3 DEF RegistryInv, OwnFile, Writing
    <3>. QED  BY <1>1, <2>1, <2>3, <3>1 DEF Kept
  <2>. QED  BY <2>2, <2>3
<1>. QED  BY <1>2, <1>3, <1>4, <1>5, <1>6, <1>7 DEF RegistryInv

\* A new mtime, of whatever the file holds
LEMMA HeartbeatPreserves == ASSUME RegistryInv, NEW i \in Registrations, Heartbeat(i) PROVE RegistryInv'
<1>. USE ProcessOfAssumption, EntriesAssumption DEF PutFile
<1>0. RegistryTypeOK
  BY DEF RegistryInv
<1>1. /\ \A j \in Registrations : beating'[j] = beating[j] \/ file = NoEntry
      /\ beating' \in [Registrations -> BOOLEAN]
      /\ UNCHANGED <<phase, registry, watching, view, removals, file>>
      /\ \/ UNCHANGED <<stale, dirty>>
         \/ stale' = FALSE /\ dirty' = [p \in Processes |-> TRUE]
  BY <1>0 DEF RegistryTypeOK, Heartbeat
<1>2. RegistryTypeOK'
  BY <1>0, <1>1 DEF RegistryTypeOK
<1>3. OneHolder' /\ Views' /\ OwnFile'
  BY <1>1 DEF RegistryInv, OneHolder, Views, OwnFile
<1>4. Events'
  BY <1>1 DEF RegistryInv, Events, SeesTheFile
<1>5. SnapshotInSync'
  <2>1. \A p \in Processes : UpdateLockFree(p)' = UpdateLockFree(p)
    BY <1>1 DEF UpdateLockFree
  <2>. QED  BY <1>1, <2>1 DEF RegistryInv, SnapshotInSync, Entry
<1>6. ~Suspends => \A j \in Registrations : Kept(j)'
  BY <1>1 DEF RegistryInv, Kept
<1>. QED  BY <1>2, <1>3, <1>4, <1>5, <1>6 DEF RegistryInv

\* An instance that goes away, without the file
LEMMA EndingPreserves ==
  ASSUME RegistryInv, NEW i \in Registrations, NEW ph \in {"removing", "closed", "crashed"},
         phase[i] = "registered", SetPhase(i, ph), beating' = [beating EXCEPT ![i] = FALSE],
         UNCHANGED <<file, stale, registry, watching, dirty, view, removals>>
  PROVE  RegistryInv'
<1>. USE ProcessOfAssumption DEF SetPhase
<1>0. RegistryTypeOK
  BY DEF RegistryInv
<1>1. /\ phase'[i] = ph /\ \A j \in Registrations \ {i} : phase'[j] = phase[j] /\ beating'[j] = beating[j]
  BY <1>0 DEF RegistryTypeOK
<1>2. RegistryTypeOK'
  BY <1>0 DEF RegistryTypeOK, Phases
<1>3. OneHolder' /\ Views' /\ OwnFile'
  BY <1>1 DEF RegistryInv, OneHolder, Views, OwnFile, Writing
<1>4. Events'
  BY <1>1 DEF RegistryInv, Events, SeesTheFile, Writing
<1>5. SnapshotInSync'
  <2>1. \A p \in Processes : UpdateLockFree(p)' => UpdateLockFree(p)
    BY <1>1 DEF UpdateLockFree, Writing
  <2>. QED  BY <2>1 DEF RegistryInv, SnapshotInSync, Entry
<1>6. ~Suspends => \A j \in Registrations : Kept(j)'
  BY <1>1 DEF RegistryInv, Kept
<1>. QED  BY <1>2, <1>3, <1>4, <1>5, <1>6 DEF RegistryInv

\* The file goes: by the finalizer of an instance, or because somebody found it stale.
LEMMA RemovalPreserves ==
  ASSUME RegistryInv, NEW ph \in [Registrations -> Phases], RemoveFile(ph),
         \A i \in Registrations : ph[i] = phase[i] \/ (phase[i] = "removing" /\ ph[i] = "closed"),
         removals' \in 0..MaxRemovals, UNCHANGED <<beating, registry, watching, view>>
  PROVE  RegistryInv'
<1>. USE ProcessOfAssumption, EntriesAssumption DEF PutFile
<1>0. RegistryTypeOK
  BY DEF RegistryInv
<1>1. /\ file' = NoEntry
      /\ \/ file = NoEntry /\ UNCHANGED <<stale, dirty>>
         \/ stale' = FALSE /\ dirty' = [p \in Processes |-> TRUE]
  BY DEF RemoveFile
<1>2. \A i \in Registrations :
        /\ phase'[i] \in Writing <=> phase[i] \in Writing
        /\ phase'[i] = "registered" => phase[i] = "registered"
  BY DEF RemoveFile, Writing
<1>3. RegistryTypeOK'
  <2>1. phase' \in [Registrations -> Phases]
    BY DEF RemoveFile, Phases
  <2>. QED  BY <1>0, <1>1, <2>1 DEF RegistryTypeOK, Contents
<1>4. OneHolder' /\ Views'
  BY <1>2 DEF RegistryInv, OneHolder, Views
<1>5. Events'
  BY <1>1, <1>2 DEF RegistryInv, Events, SeesTheFile
<1>6. OwnFile' /\ \A j \in Registrations : Kept(j)'
  BY <1>1 DEF OwnFile, Kept
<1>7. SnapshotInSync'
  <2>1. \A p \in Processes : UpdateLockFree(p)' => UpdateLockFree(p)
    BY <1>2 DEF UpdateLockFree
  <2>. QED  BY <1>1, <2>1 DEF RegistryInv, SnapshotInSync, Entry
<1>. QED  BY <1>3, <1>4, <1>5, <1>6, <1>7 DEF RegistryInv

LEMMA GoesStalePreserves == ASSUME RegistryInv, GoesStale PROVE RegistryInv'
<1>0. RegistryTypeOK
  BY DEF RegistryInv
<1>1. RegistryTypeOK' /\ OneHolder' /\ Views' /\ OwnFile'
  BY <1>0 DEF GoesStale, RegistryInv, RegistryTypeOK, OneHolder, Views, OwnFile
<1>2. Events'
  BY DEF GoesStale, RegistryInv, Events, SeesTheFile
<1>3. SnapshotInSync'
  <2>1. \A p \in Processes : UpdateLockFree(p)' = UpdateLockFree(p)
    BY DEF GoesStale, UpdateLockFree
  <2>. QED  BY <2>1 DEF GoesStale, RegistryInv, SnapshotInSync, Entry
<1>4. ~Suspends => \A j \in Registrations : Kept(j)'
  BY DEF GoesStale, RegistryInv, Kept, Writing
<1>. QED  BY <1>1, <1>2, <1>3, <1>4 DEF RegistryInv

-----------------------------------------------------------------------------
(* The refreshes *)

\* Registrations and file stay as they are.
untouched == <<file, stale, phase, beating>>

LEMMA RefreshBeginPreserves == ASSUME RegistryInv, NEW p \in Processes, RefreshBegin(p) PROVE RegistryInv'
<1>. USE ProcessOfAssumption DEF RefreshBegin
<1>0. RegistryTypeOK
  BY DEF RegistryInv
<1>1. /\ view'[p] = [reading |-> TRUE, mtime |-> "unknown", content |-> NoEntry, read |-> FALSE]
      /\ ~dirty'[p]
      /\ \A q \in Processes \ {p} : view'[q] = view[q] /\ dirty'[q] = dirty[q]
  BY <1>0 DEF RegistryTypeOK, NoView
<1>2. RegistryTypeOK'
  <2>1. view' \in [Processes -> ViewType]
    BY <1>0 DEF RegistryTypeOK, NoView, ViewType, Contents
  <2>. QED  BY <1>0, <2>1 DEF RegistryTypeOK, ViewType
<1>3. OneHolder'
  BY <1>1 DEF RegistryInv, OneHolder, UpdateLockFree
<1>4. Views'
  BY <1>1, EntriesAssumption DEF RegistryInv, Views
<1>5. Events'
  BY <1>1 DEF RegistryInv, Events, SeesTheFile, UpdateLockFree
<1>6. OwnFile'
  BY DEF RegistryInv, OwnFile
<1>7. SnapshotInSync'
  <2>1. ~UpdateLockFree(p)' /\ \A q \in Processes \ {p} : UpdateLockFree(q)' => UpdateLockFree(q)
    BY <1>1 DEF UpdateLockFree
  <2>. QED  BY <1>1, <2>1 DEF RegistryInv, SnapshotInSync, Entry
<1>8. ~Suspends => \A j \in Registrations : Kept(j)'
  BY <1>1 DEF RegistryInv, Kept
<1>. QED  BY <1>2, <1>3, <1>4, <1>5, <1>6, <1>7, <1>8 DEF RegistryInv

\* A half of readEntry returns.
LEMMA ReadingPreserves ==
  ASSUME RegistryInv, NEW p \in Processes, NEW v \in ViewType,
         view[p].reading, v.reading, v.content # Torn, view' = [view EXCEPT ![p] = v],
         SeesTheFile(p) => SeesTheFile(p)',
         \A i \in Registrations : ProcessOf[i] = p /\ file = i /\ ~stale =>
           /\ view[p].mtime \in {"unknown", "fresh"} => v.mtime \in {"unknown", "fresh"}
           /\ (view[p].read => view[p].content = i) => (v.read => v.content = i),
         removals' \in 0..MaxRemovals,
         UNCHANGED untouched, UNCHANGED <<registry, watching, dirty>>
  PROVE  RegistryInv'
<1>. USE ProcessOfAssumption DEF untouched
<1>0. RegistryTypeOK
  BY DEF RegistryInv
<1>1. view'[p] = v /\ \A q \in Processes \ {p} : view'[q] = view[q]
  BY <1>0 DEF RegistryTypeOK
<1>2. RegistryTypeOK'
  BY <1>0 DEF RegistryTypeOK, ViewType
<1>3. OneHolder' /\ Views' /\ OwnFile'
  BY <1>1 DEF RegistryInv, OneHolder, Views, OwnFile
<1>4. Events'
  <2>1. \A q \in Processes \ {p} : SeesTheFile(q)' <=> SeesTheFile(q)
    BY <1>1 DEF SeesTheFile
  <2>. QED  BY <1>1, <2>1 DEF RegistryInv, Events
<1>5. SnapshotInSync'
  <2>1. \A q \in Processes : UpdateLockFree(q)' => UpdateLockFree(q)
    BY <1>1 DEF UpdateLockFree
  <2>. QED  BY <2>1 DEF RegistryInv, SnapshotInSync, Entry
<1>6. ~Suspends => \A j \in Registrations : Kept(j)'
  BY <1>1 DEF RegistryInv, Kept
<1>. QED  BY <1>2, <1>3, <1>4, <1>5, <1>6 DEF RegistryInv

LEMMA StatPreserves == ASSUME RegistryInv, NEW p \in Processes, Stat(p) PROVE RegistryInv'
<1>. DEFINE mtime == IF file = NoEntry THEN "gone" ELSE IF stale THEN "stale" ELSE "fresh"
            v == [view[p] EXCEPT !.mtime = mtime]
<1>0. RegistryTypeOK /\ view[p] \in ViewType
  BY DEF RegistryInv, RegistryTypeOK, ViewType
<1>1. mtime \in {"gone", "stale", "fresh"}
  OBVIOUS
<1>2. v \in ViewType /\ v.mtime = mtime
      /\ v.reading = view[p].reading /\ v.content = view[p].content /\ v.read = view[p].read
  BY <1>0, <1>1 DEF ViewType
<1>3. /\ view' = [view EXCEPT ![p] = v] /\ view[p].reading /\ view[p].mtime = "unknown"
      /\ UNCHANGED untouched /\ UNCHANGED <<registry, watching, dirty>>
  BY <1>0 DEF Stat, untouched
<1>4. view'[p] = v
  BY <1>0, <1>3 DEF RegistryTypeOK
<1>5. removals' \in 0..MaxRemovals
  BY <1>0, MaxRemovalsAssumption DEF Stat, RegistryTypeOK
<1>6. view[p].content # Torn
  BY DEF RegistryInv, Views
<1>. HIDE DEF v
<1>7. SeesTheFile(p) => SeesTheFile(p)'
  BY <1>2, <1>3, <1>4 DEF SeesTheFile, untouched
<1>8. \A i \in Registrations : file = i /\ ~stale => mtime = "fresh"
  BY EntriesAssumption
<1>. QED  BY <1>2, <1>3, <1>5, <1>6, <1>7, <1>8, ReadingPreserves

LEMMA ReadPreserves == ASSUME RegistryInv, NEW p \in Processes, Read(p) PROVE RegistryInv'
<1>. DEFINE v == [view[p] EXCEPT !.content = file, !.read = TRUE]
<1>0. RegistryTypeOK /\ view[p] \in ViewType /\ file \in Contents
  BY DEF RegistryInv, RegistryTypeOK, ViewType
<1>2. v \in ViewType /\ v.mtime = view[p].mtime
      /\ v.reading = view[p].reading /\ v.content = file /\ v.read
  BY <1>0 DEF ViewType
<1>3. /\ view' = [view EXCEPT ![p] = v] /\ view[p].reading /\ file # Torn
      /\ UNCHANGED untouched /\ UNCHANGED <<registry, watching, dirty, removals>>
  BY <1>0 DEF Read, untouched
<1>4. view'[p] = v
  BY <1>0, <1>3 DEF RegistryTypeOK
<1>. HIDE DEF v
<1>5. SeesTheFile(p) => SeesTheFile(p)'
  BY <1>2, <1>3, <1>4 DEF SeesTheFile, untouched
<1>6. removals' \in 0..MaxRemovals
  BY <1>0, <1>3 DEF RegistryTypeOK
<1>. QED  BY <1>2, <1>3, <1>5, <1>6, ReadingPreserves

\* The watcher dies of a torn file.
LEMMA ReadTornPreserves == ASSUME RegistryInv, NEW p \in Processes, ReadTorn(p) PROVE RegistryInv'
<1>. USE ProcessOfAssumption, EntriesAssumption DEF ReadTorn
<1>0. RegistryTypeOK
  BY DEF RegistryInv
<1>1. /\ view'[p] = NoView /\ ~watching'[p] /\ file = Torn
      /\ \A q \in Processes \ {p} : view'[q] = view[q] /\ watching'[q] = watching[q]
      /\ UNCHANGED untouched /\ UNCHANGED <<registry, dirty, removals>>
  BY <1>0 DEF RegistryTypeOK, untouched
<1>2. RegistryTypeOK'
  <2>1. NoView \in ViewType
    BY DEF NoView, ViewType, Contents
  <2>2. view' \in [Processes -> ViewType]
    BY <1>0, <2>1 DEF RegistryTypeOK, ViewType
  <2>. QED  BY <1>0, <2>2 DEF RegistryTypeOK, ViewType
<1>3. ~view'[p].reading /\ view'[p].content = NoEntry
  BY <1>1 DEF NoView
<1>8. OneHolder'
  BY <1>1, <1>3 DEF RegistryInv, OneHolder, untouched
<1>9. Views'
  BY <1>1, <1>3 DEF RegistryInv, Views
<1>4. Events'
  <2>1. \A q \in Processes \ {p} : SeesTheFile(q)' <=> SeesTheFile(q)
    BY <1>1 DEF SeesTheFile, untouched
  <2>. QED  BY <1>1, <2>1 DEF RegistryInv, Events, untouched
<1>5. OwnFile' /\ \A j \in Registrations : Kept(j)'
  BY <1>1 DEF RegistryInv, OwnFile, Kept, untouched
<1>6. SnapshotInSync'
  <2>1. \A q \in Processes \ {p} : UpdateLockFree(q)' => UpdateLockFree(q)
    BY <1>1 DEF UpdateLockFree, untouched
  <2>. QED  BY <1>1, <2>1 DEF RegistryInv, SnapshotInSync, Entry, untouched
<1>. QED  BY <1>2, <1>4, <1>5, <1>6, <1>8, <1>9 DEF RegistryInv

\* What the refresh found is the file, if no event came; the process's own
\* entry, if the file is its own.
LEMMA RefreshEndPreserves == ASSUME RegistryInv, NEW p \in Processes, RefreshEnd(p) PROVE RegistryInv'
<1>. USE ProcessOfAssumption, EntriesAssumption
<1>0. RegistryTypeOK /\ view[p] \in ViewType
  BY DEF RegistryInv, RegistryTypeOK, ViewType
<1>1. /\ view'[p] = NoView /\ registry'[p] = Found(p)
      /\ \A q \in Processes \ {p} : view'[q] = view[q] /\ registry'[q] = registry[q]
      /\ UNCHANGED untouched /\ UNCHANGED <<watching, dirty, removals>>
  BY <1>0 DEF RegistryTypeOK, untouched, RefreshEnd
<1>2. view[p].reading /\ view[p].content # Torn /\ ReadDone(p)
  BY DEF RegistryInv, Views, RefreshEnd, ReadDone, Missing, NoView
<1>3. Found(p) \in Registrations \cup {NoEntry}
  BY <1>0, <1>2 DEF Found, ViewType, Contents
<1>4. RegistryTypeOK'
  <2>1. NoView \in ViewType
    BY DEF NoView, ViewType, Contents
  <2>2. view' \in [Processes -> ViewType]
    BY <1>0, <2>1 DEF RegistryTypeOK, ViewType, RefreshEnd
  <2>3. registry' \in [Processes -> Registrations \cup {NoEntry}]
    BY <1>0, <1>3 DEF RegistryTypeOK, RefreshEnd
  <2>. QED  BY <1>0, <1>1, <2>2, <2>3 DEF RegistryTypeOK, ViewType, untouched
<1>5. OneHolder' /\ Views' /\ OwnFile'
  <2>1. ~view'[p].reading /\ view'[p].content = NoEntry
    BY <1>1 DEF NoView
  <2>2. OneHolder'
    BY <1>1, <2>1 DEF RegistryInv, OneHolder, untouched
  <2>3. Views'
    BY <1>1, <2>1 DEF RegistryInv, Views
  <2>4. OwnFile'
    BY <1>1 DEF RegistryInv, OwnFile, untouched
  <2>. QED  BY <2>2, <2>3, <2>4
<1>6. Events'
  <2>1. \A q \in Processes \ {p} : SeesTheFile(q)' <=> SeesTheFile(q)
    BY <1>1 DEF SeesTheFile, untouched
  <2>2. ~view'[p].reading
    BY <1>1 DEF NoView
  <2>. QED  BY <1>1, <2>1, <2>2 DEF RegistryInv, Events, untouched
<1>7. SnapshotInSync'
  <2>1. \A q \in Processes \ {p} : UpdateLockFree(q)' => UpdateLockFree(q)
    BY <1>1 DEF UpdateLockFree, untouched
  <2>2. ASSUME watching[p], ~dirty[p] PROVE Found(p) = Entry \/ (stale /\ Found(p) = NoEntry)
    <3>1. SeesTheFile(p)
      BY <1>2, <2>2 DEF RegistryInv, Events
    <3>2. file \in Contents /\ view[p].mtime \in {"unknown", "gone", "stale", "fresh"}
      BY <1>0 DEF RegistryTypeOK, ViewType
    <3>. QED  BY <1>2, <3>1, <3>2 DEF SeesTheFile, ReadDone, Missing, Found, Entry, Contents
  <2>. QED  BY <1>1, <2>1, <2>2 DEF RegistryInv, SnapshotInSync, Entry, untouched
<1>8. ASSUME ~Suspends, NEW j \in Registrations PROVE Kept(j)'
  <2>1. Kept(j)
    BY <1>8 DEF RegistryInv
  <2>2. CASE ProcessOf[j] = p /\ file = j /\ phase[j] = "registered"
    <3>1. Found(p) = j
      BY <1>2, <2>1, <2>2 DEF Kept, Found, ReadDone, Missing
    <3>. QED  BY <1>1, <2>1, <2>2, <3>1 DEF Kept, NoView, untouched
  <2>3. CASE ~(ProcessOf[j] = p /\ file = j /\ phase[j] = "registered")
    BY <1>1, <2>1, <2>3 DEF Kept, untouched
  <2>. QED  BY <2>2, <2>3
<1>. QED  BY <1>4, <1>5, <1>6, <1>7, <1>8 DEF RegistryInv

-----------------------------------------------------------------------------
(* The invariant *)

LEMMA RegistryNextPreserves == RegistryInv /\ [RegistryNext]_registryVars => RegistryInv'
<1>. SUFFICES ASSUME RegistryInv, [RegistryNext]_registryVars PROVE RegistryInv'
  OBVIOUS
<1>0. RegistryTypeOK
  BY DEF RegistryInv
<1>1. ASSUME NEW i \in Registrations, ReadBack(i) \/ Crash(i) PROVE RegistryInv'
  <2>1. /\ phase[i] = "registered" /\ beating' = [beating EXCEPT ![i] = FALSE]
        /\ UNCHANGED <<file, stale, registry, watching, dirty, view, removals>>
        /\ SetPhase(i, "removing") \/ SetPhase(i, "closed") \/ SetPhase(i, "crashed")
    BY <1>1 DEF ReadBack, Crash
  <2>. QED  BY <2>1, EndingPreserves
<1>2. ASSUME NEW i \in Registrations, Unregister(i) PROVE RegistryInv'
  <2>. DEFINE ph == [phase EXCEPT ![i] = "closed"]
  <2>1. /\ ph \in [Registrations -> Phases]
        /\ \A j \in Registrations : ph[j] = phase[j] \/ (phase[j] = "removing" /\ ph[j] = "closed")
    BY <1>0, <1>2 DEF RegistryTypeOK, Phases, Unregister
  <2>2. RemoveFile(ph) /\ removals' \in 0..MaxRemovals /\ UNCHANGED <<beating, registry, watching, view>>
    BY <1>0, <1>2 DEF RegistryTypeOK, Unregister
  <2>. HIDE DEF ph
  <2>. QED  BY <2>1, <2>2, RemovalPreserves
<1>3. ASSUME DetachedRemove PROVE RegistryInv'
  <2>1. RemoveFile(phase) /\ UNCHANGED <<beating, registry, watching, view>>
        /\ phase \in [Registrations -> Phases]
    BY <1>0, <1>3 DEF RegistryTypeOK, DetachedRemove
  <2>2. removals' \in 0..MaxRemovals
    BY <1>0, <1>3, MaxRemovalsAssumption DEF RegistryTypeOK, DetachedRemove
  <2>. QED  BY <2>1, <2>2, RemovalPreserves
<1>4. ASSUME UNCHANGED registryVars PROVE RegistryInv'
  <2>1. RegistryTypeOK' /\ OneHolder' /\ Views' /\ OwnFile'
    BY <1>4 DEF registryVars, RegistryInv, RegistryTypeOK, OneHolder, Views, OwnFile
  <2>2. Events'
    BY <1>4 DEF registryVars, RegistryInv, Events, SeesTheFile
  <2>3. SnapshotInSync'
    BY <1>4 DEF registryVars, RegistryInv, SnapshotInSync, UpdateLockFree, Entry
  <2>4. ~Suspends => \A i \in Registrations : Kept(i)'
    BY <1>4 DEF registryVars, RegistryInv, Kept
  <2>. QED  BY <2>1, <2>2, <2>3, <2>4 DEF RegistryInv
<1>. QED
  BY <1>1, <1>2, <1>3, <1>4, OpenFilePreserves, WriteFilePreserves, UpdateSnapshotPreserves, HeartbeatPreserves,
     GoesStalePreserves, RefreshBeginPreserves, StatPreserves, ReadPreserves, ReadTornPreserves,
     RefreshEndPreserves
  DEF RegistryNext

\* The inductive invariant holds of every execution, crashes, hibernating
\* processes and torn reads included.
THEOREM RegistryInvariance == RegistrySpec => []RegistryInv
<1>. QED  BY RegistryInitInv, RegistryNextPreserves, PTL DEF RegistrySpec

\* Every variable keeps its type.
THEOREM RegistryTypeCorrect == RegistrySpec => []RegistryTypeOK
<1>1. RegistryInv => RegistryTypeOK
  BY DEF RegistryInv
<1>. QED  BY <1>1, RegistryInvariance, PTL

\* A process that watches and has nothing left to do has the file's entry in its
\* snapshot, however many processes wrote, removed and renewed it.
THEOREM SnapshotsAreInSync == RegistrySpec => []SnapshotInSync
<1>1. RegistryInv => SnapshotInSync
  BY DEF RegistryInv
<1>. QED  BY <1>1, RegistryInvariance, PTL

\* Where no process misses its heartbeats, a refresh that began before an instance
\* wrote its file does not undo the update of the snapshot.
THEOREM RefreshesKeepTheUpdate == ~Suspends /\ RegistrySpec => []EagerUpdateSurvives
<1>1. ~Suspends /\ RegistryInv => EagerUpdateSurvives
  BY DEF RegistryInv, Kept, EagerUpdateSurvives
<1>2. CASE Suspends
  BY <1>2
<1>3. CASE ~Suspends
  <2>1. RegistryInv => EagerUpdateSurvives
    BY <1>1, <1>3
  <2>2. RegistrySpec => []EagerUpdateSurvives
    BY <2>1, RegistryInvariance, PTL
  <2>. QED  BY <2>2
<1>. QED  BY <1>2, <1>3
=============================================================================
