---------------------------- MODULE SimulatorProofs ----------------------------
(***************************************************************************)
(* The R2 simulator and the store of the Stream simulator, for any keys,   *)
(* uploads and calls: tables and blobs agree, blobs in use are kept, a     *)
(* conditional put does not lose an update, the pages of a listing are     *)
(* complete, a ranged read sends the bytes that were meant.                *)
(***************************************************************************)
EXTENDS KeyValueStorageProofs, MCStorage

-----------------------------------------------------------------------------
(* The bucket *)

\* A blob belongs to the write that stored it, until something refers to it ...
OwnBlobs ==
  \A w \in Writes :
    /\ writes[w].stage \in {"idle", "writing", "stored"} => w \notin deletions
    /\ writes[w].stage = "stored" => w \in disk

\* ... then to one row: what is freed with a row is not used by another one.
RowBlobs ==
  /\ \A p \in parts : p.blob \in disk \ deletions /\ writes[p.blob].stage = "done"
  /\ \A k \in ObjectKeys : objects[k] \in Writes =>
       objects[k] \in disk \ deletions /\ writes[objects[k]].stage = "done"
  /\ \A p, q \in parts : p.blob = q.blob => p = q
  /\ \A p \in parts, k \in ObjectKeys : objects[k] # p.blob
  /\ \A j, k \in ObjectKeys : objects[j] = objects[k] /\ objects[j] \in Writes => j = k

\* Parts are of an upload in progress, or of the object that it has become.
RowsFit ==
  /\ \A u \in Uploads : uploads[u].state # "none" => uploads[u].key \in ObjectKeys
  /\ \A p \in parts :
       /\ p.object = Nothing <=> uploads[p.upload].state = "inProgress"
       /\ p.object # Nothing => objects[p.object] = p.upload
  /\ \A k \in ObjectKeys : objects[k] \in Uploads =>
       /\ uploads[objects[k]].state = "completed" /\ uploads[objects[k]].key = k
       /\ \A b \in Writes : b \in selected[objects[k]] <=> \E p \in parts : p.object = k /\ p.blob = b

\* What a read found was there, and will not be there again once it is gone.
ReadsFit ==
  \A r \in Reads :
    /\ reads[r].stage # "broken"
    /\ \A p \in reads[r].todo : p.blob \in disk
    /\ reads[r].stage \in {"fetching", "missed"} =>
         /\ reads[r].key \in ObjectKeys
         /\ reads[r].row \in Writes /\ writes[reads[r].row].stage = "done"
    /\ reads[r].stage = "missed" => objects[reads[r].key] # reads[r].row

\* The object that a put asks for was there when the put was requested, and is gone
\* for good once the put is done.
AskedFor(x) ==
  /\ x \in Writes => writes[x].stage = "done"
  /\ x \in Uploads => uploads[x].state = "completed"

ConditionsFit ==
  \A w \in Writes : writes[w].target \in PutTargets =>
    /\ AskedFor(writes[w].target.onlyIf)
    /\ writes[w].stage = "done" /\ writes[w].target.onlyIf \in Writes \cup Uploads =>
         objects[writes[w].target.key] # writes[w].target.onlyIf

\* What OnlyInvalidPutsLeak says of one blob
Accounted(b) ==
  \/ b \in deletions \cup stranded \/ writes[b].stage = "stored"
  \/ \E p \in parts : p.blob = b
  \/ \E k \in ObjectKeys : objects[k] = b

BucketInv ==
  /\ BucketTypeOK
  /\ OwnBlobs /\ RowBlobs /\ RowsFit /\ ReadsFit /\ ConditionsFit
  /\ NoLostUpdate
  /\ \A b \in disk : Accounted(b)

WriteType == [stage : WriteStages, target : PutTargets \cup PartTargets \cup {Nothing}]
ReadType == [stage : ReadStages, key : ObjectKeys \cup {Nothing},
             row : Uploads \cup Writes \cup {Nothing}, todo : SUBSET PartRows]
UploadType == [state : UploadStates, key : ObjectKeys \cup {Nothing}]

LEMMA BucketInitInv == BucketInit => BucketInv
<1>. SUFFICES ASSUME BucketInit PROVE BucketInv
  OBVIOUS
<1>. USE NamesAssumption, TargetsAssumption DEF BucketInit
<1>1. /\ writes \in [Writes -> WriteType] /\ uploads \in [Uploads -> UploadType]
      /\ NoRead \in ReadType
  BY DEF WriteType, WriteStages, UploadType, UploadStates, NoRead, ReadType, ReadStages
<1>2. BucketTypeOK
  BY <1>1 DEF BucketTypeOK, WriteType, UploadType, ReadType
<1>3. OwnBlobs /\ RowBlobs /\ RowsFit /\ ConditionsFit
  BY DEF OwnBlobs, RowBlobs, RowsFit, ConditionsFit
<1>4. ReadsFit
  BY DEF ReadsFit, NoRead
<1>5. NoLostUpdate /\ \A b \in disk : Accounted(b)
  BY DEF NoLostUpdate
<1>. QED  BY <1>2, <1>3, <1>4, <1>5 DEF BucketInv

LEMMA RowsMatch == BucketInv => ObjectsMatchParts
<1>. SUFFICES ASSUME BucketInv PROVE ObjectsMatchParts
  OBVIOUS
<1>. USE NamesAssumption
<1>1. /\ \A p \in parts : p.upload \in Uploads /\ p.blob \in Writes /\ p.object \in ObjectKeys \cup {Nothing}
      /\ \A u \in Uploads : selected[u] \subseteq Writes
  BY DEF BucketInv, BucketTypeOK, PartRows
<1>2. ASSUME NEW k \in ObjectKeys, objects[k] \in Uploads
      PROVE  /\ uploads[objects[k]] = [state |-> "completed", key |-> k]
             /\ LinkedTo({k}) \subseteq PartsOf(objects[k])
             /\ BlobsOf(LinkedTo({k})) = selected[objects[k]]
  <2>1. uploads[objects[k]] = [state |-> "completed", key |-> k]
    BY <1>2 DEF BucketInv, BucketTypeOK, RowsFit
  <2>2. LinkedTo({k}) \subseteq PartsOf(objects[k])
    BY DEF BucketInv, RowsFit, LinkedTo, PartsOf
  <2>3. BlobsOf(LinkedTo({k})) = selected[objects[k]]
    BY <1>1, <1>2 DEF BucketInv, RowsFit, LinkedTo, BlobsOf
  <2>. QED  BY <2>1, <2>2, <2>3
<1>3. ASSUME NEW k \in ObjectKeys, objects[k] \notin Uploads PROVE LinkedTo({k}) = {}
  BY <1>1, <1>3 DEF BucketInv, RowsFit, LinkedTo
<1>4. \A p \in parts : p.object = Nothing <=> uploads[p.upload].state = "inProgress"
  BY DEF BucketInv, RowsFit
<1>. QED  BY <1>2, <1>3, <1>4 DEF ObjectsMatchParts

LEMMA BlobsStay == BucketInv => BlobsAreKept
<1>. SUFFICES ASSUME BucketInv PROVE BlobsAreKept
  OBVIOUS
<1>1. ReferencedBlobs \subseteq disk
  BY DEF BucketInv, RowBlobs, ReferencedBlobs, BlobsOf
<1>2. \A r \in Reads : BlobsOf(reads[r].todo) \subseteq disk
  BY DEF BucketInv, ReadsFit, BlobsOf
<1>. QED  BY <1>1, <1>2 DEF BlobsAreKept, BucketInv, ReadsFit

LEMMA LeaksAccountedFor == BucketInv => OnlyInvalidPutsLeak
<1>. SUFFICES ASSUME BucketInv, NEW b \in disk \ ReferencedBlobs
              PROVE  b \in deletions \cup stranded \cup {w \in Writes : writes[w].stage = "stored"}
  BY DEF OnlyInvalidPutsLeak
<1>. QED  BY DEF BucketInv, BucketTypeOK, Accounted, ReferencedBlobs, BlobsOf

\* Freed are exactly the parts and the blobs of the keys.
LEMMA Freed ==
  ASSUME BucketInv, NEW K \in SUBSET ObjectKeys
  PROVE  /\ PartsWithout(K) = {p \in parts : p.object \notin K}
         /\ \A b : b \in OldBlobs(K) <=>
              \/ \E p \in parts : p.object \in K /\ p.blob = b
              \/ b \in Writes /\ \E k \in K : objects[k] = b
<1>1. \A p \in parts : p.object \in K => objects[p.object] \in Uploads
  BY NamesAssumption DEF BucketInv, BucketTypeOK, PartRows, RowsFit
<1>. QED  BY <1>1 DEF PartsWithout, OldBlobs, LinkedTo, BlobsOf

-----------------------------------------------------------------------------
(* The writes *)

\* A write moves on, with the tables as they are; its blob goes to the disk, or
\* is freed when it has failed.
LEMMA WriteStep ==
  ASSUME BucketInv, NEW w \in Writes, NEW v \in WriteType, writes' = [writes EXCEPT ![w] = v],
         writes[w].stage \in {"idle", "writing", "stored"}, v.stage \in {"writing", "stored", "failed"},
         v.target \in PutTargets => AskedFor(v.target.onlyIf),
         disk' \in {disk, disk \cup {w}}, deletions' \in {deletions, deletions \cup {w}},
         stranded' \in {stranded, stranded \cup {w}},
         v.stage # "failed" => deletions' = deletions,
         v.stage = "stored" => w \in disk',
         disk' # disk \/ writes[w].stage = "stored" => v.stage = "stored" \/ w \in deletions' \cup stranded',
         UNCHANGED <<objects, uploads, parts, reads, selected>>
  PROVE  BucketInv'
<1>0. BucketTypeOK
  BY DEF BucketInv
<1>1. writes'[w] = v /\ \A x \in Writes \ {w} : writes'[x] = writes[x]
  BY <1>0 DEF BucketTypeOK
<1>2. BucketTypeOK'
  <2>1. writes' \in [Writes -> WriteType]
    BY <1>0 DEF BucketTypeOK, WriteType
  <2>. QED  BY <1>0, <2>1 DEF BucketTypeOK, WriteType
<1>3. OwnBlobs'
  BY <1>1 DEF BucketInv, OwnBlobs
<1>4. RowBlobs'
  BY <1>0, <1>1 DEF BucketInv, BucketTypeOK, RowBlobs, PartRows
<1>5. RowsFit'
  BY DEF BucketInv, RowsFit
<1>6. ReadsFit'
  BY <1>1 DEF BucketInv, ReadsFit
<1>7. ConditionsFit'
  <2>1. \A x : AskedFor(x) => AskedFor(x)'
    BY <1>1 DEF AskedFor
  <2>. QED  BY <1>1, <2>1 DEF BucketInv, ConditionsFit
<1>8. NoLostUpdate'
  BY <1>1 DEF BucketInv, NoLostUpdate
<1>9. (\A b \in disk : Accounted(b))'
  BY <1>0, <1>1 DEF BucketInv, BucketTypeOK, Accounted
<1>. QED  BY <1>2, <1>3, <1>4, <1>5, <1>6, <1>7, <1>8, <1>9 DEF BucketInv

LEMMA RequestPreserves ==
  ASSUME BucketInv, NEW w \in Writes, PutRequested(w) \/ PartRequested(w) PROVE BucketInv'
<1>0. BucketTypeOK
  BY DEF BucketInv
<1>1. CASE PutRequested(w)
  <2>1. PICK k \in ObjectKeys, seen \in Uploads \cup Writes \cup {Nothing, Anything} :
          /\ seen \in {Anything, objects[k]}
          /\ writes' = [writes EXCEPT ![w] = [stage |-> "writing", target |-> [key |-> k, onlyIf |-> seen]]]
    BY <1>0, <1>1 DEF PutRequested, BucketTypeOK
  <2>. DEFINE target == [key |-> k, onlyIf |-> seen]
              v == [stage |-> "writing", target |-> target]
  <2>2. target \in PutTargets /\ target.onlyIf = seen
    BY DEF PutTargets
  <2>3. AskedFor(seen)
    BY <2>1, NamesAssumption DEF BucketInv, RowBlobs, RowsFit, AskedFor
  <2>. HIDE DEF target
  <2>4. v \in WriteType /\ v.stage = "writing" /\ v.target = target
    BY <2>2 DEF WriteType, WriteStages
  <2>5. writes' = [writes EXCEPT ![w] = v]
    BY <2>1 DEF target
  <2>. HIDE DEF v
  <2>6. writes[w].stage = "idle"
        /\ UNCHANGED <<objects, uploads, parts, disk, deletions, reads, selected, stranded>>
    BY <1>1 DEF PutRequested
  <2>. QED  BY <2>2, <2>3, <2>4, <2>5, <2>6, WriteStep
<1>2. CASE PartRequested(w)
  <2>1. PICK u \in Uploads, n \in PartNumbers :
          writes' = [writes EXCEPT ![w] = [stage |-> "writing", target |-> [upload |-> u, number |-> n]]]
    BY <1>2 DEF PartRequested
  <2>. DEFINE target == [upload |-> u, number |-> n]
              v == [stage |-> "writing", target |-> target]
  <2>2. target \in PartTargets /\ target \notin PutTargets
    BY DEF PartTargets, PutTargets
  <2>. HIDE DEF target
  <2>3. v \in WriteType /\ v.stage = "writing" /\ v.target = target
    BY <2>2 DEF WriteType, WriteStages
  <2>4. writes' = [writes EXCEPT ![w] = v]
    BY <2>1 DEF target
  <2>. HIDE DEF v
  <2>5. writes[w].stage = "idle"
        /\ UNCHANGED <<objects, uploads, parts, disk, deletions, reads, selected, stranded>>
    BY <1>2 DEF PartRequested
  <2>. QED  BY <2>2, <2>3, <2>4, <2>5, WriteStep
<1>. QED  BY <1>1, <1>2

LEMMA StoringPreserves ==
  ASSUME BucketInv, NEW w \in Writes, ValueStored(w) \/ PutInvalid(w) \/ PutRefused(w) \/ PartRefused(w)
  PROVE  BucketInv'
<1>. USE DEF ValueStored, PutInvalid, PutRefused, PartRefused, EndWrite, BackgroundDelete
<1>0. BucketTypeOK /\ writes[w] \in WriteType
  BY DEF BucketInv, BucketTypeOK, WriteType
<1>1. CASE PutInvalid(w) \/ PutRefused(w) \/ PartRefused(w)
           \/ (ValueStored(w) /\ EndWrite(w, "failed") /\ UNCHANGED disk)
  <2>. DEFINE v == [stage |-> "failed", target |-> Nothing]
  <2>1. v \in WriteType /\ v.stage = "failed" /\ v.target = Nothing
    BY DEF WriteType, WriteStages
  <2>2. writes' = [writes EXCEPT ![w] = v]
    BY <1>1
  <2>3. /\ writes[w].stage \in {"writing", "stored"}
        /\ disk' = disk
        /\ deletions' \in {deletions, deletions \cup {w}} /\ stranded' \in {stranded, stranded \cup {w}}
        /\ writes[w].stage = "stored" => w \in deletions' \cup stranded'
        /\ UNCHANGED <<objects, uploads, parts, reads, selected>>
    BY <1>1
  <2>. HIDE DEF v, ValueStored, PutInvalid, PutRefused, PartRefused
  <2>. QED  BY <2>1, <2>2, <2>3, TargetsAssumption, WriteStep
<1>2. CASE ValueStored(w) /\ SetWrite(w, "stored") /\ disk' = disk \cup {w}
  <2>. DEFINE v == [writes[w] EXCEPT !.stage = "stored"]
  <2>1. v \in WriteType /\ v.stage = "stored" /\ v.target = writes[w].target
    BY <1>0 DEF WriteType, WriteStages
  <2>2. writes' = [writes EXCEPT ![w] = v]
    BY <1>2 DEF SetWrite
  <2>. HIDE DEF v
  <2>3. v.target \in PutTargets => AskedFor(v.target.onlyIf)
    BY <2>1 DEF BucketInv, ConditionsFit
  <2>4. /\ writes[w].stage \in {"idle", "writing", "stored"}
        /\ disk' \in {disk, disk \cup {w}} /\ w \in disk'
        /\ deletions' \in {deletions, deletions \cup {w}} /\ deletions' = deletions
        /\ stranded' \in {stranded, stranded \cup {w}}
        /\ UNCHANGED <<objects, uploads, parts, reads, selected>>
    BY <1>2
  <2>. HIDE DEF ValueStored, PutInvalid, PutRefused, PartRefused
  <2>. QED  BY <2>1, <2>2, <2>3, <2>4, WriteStep
<1>. QED  BY <1>1, <1>2

\* The condition was tested with the row that is replaced.
LEMMA PutCommittedPreserves == ASSUME BucketInv, NEW w \in Writes, PutCommitted(w) PROVE BucketInv'
<1>. USE NamesAssumption
<1>. DEFINE k == writes[w].target.key
<1>0. BucketTypeOK /\ writes[w] \in WriteType /\ writes[w].target \in PutTargets /\ k \in ObjectKeys
  BY DEF BucketInv, BucketTypeOK, WriteType, PutCommitted, PutTargets
<1>1. /\ writes[w].stage = "stored" /\ writes'[w].stage = "done" /\ writes'[w].target = writes[w].target
      /\ \A x \in Writes \ {w} : writes'[x] = writes[x]
  BY <1>0 DEF PutCommitted, SetWrite, BucketTypeOK, WriteType
<1>2. /\ objects'[k] = w /\ \A j \in ObjectKeys \ {k} : objects'[j] = objects[j]
      /\ UNCHANGED <<uploads, disk, reads, selected, stranded>>
      /\ writes[w].target.onlyIf \in {Anything, objects[k]}
  BY <1>0 DEF PutCommitted, BucketTypeOK, ConditionHolds
<1>. HIDE DEF k
<1>3. PICK old \in SUBSET Writes :
        /\ parts' = {p \in parts : p.object # k} /\ deletions' = deletions \cup old
        /\ \A b \in Writes : b \in old <=> (\E p \in parts : p.object = k /\ p.blob = b) \/ objects[k] = b
  <2>1. \A p \in parts : p.blob \in Writes
    BY <1>0 DEF BucketTypeOK, PartRows
  <2>. QED  BY <1>0, <2>1, Freed DEF PutCommitted, BackgroundDelete, k
<1>4. BucketTypeOK'
  <2>1. writes' \in [Writes -> WriteType]
    BY <1>0 DEF BucketTypeOK, WriteType, WriteStages, PutCommitted, SetWrite
  <2>2. objects' \in [ObjectKeys -> Uploads \cup Writes \cup {Nothing}]
    BY <1>0 DEF BucketTypeOK, PutCommitted
  <2>. QED  BY <1>0, <1>2, <1>3, <2>1, <2>2 DEF BucketTypeOK, WriteType
<1>5. /\ w \notin deletions' /\ w \in disk /\ (\A p \in parts : p.blob # w) /\ \A j \in ObjectKeys : objects[j] # w
      /\ \A x \in old : writes[x].stage = "done"
  BY <1>0, <1>1, <1>3 DEF BucketInv, OwnBlobs, RowBlobs
<1>12. OwnBlobs'
  BY <1>1, <1>2, <1>3, <1>5 DEF BucketInv, OwnBlobs
<1>6. RowBlobs'
  <2>1. \A p \in parts : p.blob \in Writes
    BY <1>0 DEF BucketTypeOK, PartRows
  <2>2. \A p \in parts : p.object # k => p.blob \notin old
    BY <1>0, <1>3, <2>1 DEF BucketInv, RowBlobs
  <2>3. \A j \in ObjectKeys \ {k} : objects[j] \in Writes => objects[j] \notin old
    BY <1>0, <1>3 DEF BucketInv, RowBlobs
  <2>4. (\A p \in parts : p.blob \in disk \ deletions /\ writes[p.blob].stage = "done")'
    BY <1>1, <1>2, <1>3, <2>1, <2>2 DEF BucketInv, RowBlobs
  <2>5. \A j \in ObjectKeys : objects'[j] \in Writes =>
          objects'[j] \in disk' \ deletions' /\ writes'[objects'[j]].stage = "done"
    BY <1>0, <1>1, <1>2, <1>3, <1>5, <2>3 DEF BucketInv, RowBlobs
  <2>6. /\ \A p \in parts', j \in ObjectKeys : objects'[j] # p.blob
        /\ \A p, q \in parts' : p.blob = q.blob => p = q
        /\ \A i, j \in ObjectKeys : objects'[i] = objects'[j] /\ objects'[i] \in Writes => i = j
    BY <1>0, <1>2, <1>3, <1>5 DEF BucketInv, RowBlobs
  <2>. QED  BY <2>4, <2>5, <2>6 DEF RowBlobs
<1>7. RowsFit'
  <2>1. \A p \in parts : p.upload \in Uploads /\ p.object \in ObjectKeys \cup {Nothing}
    BY <1>0 DEF BucketTypeOK, PartRows
  <2>2. \A p \in parts' : p \in parts /\ p.object # k
    BY <1>3
  <2>3. \A p \in parts' :
          /\ p.object = Nothing <=> uploads'[p.upload].state = "inProgress"
          /\ p.object # Nothing => objects'[p.object] = p.upload
    BY <1>2, <2>1, <2>2 DEF BucketInv, RowsFit
  <2>4. ASSUME NEW j \in ObjectKeys, objects'[j] \in Uploads
        PROVE  /\ uploads'[objects'[j]].state = "completed" /\ uploads'[objects'[j]].key = j
               /\ \A b \in Writes : b \in selected'[objects'[j]] <=> \E p \in parts' : p.object = j /\ p.blob = b
    <3>1. j # k /\ objects'[j] = objects[j]
      BY <1>2, <2>4
    <3>2. \A p : p.object = j => (p \in parts' <=> p \in parts)
      BY <1>3, <3>1
    <3>. QED  BY <1>2, <2>4, <3>1, <3>2 DEF BucketInv, RowsFit
  <2>. QED  BY <1>2, <2>3, <2>4 DEF BucketInv, RowsFit
<1>8. ReadsFit'
  BY <1>1, <1>2 DEF BucketInv, ReadsFit
<1>9. ConditionsFit'
  <2>1. ASSUME NEW x, AskedFor(x) PROVE AskedFor(x)' /\ x # w
    BY <1>1, <1>2, <2>1 DEF AskedFor
  <2>2. ASSUME NEW x \in Writes, writes'[x].target \in PutTargets
        PROVE  /\ writes'[x].target.onlyIf \in Writes => writes'[writes'[x].target.onlyIf].stage = "done"
               /\ writes'[x].target.onlyIf \in Uploads => uploads'[writes'[x].target.onlyIf].state = "completed"
               /\ writes'[x].stage = "done" /\ writes'[x].target.onlyIf \in Writes \cup Uploads =>
                    objects'[writes'[x].target.key] # writes'[x].target.onlyIf
    <3>. PICK y : y = writes[x].target.onlyIf
      OBVIOUS
    <3>1. writes'[x].target = writes[x].target
      BY <1>1
    <3>2. AskedFor(y)
      BY <2>2, <3>1 DEF BucketInv, ConditionsFit
    <3>3. AskedFor(y)' /\ y # w
      BY <2>1, <3>2
    <3>4. writes[x].target.key \in ObjectKeys
      BY <2>2, <3>1 DEF PutTargets
    <3>5. writes'[x].stage = "done" /\ y \in Writes \cup Uploads => objects'[writes[x].target.key] # y
      BY <1>1, <1>2, <2>2, <3>1, <3>3, <3>4 DEF BucketInv, ConditionsFit, k
    <3>. QED  BY <3>1, <3>3, <3>5 DEF AskedFor
  <2>. QED  BY <2>2 DEF ConditionsFit, AskedFor
<1>10. NoLostUpdate'
  <2>1. ASSUME NEW x \in Writes \ {w}, writes[x].stage = "done", writes[x].target = writes[w].target
        PROVE  writes[w].target.onlyIf \in {Anything, Nothing}
    BY <1>0, <1>2, <2>1 DEF BucketInv, ConditionsFit, PutTargets, k
  <2>. QED  BY <1>1, <2>1 DEF BucketInv, NoLostUpdate
<1>11. (\A b \in disk : Accounted(b))'
  <2>1. ASSUME NEW b \in disk PROVE Accounted(b)'
    <3>1. Accounted(b)
      BY <1>2 DEF BucketInv
    <3>. QED  BY <1>0, <1>1, <1>2, <1>3, <3>1 DEF Accounted, BucketTypeOK
  <2>. QED  BY <1>2, <2>1
<1>. QED  BY <1>4, <1>6, <1>7, <1>8, <1>9, <1>10, <1>11, <1>12 DEF BucketInv

LEMMA PartCommittedPreserves == ASSUME BucketInv, NEW w \in Writes, PartCommitted(w) PROVE BucketInv'
<1>. USE NamesAssumption
<1>0. /\ BucketTypeOK
      /\ \A p \in parts : p.upload \in Uploads /\ p.blob \in Writes /\ p.object \in ObjectKeys \cup {Nothing}
  BY DEF BucketInv, BucketTypeOK, PartRows
<1>. DEFINE u == writes[w].target.upload
            n == writes[w].target.number
            replaced == {p \in parts : p.upload = u /\ p.number = n}
            new == [upload |-> u, number |-> n, blob |-> w, object |-> Nothing]
            v == [stage |-> "done", target |-> Nothing]
<1>1. u \in Uploads /\ n \in PartNumbers /\ uploads[u].state = "inProgress" /\ writes[w].stage = "stored"
  BY DEF PartCommitted, TakesParts, PartTargets
<1>2. /\ parts' = (parts \ replaced) \cup {new} /\ deletions' = deletions \cup BlobsOf(replaced)
      /\ writes' = [writes EXCEPT ![w] = v] /\ UNCHANGED <<objects, uploads, disk, reads, selected, stranded>>
  BY DEF PartCommitted, EndWrite, BackgroundDelete, PartsOf
<1>3. new \in PartRows /\ new.upload = u /\ new.blob = w /\ new.object = Nothing
  BY <1>1 DEF PartRows
<1>4. v \in WriteType /\ v.stage = "done" /\ v.target = Nothing
  BY DEF WriteType, WriteStages
<1>. HIDE DEF u, n, new, v
<1>5. writes'[w] = v /\ \A x \in Writes \ {w} : writes'[x] = writes[x]
  BY <1>0, <1>2 DEF BucketTypeOK
<1>6. PICK old \in SUBSET Writes : deletions' = deletions \cup old /\ \A b : b \in old <=> \E p \in replaced : p.blob = b
  <2>1. BlobsOf(replaced) \in SUBSET Writes /\ \A b : b \in BlobsOf(replaced) <=> \E p \in replaced : p.blob = b
    BY <1>0 DEF BlobsOf
  <2>. HIDE DEF replaced
  <2>. QED  BY <1>2, <2>1
<1>. HIDE DEF replaced
<1>7. /\ replaced \subseteq parts /\ \A p \in replaced : p.upload = u
      /\ \A p \in parts' : p \in parts \ replaced \/ p = new
      /\ \A p \in parts \ replaced : p \in parts'
      /\ new \in parts'
  BY <1>2 DEF replaced
<1>8. BucketTypeOK'
  <2>1. writes' \in [Writes -> WriteType]
    BY <1>0, <1>2, <1>4 DEF BucketTypeOK, WriteType
  <2>2. parts' \subseteq PartRows
    BY <1>0, <1>3, <1>7 DEF BucketTypeOK
  <2>. QED  BY <1>0, <1>2, <1>6, <2>1, <2>2 DEF BucketTypeOK, WriteType
<1>9. /\ w \notin old /\ w \notin deletions /\ w \in disk
      /\ \A x \in old : writes[x].stage = "done"
      /\ \A p \in parts \ replaced : p.blob \notin old /\ p.blob # w
      /\ \A k \in ObjectKeys : objects[k] \in Writes => objects[k] \notin old
      /\ \A k \in ObjectKeys : objects[k] # w
  BY <1>0, <1>1, <1>6, <1>7 DEF BucketInv, OwnBlobs, RowBlobs
<1>10. OwnBlobs'
  BY <1>2, <1>4, <1>5, <1>6, <1>9 DEF BucketInv, OwnBlobs
<1>11. RowBlobs'
  <2>1. (\A p \in parts : p.blob \in disk \ deletions /\ writes[p.blob].stage = "done")'
    BY <1>0, <1>2, <1>3, <1>4, <1>5, <1>6, <1>7, <1>9 DEF BucketInv, RowBlobs
  <2>2. \A k \in ObjectKeys : objects'[k] \in Writes =>
          objects'[k] \in disk' \ deletions' /\ writes'[objects'[k]].stage = "done"
    BY <1>2, <1>4, <1>5, <1>6, <1>9 DEF BucketInv, RowBlobs
  <2>3. /\ \A p, q \in parts' : p.blob = q.blob => p = q
        /\ \A p \in parts', k \in ObjectKeys : objects'[k] # p.blob
        /\ \A j, k \in ObjectKeys : objects'[j] = objects'[k] /\ objects'[j] \in Writes => j = k
    BY <1>2, <1>3, <1>7, <1>9 DEF BucketInv, RowBlobs
  <2>. QED  BY <2>1, <2>2, <2>3 DEF RowBlobs
<1>12. RowsFit'
  <2>1. \A p \in parts' :
          /\ p.object = Nothing <=> uploads'[p.upload].state = "inProgress"
          /\ p.object # Nothing => objects'[p.object] = p.upload
    BY <1>1, <1>2, <1>3, <1>7 DEF BucketInv, RowsFit
  <2>2. ASSUME NEW k \in ObjectKeys, objects'[k] \in Uploads
        PROVE  /\ uploads'[objects'[k]].state = "completed" /\ uploads'[objects'[k]].key = k
               /\ \A b \in Writes : b \in selected'[objects'[k]] <=> \E p \in parts' : p.object = k /\ p.blob = b
    <3>1. \A p \in replaced : p.object = Nothing
      BY <1>1, <1>7 DEF BucketInv, RowsFit
    <3>2. \A p : p.object = k => (p \in parts' <=> p \in parts)
      BY <1>3, <1>7, <3>1
    <3>. QED  BY <1>2, <2>2, <3>2 DEF BucketInv, RowsFit
  <2>. QED  BY <1>2, <2>1, <2>2 DEF BucketInv, RowsFit
<1>13. ReadsFit'
  BY <1>1, <1>2, <1>5 DEF BucketInv, ReadsFit
<1>14. ConditionsFit'
  <2>1. \A x : AskedFor(x) => AskedFor(x)'
    BY <1>1, <1>2, <1>5 DEF AskedFor
  <2>. QED  BY <1>2, <1>4, <1>5, <2>1, TargetsAssumption DEF BucketInv, ConditionsFit
<1>15. NoLostUpdate'
  BY <1>4, <1>5, TargetsAssumption DEF BucketInv, NoLostUpdate
<1>16. ASSUME NEW b \in disk PROVE Accounted(b)'
  <2>1. Accounted(b) /\ b \in Writes
    BY <1>0 DEF BucketInv, BucketTypeOK
  <2>. QED  BY <1>2, <1>3, <1>5, <1>6, <1>7, <2>1 DEF Accounted
<1>. QED  BY <1>2, <1>8, <1>10, <1>11, <1>12, <1>13, <1>14, <1>15, <1>16 DEF BucketInv

-----------------------------------------------------------------------------
(* Objects and uploads *)

\* What every change of the rows needs that only frees blobs
LEMMA FreeingStep ==
  ASSUME BucketInv, BucketTypeOK', RowsFit', NEW old \in SUBSET Writes, deletions' = deletions \cup old,
         UNCHANGED <<disk, writes, reads, stranded>>,
         \A b \in old : (\E p \in parts : p.blob = b) \/ (\E k \in ObjectKeys : objects[k] = b),
         \A p \in parts' : p.blob \notin old /\ \E q \in parts : q.blob = p.blob,
         \A p, q \in parts' : p.blob = q.blob => p = q,
         \A p \in parts : p.blob \notin old => \E q \in parts' : q.blob = p.blob,
         \A k \in ObjectKeys :
           /\ objects'[k] \in Writes => objects'[k] = objects[k] /\ objects[k] \notin old
           /\ objects[k] \in Writes \ old => objects'[k] = objects[k],
         \A k \in ObjectKeys, x \in Writes \cup Uploads : AskedFor(x) /\ objects[k] # x => objects'[k] # x,
         \A u \in Uploads : uploads[u].state = "completed" => uploads'[u].state = "completed"
  PROVE  BucketInv'
<1>0. BucketTypeOK /\ \A p \in parts : p.blob \in Writes
  BY DEF BucketInv, BucketTypeOK, PartRows
<1>1. \A b \in old : writes[b].stage = "done"
  BY DEF BucketInv, RowBlobs
<1>2. OwnBlobs'
  BY <1>1 DEF BucketInv, OwnBlobs
<1>3. RowBlobs'
  <2>1. (\A p \in parts : p.blob \in disk \ deletions /\ writes[p.blob].stage = "done")'
    BY DEF BucketInv, RowBlobs
  <2>2. (\A k \in ObjectKeys : objects[k] \in Writes =>
          objects[k] \in disk \ deletions /\ writes[objects[k]].stage = "done")'
    BY DEF BucketInv, RowBlobs
  <2>3. (\A p \in parts, k \in ObjectKeys : objects[k] # p.blob)'
    BY <1>0 DEF BucketInv, RowBlobs
  <2>4. (\A j, k \in ObjectKeys : objects[j] = objects[k] /\ objects[j] \in Writes => j = k)'
    BY DEF BucketInv, RowBlobs
  <2>. QED  BY <2>1, <2>2, <2>3, <2>4 DEF RowBlobs
<1>4. ASSUME NEW x, AskedFor(x) PROVE AskedFor(x)'
  BY <1>4 DEF AskedFor
<1>5. ReadsFit'
  <2>1. ASSUME NEW r \in Reads, reads[r].stage = "missed" PROVE objects'[reads[r].key] # reads[r].row
    <3>1. /\ reads[r].key \in ObjectKeys /\ reads[r].row \in Writes
          /\ objects[reads[r].key] # reads[r].row
      BY <2>1 DEF BucketInv, ReadsFit
    <3>. QED  BY <3>1
  <2>. QED  BY <2>1 DEF BucketInv, ReadsFit
<1>6. ConditionsFit'
  <2>1. ASSUME NEW w \in Writes, writes[w].target \in PutTargets
        PROVE  /\ AskedFor(writes[w].target.onlyIf)
               /\ writes[w].target.key \in ObjectKeys
               /\ writes[w].stage = "done" /\ writes[w].target.onlyIf \in Writes \cup Uploads =>
                    objects'[writes[w].target.key] # writes[w].target.onlyIf
    BY <2>1 DEF BucketInv, ConditionsFit, PutTargets
  <2>2. \A w \in Writes : writes[w].target \in PutTargets =>
          /\ writes[w].target.onlyIf \in Writes => writes'[writes[w].target.onlyIf].stage = "done"
          /\ writes[w].target.onlyIf \in Uploads => uploads'[writes[w].target.onlyIf].state = "completed"
    BY <2>1 DEF AskedFor
  <2>. QED  BY <2>1, <2>2 DEF ConditionsFit, AskedFor
<1>7. NoLostUpdate'
  BY DEF BucketInv, NoLostUpdate
<1>8. ASSUME NEW b \in disk PROVE Accounted(b)'
  <2>1. Accounted(b) /\ b \in Writes
    BY <1>0 DEF BucketInv, BucketTypeOK
  <2>. QED  BY <2>1 DEF Accounted
<1>. QED  BY <1>2, <1>3, <1>5, <1>6, <1>7, <1>8 DEF BucketInv

LEMMA DeletePreserves == ASSUME BucketInv, NEW K \in SUBSET ObjectKeys, DeleteObjects(K) PROVE BucketInv'
<1>. USE NamesAssumption
<1>0. /\ BucketTypeOK
      /\ \A p \in parts : p.upload \in Uploads /\ p.blob \in Writes /\ p.object \in ObjectKeys \cup {Nothing}
  BY DEF BucketInv, BucketTypeOK, PartRows
<1>1. /\ \A k \in ObjectKeys : objects'[k] = IF k \in K THEN Nothing ELSE objects[k]
      /\ UNCHANGED <<uploads, disk, writes, reads, selected, stranded>>
  BY DEF DeleteObjects
<1>2. PICK old \in SUBSET Writes :
        /\ parts' = {p \in parts : p.object \notin K} /\ deletions' = deletions \cup old
        /\ \A b \in Writes :
             b \in old <=> (\E p \in parts : p.object \in K /\ p.blob = b) \/ \E k \in K : objects[k] = b
  BY <1>0, Freed DEF DeleteObjects, BackgroundDelete
<1>3. BucketTypeOK'
  <2>1. objects' \in [ObjectKeys -> Uploads \cup Writes \cup {Nothing}]
    BY <1>0 DEF BucketTypeOK, DeleteObjects
  <2>. QED  BY <1>0, <1>1, <1>2, <2>1 DEF BucketTypeOK
<1>4. RowsFit'
  <2>1. \A p \in parts' :
          /\ p.object = Nothing <=> uploads'[p.upload].state = "inProgress"
          /\ p.object # Nothing => objects'[p.object] = p.upload
    BY <1>0, <1>1, <1>2 DEF BucketInv, RowsFit
  <2>2. ASSUME NEW k \in ObjectKeys, objects'[k] \in Uploads
        PROVE  /\ uploads'[objects'[k]].state = "completed" /\ uploads'[objects'[k]].key = k
               /\ \A b \in Writes : b \in selected'[objects'[k]] <=> \E p \in parts' : p.object = k /\ p.blob = b
    <3>1. k \notin K /\ objects'[k] = objects[k]
      BY <1>1, <2>2
    <3>2. \A p : p.object = k => (p \in parts' <=> p \in parts)
      BY <1>2, <3>1
    <3>. QED  BY <1>1, <2>2, <3>1, <3>2 DEF BucketInv, RowsFit
  <2>. QED  BY <1>1, <2>1, <2>2 DEF BucketInv, RowsFit
<1>5. /\ \A p \in parts' : p \in parts /\ p.blob \notin old
      /\ \A p \in parts : p.blob \notin old => p \in parts'
      /\ \A k \in ObjectKeys : objects'[k] \in Writes => objects'[k] = objects[k] /\ objects[k] \notin old
      /\ \A k \in ObjectKeys : objects[k] \in Writes \ old => objects'[k] = objects[k]
  BY <1>0, <1>1, <1>2 DEF BucketInv, RowBlobs
<1>6. \A b \in old : (\E p \in parts : p.blob = b) \/ (\E k \in ObjectKeys : objects[k] = b)
  BY <1>2
<1>7. \A p, q \in parts' : p.blob = q.blob => p = q
  BY <1>5 DEF BucketInv, RowBlobs
<1>8. \A k \in ObjectKeys, x \in Writes \cup Uploads : objects[k] # x => objects'[k] # x
  BY <1>1
<1>. QED  BY <1>1, <1>2, <1>3, <1>4, <1>5, <1>6, <1>7, <1>8, FreeingStep

LEMMA CreatePreserves == ASSUME BucketInv, NEW u \in Uploads, CreateMultipartUpload(u) PROVE BucketInv'
<1>. USE NamesAssumption
<1>0. /\ BucketTypeOK
      /\ \A p \in parts : p.upload \in Uploads /\ p.blob \in Writes /\ p.object \in ObjectKeys \cup {Nothing}
  BY DEF BucketInv, BucketTypeOK, PartRows
<1>1. PICK k \in ObjectKeys : uploads' = [uploads EXCEPT ![u] = [state |-> "inProgress", key |-> k]]
  BY DEF CreateMultipartUpload
<1>2. /\ uploads[u].state = "none" /\ uploads'[u].state = "inProgress" /\ uploads'[u].key = k
      /\ \A x \in Uploads \ {u} : uploads'[x] = uploads[x]
      /\ UNCHANGED <<objects, parts, disk, deletions, writes, reads, selected, stranded>>
  BY <1>0, <1>1 DEF CreateMultipartUpload, BucketTypeOK
<1>3. BucketTypeOK'
  <2>1. uploads' \in [Uploads -> UploadType]
    BY <1>0, <1>1 DEF BucketTypeOK, UploadType, UploadStates
  <2>. QED  BY <1>0, <1>2, <2>1 DEF BucketTypeOK, UploadType
<1>4. RowsFit'
  <2>1. \A p \in parts : p.upload # u
    BY <1>0, <1>2 DEF BucketInv, RowsFit
  <2>2. \A k2 \in ObjectKeys : objects[k2] # u
    BY <1>2 DEF BucketInv, RowsFit
  <2>. QED  BY <1>0, <1>2, <2>1, <2>2 DEF BucketInv, RowsFit
<1>5. \A p, q \in parts : p.blob = q.blob => p = q
  BY DEF BucketInv, RowBlobs
<1>6. deletions' = deletions \cup {}
  BY <1>2
<1>. QED  BY <1>2, <1>3, <1>4, <1>5, <1>6, FreeingStep

LEMMA AbortPreserves == ASSUME BucketInv, NEW u \in Uploads, AbortMultipartUpload(u) PROVE BucketInv'
<1>. USE NamesAssumption
<1>0. /\ BucketTypeOK
      /\ \A p \in parts : p.upload \in Uploads /\ p.blob \in Writes /\ p.object \in ObjectKeys \cup {Nothing}
  BY DEF BucketInv, BucketTypeOK, PartRows
<1>. DEFINE r == [uploads[u] EXCEPT !.state = "aborted"]
<1>1. r \in UploadType /\ r.state = "aborted" /\ r.key = uploads[u].key
  BY <1>0 DEF BucketTypeOK, UploadType, UploadStates
<1>2. uploads' = [uploads EXCEPT ![u] = r]
  BY DEF AbortMultipartUpload
<1>. HIDE DEF r
<1>3. /\ uploads[u].state = "inProgress" /\ uploads'[u] = r /\ \A x \in Uploads \ {u} : uploads'[x] = uploads[x]
      /\ UNCHANGED <<objects, disk, writes, reads, selected, stranded>>
  BY <1>0, <1>2 DEF AbortMultipartUpload, TakesParts, BucketTypeOK
<1>4. PICK old \in SUBSET Writes :
        /\ parts' = {p \in parts : p.upload # u} /\ deletions' = deletions \cup old
        /\ \A b \in Writes : b \in old <=> \E p \in parts : p.upload = u /\ p.blob = b
  <2>1. BlobsOf(PartsOf(u)) \in SUBSET Writes
        /\ \A b : b \in BlobsOf(PartsOf(u)) <=> \E p \in parts : p.upload = u /\ p.blob = b
    BY <1>0 DEF PartsOf, BlobsOf
  <2>2. parts' = {p \in parts : p.upload # u} /\ deletions' = deletions \cup BlobsOf(PartsOf(u))
    BY DEF AbortMultipartUpload, BackgroundDelete, PartsOf
  <2>. QED  BY <2>1, <2>2
<1>5. BucketTypeOK'
  <2>1. uploads' \in [Uploads -> UploadType]
    BY <1>0, <1>1, <1>2 DEF BucketTypeOK, UploadType
  <2>. QED  BY <1>0, <1>3, <1>4, <2>1 DEF BucketTypeOK, UploadType
<1>6. RowsFit'
  <2>1. /\ \A p \in parts : p.upload = u => p.object = Nothing
        /\ \A k \in ObjectKeys : objects[k] # u
    BY <1>0, <1>3 DEF BucketInv, RowsFit
  <2>2. \A p \in parts' :
          /\ p.object = Nothing <=> uploads'[p.upload].state = "inProgress"
          /\ p.object # Nothing => objects'[p.object] = p.upload
    BY <1>0, <1>3, <1>4 DEF BucketInv, RowsFit
  <2>3. ASSUME NEW k \in ObjectKeys, objects'[k] \in Uploads
        PROVE  /\ uploads'[objects'[k]].state = "completed" /\ uploads'[objects'[k]].key = k
               /\ \A b \in Writes : b \in selected'[objects'[k]] <=> \E p \in parts' : p.object = k /\ p.blob = b
    <3>1. \A p : p.object = k => (p \in parts' <=> p \in parts)
      BY <1>4, <2>1
    <3>. QED  BY <1>3, <2>1, <2>3, <3>1 DEF BucketInv, RowsFit
  <2>4. \A x \in Uploads : uploads'[x].state # "none" => uploads'[x].key \in ObjectKeys
    BY <1>1, <1>3 DEF BucketInv, RowsFit
  <2>. QED  BY <2>2, <2>3, <2>4 DEF RowsFit
<1>7. /\ \A p \in parts' : p \in parts /\ p.blob \notin old
      /\ \A p \in parts : p.blob \notin old => p \in parts'
      /\ \A k \in ObjectKeys : objects'[k] = objects[k] /\ objects[k] \notin old
      /\ \A p, q \in parts' : p.blob = q.blob => p = q
  BY <1>0, <1>3, <1>4 DEF BucketInv, RowBlobs
<1>8. \A b \in old : \E p \in parts : p.blob = b
  BY <1>4
<1>. QED  BY <1>3, <1>4, <1>5, <1>6, <1>7, <1>8, FreeingStep

\* The selected parts become the object, all others are freed with what was there.
LEMMA CompletePreserves == ASSUME BucketInv, NEW u \in Uploads, CompleteMultipartUpload(u) PROVE BucketInv'
<1>. USE NamesAssumption
<1>. DEFINE k == uploads[u].key
            linked(p) == [p EXCEPT !.object = k]
            r == [uploads[u] EXCEPT !.state = "completed"]
<1>0. /\ BucketTypeOK
      /\ \A p \in parts : p.upload \in Uploads /\ p.blob \in Writes /\ p.object \in ObjectKeys \cup {Nothing}
      /\ uploads[u].state = "inProgress" /\ k \in ObjectKeys
  BY DEF BucketInv, BucketTypeOK, PartRows, CompleteMultipartUpload, TakesParts, RowsFit
<1>1. r \in UploadType /\ r.state = "completed" /\ r.key = k
  BY <1>0 DEF BucketTypeOK, UploadType, UploadStates
<1>2. uploads' = [uploads EXCEPT ![u] = r] /\ objects' = [objects EXCEPT ![k] = u]
      /\ UNCHANGED <<disk, writes, reads, stranded>>
  BY DEF CompleteMultipartUpload
<1>. HIDE DEF r
<1>3. /\ uploads'[u] = r /\ \A x \in Uploads \ {u} : uploads'[x] = uploads[x]
      /\ objects'[k] = u /\ \A j \in ObjectKeys \ {k} : objects'[j] = objects[j]
  BY <1>0, <1>2 DEF BucketTypeOK
<1>4. PICK P \in SUBSET PartsOf(u) :
        /\ parts' = (PartsWithout({k}) \ PartsOf(u)) \cup {linked(p) : p \in P}
        /\ deletions' = deletions \cup OldBlobs({k}) \cup BlobsOf(PartsOf(u) \ P)
        /\ selected' = [selected EXCEPT ![u] = BlobsOf(P)]
  BY DEF CompleteMultipartUpload, BackgroundDelete
<1>5. P \subseteq parts /\ \A p \in P : p.upload = u
  BY <1>4 DEF PartsOf
<1>6. \A p \in P : linked(p) \in PartRows /\ linked(p).upload = u /\ linked(p).object = k /\ linked(p).blob = p.blob
  BY <1>0, <1>5 DEF BucketTypeOK, PartRows
<1>7. PICK new : new = {linked(p) : p \in P}
  OBVIOUS
<1>8. /\ \A q \in new : q \in PartRows /\ q.upload = u /\ q.object = k /\ \E p \in P : q = linked(p) /\ q.blob = p.blob
      /\ \A p \in P : \E q \in new : q.blob = p.blob
  BY <1>6, <1>7
<1>9. \A q1, q2 \in new : q1.blob = q2.blob => q1 = q2
  BY <1>5, <1>8 DEF BucketInv, RowBlobs
<1>10. \A p \in parts : p.upload = u => p.object = Nothing
  BY <1>0 DEF BucketInv, RowsFit
<1>. HIDE DEF k, linked
<1>11. PICK old \in SUBSET Writes :
         /\ parts' = {p \in parts : p.object # k /\ p.upload # u} \cup new /\ deletions' = deletions \cup old
         /\ \A b \in Writes : b \in old <=>
              \/ \E p \in parts : p.object = k /\ p.blob = b
              \/ objects[k] = b
              \/ \E p \in parts \ P : p.upload = u /\ p.blob = b
  <2>. DEFINE old == OldBlobs({k}) \cup BlobsOf(PartsOf(u) \ P)
  <2>1. PartsWithout({k}) = {p \in parts : p.object # k}
        /\ \A b : b \in OldBlobs({k}) <=>
             (\E p \in parts : p.object = k /\ p.blob = b) \/ (b \in Writes /\ objects[k] = b)
    BY <1>0, Freed
  <2>2. \A b : b \in BlobsOf(PartsOf(u) \ P) <=> \E p \in parts \ P : p.upload = u /\ p.blob = b
    BY DEF BlobsOf, PartsOf
  <2>3. old \in SUBSET Writes
    <3>1. \A p \in parts : p.blob \in Writes
      BY <1>0
    <3>2. ASSUME NEW b \in OldBlobs({k}) PROVE b \in Writes
      <4>1. (\E p \in parts : p.object = k /\ p.blob = b) \/ b \in Writes
        BY <2>1
      <4>. QED  BY <3>1, <4>1
    <3>3. BlobsOf(PartsOf(u) \ P) \subseteq Writes
      BY <2>2, <3>1
    <3>. QED  BY <3>2, <3>3
  <2>4. \A b \in Writes : b \in old <=>
          \/ \E p \in parts : p.object = k /\ p.blob = b
          \/ objects[k] = b
          \/ \E p \in parts \ P : p.upload = u /\ p.blob = b
    BY <2>1, <2>2
  <2>5. parts' = {p \in parts : p.object # k /\ p.upload # u} \cup new
    BY <1>4, <1>7, <2>1 DEF PartsOf
  <2>6. deletions' = deletions \cup old
    BY <1>4
  <2>. HIDE DEF old
  <2>. QED  BY <2>3, <2>4, <2>5, <2>6
<1>12. BucketTypeOK'
  <2>1. uploads' \in [Uploads -> UploadType]
    BY <1>0, <1>1, <1>2 DEF BucketTypeOK, UploadType
  <2>2. objects' \in [ObjectKeys -> Uploads \cup Writes \cup {Nothing}]
    BY <1>0, <1>2 DEF BucketTypeOK
  <2>3. BlobsOf(P) \subseteq Writes
    BY <1>0, <1>5 DEF BlobsOf
  <2>4. selected' \in [Uploads -> SUBSET Writes]
    BY <1>0, <1>4, <2>3 DEF BucketTypeOK
  <2>5. parts' \subseteq PartRows
    BY <1>0, <1>8, <1>11 DEF BucketTypeOK
  <2>. QED  BY <1>0, <1>2, <1>11, <2>1, <2>2, <2>4, <2>5 DEF BucketTypeOK, UploadType
<1>13. /\ selected'[u] = BlobsOf(P) /\ \A x \in Uploads \ {u} : selected'[x] = selected[x]
       /\ \A b : b \in BlobsOf(P) <=> \E p \in P : p.blob = b
  BY <1>0, <1>4 DEF BucketTypeOK, BlobsOf
<1>14. RowsFit'
  <2>1. \A p \in parts' :
          /\ p.object = Nothing <=> uploads'[p.upload].state = "inProgress"
          /\ p.object # Nothing => objects'[p.object] = p.upload
    BY <1>0, <1>1, <1>3, <1>8, <1>11 DEF BucketInv, RowsFit
  <2>2. ASSUME NEW j \in ObjectKeys, objects'[j] \in Uploads
        PROVE  /\ uploads'[objects'[j]].state = "completed" /\ uploads'[objects'[j]].key = j
               /\ \A b \in Writes : b \in selected'[objects'[j]] <=> \E p \in parts' : p.object = j /\ p.blob = b
    <3>1. CASE j = k
      <4>1. \A p \in parts' : p.object = k <=> p \in new
        BY <1>8, <1>11
      <4>2. \A p \in new : p \in parts'
        BY <1>11
      <4>. QED  BY <1>1, <1>3, <1>8, <1>13, <3>1, <4>1, <4>2
    <3>2. CASE j # k
      <4>1. \A p : p.object = j => (p \in parts' <=> p \in parts)
        BY <1>8, <1>10, <1>11, <3>2
      <4>2. objects'[j] = objects[j] /\ objects[j] # u
        BY <1>0, <1>3, <3>2 DEF BucketInv, RowsFit
      <4>. QED  BY <1>3, <1>13, <2>2, <4>1, <4>2 DEF BucketInv, RowsFit
    <3>. QED  BY <3>1, <3>2
  <2>3. \A x \in Uploads : uploads'[x].state # "none" => uploads'[x].key \in ObjectKeys
    BY <1>0, <1>1, <1>3 DEF BucketInv, RowsFit
  <2>. QED  BY <2>1, <2>2, <2>3 DEF RowsFit
<1>15. \A p \in parts' : \E q \in parts :
         /\ q.blob = p.blob /\ q.blob \notin old
         /\ p \in new <=> q \in P
  <2>1. ASSUME NEW p \in parts, p \in P \/ (p.object # k /\ p.upload # u) PROVE p.blob \notin old
    BY <1>0, <1>5, <1>10, <1>11, <2>1 DEF BucketInv, RowBlobs
  <2>2. ASSUME NEW p \in new
        PROVE  \E q \in parts : q.blob = p.blob /\ q.blob \notin old /\ q \in P
    BY <1>5, <1>8, <2>1, <2>2
  <2>3. ASSUME NEW p \in parts' \ new
        PROVE  p \in parts /\ p.blob \notin old /\ p \notin P
    BY <1>5, <1>11, <2>1, <2>3
  <2>. QED  BY <2>2, <2>3
<1>16. \A p, q \in parts' : p.blob = q.blob => p = q
  BY <1>5, <1>8, <1>9, <1>11 DEF BucketInv, RowBlobs
<1>17. \A p \in parts : p.blob \notin old => \E q \in parts' : q.blob = p.blob
  BY <1>0, <1>8, <1>11
<1>18. \A j \in ObjectKeys :
         /\ objects'[j] \in Writes => objects'[j] = objects[j] /\ objects[j] \notin old
         /\ objects[j] \in Writes \ old => objects'[j] = objects[j]
  BY <1>0, <1>3, <1>5, <1>11 DEF BucketInv, RowBlobs
<1>19. \A j \in ObjectKeys, x \in Writes \cup Uploads : AskedFor(x) /\ objects[j] # x => objects'[j] # x
  BY <1>0, <1>3 DEF AskedFor
<1>20. \A b \in old : (\E p \in parts : p.blob = b) \/ (\E j \in ObjectKeys : objects[j] = b)
  BY <1>0, <1>11
<1>21. \A x \in Uploads : uploads[x].state = "completed" => uploads'[x].state = "completed"
  BY <1>1, <1>3
<1>22. \A p \in parts' : p.blob \notin old /\ \E q \in parts : q.blob = p.blob
  BY <1>15
<1>23. deletions' = deletions \cup old
  BY <1>11
<1>. QED  BY <1>2, <1>12, <1>14, <1>16, <1>17, <1>18, <1>19, <1>20, <1>21, <1>22, <1>23, FreeingStep

-----------------------------------------------------------------------------
(* The reads, deletions and crashes *)

LEMMA ReadStep ==
  ASSUME BucketInv, NEW r \in Reads, NEW v \in ReadType, reads' = [reads EXCEPT ![r] = v],
         v.stage # "broken", \A p \in v.todo : p.blob \in disk,
         v.stage \in {"fetching", "missed"} =>
           v.key \in ObjectKeys /\ v.row \in Writes /\ writes[v.row].stage = "done",
         v.stage = "missed" => objects[v.key] # v.row,
         UNCHANGED <<objects, uploads, parts, disk, deletions, writes, selected, stranded>>
  PROVE  BucketInv'
<1>0. BucketTypeOK
  BY DEF BucketInv
<1>1. reads'[r] = v /\ \A q \in Reads \ {r} : reads'[q] = reads[q]
  BY <1>0 DEF BucketTypeOK
<1>2. BucketTypeOK'
  <2>1. reads' \in [Reads -> ReadType]
    BY <1>0 DEF BucketTypeOK, ReadType
  <2>. QED  BY <1>0, <2>1 DEF BucketTypeOK, ReadType
<1>3. OwnBlobs' /\ RowBlobs' /\ RowsFit'
  BY DEF BucketInv, OwnBlobs, RowBlobs, RowsFit
<1>4. ReadsFit'
  BY <1>1 DEF BucketInv, ReadsFit
<1>5. ConditionsFit' /\ NoLostUpdate'
  BY DEF BucketInv, ConditionsFit, AskedFor, NoLostUpdate
<1>6. (\A b \in disk : Accounted(b))'
  BY DEF BucketInv, Accounted
<1>. QED  BY <1>2, <1>3, <1>4, <1>5, <1>6 DEF BucketInv

LEMMA NoReadFits == NoRead \in ReadType /\ NoRead.stage = "idle" /\ NoRead.todo = {}
BY DEF NoRead, ReadType, ReadStages

LEMMA GetPreserves == ASSUME BucketInv, NEW r \in Reads, NEW k \in ObjectKeys, GetRequested(r, k) PROVE BucketInv'
<1>0. BucketTypeOK
  BY DEF BucketInv
<1>. DEFINE row == objects[k]
<1>1. UNCHANGED <<objects, uploads, parts, disk, deletions, writes, selected, stranded>>
  BY DEF GetRequested
<1>2. CASE row \in Writes /\ reads' = [reads EXCEPT ![r] =
             [stage |-> "fetching", key |-> k, row |-> row, todo |-> {}]]
  <2>. DEFINE v == [stage |-> "fetching", key |-> k, row |-> row, todo |-> {}]
  <2>1. v \in ReadType /\ v.stage = "fetching" /\ v.key = k /\ v.row = row /\ v.todo = {}
    BY <1>2 DEF ReadType, ReadStages
  <2>2. writes[row].stage = "done"
    BY <1>2 DEF BucketInv, RowBlobs
  <2>3. reads' = [reads EXCEPT ![r] = v]
    BY <1>2
  <2>. HIDE DEF v
  <2>. QED  BY <1>1, <1>2, <2>1, <2>2, <2>3, ReadStep
<1>3. ASSUME NEW lo \in PartNumbers, NEW hi \in PartNumbers,
             row \in Uploads,
             reads' = [reads EXCEPT ![r] =
               [stage |-> "streaming", key |-> k, row |-> row,
                todo  |-> {p \in LinkedTo({k}) : p.number \in lo..hi}]]
      PROVE  BucketInv'
  <2>. DEFINE todo == {p \in LinkedTo({k}) : p.number \in lo..hi}
              v == [stage |-> "streaming", key |-> k, row |-> row, todo |-> todo]
  <2>1. todo \subseteq parts
    BY DEF LinkedTo
  <2>. HIDE DEF todo
  <2>2. v \in ReadType /\ v.stage = "streaming" /\ v.todo = todo
    BY <1>0, <1>3, <2>1 DEF ReadType, ReadStages, BucketTypeOK
  <2>3. reads' = [reads EXCEPT ![r] = v]
    BY <1>3 DEF todo
  <2>4. \A p \in todo : p.blob \in disk
    BY <2>1 DEF BucketInv, RowBlobs
  <2>. HIDE DEF v
  <2>. QED  BY <1>1, <2>2, <2>3, <2>4, ReadStep
<1>. QED  BY <1>2, <1>3 DEF GetRequested

LEMMA SendingPreserves ==
  ASSUME BucketInv, NEW r \in Reads, ObjectFetched(r) \/ PartSent(r) \/ StreamEnds(r) PROVE BucketInv'
<1>0. BucketTypeOK /\ reads[r] \in ReadType
  BY DEF BucketInv, BucketTypeOK, ReadType
<1>1. UNCHANGED <<objects, uploads, parts, disk, deletions, writes, selected, stranded>>
  BY DEF ObjectFetched, PartSent, StreamEnds
<1>2. CASE reads' = [reads EXCEPT ![r] = NoRead]
  BY <1>1, <1>2, NoReadFits, ReadStep
<1>3. CASE reads[r].stage = "fetching" /\ reads[r].row \notin disk
           /\ reads' = [reads EXCEPT ![r] = [reads[r] EXCEPT !.stage = "missed"]]
  <2>. DEFINE v == [reads[r] EXCEPT !.stage = "missed"]
  <2>1. v \in ReadType /\ v.stage = "missed" /\ v.key = reads[r].key /\ v.row = reads[r].row /\ v.todo = reads[r].todo
    BY <1>0 DEF ReadType, ReadStages
  <2>2. /\ v.key \in ObjectKeys /\ v.row \in Writes /\ writes[v.row].stage = "done"
        /\ \A p \in v.todo : p.blob \in disk
    BY <1>3, <2>1 DEF BucketInv, ReadsFit
  <2>3. objects[v.key] # v.row
    BY <1>3, <2>1, <2>2 DEF BucketInv, RowBlobs
  <2>4. reads' = [reads EXCEPT ![r] = v]
    BY <1>3
  <2>. HIDE DEF v
  <2>. QED  BY <1>1, <2>1, <2>2, <2>3, <2>4, ReadStep
<1>4. ASSUME NEW p \in reads[r].todo, reads[r].stage = "streaming",
             reads' = [reads EXCEPT ![r] = [reads[r] EXCEPT !.todo = reads[r].todo \ {p}]]
      PROVE  BucketInv'
  <2>. DEFINE todo == reads[r].todo \ {p}
              v == [reads[r] EXCEPT !.todo = todo]
  <2>1. todo \in SUBSET PartRows
    BY <1>0 DEF ReadType
  <2>. HIDE DEF todo
  <2>2. v \in ReadType /\ v.stage = "streaming" /\ v.todo = todo
    BY <1>0, <1>4, <2>1 DEF ReadType
  <2>3. \A q \in todo : q.blob \in disk
    BY DEF BucketInv, ReadsFit, todo
  <2>4. reads' = [reads EXCEPT ![r] = v]
    BY <1>4 DEF todo
  <2>. HIDE DEF v
  <2>. QED  BY <1>1, <2>2, <2>3, <2>4, ReadStep
<1>5. CASE ObjectFetched(r)
  BY <1>2, <1>3, <1>5 DEF ObjectFetched
<1>6. CASE PartSent(r)
  <2>1. PICK p \in reads[r].todo :
          reads' = [reads EXCEPT ![r] = IF p.blob \in disk THEN [reads[r] EXCEPT !.todo = reads[r].todo \ {p}]
                                        ELSE [reads[r] EXCEPT !.stage = "broken", !.todo = {}]]
    BY <1>6 DEF PartSent
  <2>2. p.blob \in disk
    BY DEF BucketInv, ReadsFit
  <2>3. reads' = [reads EXCEPT ![r] = [reads[r] EXCEPT !.todo = reads[r].todo \ {p}]]
    BY <2>1, <2>2
  <2>4. reads[r].stage = "streaming"
    BY <1>6 DEF PartSent
  <2>. QED  BY <1>4, <2>3, <2>4
<1>. QED  BY <1>2, <1>5, <1>6 DEF StreamEnds

\* A blob goes when no row names it, and no read has still to send it.
LEMMA BackgroundDeletedPreserves == ASSUME BucketInv, NEW w \in Writes, BackgroundDeleted(w) PROVE BucketInv'
<1>0. BucketTypeOK
  BY DEF BucketInv
<1>1. /\ w \in deletions /\ deletions' = deletions \ {w}
      /\ \A r \in Reads : \A p \in reads[r].todo : p.blob # w
      /\ \/ disk' = disk \ {w} /\ stranded' = stranded
         \/ disk' = disk /\ stranded' = stranded \cup {w}
      /\ UNCHANGED <<objects, uploads, parts, writes, reads, selected>>
  BY DEF BackgroundDeleted, InUse, BlobsOf
<1>2. BucketTypeOK'
  BY <1>0, <1>1 DEF BucketTypeOK
<1>3. OwnBlobs'
  BY <1>1 DEF BucketInv, OwnBlobs
<1>4. RowBlobs'
  BY <1>1 DEF BucketInv, RowBlobs
<1>5. RowsFit' /\ ReadsFit'
  BY <1>1 DEF BucketInv, RowsFit, ReadsFit
<1>6. ConditionsFit' /\ NoLostUpdate'
  BY <1>1 DEF BucketInv, ConditionsFit, AskedFor, NoLostUpdate
<1>7. (\A b \in disk : Accounted(b))'
  BY <1>1 DEF BucketInv, Accounted
<1>. QED  BY <1>2, <1>3, <1>4, <1>5, <1>6, <1>7 DEF BucketInv

LEMMA BucketCrashPreserves == ASSUME BucketInv, BucketCrash PROVE BucketInv'
<1>0. BucketTypeOK
  BY DEF BucketInv
<1>. DEFINE failed(w) == [stage |-> "failed", target |-> Nothing]
<1>1. \A w \in Writes :
        \/ writes[w].stage \in {"writing", "stored"} /\ writes'[w].stage = "failed" /\ writes'[w].target = Nothing
        \/ writes[w].stage \notin {"writing", "stored"} /\ writes'[w] = writes[w]
  BY DEF BucketCrash
<1>2. /\ \A r \in Reads : reads'[r] = NoRead \/ reads'[r] = reads[r]
      /\ deletions' = {} /\ stranded' = stranded \cup deletions \cup {w \in disk \cap Writes : writes[w].stage \in {"writing", "stored"}}
      /\ UNCHANGED <<objects, uploads, parts, disk, selected>>
  BY DEF BucketCrash
<1>3. BucketTypeOK'
  <2>1. [stage |-> "failed", target |-> Nothing] \in WriteType
    BY DEF WriteType, WriteStages
  <2>2. writes' \in [Writes -> WriteType]
    BY <1>0, <2>1 DEF BucketCrash, BucketTypeOK, WriteType
  <2>3. reads' \in [Reads -> ReadType]
    BY <1>0, NoReadFits DEF BucketCrash, BucketTypeOK, ReadType
  <2>. QED  BY <1>0, <1>2, <2>2, <2>3 DEF BucketTypeOK, WriteType, ReadType
<1>4. OwnBlobs'
  BY <1>1, <1>2 DEF BucketInv, OwnBlobs
<1>5. RowBlobs'
  <2>1. \A p \in parts : p.blob \in Writes
    BY <1>0 DEF BucketTypeOK, PartRows
  <2>. QED  BY <1>1, <1>2, <2>1 DEF BucketInv, RowBlobs
<1>6. RowsFit'
  BY <1>2 DEF BucketInv, RowsFit
<1>7. ReadsFit'
  BY <1>1, <1>2, NoReadFits DEF BucketInv, ReadsFit
<1>8. ConditionsFit' /\ NoLostUpdate'
  <2>1. ASSUME NEW x, AskedFor(x)
        PROVE  (x \in Writes => writes'[x].stage = "done") /\ (x \in Uploads => uploads'[x].state = "completed")
    BY <1>1, <1>2, <2>1 DEF AskedFor
  <2>2. \A w \in Writes : writes'[w].target \in PutTargets => writes'[w] = writes[w]
    BY <1>1, TargetsAssumption
  <2>3. ConditionsFit'
    BY <1>2, <2>1, <2>2 DEF BucketInv, ConditionsFit, AskedFor
  <2>. QED  BY <2>2, <2>3 DEF BucketInv, NoLostUpdate
<1>9. (\A b \in disk : Accounted(b))'
  BY <1>0, <1>1, <1>2 DEF BucketInv, BucketTypeOK, Accounted
<1>. QED  BY <1>3, <1>4, <1>5, <1>6, <1>7, <1>8, <1>9 DEF BucketInv

LEMMA BucketNextPreserves == BucketInv /\ [BucketNext]_bucketVars => BucketInv'
<1>. SUFFICES ASSUME BucketInv, [BucketNext]_bucketVars PROVE BucketInv'
  OBVIOUS
<1>1. CASE UNCHANGED bucketVars
  <2>1. BucketTypeOK' /\ OwnBlobs' /\ RowBlobs' /\ RowsFit' /\ ReadsFit'
    BY <1>1 DEF bucketVars, BucketInv, BucketTypeOK, OwnBlobs, RowBlobs, RowsFit, ReadsFit
  <2>2. ConditionsFit' /\ NoLostUpdate' /\ (\A b \in disk : Accounted(b))'
    BY <1>1 DEF bucketVars, BucketInv, ConditionsFit, AskedFor, NoLostUpdate, Accounted
  <2>. QED  BY <2>1, <2>2 DEF BucketInv
<1>2. CASE BucketNext
  BY <1>2, RequestPreserves, StoringPreserves, PutCommittedPreserves, PartCommittedPreserves,
     BackgroundDeletedPreserves, DeletePreserves, CreatePreserves, CompletePreserves, AbortPreserves,
     GetPreserves, SendingPreserves, BucketCrashPreserves
  DEF BucketNext
<1>. QED  BY <1>1, <1>2

\* The inductive invariant holds of every execution, crashes included.
THEOREM BucketInvariance == BucketSpec => []BucketInv
<1>. QED  BY BucketInitInv, BucketNextPreserves, PTL DEF BucketSpec

\* Every table, read and write of the bucket keeps its type.
THEOREM BucketTypeCorrect == BucketSpec => []BucketTypeOK
<1>1. BucketInv => BucketTypeOK
  BY DEF BucketInv
<1>. QED  BY <1>1, BucketInvariance, PTL

\* A multipart object is exactly the parts that its completion selected, whatever
\* is put, deleted, completed and aborted meanwhile.
THEOREM PartsMakeTheObject == BucketSpec => []ObjectsMatchParts
<1>. QED  BY RowsMatch, BucketInvariance, PTL

\* No blob goes that a row names or that a multipart read has still to send.
THEOREM BlobsInUseAreKept == BucketSpec => []BlobsAreKept
<1>. QED  BY BlobsStay, BucketInvariance, PTL

\* Of the conditional puts that have seen an object only one replaces it.
THEOREM ConditionalPutsExclude == BucketSpec => []NoLostUpdate
<1>1. BucketInv => NoLostUpdate
  BY DEF BucketInv
<1>. QED  BY <1>1, BucketInvariance, PTL

\* A blob without a row is about to be deleted, or one of the known leaks.
THEOREM LeaksAreKnown == BucketSpec => []OnlyInvalidPutsLeak
<1>. QED  BY LeaksAccountedFor, BucketInvariance, PTL
-----------------------------------------------------------------------------
(* The store of Stream *)

\* A caption call has a row, or is the call that a later one replaces, only when it
\* is done; until it begins it replaces nothing.
CaptionsDone ==
  /\ \A v \in Videos : captionRows[v] \in Captions =>
       captions[captionRows[v]].stage = "done" /\ captions[captionRows[v]].video = v
  /\ \A c \in Captions : captions[c].old \in Captions =>
       captions[captions[c].old].stage = "done" /\ captions[captions[c].old].video = captions[c].video
  /\ \A c \in Captions : captions[c].stage = "idle" => captions[c].old = NoCaption

\* What a running call finds when it replaces the row: the row it has seen, whose
\* blob it has deleted by then, or the row of a call that ran at the same time.
CaptionsRun ==
  /\ \A c \in Captions : captions[c].stage = "writing" => captions[c].old \notin streamBlobs
  /\ \A c \in Captions :
       captions[c].stage \in {"clearing", "writing"} /\ captionRows[captions[c].video] \in Captions =>
         captionRows[captions[c].video] \in {captions[c].old} \cup overlapping
  /\ \A c, d \in Captions :
       /\ captions[c].stage \in {"clearing", "writing"}
       /\ captions[d].stage \in {"clearing", "writing"}
       /\ captions[c].video = captions[d].video /\ c # d
       => c \in overlapping

\* A blob that is about to be deleted, or should have been, has lost its row for good.
DoomedForGood ==
  \A b \in doomed \cup abandoned :
    /\ b \in Works => works[b] = "deleted"
    /\ b \in Captions => captions[b].stage = "done" /\ \A v \in Videos : captionRows[v] # b

StreamInv == StreamTypeOK /\ CaptionsDone /\ CaptionsRun /\ DoomedForGood /\ TablesMatchBlobs

CaptionCalls == [video : Videos, generated : BOOLEAN, stage : CaptionStages, old : Captions \cup {NoCaption, NoBlob}]

LEMMA StageStep ==
  ASSUME StreamTypeOK, NEW c \in Captions, NEW s \in CaptionStages, captions' = [captions EXCEPT ![c].stage = s]
  PROVE  /\ captions' \in [Captions -> CaptionCalls]
         /\ captions'[c].stage = s /\ captions'[c].old = captions[c].old /\ captions'[c].video = captions[c].video
         /\ \A d \in Captions : d # c => captions'[d] = captions[d]
         /\ \E call \in CaptionCalls :
              /\ call.stage = s /\ call.old = captions[c].old /\ call.video = captions[c].video
              /\ captions' = [captions EXCEPT ![c] = call]
<1>1. captions \in [Captions -> CaptionCalls]
  BY DEF StreamTypeOK, CaptionCalls
<1>. DEFINE call == [captions[c] EXCEPT !.stage = s]
<1>2. call \in CaptionCalls /\ call.stage = s /\ call.old = captions[c].old /\ call.video = captions[c].video
  BY <1>1 DEF CaptionCalls
<1>3. captions' = [captions EXCEPT ![c] = call]
  OBVIOUS
<1>. HIDE DEF call
<1>. QED  BY <1>1, <1>2, <1>3

\* The three kinds of names do not meet.
LEMMA NamesDiffer ==
  /\ NoCaption \notin Blobs /\ NoBlob \notin Blobs /\ NoBlob \notin Captions /\ NoCaption \notin Captions /\ NoCaption # NoBlob
  /\ \A c \in Captions : c \notin Works /\ c \in Blobs
  /\ \A w \in Works : w \in Blobs /\ w # NoCaption /\ w # NoBlob
BY CaptionsAssumption DEF Blobs, Works

LEMMA CallFields ==
  ASSUME StreamTypeOK, NEW c \in Captions
  PROVE  /\ captions[c].video \in Videos /\ captions[c].stage \in CaptionStages
         /\ captions[c].old \in Captions \cup {NoCaption, NoBlob}
BY DEF StreamTypeOK

LEMMA StreamInitInv == StreamInit => StreamInv
<1>. SUFFICES ASSUME StreamInit PROVE StreamInv
  OBVIOUS
<1>1. captions \in [Captions -> CaptionCalls] /\ \A c \in Captions : captions[c].stage = "idle" /\ captions[c].old = NoCaption
  BY DEF StreamInit, CaptionCalls, CaptionStages
<1>2. StreamTypeOK
  BY <1>1 DEF StreamInit, StreamTypeOK, CaptionCalls
<1>3. CaptionsDone /\ CaptionsRun /\ DoomedForGood
  BY <1>1, NamesDiffer DEF StreamInit, CaptionsDone, CaptionsRun, DoomedForGood
<1>4. TablesMatchBlobs
  <2>1. \A b \in Blobs : ~HasRow(b)
    BY NamesDiffer DEF StreamInit, HasRow, Blobs, Works
  <2>. QED  BY <2>1, NamesDiffer DEF StreamInit, TablesMatchBlobs, RowsOfVideos, RowsHaveTheirBlobs, BlobsHaveTheirRows
<1>. QED  BY <1>2, <1>3, <1>4 DEF StreamInv

\* The bytes of a video or watermark come before its row.
LEMMA WorkPreserves ==
  ASSUME StreamInv, NEW w \in Works, WorkBegins(w) \/ WorkStored(w) \/ WorkFails(w)
  PROVE  StreamInv'
<1>0. StreamTypeOK
  BY DEF StreamInv
<1>1. UNCHANGED <<captionRows, downloads, doomed, captions, abandoned, overlapping>>
  BY DEF WorkBegins, WorkStored, WorkFails
<1>2. PICK x \in {"writing", "stored", "failed"} :
        /\ works' = [works EXCEPT ![w] = x] /\ works[w] \in {"none", "writing"}
        /\ streamBlobs' \in {streamBlobs, streamBlobs \cup {w}}
        /\ x = "stored" => w \in streamBlobs'
        /\ x = "writing" => streamBlobs' = streamBlobs
  BY DEF WorkBegins, WorkStored, WorkFails
<1>3. StreamTypeOK'
  BY <1>0, <1>1, <1>2, NamesDiffer DEF StreamTypeOK
<1>4. CaptionsDone'
  BY <1>1 DEF StreamInv, CaptionsDone
<1>5. CaptionsRun'
  <2>1. \A c \in Captions : captions[c].old # w
    BY <1>0, CallFields, NamesDiffer
  <2>. QED  BY <1>1, <1>2, <2>1 DEF StreamInv, CaptionsRun
<1>6. DoomedForGood'
  BY <1>0, <1>1, <1>2 DEF StreamInv, DoomedForGood, StreamTypeOK
<1>7. RowsOfVideos'
  BY <1>0, <1>1, <1>2 DEF StreamInv, TablesMatchBlobs, RowsOfVideos, StreamTypeOK, Works
<1>8. /\ \A b \in Blobs : b # w => (HasRow(b)' <=> HasRow(b))
      /\ HasRow(w)' <=> x = "stored"
      /\ ~HasRow(w)
  BY <1>0, <1>1, <1>2 DEF HasRow, StreamTypeOK
<1>9. w \notin streamBlobs /\ \A c \in Captions : captions[c].old # w
  <2>1. \A c \in Captions : captions[c].old # w
    BY <1>0, CallFields, NamesDiffer
  <2>2. w \notin doomed \cup abandoned /\ works[w] # "failed" /\ w \notin Captions
    BY <1>2, NamesDiffer DEF StreamInv, DoomedForGood
  <2>. QED  BY <1>8, <2>1, <2>2 DEF StreamInv, TablesMatchBlobs, BlobsHaveTheirRows
<1>10. RowsHaveTheirBlobs'
  BY <1>1, <1>2, <1>8 DEF StreamInv, TablesMatchBlobs, RowsHaveTheirBlobs
<1>11. BlobsHaveTheirRows'
  BY <1>0, <1>1, <1>2, <1>8, <1>9 DEF StreamInv, TablesMatchBlobs, BlobsHaveTheirRows, StreamTypeOK
<1>. QED  BY <1>3, <1>4, <1>5, <1>6, <1>7, <1>10, <1>11 DEF StreamInv, TablesMatchBlobs

\* Blobs whose rows go are doomed in the same step.
LEMMA RowsGoPreserves ==
  ASSUME StreamInv, NEW w \in Works, DeleteWork(w) \/ (w \in Videos /\ DeleteCaption(w))
  PROVE  StreamInv'
<1>0. StreamTypeOK
  BY DEF StreamInv
<1>1. UNCHANGED <<streamBlobs, captions, abandoned, overlapping>>
  BY DEF DeleteWork, DeleteCaption
<1>2. /\ captionRows' \in [Videos -> Captions \cup {NoCaption, NoBlob}]
      /\ \A v \in Videos : captionRows'[v] = IF v = w THEN NoCaption ELSE captionRows[v]
  BY <1>0 DEF StreamTypeOK, DeleteWork, DeleteCaption
<1>3. PICK W \in SUBSET {w} :
        /\ works' = [x \in Works |-> IF x \in W THEN "deleted" ELSE works[x]]
        /\ W = {w} => works[w] = "stored" /\ w \notin downloads'
        /\ W \subseteq doomed'
        /\ downloads' \subseteq downloads
        /\ doomed' = doomed \cup W \cup BlobOfRow(w)
  <2>1. CASE DeleteWork(w)
    <3>1. works' = [x \in Works |-> IF x \in {w} THEN "deleted" ELSE works[x]]
      BY <1>0, <2>1 DEF DeleteWork, StreamTypeOK
    <3>. QED  BY <2>1, <3>1 DEF DeleteWork
  <2>2. CASE w \in Videos /\ DeleteCaption(w)
    <3>1. works' = [x \in Works |-> IF x \in {} THEN "deleted" ELSE works[x]]
      BY <1>0, <2>2 DEF DeleteCaption, StreamTypeOK
    <3>2. downloads' \subseteq downloads /\ doomed' = doomed \cup {} \cup BlobOfRow(w)
      BY <2>2 DEF DeleteCaption
    <3>3. {} \in SUBSET {w} /\ {} # {w} /\ {} \subseteq doomed'
      OBVIOUS
    <3>. QED  BY <3>1, <3>2, <3>3
  <2>. QED  BY <2>1, <2>2
<1>4. BlobOfRow(w) \subseteq Captions /\ \A v \in Videos : v = w /\ captionRows[v] \in Captions => captionRows[v] \in BlobOfRow(w)
      /\ \A b \in BlobOfRow(w) : w \in Videos /\ captionRows[w] = b
  BY DEF BlobOfRow
<1>5. StreamTypeOK'
  BY <1>0, <1>1, <1>2, <1>3, <1>4, NamesDiffer DEF StreamTypeOK
<1>6. CaptionsDone'
  BY <1>1, <1>2, NamesDiffer DEF StreamInv, CaptionsDone
<1>7. CaptionsRun'
  BY <1>0, <1>1, <1>2, NamesDiffer DEF StreamInv, CaptionsRun, StreamTypeOK, CaptionCalls
<1>8. DoomedForGood'
  <2>1. ASSUME NEW b \in Works, b \in doomed' \cup abandoned  PROVE works'[b] = "deleted"
    BY <1>3, <1>4, <2>1, NamesDiffer DEF StreamInv, DoomedForGood
  <2>2. ASSUME NEW b \in Captions, b \in doomed' \cup abandoned
        PROVE  captions[b].stage = "done" /\ \A v \in Videos : captionRows'[v] # b
    <3>1. CASE b \in doomed \cup abandoned
      BY <1>2, <2>2, <3>1, NamesDiffer DEF StreamInv, DoomedForGood
    <3>2. CASE b \in BlobOfRow(w)
      <4>1. w \in Videos /\ captionRows[w] = b
        BY <3>2 DEF BlobOfRow
      <4>2. captions[b].stage = "done" /\ \A v \in Videos : captionRows[v] = b => captions[b].video = v
        BY <2>2, <4>1 DEF StreamInv, CaptionsDone
      <4>3. ASSUME NEW v \in Videos, captionRows'[v] = b  PROVE FALSE
        BY <1>2, <2>2, <4>1, <4>2, <4>3, NamesDiffer
      <4>. QED  BY <4>2, <4>3
    <3>. QED  BY <1>3, <2>2, <3>1, <3>2, NamesDiffer
  <2>. QED  BY <1>1, <2>1, <2>2 DEF DoomedForGood
<1>9. RowsOfVideos'
  BY <1>0, <1>2, <1>3, CaptionsAssumption DEF StreamInv, TablesMatchBlobs, RowsOfVideos, StreamTypeOK, Works
<1>10. /\ \A b \in Blobs : HasRow(b)' => HasRow(b)
       /\ \A b \in Blobs : HasRow(b) => HasRow(b)' \/ b \in doomed'
  BY <1>0, <1>2, <1>3, <1>4, NamesDiffer DEF HasRow, StreamTypeOK, Blobs
<1>11. RowsHaveTheirBlobs'
  BY <1>1, <1>10 DEF StreamInv, TablesMatchBlobs, RowsHaveTheirBlobs
<1>12. BlobsHaveTheirRows'
  BY <1>0, <1>1, <1>3, <1>10 DEF StreamInv, TablesMatchBlobs, BlobsHaveTheirRows, StreamTypeOK
<1>. QED  BY <1>5, <1>6, <1>7, <1>8, <1>9, <1>11, <1>12 DEF StreamInv, TablesMatchBlobs

\* No row names a blob that is about to be deleted.
LEMMA DoomedDeletedPreserves ==
  ASSUME StreamInv, NEW x \in Blobs, DoomedDeleted(x) \/ DoomedDeleteFails(x)
  PROVE  StreamInv'
<1>0. StreamTypeOK
  BY DEF StreamInv
<1>1. /\ x \in doomed /\ doomed' = doomed \ {x} /\ streamBlobs' \in {streamBlobs, streamBlobs \ {x}}
      /\ abandoned' \in {abandoned, abandoned \cup {x}}
      /\ x \in streamBlobs' => x \in abandoned'
      /\ UNCHANGED <<works, captionRows, downloads, captions, overlapping>>
  BY DEF DoomedDeleted, DoomedDeleteFails
<1>2. StreamTypeOK' /\ CaptionsDone' /\ DoomedForGood'
  BY <1>0, <1>1 DEF StreamInv, StreamTypeOK, CaptionsDone, DoomedForGood
<1>3. CaptionsRun'
  BY <1>1 DEF StreamInv, CaptionsRun
<1>4. ~HasRow(x) /\ \A b \in Blobs : HasRow(b)' <=> HasRow(b)
  <2>1. x \in Works \/ x \in Captions
    BY DEF Blobs
  <2>. QED  BY <1>1, <2>1 DEF StreamInv, DoomedForGood, HasRow
<1>5. RowsOfVideos' /\ RowsHaveTheirBlobs'
  BY <1>1, <1>4 DEF StreamInv, TablesMatchBlobs, RowsOfVideos, RowsHaveTheirBlobs
<1>6. BlobsHaveTheirRows'
  BY <1>0, <1>1, <1>4 DEF StreamInv, TablesMatchBlobs, BlobsHaveTheirRows, StreamTypeOK
<1>. QED  BY <1>2, <1>3, <1>5, <1>6 DEF StreamInv, TablesMatchBlobs

LEMMA DownloadPreserves ==
  ASSUME StreamInv, NEW v \in Videos, GenerateDownload(v) \/ DeleteDownload(v)
  PROVE  StreamInv'
<1>1. /\ downloads' \subseteq downloads \cup {v} /\ (v \in downloads' => works[v] = "stored")
      /\ UNCHANGED <<works, captionRows, streamBlobs, doomed, captions, abandoned, overlapping>>
  BY DEF GenerateDownload, DeleteDownload
<1>2. StreamTypeOK' /\ CaptionsDone' /\ CaptionsRun' /\ DoomedForGood'
  BY <1>1 DEF StreamInv, StreamTypeOK, CaptionsDone, CaptionsRun, DoomedForGood
<1>3. RowsOfVideos'
  BY <1>1 DEF StreamInv, TablesMatchBlobs, RowsOfVideos
<1>4. RowsHaveTheirBlobs' /\ BlobsHaveTheirRows'
  BY <1>1 DEF StreamInv, TablesMatchBlobs, RowsHaveTheirBlobs, BlobsHaveTheirRows, HasRow
<1>. QED  BY <1>2, <1>3, <1>4 DEF StreamInv, TablesMatchBlobs

\* The last step of a call replaces the row, unless the video is gone: what the row
\* named is deleted by then, or belongs to a call that ran at the same time.
LEMMA UpsertPreserves ==
  ASSUME StreamInv, NEW c \in Captions, NEW blob \in {c, NoBlob}, Upsert(c, blob),
         UNCHANGED <<works, downloads, doomed, abandoned>>,
         overlapping' \in SUBSET Captions, overlapping \subseteq overlapping',
         captions[c].stage \in {"idle", "clearing", "writing"},
         blob = c => captions[c].stage = "writing" /\ streamBlobs' = streamBlobs \cup {c},
         blob = NoBlob => captions[c].stage \in {"idle", "clearing"} /\ streamBlobs' = streamBlobs \ {captions[c].old},
         captions[c].stage = "idle" => captionRows[captions[c].video] \notin Captions
  PROVE  StreamInv'
<1>. DEFINE v == captions[c].video
<1>0. StreamTypeOK
  BY DEF StreamInv
<1>1. v \in Videos /\ v \in Works
  BY <1>0, CallFields DEF Works
<1>2. PICK s \in {"done", "failed"} :
        /\ s = "done" <=> works[v] = "stored"
        /\ captions' = [captions EXCEPT ![c].stage = s]
        /\ captionRows' = IF s = "done" THEN [captionRows EXCEPT ![v] = blob] ELSE captionRows
  BY DEF Upsert
<1>3. /\ captions' \in [Captions -> CaptionCalls]
      /\ captions'[c].stage = s /\ captions'[c].old = captions[c].old /\ captions'[c].video = v
      /\ \A d \in Captions : d # c => captions'[d] = captions[d]
  <2>1. s \in CaptionStages
    BY DEF CaptionStages
  <2>. QED  BY <1>0, <1>2, <2>1, StageStep
<1>4. /\ captionRows' \in [Videos -> Captions \cup {NoCaption, NoBlob}]
      /\ \A x \in Videos : captionRows'[x] = IF s = "done" /\ x = v THEN blob ELSE captionRows[x]
  BY <1>0, <1>1, <1>2 DEF StreamTypeOK
<1>5. /\ \A d \in Captions : captions[d].old # c
      /\ \A x \in Videos : captionRows[x] # c
  BY DEF StreamInv, CaptionsDone
<1>6. c \notin doomed \cup abandoned
  BY DEF StreamInv, DoomedForGood
<1>7. \A d \in Captions : captions[d].old = captionRows[v] /\ captions[d].stage \in {"writing"} => captionRows[v] \notin streamBlobs
  BY DEF StreamInv, CaptionsRun
<1>8. captionRows[v] \in Captions => captionRows[v] \notin streamBlobs' \/ captionRows[v] \in overlapping
  <2>1. captionRows[v] \in Captions => captionRows[v] = captions[c].old \/ captionRows[v] \in overlapping
    BY DEF StreamInv, CaptionsRun
  <2>. QED  BY <1>5, <1>7, <2>1, NamesDiffer
<1>. HIDE DEF v
<1>9. StreamTypeOK'
  <2>1. streamBlobs' \subseteq Blobs
    BY <1>0, NamesDiffer DEF StreamTypeOK
  <2>. QED  BY <1>0, <1>3, <1>4, <2>1 DEF StreamTypeOK, CaptionCalls
<1>10. CaptionsDone'
  <2>1. ASSUME NEW x \in Videos, captionRows'[x] \in Captions
        PROVE  captions'[captionRows'[x]].stage = "done" /\ captions'[captionRows'[x]].video = x
    <3>1. CASE s = "done" /\ x = v
      BY <1>3, <1>4, <2>1, <3>1, NamesDiffer
    <3>2. CASE ~(s = "done" /\ x = v)
      BY <1>3, <1>4, <1>5, <2>1, <3>2 DEF StreamInv, CaptionsDone
    <3>. QED  BY <3>1, <3>2
  <2>2. ASSUME NEW d \in Captions, captions'[d].old \in Captions
        PROVE  captions'[captions'[d].old].stage = "done" /\ captions'[captions'[d].old].video = captions'[d].video
    <3>1. captions'[d].old = captions[d].old /\ captions'[d].video = captions[d].video
      BY <1>3 DEF v
    <3>2. captions[captions[d].old].stage = "done" /\ captions[captions[d].old].video = captions[d].video
      BY <2>2, <3>1 DEF StreamInv, CaptionsDone
    <3>. QED  BY <1>3, <1>5, <2>2, <3>1, <3>2
  <2>3. \A d \in Captions : captions'[d].stage = "idle" => captions'[d].old = NoCaption
    BY <1>3 DEF StreamInv, CaptionsDone
  <2>. QED  BY <2>1, <2>2, <2>3 DEF CaptionsDone
<1>11. CaptionsRun'
  <2>1. \A d \in Captions : captions'[d].stage \in {"clearing", "writing"} => d # c /\ captions'[d] = captions[d]
    BY <1>3
  <2>2. \A d \in Captions : captions'[d].stage = "writing" => captions'[d].old \notin streamBlobs'
    BY <1>5, <2>1 DEF StreamInv, CaptionsRun
  <2>3. ASSUME NEW d \in Captions, captions'[d].stage \in {"clearing", "writing"}, captionRows'[captions'[d].video] \in Captions
        PROVE  captionRows'[captions'[d].video] \in {captions'[d].old} \cup overlapping'
    <3>1. d # c /\ captions'[d] = captions[d] /\ captions[d].video \in Videos
      BY <1>0, <2>1, <2>3, CallFields
    <3>2. CASE s = "done" /\ captions[d].video = v
      <4>1. captionRows'[v] = blob /\ blob = c
        BY <1>1, <1>4, <2>3, <3>1, <3>2, NamesDiffer
      <4>2. c \in overlapping
        BY <2>3, <3>1, <3>2, <4>1 DEF StreamInv, CaptionsRun, v
      <4>. QED  BY <3>1, <3>2, <4>1, <4>2
    <3>3. CASE ~(s = "done" /\ captions[d].video = v)
      BY <1>4, <2>3, <3>1, <3>3 DEF StreamInv, CaptionsRun
    <3>. QED  BY <3>2, <3>3
  <2>4. ASSUME NEW d \in Captions, NEW e \in Captions,
               captions'[d].stage \in {"clearing", "writing"}, captions'[e].stage \in {"clearing", "writing"},
               captions'[d].video = captions'[e].video, d # e
        PROVE  d \in overlapping'
    BY <2>1, <2>4 DEF StreamInv, CaptionsRun
  <2>. QED  BY <2>2, <2>3, <2>4 DEF CaptionsRun
<1>12. DoomedForGood'
  <2>1. \A b \in doomed \cup abandoned : b # c /\ (b \in Captions => b # blob)
    BY <1>6, NamesDiffer
  <2>. QED  BY <1>3, <1>4, <2>1 DEF StreamInv, DoomedForGood
<1>13. RowsOfVideos'
  BY <1>2, <1>4 DEF StreamInv, TablesMatchBlobs, RowsOfVideos
<1>14. /\ \A b \in Blobs : HasRow(b)' => HasRow(b) \/ (b = c /\ c \in streamBlobs')
       /\ \A b \in Blobs : HasRow(b) => HasRow(b)' \/ (b = captionRows[v] /\ b \in Captions)
       /\ \A b \in Captions : b = captionRows[v] /\ b # blob /\ s = "done" => ~HasRow(b)'
       /\ blob = c /\ s = "done" => HasRow(c)'
  <2>1. ASSUME NEW b \in Works  PROVE HasRow(b)' <=> HasRow(b)
    BY <2>1 DEF HasRow
  <2>2. ASSUME NEW b \in Captions
        PROVE  /\ HasRow(b)  <=> \E x \in Videos : captionRows[x] = b
               /\ HasRow(b)' <=> \E x \in Videos : captionRows'[x] = b
    BY <2>2, NamesDiffer DEF HasRow
  <2>3. ASSUME NEW b \in Captions, HasRow(b)'  PROVE HasRow(b) \/ (b = c /\ c \in streamBlobs')
    <3>1. PICK x \in Videos : captionRows'[x] = b
      BY <2>2, <2>3
    <3>2. CASE s = "done" /\ x = v
      BY <1>4, <3>1, <3>2, NamesDiffer
    <3>3. CASE ~(s = "done" /\ x = v)
      <4>1. captionRows[x] = b
        BY <1>4, <3>1, <3>3
      <4>. QED  BY <2>2, <4>1
    <3>. QED  BY <3>2, <3>3
  <2>4. ASSUME NEW b \in Captions, HasRow(b)  PROVE HasRow(b)' \/ b = captionRows[v]
    BY <1>4, <2>2, <2>4
  <2>5. ASSUME NEW b \in Captions, b = captionRows[v], b # blob, s = "done"  PROVE ~HasRow(b)'
    <3>1. \A x \in Videos : captionRows[x] = b => x = v
      BY <1>1, <2>5 DEF StreamInv, CaptionsDone
    <3>2. \A x \in Videos : captionRows'[x] # b
      BY <1>4, <2>5, <3>1
    <3>. QED  BY <2>2, <3>2
  <2>6. blob = c /\ s = "done" => HasRow(c)'
    BY <1>1, <1>4, <2>2
  <2>7. \A b \in Blobs : b \in Works \/ b \in Captions
    BY DEF Blobs
  <2>8. \A b \in Blobs : HasRow(b)' => HasRow(b) \/ (b = c /\ c \in streamBlobs')
    BY <2>1, <2>3, <2>7
  <2>9. \A b \in Blobs : HasRow(b) => HasRow(b)' \/ (b = captionRows[v] /\ b \in Captions)
    BY <2>1, <2>4, <2>7
  <2>. QED  BY <2>5, <2>6, <2>8, <2>9
<1>15. RowsHaveTheirBlobs'
  <2>. SUFFICES ASSUME NEW b \in Blobs, b \notin streamBlobs', HasRow(b)'
                PROVE  \E d \in Captions : captions'[d].old = b /\ (captions'[d].stage # "done" \/ d \in overlapping')
    BY DEF RowsHaveTheirBlobs
  <2>1. HasRow(b)
    BY <1>14
  <2>2. CASE captions[c].old = b
    <3>1. s = "failed"
      <4>1. SUFFICES ASSUME s = "done" PROVE FALSE
        OBVIOUS
      <4>2. b \in Captions
        BY <1>0, <2>2, CallFields, NamesDiffer
      <4>3. captions[b].video = v
        BY <2>2, <4>2 DEF StreamInv, CaptionsDone, v
      <4>4. PICK x \in Videos : captionRows[x] = b
        BY <2>1, <4>2, NamesDiffer DEF HasRow
      <4>5. captionRows[v] = b
        BY <4>2, <4>3, <4>4 DEF StreamInv, CaptionsDone
      <4>. QED  BY <1>5, <1>14, <2>2, <4>1, <4>2, <4>5, NamesDiffer
    <3>. QED  BY <1>3, <2>2, <3>1
  <2>3. CASE captions[c].old # b
    <3>1. b \notin streamBlobs
      BY <2>3
    <3>2. PICK d \in Captions : captions[d].old = b /\ (captions[d].stage # "done" \/ d \in overlapping)
      BY <2>1, <3>1 DEF StreamInv, TablesMatchBlobs, RowsHaveTheirBlobs
    <3>. QED  BY <1>3, <2>3, <3>2
  <2>. QED  BY <2>2, <2>3
<1>16. BlobsHaveTheirRows'
  <2>. SUFFICES ASSUME NEW b \in streamBlobs', ~HasRow(b)'
                PROVE  \/ b \in doomed \cup abandoned
                       \/ b \in Works /\ works[b] = "failed"
                       \/ b \in Captions /\ (captions'[b].stage = "failed" \/ b \in overlapping')
    BY DEF BlobsHaveTheirRows
  <2>1. b \in Blobs
    BY <1>9 DEF StreamTypeOK
  <2>2. CASE b = c
    <3>1. CASE s = "failed"
      BY <1>3, <2>2, <3>1
    <3>2. CASE s = "done" /\ blob = c
      BY <1>14, <2>2, <3>2
    <3>3. CASE s = "done" /\ blob # c
      <4>1. c \in streamBlobs /\ ~HasRow(c)
        BY <1>5, <2>2, <3>3, NamesDiffer DEF HasRow
      <4>2. c \in overlapping
        BY <1>5, <1>6, <4>1, NamesDiffer DEF StreamInv, TablesMatchBlobs, BlobsHaveTheirRows
      <4>. QED  BY <2>2, <4>2
    <3>. QED  BY <3>1, <3>2, <3>3
  <2>3. CASE b # c /\ HasRow(b)
    BY <1>8, <1>14, <2>1, <2>3
  <2>4. CASE b # c /\ ~HasRow(b)
    <3>1. b \in streamBlobs
      BY <2>4
    <3>2. \/ b \in doomed \cup abandoned
          \/ b \in Works /\ works[b] = "failed"
          \/ b \in Captions /\ (captions[b].stage = "failed" \/ b \in overlapping)
      BY <2>4, <3>1 DEF StreamInv, TablesMatchBlobs, BlobsHaveTheirRows
    <3>. QED  BY <1>3, <2>4, <3>2
  <2>. QED  BY <2>2, <2>3, <2>4
<1>. QED  BY <1>9, <1>10, <1>11, <1>12, <1>13, <1>15, <1>16 DEF StreamInv, TablesMatchBlobs

\* A call that goes on without touching the row yet
LEMMA CallGoesOn ==
  ASSUME StreamInv, NEW c \in Captions, NEW call \in CaptionCalls, captions' = [captions EXCEPT ![c] = call],
         UNCHANGED <<works, captionRows, downloads, doomed, abandoned>>,
         overlapping' \in SUBSET Captions, overlapping \subseteq overlapping',
         captions[c].stage # "done", call.stage \in {"clearing", "writing", "failed"}, call.video = captions[c].video,
         call.old = captions[c].old \/ (captions[c].stage = "idle" /\ call.old = captionRows[call.video]),
         captions[c].stage = "idle" =>
           /\ call.old = captionRows[call.video] \/ captionRows[call.video] \notin Captions
           /\ \A d \in Captions :
                captions[d].video = call.video /\ captions[d].stage \in {"clearing", "writing"} => {c, d} \subseteq overlapping',
         captions[c].stage # "idle" => captions[c].stage \in {"clearing", "writing"},
         streamBlobs' \in {streamBlobs, streamBlobs \cup {c}, streamBlobs \ {call.old}},
         call.stage = "writing" => call.old \notin streamBlobs',
         call.stage # "failed" => c \notin streamBlobs' \/ c \in streamBlobs,
         call.stage = "clearing" => streamBlobs' = streamBlobs /\ captions[c].stage = "idle"
  PROVE  StreamInv'
<1>0. StreamTypeOK
  BY DEF StreamInv
<1>1. /\ captions' \in [Captions -> CaptionCalls] /\ captions'[c] = call
      /\ \A d \in Captions : d # c => captions'[d] = captions[d]
      /\ \A d \in Captions : captions'[d].video = captions[d].video
      /\ call.video \in Videos /\ call.old \in Captions \cup {NoCaption, NoBlob}
  BY <1>0 DEF StreamTypeOK, CaptionCalls
<1>2. /\ \A d \in Captions : captions[d].old # c
      /\ \A x \in Videos : captionRows[x] # c
      /\ c \notin doomed \cup abandoned
  BY DEF StreamInv, CaptionsDone, DoomedForGood
<1>3. StreamTypeOK'
  <2>1. streamBlobs' \subseteq Blobs
    BY <1>0, NamesDiffer DEF StreamTypeOK
  <2>. QED  BY <1>0, <1>1, <2>1 DEF StreamTypeOK, CaptionCalls
<1>4. CaptionsDone'
  <2>1. \A x \in Videos : captionRows[x] \in Captions =>
          captions'[captionRows[x]].stage = "done" /\ captions'[captionRows[x]].video = x
    BY <1>1, <1>2 DEF StreamInv, CaptionsDone
  <2>2. \A d \in Captions : captions[d].old \in Captions =>
          captions'[captions[d].old].stage = "done" /\ captions'[captions[d].old].video = captions[d].video
    BY <1>1, <1>2 DEF StreamInv, CaptionsDone
  <2>3. call.old \in Captions => captions'[call.old].stage = "done" /\ captions'[call.old].video = call.video
    BY <1>1, <2>1, <2>2
  <2>4. \A d \in Captions : captions'[d].stage = "idle" => captions'[d].old = NoCaption
    BY <1>1 DEF StreamInv, CaptionsDone
  <2>5. \A d \in Captions : captions'[d].old \in Captions =>
          captions'[captions'[d].old].stage = "done" /\ captions'[captions'[d].old].video = captions'[d].video
    BY <1>1, <2>2, <2>3
  <2>. QED  BY <2>1, <2>4, <2>5 DEF CaptionsDone
<1>5. CaptionsRun'
  <2>1. ASSUME NEW d \in Captions, captions'[d].stage = "writing"  PROVE captions'[d].old \notin streamBlobs'
    <3>1. CASE d = c
      BY <1>1, <2>1, <3>1
    <3>2. CASE d # c
      <4>1. captions'[d].old = captions[d].old /\ captions[d].old \notin streamBlobs /\ captions[d].old # c
        BY <1>1, <1>2, <2>1, <3>2 DEF StreamInv, CaptionsRun
      <4>. QED  BY <4>1
    <3>. QED  BY <3>1, <3>2
  <2>2. ASSUME NEW d \in Captions, captions'[d].stage \in {"clearing", "writing"}, captionRows[captions'[d].video] \in Captions
        PROVE  captionRows[captions'[d].video] \in {captions'[d].old} \cup overlapping'
    <3>1. CASE d = c /\ captions[c].stage = "idle"
      BY <1>1, <2>2, <3>1
    <3>2. CASE d = c /\ captions[c].stage # "idle"
      BY <1>1, <2>2, <3>2 DEF StreamInv, CaptionsRun
    <3>3. CASE d # c
      BY <1>1, <2>2, <3>3 DEF StreamInv, CaptionsRun
    <3>. QED  BY <3>1, <3>2, <3>3
  <2>3. ASSUME NEW d \in Captions, NEW e \in Captions,
               captions'[d].stage \in {"clearing", "writing"}, captions'[e].stage \in {"clearing", "writing"},
               captions'[d].video = captions'[e].video, d # e
        PROVE  d \in overlapping'
    <3>1. CASE captions[c].stage = "idle" /\ c \in {d, e}
      BY <1>1, <2>3, <3>1
    <3>2. CASE captions[c].stage # "idle" \/ c \notin {d, e}
      BY <1>1, <2>3, <3>2 DEF StreamInv, CaptionsRun
    <3>. QED  BY <3>1, <3>2
  <2>. QED  BY <2>1, <2>2, <2>3 DEF CaptionsRun
<1>6. DoomedForGood'
  BY <1>1, <1>2 DEF StreamInv, DoomedForGood
<1>7. RowsOfVideos'
  BY DEF StreamInv, TablesMatchBlobs, RowsOfVideos
<1>8. \A b \in Blobs : HasRow(b)' <=> HasRow(b)
  BY DEF HasRow
<1>9. RowsHaveTheirBlobs'
  <2>. SUFFICES ASSUME NEW b \in Blobs, b \notin streamBlobs', HasRow(b)'
                PROVE  \E d \in Captions : captions'[d].old = b /\ (captions'[d].stage # "done" \/ d \in overlapping')
    BY DEF RowsHaveTheirBlobs
  <2>1. CASE call.old = b
    BY <1>1, <2>1
  <2>2. CASE call.old # b
    <3>1. b \notin streamBlobs /\ HasRow(b)
      BY <1>8, <2>2
    <3>2. PICK d \in Captions : captions[d].old = b /\ (captions[d].stage # "done" \/ d \in overlapping)
      BY <3>1 DEF StreamInv, TablesMatchBlobs, RowsHaveTheirBlobs
    <3>3. captions[c].stage = "idle" => captions[c].old = NoCaption
      BY DEF StreamInv, CaptionsDone
    <3>4. d # c
      BY <2>2, <3>2, <3>3, NamesDiffer
    <3>. QED  BY <1>1, <3>2, <3>4
  <2>. QED  BY <2>1, <2>2
<1>10. BlobsHaveTheirRows'
  <2>. SUFFICES ASSUME NEW b \in streamBlobs', ~HasRow(b)'
                PROVE  \/ b \in doomed \cup abandoned
                       \/ b \in Works /\ works[b] = "failed"
                       \/ b \in Captions /\ (captions'[b].stage = "failed" \/ b \in overlapping')
    BY DEF BlobsHaveTheirRows
  <2>1. b \in Blobs
    BY <1>3 DEF StreamTypeOK
  <2>2. CASE b = c /\ call.stage = "failed"
    BY <1>1, <2>2
  <2>3. CASE ~(b = c /\ call.stage = "failed")
    <3>1. b \in streamBlobs /\ ~HasRow(b)
      BY <1>8, <2>1, <2>3
    <3>2. \/ b \in doomed \cup abandoned
          \/ b \in Works /\ works[b] = "failed"
          \/ b \in Captions /\ (captions[b].stage = "failed" \/ b \in overlapping)
      BY <3>1 DEF StreamInv, TablesMatchBlobs, BlobsHaveTheirRows
    <3>. QED  BY <1>1, <3>2
  <2>. QED  BY <2>2, <2>3
<1>. QED  BY <1>3, <1>4, <1>5, <1>6, <1>7, <1>9, <1>10 DEF StreamInv, TablesMatchBlobs

LEMMA CaptionPreserves ==
  ASSUME StreamInv, NEW c \in Captions,
         \/ CaptionBegins(c) \/ OldBlobDeleted(c) \/ OldBlobDeleteFails(c)
         \/ CaptionWritten(c) \/ CaptionFails(c)
  PROVE  StreamInv'
<1>. DEFINE v == captions[c].video
            old == captions[c].old
<1>0. StreamTypeOK
  BY DEF StreamInv
<1>1. v \in Videos /\ old \in Captions \cup {NoCaption, NoBlob} /\ captionRows[v] \in Captions \cup {NoCaption, NoBlob}
  BY <1>0, CallFields DEF StreamTypeOK
<1>2. "clearing" \in CaptionStages /\ "writing" \in CaptionStages /\ "failed" \in CaptionStages /\ overlapping \subseteq Captions
  BY <1>0 DEF CaptionStages, StreamTypeOK
<1>3. streamBlobs \ {NoCaption} = streamBlobs
  BY <1>0, NamesDiffer DEF StreamTypeOK
<1>4. CASE CaptionBegins(c)
  <2>1. captions[c].stage = "idle" /\ old = NoCaption /\ UNCHANGED <<works, downloads, streamBlobs, doomed, abandoned>>
    BY <1>4 DEF CaptionBegins, StreamInv, CaptionsDone
  <2>2. /\ overlapping' \in SUBSET Captions /\ overlapping \subseteq overlapping'
        /\ \A d \in Captions :
             captions[d].video = v /\ captions[d].stage \in {"clearing", "writing"} => {c, d} \subseteq overlapping'
    BY <1>2, <1>4 DEF CaptionBegins, Running
  <2>3. CASE captionRows[v] \in Captions
    <3>. DEFINE call == [video |-> v, generated |-> captions[c].generated, stage |-> "clearing", old |-> captionRows[v]]
    <3>1. captions' = [captions EXCEPT ![c] = call] /\ UNCHANGED captionRows
      BY <1>4, <2>3 DEF CaptionBegins
    <3>2. call \in CaptionCalls /\ call.stage = "clearing" /\ call.old = captionRows[v] /\ call.video = v
      BY <1>0, <1>1, <1>2 DEF CaptionCalls, StreamTypeOK
    <3>. HIDE DEF call
    <3>. QED  BY <2>1, <2>2, <3>1, <3>2, CallGoesOn
  <2>4. CASE captionRows[v] \notin Captions /\ ~captions[c].generated
    <3>1. captions' = [captions EXCEPT ![c].stage = "writing"] /\ UNCHANGED captionRows
      BY <1>4, <2>4 DEF CaptionBegins
    <3>2. PICK call \in CaptionCalls :
            /\ call.stage = "writing" /\ call.old = old /\ call.video = v
            /\ captions' = [captions EXCEPT ![c] = call]
      BY <1>0, <1>2, <3>1, StageStep
    <3>. QED  BY <1>3, <2>1, <2>2, <2>4, <3>1, <3>2, CallGoesOn
  <2>5. CASE captionRows[v] \notin Captions /\ captions[c].generated
    <3>1. Upsert(c, NoBlob)
      BY <1>4, <2>5 DEF CaptionBegins
    <3>. QED  BY <1>3, <2>1, <2>2, <2>5, <3>1, UpsertPreserves, NamesDiffer
  <2>. QED  BY <2>3, <2>4, <2>5
<1>5. CASE OldBlobDeleted(c)
  <2>1. /\ captions[c].stage = "clearing" /\ streamBlobs' = streamBlobs \ {old}
        /\ UNCHANGED <<works, downloads, doomed, abandoned, overlapping>>
    BY <1>5 DEF OldBlobDeleted
  <2>2. CASE captions[c].generated
    <3>1. Upsert(c, NoBlob)
      BY <1>5, <2>2 DEF OldBlobDeleted
    <3>. QED  BY <1>2, <2>1, <3>1, UpsertPreserves, NamesDiffer
  <2>3. CASE ~captions[c].generated
    <3>1. captions' = [captions EXCEPT ![c].stage = "writing"] /\ UNCHANGED captionRows
      BY <1>5, <2>3 DEF OldBlobDeleted
    <3>2. PICK call \in CaptionCalls :
            /\ call.stage = "writing" /\ call.old = old /\ call.video = v
            /\ captions' = [captions EXCEPT ![c] = call]
      BY <1>0, <1>2, <3>1, StageStep
    <3>. QED  BY <1>2, <2>1, <3>1, <3>2, CallGoesOn
  <2>. QED  BY <2>2, <2>3
<1>6. CASE CaptionWritten(c)
  <2>1. /\ captions[c].stage = "writing" /\ streamBlobs' = streamBlobs \cup {c} /\ Upsert(c, c)
        /\ UNCHANGED <<works, downloads, doomed, abandoned, overlapping>>
    BY <1>6 DEF CaptionWritten
  <2>. QED  BY <1>2, <2>1, UpsertPreserves, NamesDiffer
<1>7. CASE CaptionFails(c) \/ OldBlobDeleteFails(c)
  <2>1. /\ captions[c].stage \in {"clearing", "writing"}
        /\ streamBlobs' \in {streamBlobs, streamBlobs \cup {c}, streamBlobs \ {old}}
        /\ captions' = [captions EXCEPT ![c].stage = "failed"]
        /\ UNCHANGED <<works, captionRows, downloads, doomed, abandoned, overlapping>>
    BY <1>7 DEF CaptionFails, OldBlobDeleteFails
  <2>2. PICK call \in CaptionCalls :
          /\ call.stage = "failed" /\ call.old = old /\ call.video = v
          /\ captions' = [captions EXCEPT ![c] = call]
    BY <1>0, <1>2, <2>1, StageStep
  <2>. QED  BY <1>2, <2>1, <2>2, CallGoesOn
<1>. QED  BY <1>4, <1>5, <1>6, <1>7

\* A crash ends the calls: their failing accounts for what they leave.
LEMMA StreamCrashPreserves == ASSUME StreamInv, StreamCrash PROVE StreamInv'
<1>0. StreamTypeOK
  BY DEF StreamInv
<1>1. /\ \A w \in Works : works'[w] = IF works[w] = "writing" THEN "failed" ELSE works[w]
      /\ works' \in [Works -> {"none", "writing", "stored", "deleted", "failed"}]
      /\ abandoned' = abandoned \cup doomed /\ doomed' = {}
      /\ UNCHANGED <<captionRows, downloads, streamBlobs, overlapping>>
  BY <1>0 DEF StreamCrash, StreamTypeOK
<1>2. /\ captions' \in [Captions -> CaptionCalls]
      /\ \A c \in Captions :
           /\ captions'[c].old = captions[c].old /\ captions'[c].video = captions[c].video
           /\ captions'[c].stage = IF captions[c].stage \in {"clearing", "writing"} THEN "failed" ELSE captions[c].stage
  <2>1. captions \in [Captions -> CaptionCalls]
    BY <1>0 DEF StreamTypeOK, CaptionCalls
  <2>2. ASSUME NEW c \in Captions
        PROVE  /\ [captions[c] EXCEPT !.stage = "failed"] \in CaptionCalls
               /\ [captions[c] EXCEPT !.stage = "failed"].stage = "failed"
               /\ [captions[c] EXCEPT !.stage = "failed"].old = captions[c].old
               /\ [captions[c] EXCEPT !.stage = "failed"].video = captions[c].video
    BY <2>1 DEF CaptionCalls, CaptionStages
  <2>3. captions' = [c \in Captions |->
          IF captions[c].stage \in {"clearing", "writing"} THEN [captions[c] EXCEPT !.stage = "failed"] ELSE captions[c]]
    BY DEF StreamCrash
  <2>. QED  BY <2>1, <2>2, <2>3
<1>3. StreamTypeOK'
  BY <1>0, <1>1, <1>2 DEF StreamTypeOK, CaptionCalls
<1>4. CaptionsDone'
  BY <1>1, <1>2 DEF StreamInv, CaptionsDone
<1>5. CaptionsRun'
  BY <1>1, <1>2 DEF CaptionsRun
<1>6. DoomedForGood'
  BY <1>1, <1>2 DEF StreamInv, DoomedForGood
<1>7. RowsOfVideos'
  BY <1>1, CaptionsAssumption DEF StreamInv, TablesMatchBlobs, RowsOfVideos, Works
<1>8. \A b \in Blobs : HasRow(b)' <=> HasRow(b)
  BY <1>1 DEF HasRow
<1>9. RowsHaveTheirBlobs'
  BY <1>1, <1>2, <1>8 DEF StreamInv, TablesMatchBlobs, RowsHaveTheirBlobs
<1>10. BlobsHaveTheirRows'
  BY <1>0, <1>1, <1>2, <1>8 DEF StreamInv, TablesMatchBlobs, BlobsHaveTheirRows, StreamTypeOK
<1>. QED  BY <1>3, <1>4, <1>5, <1>6, <1>7, <1>9, <1>10 DEF StreamInv, TablesMatchBlobs

LEMMA StreamNextPreserves == StreamInv /\ [StreamNext]_streamVars => StreamInv'
<1>. SUFFICES ASSUME StreamInv, [StreamNext]_streamVars PROVE StreamInv'
  OBVIOUS
<1>1. CASE UNCHANGED streamVars
  <2>1. StreamTypeOK' /\ CaptionsDone' /\ CaptionsRun' /\ DoomedForGood'
    BY <1>1 DEF StreamInv, streamVars, StreamTypeOK, CaptionsDone, CaptionsRun, DoomedForGood
  <2>2. RowsOfVideos' /\ RowsHaveTheirBlobs' /\ BlobsHaveTheirRows'
    BY <1>1 DEF StreamInv, streamVars, TablesMatchBlobs, RowsOfVideos, RowsHaveTheirBlobs, BlobsHaveTheirRows, HasRow
  <2>. QED  BY <2>1, <2>2 DEF StreamInv, TablesMatchBlobs
<1>2. ASSUME NEW w \in Works, WorkBegins(w) \/ WorkStored(w) \/ WorkFails(w) \/ DeleteWork(w)  PROVE StreamInv'
  BY <1>2, WorkPreserves, RowsGoPreserves
<1>3. ASSUME NEW v \in Videos, GenerateDownload(v) \/ DeleteDownload(v) \/ DeleteCaption(v)  PROVE StreamInv'
  <2>1. v \in Works
    BY DEF Works
  <2>. QED  BY <1>3, <2>1, DownloadPreserves, RowsGoPreserves
<1>. QED  BY <1>1, <1>2, <1>3, DoomedDeletedPreserves, CaptionPreserves, StreamCrashPreserves DEF StreamNext

\* The inductive invariant holds of every execution of the store's calls.
THEOREM StreamInvariance == StreamSpec => []StreamInv
<1>. QED  BY StreamInitInv, StreamNextPreserves, PTL DEF StreamSpec

\* Every table and every call of the store keeps its type.
THEOREM StreamTypeCorrect == StreamSpec => []StreamTypeOK
<1>1. StreamInv => StreamTypeOK
  BY DEF StreamInv
<1>. QED  BY <1>1, StreamInvariance, PTL

\* Rows have their blobs and blobs their rows, but for what calls that overlapped,
\* failed or were ended by a crash account for: whatever order the calls take.
THEOREM TablesAndBlobsAgree == StreamSpec => []TablesMatchBlobs
<1>1. StreamInv => TablesMatchBlobs
  BY DEF StreamInv
<1>. QED  BY <1>1, StreamInvariance, PTL

-----------------------------------------------------------------------------
(* Following the cursors of a listing *)

\* What may follow a key or prefix g that was listed
Follows(g, h) ==
  \/ g < h
  \/ g = h /\ g \in Prefixes /\ \E k \in arrived : GroupOf[k] = g

PagesInv ==
  /\ ListingTypeOK /\ IsFiniteSet(present)
  /\ stayed \subseteq present
  /\ \A k \in stayed :
       GroupOf[k] \in Range(pager.listed) \/ (pager.stage = "paging" /\ k > pager.after)
  /\ \A i, j \in DOMAIN pager.listed : i < j => Follows(pager.listed[i], pager.listed[j])
  /\ pager.stage = "paging" /\ Range(pager.listed) # {} =>
       /\ pager.after \in ListedKeys
       /\ \A g \in Range(pager.listed) : g <= GroupOf[pager.after]
       /\ \A k \in present : k > pager.after /\ GroupOf[k] = GroupOf[pager.after] => k \in arrived

\* Groups are in the order of their keys.
LEMMA GroupsInOrder ==
  ASSUME NEW j \in ListedKeys, NEW k \in ListedKeys, j < k
  PROVE  /\ GroupOf[j] < GroupOf[k] \/ GroupOf[j] = GroupOf[k]
         /\ GroupOf[j] = GroupOf[k] => GroupOf[k] \in Prefixes
<1>1. /\ j \in Nat /\ k \in Nat /\ GroupOf[j] \in ListedKeys /\ GroupOf[k] \in ListedKeys
      /\ GroupOf[j] \in Nat /\ GroupOf[k] \in Nat /\ GroupOf[j] <= j /\ GroupOf[k] <= k
      /\ GroupOf[GroupOf[k]] = GroupOf[k]
  BY ListedKeysAssumption
<1>2. GroupOf[j] = GroupOf[k] => GroupOf[k] \in Prefixes
  <2>1. GroupOf[j] # j => GroupOf[j] \in Prefixes
    BY ListedKeysAssumption
  <2>2. GroupOf[k] # k => GroupOf[k] \in Prefixes
    BY ListedKeysAssumption
  <2>. QED  BY <1>1, <2>1, <2>2
<1>3. CASE GroupOf[k] <= j
  <2>1. GroupOf[k] = j \/ GroupOf[k] < j
    BY <1>1, <1>3
  <2>2. ASSUME GroupOf[k] < j  PROVE GroupOf[j] = GroupOf[k]
    <3>1. \A g, h, l \in ListedKeys : g < h /\ h < l /\ GroupOf[g] = GroupOf[l] => GroupOf[h] = GroupOf[g]
      BY ListedKeysAssumption
    <3>2. GroupOf[j] = GroupOf[GroupOf[k]]
      BY <1>1, <2>2, <3>1
    <3>. QED  BY <1>1, <3>2
  <2>. QED  BY <1>1, <1>2, <2>1, <2>2
<1>4. CASE ~(GroupOf[k] <= j)
  BY <1>1, <1>2, <1>4
<1>. QED  BY <1>3, <1>4

LEMMA InitPages == ListingInit => PagesInv
<1>. SUFFICES ASSUME ListingInit PROVE PagesInv
  OBVIOUS
<1>1. /\ pager = [stage |-> "paging", after |-> StartAfter, listed |-> <<>>]
      /\ <<>> \in Seq(ListedKeys) /\ stayed = {k \in present : k > StartAfter} /\ arrived = {}
      /\ present \subseteq ListedKeys /\ IsFiniteSet(present)
  BY DEF ListingInit
<1>2. pager.listed = <<>> /\ Range(<<>>) = {} /\ DOMAIN <<>> = {} /\ pager.after = StartAfter /\ pager.stage = "paging"
  BY <1>1 DEF Range
<1>3. ListingTypeOK
  BY <1>1, LimitAssumption DEF ListingTypeOK
<1>. QED  BY <1>1, <1>2, <1>3 DEF PagesInv

\* Other callers
LEMMA KeysChange ==
  ASSUME PagesInv, NEW k \in ListedKeys, KeyPut(k) \/ KeyDeleted(k)
  PROVE  PagesInv'
<1>1. /\ pager' = pager /\ arrived \subseteq arrived'
      /\ present' \subseteq present \cup {k} /\ present' \ present \subseteq arrived'
  BY DEF KeyPut, KeyDeleted
<1>2. ListingTypeOK'
  BY DEF PagesInv, ListingTypeOK, KeyPut, KeyDeleted
<1>3. IsFiniteSet(present')
  <2>1. IsFiniteSet(present \cup {k})
    BY FS_AddElement DEF PagesInv
  <2>. QED  BY <1>1, <2>1, FS_Subset
<1>4. stayed' \subseteq present'
  BY DEF PagesInv, KeyPut, KeyDeleted
<1>5. ASSUME NEW l \in stayed'
      PROVE  GroupOf[l] \in Range(pager'.listed) \/ (pager'.stage = "paging" /\ l > pager'.after)
  BY <1>1 DEF PagesInv, KeyPut, KeyDeleted
<1>6. \A i, j \in DOMAIN pager'.listed : i < j => Follows(pager.listed[i], pager.listed[j])'
  <2>. TAKE i, j \in DOMAIN pager'.listed
  <2>1. i < j => Follows(pager.listed[i], pager.listed[j])
    BY <1>1 DEF PagesInv
  <2>. QED  BY <1>1, <2>1 DEF Follows
<1>7. ASSUME pager'.stage = "paging", Range(pager'.listed) # {}
      PROVE  /\ pager'.after \in ListedKeys
             /\ \A g \in Range(pager'.listed) : g <= GroupOf[pager'.after]
             /\ \A l \in present' : l > pager'.after /\ GroupOf[l] = GroupOf[pager'.after] => l \in arrived'
  <2>1. /\ pager.after \in ListedKeys
        /\ \A g \in Range(pager.listed) : g <= GroupOf[pager.after]
        /\ \A l \in present : l > pager.after /\ GroupOf[l] = GroupOf[pager.after] => l \in arrived
    BY <1>1, <1>7 DEF PagesInv
  <2>. QED  BY <1>1, <2>1
<1>. QED  BY <1>2, <1>3, <1>4, <1>5, <1>6, <1>7 DEF PagesInv

\* The next page, as a set of rows
PageEffect(rows, stage) ==
  /\ pager.stage = "paging" /\ UNCHANGED <<present, stayed, arrived>>
  /\ rows \subseteq PageRows /\ IsFiniteSet(rows)
  /\ \A k \in rows, j \in PageRows : j < k => j \in rows
  /\ pager'.listed = pager.listed \o [i \in 1..Cardinality(rows) |-> GroupOf[Ascending(rows)[i]]]
  /\ pager'.stage = stage
  /\ stage = "done" => rows = PageRows
  /\ stage = "paging" => pager'.after \in rows /\ \A k \in rows : k <= pager'.after
  /\ pager' \in [stage : {"paging", "done"}, after : Nat, listed : {pager'.listed}]

LEMMA PageFacts ==
  ASSUME PagesInv, NextPage
  PROVE  \E rows \in SUBSET ListedKeys, stage \in {"paging", "done"} : PageEffect(rows, stage)
<1>. DEFINE queried == FirstRows(PageRows, PageLimit + 1)
            rows == FirstRows(queried, PageLimit)
            hasMoreRows == Cardinality(queried) = PageLimit + 1
            stage == IF hasMoreRows THEN "paging" ELSE "done"
<1>1. /\ PageRows \in SUBSET Nat /\ IsFiniteSet(PageRows) /\ PageRows \subseteq ListedKeys
      /\ PageLimit \in Nat \ {0} /\ PageLimit + 1 \in Nat
  <2>1. PageRows \in SUBSET present /\ IsFiniteSet(present) /\ present \subseteq ListedKeys
    BY DEF PageRows, PagesInv, ListingTypeOK
  <2>2. PageRows \subseteq ListedKeys /\ IsFiniteSet(PageRows)
    BY <2>1, FS_Subset
  <2>. QED  BY <2>2, ListedKeysAssumption, LimitAssumption
<1>2. \A S, n : FirstRows(S, n) = FirstKeys(S, n)
  BY DEF FirstRows, FirstKeys
<1>3. /\ queried \subseteq PageRows /\ IsFiniteSet(queried)
      /\ \A k \in queried, j \in PageRows : j < k => j \in queried
      /\ Cardinality(queried) = IF Cardinality(PageRows) <= PageLimit + 1 THEN Cardinality(PageRows) ELSE PageLimit + 1
      /\ Cardinality(PageRows) <= PageLimit + 1 => queried = PageRows
  BY <1>1, <1>2, FirstMembers
<1>. HIDE DEF queried
<1>4. /\ rows \subseteq queried /\ IsFiniteSet(rows)
      /\ \A k \in rows, j \in queried : j < k => j \in rows
      /\ Cardinality(rows) = IF Cardinality(queried) <= PageLimit THEN Cardinality(queried) ELSE PageLimit
      /\ Cardinality(queried) <= PageLimit => rows = queried
  <2>1. queried \in SUBSET Nat
    BY <1>1, <1>3
  <2>. QED  BY <1>1, <1>2, <1>3, <2>1, FirstMembers
<1>5. /\ pager.stage = "paging" /\ UNCHANGED <<present, stayed, arrived>>
      /\ pager' = [stage  |-> stage,
                   after  |-> IF hasMoreRows THEN LastKey(rows) ELSE pager.after,
                   listed |-> pager.listed \o [i \in 1..Cardinality(rows) |-> GroupOf[InKeyOrder(rows)[i]]]]
  BY DEF NextPage, queried
<1>6. InKeyOrder(rows) = Ascending(rows)
  BY DEF InKeyOrder, Ascending
<1>. HIDE DEF rows
<1>7. Cardinality(PageRows) \in Nat /\ Cardinality(queried) \in Nat
  BY <1>1, <1>3, FS_CardinalityType
<1>8. ASSUME ~hasMoreRows  PROVE rows = PageRows
  <2>1. Cardinality(queried) <= PageLimit /\ Cardinality(PageRows) <= PageLimit + 1
    BY <1>1, <1>3, <1>7, <1>8
  <2>. QED  BY <1>3, <1>4, <2>1
<1>9. ASSUME hasMoreRows  PROVE LastKey(rows) \in rows /\ \A k \in rows : k <= LastKey(rows)
  <2>1. Cardinality(rows) # 0
    BY <1>1, <1>4, <1>7, <1>9
  <2>2. rows # {} /\ rows \in SUBSET Nat
    BY <1>1, <1>3, <1>4, <2>1, FS_EmptySet
  <2>3. \E k \in rows : \A j \in rows : j <= k
    BY <1>4, <2>2, LastMember
  <2>. QED  BY <2>3 DEF LastKey
<1>10. rows \subseteq PageRows /\ \A k \in rows, j \in PageRows : j < k => j \in rows
  BY <1>3, <1>4
<1>11. pager' \in [stage : {"paging", "done"}, after : Nat, listed : {pager'.listed}]
  <2>1. pager.after \in Nat
    BY DEF PagesInv, ListingTypeOK
  <2>2. hasMoreRows => LastKey(rows) \in Nat
    BY <1>1, <1>9, <1>10
  <2>. QED  BY <1>5, <2>1, <2>2
<1>12. PageEffect(rows, stage)
  BY <1>4, <1>5, <1>6, <1>8, <1>9, <1>10, <1>11 DEF PageEffect
<1>. QED  BY <1>1, <1>10, <1>12

\* A page keeps the invariant
LEMMA PageLists ==
  ASSUME PagesInv, NEW rows \in SUBSET ListedKeys, NEW stage \in {"paging", "done"}, PageEffect(rows, stage)
  PROVE  PagesInv'
<1>. DEFINE before == pager.listed
            asc == Ascending(rows)
            n == Cardinality(rows)
            page == [i \in 1..n |-> GroupOf[asc[i]]]
            R == {r \in ListedKeys \X ListedKeys : Follows(r[1], r[2])}
<1>1. /\ pager.stage = "paging" /\ present' = present /\ stayed' = stayed /\ arrived' = arrived
      /\ rows \subseteq PageRows /\ IsFiniteSet(rows)
      /\ pager'.listed = before \o page /\ pager'.stage = stage
      /\ stage = "done" => rows = PageRows
      /\ stage = "paging" => pager'.after \in rows /\ \A k \in rows : k <= pager'.after
  BY DEF PageEffect
<1>2. \A k \in rows, j \in PageRows : j < k => j \in rows
  BY DEF PageEffect
<1>3. /\ n \in Nat /\ asc \in [1..n -> rows] /\ Range(asc) = rows
      /\ \A i, j \in 1..n : i < j => asc[i] < asc[j]
  <2>1. rows \in SUBSET Nat
    BY ListedKeysAssumption
  <2>2. /\ asc \in Seq(rows) /\ Len(asc) = n /\ Range(asc) = rows
        /\ \A i, j \in DOMAIN asc : i < j => asc[i] < asc[j]
    BY <1>1, <2>1, InOrder
  <2>3. n \in Nat
    BY <1>1, FS_CardinalityType
  <2>. HIDE DEF asc, n
  <2>. QED  BY <2>2, <2>3
<1>. HIDE DEF asc, n
<1>4. /\ \A k \in ListedKeys : GroupOf[k] \in ListedKeys /\ k \in Nat
      /\ page \in [1..n -> ListedKeys]
      /\ Range(page) = {GroupOf[k] : k \in rows}
  <2>1. \A k \in ListedKeys : GroupOf[k] \in ListedKeys /\ k \in Nat
    BY ListedKeysAssumption
  <2>2. page \in [1..n -> ListedKeys]
    BY <1>3, <2>1
  <2>3. Range(page) \subseteq {GroupOf[k] : k \in rows}
    BY <1>3 DEF Range
  <2>4. ASSUME NEW k \in rows  PROVE GroupOf[k] \in Range(page)
    <3>1. PICK i \in 1..n : asc[i] = k
      BY <1>3 DEF Range
    <3>2. page[i] = GroupOf[k]
      BY <3>1
    <3>. QED  BY <2>2, <3>2 DEF Range
  <2>. QED  BY <2>1, <2>2, <2>3, <2>4
<1>5. \A i \in 1..n : page[i] = GroupOf[asc[i]]
  OBVIOUS
<1>6. page \in Seq(ListedKeys) /\ DOMAIN page = 1..n
  BY <1>3, <1>4
<1>. HIDE DEF page
<1>7. before \in Seq(ListedKeys) /\ pager.after \in Nat /\ present \subseteq ListedKeys
      /\ stayed \subseteq present /\ IsFiniteSet(present)
  BY DEF PagesInv, ListingTypeOK
<1>8. \A k \in PageRows : k \in present /\ k > pager.after /\ \A j \in present : GroupOf[j] = GroupOf[k] => j <= k
  BY DEF PageRows
<1>9. \A g \in Range(before) : g \in ListedKeys
  BY <1>7 DEF Range
<1>10. ASSUME NEW g \in Range(before), NEW k \in rows
       PROVE  g \in ListedKeys /\ g <= GroupOf[k] /\ Follows(g, GroupOf[k])
  <2>1. /\ pager.after \in ListedKeys /\ g <= GroupOf[pager.after]
        /\ \A l \in present : l > pager.after /\ GroupOf[l] = GroupOf[pager.after] => l \in arrived
    BY <1>1 DEF PagesInv
  <2>2. k \in present /\ k > pager.after /\ pager.after < k
    BY <1>1, <1>7, <1>8, <1>4
  <2>3. /\ GroupOf[pager.after] < GroupOf[k] \/ GroupOf[pager.after] = GroupOf[k]
        /\ GroupOf[pager.after] = GroupOf[k] => GroupOf[k] \in Prefixes
    BY <2>1, <2>2, GroupsInOrder
  <2>4. g \in Nat /\ GroupOf[pager.after] \in Nat /\ GroupOf[k] \in Nat /\ g \in ListedKeys
    BY <1>4, <1>9, <2>1
  <2>5. GroupOf[pager.after] = GroupOf[k] => k \in arrived
    BY <2>1, <2>2
  <2>. QED  BY <2>1, <2>3, <2>4, <2>5 DEF Follows
<1>11. ASSUME NEW j \in rows, NEW k \in rows, j < k  PROVE GroupOf[j] < GroupOf[k]
  <2>1. GroupOf[j] < GroupOf[k] \/ GroupOf[j] = GroupOf[k]
    BY <1>11, GroupsInOrder
  <2>2. GroupOf[j] # GroupOf[k]
    BY <1>1, <1>4, <1>8, <1>11
  <2>. QED  BY <2>1, <2>2
<1>12. /\ pager'.listed \in Seq(ListedKeys)
       /\ Range(pager'.listed) = Range(before) \cup Range(page)
       /\ \A i, j \in DOMAIN pager'.listed : i < j => <<pager'.listed[i], pager'.listed[j]>> \in R
  <2>1. \A i, j \in DOMAIN before : i < j => <<before[i], before[j]>> \in R
    <3>. TAKE i, j \in DOMAIN before
    <3>1. before[i] \in ListedKeys /\ before[j] \in ListedKeys
      BY <1>7
    <3>2. i < j => Follows(before[i], before[j])
      BY DEF PagesInv
    <3>. QED  BY <3>1, <3>2
  <2>2. \A i, j \in DOMAIN page : i < j => <<page[i], page[j]>> \in R
    <3>. TAKE i, j \in DOMAIN page
    <3>1. page[i] \in ListedKeys /\ page[j] \in ListedKeys
      BY <1>4, <1>6
    <3>2. i < j => page[i] < page[j]
      <4>1. asc[i] \in rows /\ asc[j] \in rows /\ (i < j => asc[i] < asc[j])
        BY <1>3, <1>6
      <4>. QED  BY <1>5, <1>6, <1>11, <4>1
    <3>3. i < j => Follows(page[i], page[j])
      BY <3>2 DEF Follows
    <3>. QED  BY <3>1, <3>3
  <2>3. \A i \in DOMAIN before, j \in DOMAIN page : <<before[i], page[j]>> \in R
    <3>. TAKE i \in DOMAIN before, j \in DOMAIN page
    <3>1. before[i] \in ListedKeys /\ page[j] \in ListedKeys
      BY <1>4, <1>6, <1>7
    <3>2. before[i] \in Range(before) /\ asc[j] \in rows /\ page[j] = GroupOf[asc[j]]
      BY <1>3, <1>5, <1>6 DEF Range
    <3>3. Follows(before[i], page[j])
      BY <1>10, <3>2
    <3>. QED  BY <3>1, <3>3
  <2>. HIDE DEF R
  <2>4. /\ before \o page \in Seq(ListedKeys)
        /\ Range(before \o page) = Range(before) \cup Range(page)
        /\ \A i, j \in DOMAIN (before \o page) : i < j => <<(before \o page)[i], (before \o page)[j]>> \in R
    <3>. HIDE DEF before
    <3>. QED  BY <1>6, <1>7, <2>1, <2>2, <2>3, Continues
  <2>. QED  BY <1>1, <2>4
<1>13. \A i, j \in DOMAIN pager'.listed : i < j => Follows(pager.listed[i], pager.listed[j])'
  BY <1>1, <1>12 DEF Follows
<1>14. ASSUME NEW k \in stayed
       PROVE  GroupOf[k] \in Range(pager'.listed) \/ (stage = "paging" /\ k > pager'.after)
  <2>1. GroupOf[k] \in Range(before) => GroupOf[k] \in Range(pager'.listed)
    BY <1>12
  <2>2. GroupOf[k] \in Range(before) \/ k > pager.after
    BY DEF PagesInv
  <2>3. SUFFICES ASSUME k > pager.after
                 PROVE  GroupOf[k] \in Range(page) \/ (stage = "paging" /\ k > pager'.after)
    BY <1>12, <2>1, <2>2
  <2>. DEFINE G == {j \in present : GroupOf[j] = GroupOf[k]}
  <2>4. PICK l \in G : \A j \in G : j <= l
    <3>1. G \in SUBSET Nat /\ G \subseteq present /\ k \in G
      BY <1>4, <1>7
    <3>2. IsFiniteSet(G)
      BY <1>7, <3>1, FS_Subset
    <3>. QED  BY <3>1, <3>2, LastMember
  <2>5. /\ l \in present /\ GroupOf[l] = GroupOf[k] /\ k <= l /\ l \in Nat /\ k \in Nat
        /\ k \in ListedKeys /\ l \in ListedKeys
    BY <1>4, <1>7, <2>4
  <2>6. l \in PageRows
    BY <1>7, <2>3, <2>4, <2>5 DEF PageRows
  <2>7. l \in rows => GroupOf[k] \in Range(page)
    BY <1>4, <2>5
  <2>8. CASE stage = "done"
    BY <1>1, <2>6, <2>7, <2>8
  <2>9. CASE stage = "paging" /\ ~(k > pager'.after)
    <3>1. PICK m \in rows : m = pager'.after
      BY <1>1, <2>9
    <3>2. m \in ListedKeys /\ m \in Nat /\ k <= m /\ m \in PageRows
      <4>1. m \in ListedKeys /\ m \in PageRows /\ ~(k > m)
        BY <1>1, <2>9, <3>1
      <4>. QED  BY <1>4, <2>5, <4>1
    <3>3. CASE l < m
      BY <1>2, <2>6, <2>7, <3>3
    <3>4. CASE l = m
      BY <2>7, <3>1, <3>4
    <3>5. CASE m < l /\ k = m
      BY <1>4, <3>1, <3>5
    <3>6. CASE m < l /\ k < m
      <4>1. \A g, h, i \in ListedKeys : g < h /\ h < i /\ GroupOf[g] = GroupOf[i] => GroupOf[h] = GroupOf[g]
        BY ListedKeysAssumption
      <4>2. GroupOf[m] = GroupOf[l]
        BY <2>5, <3>2, <3>6, <4>1
      <4>3. l <= m
        BY <1>8, <2>5, <3>2, <4>2
      <4>. QED  BY <2>5, <3>2, <3>6, <4>3
    <3>. QED  BY <2>5, <3>2, <3>3, <3>4, <3>5, <3>6
  <2>. QED  BY <2>8, <2>9
<1>15. ASSUME stage = "paging"
       PROVE  /\ pager'.after \in ListedKeys
              /\ \A g \in Range(pager'.listed) : g <= GroupOf[pager'.after]
              /\ \A k \in present : k > pager'.after /\ GroupOf[k] = GroupOf[pager'.after] => k \in arrived
  <2>1. PICK m \in rows : m = pager'.after /\ \A k \in rows : k <= m
    BY <1>1, <1>15
  <2>2. m \in ListedKeys /\ m \in Nat /\ m \in PageRows /\ GroupOf[m] \in Nat
    BY <1>1, <1>4
  <2>3. ASSUME NEW g \in Range(pager'.listed)  PROVE g <= GroupOf[m]
    <3>1. CASE g \in Range(before)
      BY <1>10, <3>1
    <3>2. CASE g \in Range(page)
      <4>1. PICK k \in rows : g = GroupOf[k]
        BY <1>4, <3>2
      <4>2. k = m \/ k < m
        BY <1>4, <2>1, <2>2
      <4>3. g \in Nat
        BY <1>4, <4>1
      <4>. QED  BY <1>11, <2>2, <4>1, <4>2, <4>3
    <3>. QED  BY <1>12, <3>1, <3>2
  <2>4. ASSUME NEW k \in present, k > m, GroupOf[k] = GroupOf[m]  PROVE FALSE
    BY <1>4, <1>7, <1>8, <2>2, <2>4
  <2>. QED  BY <2>1, <2>2, <2>3, <2>4
<1>16. ListingTypeOK'
  <2>1. pager' \in [stage : {"paging", "done"}, after : Nat, listed : {pager'.listed}]
    BY DEF PageEffect
  <2>2. pager' \in [stage : {"paging", "done"}, after : Nat, listed : Seq(ListedKeys)]
    BY <1>12, <2>1
  <2>. QED  BY <1>1, <2>2 DEF PagesInv, ListingTypeOK
<1>. QED  BY <1>1, <1>7, <1>13, <1>14, <1>15, <1>16 DEF PagesInv

\* The listing is always as PagesInv says.
THEOREM PagesInvariance == ListingSpec => []PagesInv
<1>1. PagesInv /\ [ListingNext]_listingVars => PagesInv'
  <2>. SUFFICES ASSUME PagesInv, [ListingNext]_listingVars PROVE PagesInv'
    OBVIOUS
  <2>1. CASE \E k \in ListedKeys : KeyPut(k) \/ KeyDeleted(k)
    BY <2>1, KeysChange
  <2>2. CASE NextPage
    BY <2>2, PageFacts, PageLists
  <2>3. CASE UNCHANGED listingVars
    BY <2>3 DEF PagesInv, ListingTypeOK, Follows, listingVars
  <2>. QED  BY <2>1, <2>2, <2>3 DEF ListingNext
<1>. QED  BY <1>1, InitPages, PTL DEF ListingSpec

\* Following the cursors of a bucket to the end gives every key that stayed, or the
\* delimited prefix it is under, in order; a prefix comes twice only for a new key.
THEOREM PageAfterPageIsComplete == ListingSpec => []PagesAreComplete
<1>1. PagesInv => PagesAreComplete
  <2>. SUFFICES ASSUME PagesInv PROVE PagesAreComplete
    OBVIOUS
  <2>1. pager.stage = "done" => {GroupOf[k] : k \in stayed} \subseteq Range(pager.listed)
    BY DEF PagesInv
  <2>2. \A i, j \in DOMAIN pager.listed : i < j => Follows(pager.listed[i], pager.listed[j])
    BY DEF PagesInv
  <2>. QED  BY <2>1, <2>2 DEF PagesAreComplete, Follows
<1>. QED  BY <1>1, PagesInvariance, PTL

\* Types of the listing.
THEOREM ListingTypeCorrect == ListingSpec => []ListingTypeOK
<1>1. PagesInv => ListingTypeOK
  BY DEF PagesInv
<1>. QED  BY <1>1, PagesInvariance, PTL

-----------------------------------------------------------------------------
(* Ranged reads *)

\* The bytes of a part
FirstByte(i) == (i - 1) * PartSize
LastByte(i) == FirstByte(i) + (IF i = object.parts THEN object.last ELSE PartSize) - 1

Sizes == object \in [parts : 1..MaxParts, last : 1..PartSize]

\* The positions of a slice of a response
SliceFirst(slice) == (slice.part - 1) * PartSize + slice.start
SliceLast(slice) == (slice.part - 1) * PartSize + slice.end

Slots == [part : Nat, start : Nat, end : Nat]

\* The slices of a range are next to each other and make it up.
MakeUp(slices, first, last) ==
  /\ slices \in Seq(Slots)
  /\ \A i \in 1..Len(slices) : SliceFirst(slices[i]) <= SliceLast(slices[i])
  /\ \A i, j \in 1..Len(slices) : j = i + 1 => SliceFirst(slices[j]) = SliceLast(slices[i]) + 1
  /\ IF slices = <<>> THEN last + 1 = first
     ELSE SliceFirst(slices[1]) = first /\ SliceLast(slices[Len(slices)]) = last

\* A range has been read: what was sent, and what is left, make it up.
RangeInv ==
  /\ Sizes
  /\ request \in HeaderRequests \cup OptionRequests
  /\ response \in [stage : {"asked", "invalid", "sending", "sent"}, length : Int, slices : Seq(Slots), sent : Seq(Nat)]
  /\ response.stage = "invalid" => InvalidRange
  /\ response.stage \in {"sending", "sent"} =>
       /\ ~InvalidRange
       /\ response.length = AskedRange.end - AskedRange.start + 1
       /\ \A i \in 1..Len(response.sent) : response.sent[i] = AskedRange.start + i - 1
       /\ MakeUp(response.slices, AskedRange.start + Len(response.sent), AskedRange.end)
  /\ response.stage = "sent" => response.slices = <<>>

LEMMA PartBytes ==
  ASSUME Sizes
  PROVE  /\ object.parts \in Nat \ {0} /\ object.last \in 1..PartSize /\ PartSize \in Nat \ {0}
         /\ \A i \in 1..object.parts : FirstByte(i) \in Nat /\ LastByte(i) \in Nat /\ FirstByte(i) <= LastByte(i)
         /\ \A i, j \in 1..object.parts : i < j => LastByte(i) < FirstByte(j)
         /\ \A i, j \in 1..object.parts : j = i + 1 => LastByte(i) + 1 = FirstByte(j)
         /\ FirstByte(1) = 0 /\ LastByte(object.parts) = Size - 1 /\ Size \in Nat \ {0}
<1>1. /\ object.parts \in Nat \ {0} /\ object.last \in 1..PartSize /\ PartSize \in Nat \ {0}
      /\ object.last \in Nat \ {0} /\ object.last <= PartSize
  BY PartSizeAssumption DEF Sizes
<1>2. PICK P \in Nat \ {0} : P = PartSize
  BY <1>1
<1>3. \A m \in Nat : m * P \in Nat
  OBVIOUS
<1>4. \A m, d \in Nat : (m + d + 1) * P = m * P + d * P + P
  OBVIOUS
<1>5. \A i \in Nat \ {0} : FirstByte(i) \in Nat
  BY <1>2, <1>3 DEF FirstByte
<1>6. \A i \in Nat : FirstByte(i + 1) = FirstByte(i) + P
  <2>. TAKE i \in Nat
  <2>1. ((i + 1) - 1) * P = (i - 1) * P + P
    OBVIOUS
  <2>. QED  BY <1>2, <2>1 DEF FirstByte
<1>7. \A i, j \in Nat \ {0} : i < j => FirstByte(i) + P <= FirstByte(j)
  <2>. SUFFICES ASSUME NEW i \in Nat \ {0}, NEW j \in Nat \ {0}, i < j  PROVE FirstByte(i) + P <= FirstByte(j)
    OBVIOUS
  <2>1. PICK m \in Nat, d \in Nat : m = i - 1 /\ d = j - i - 1
    OBVIOUS
  <2>2. j - 1 = m + d + 1
    BY <2>1
  <2>3. FirstByte(j) = m * P + d * P + P /\ FirstByte(i) = m * P
    BY <1>2, <1>4, <2>1, <2>2 DEF FirstByte
  <2>4. m * P \in Nat /\ d * P \in Nat
    BY <1>3
  <2>. QED  BY <2>3, <2>4
<1>8. FirstByte(1) = 0 /\ Size = FirstByte(object.parts) + object.last
  BY <1>1, <1>2 DEF FirstByte, Size
<1>9. \A i \in 1..object.parts : i \in Nat \ {0} /\ FirstByte(i) \in Nat /\ LastByte(i) \in Nat /\ FirstByte(i) <= LastByte(i)
        /\ LastByte(i) < FirstByte(i) + P
  BY <1>1, <1>2, <1>5 DEF LastByte
<1>10. ASSUME NEW i \in 1..object.parts, NEW j \in 1..object.parts, i < j  PROVE LastByte(i) < FirstByte(j)
  BY <1>7, <1>9, <1>10
<1>11. ASSUME NEW i \in 1..object.parts, NEW j \in 1..object.parts, j = i + 1  PROVE LastByte(i) + 1 = FirstByte(j)
  <2>1. i # object.parts /\ LastByte(i) = FirstByte(i) + P - 1
    BY <1>1, <1>2, <1>11 DEF LastByte
  <2>2. FirstByte(j) = FirstByte(i) + P
    BY <1>6, <1>11
  <2>. QED  BY <1>9, <2>1, <2>2
<1>12. LastByte(object.parts) = Size - 1 /\ Size \in Nat \ {0}
  BY <1>1, <1>5, <1>8 DEF LastByte
<1>. QED  BY <1>1, <1>8, <1>9, <1>10, <1>11, <1>12

\* Each byte is in a part.
LEMMA PartOfByte ==
  ASSUME Sizes, NEW b \in 0..(Size - 1)
  PROVE  \E i \in 1..object.parts : FirstByte(i) <= b /\ b <= LastByte(i)
<1>. DEFINE S == {i \in 1..object.parts : FirstByte(i) <= b}
<1>1. S \in SUBSET Nat /\ IsFiniteSet(S) /\ S # {}
  <2>1. S \in SUBSET (1..object.parts) /\ 1 \in S
    BY PartBytes
  <2>2. IsFiniteSet(1..object.parts)
    <3>1. 1 \in Int /\ object.parts \in Int
      BY PartBytes
    <3>. QED  BY <3>1, FS_Interval
  <2>3. IsFiniteSet(S)
    BY <2>1, <2>2, FS_Subset
  <2>4. \A i \in 1..object.parts : i \in Nat
    BY PartBytes
  <2>. QED  BY <2>1, <2>3, <2>4
<1>2. PICK i \in S : \A j \in S : j <= i
  BY <1>1, LastMember
<1>3. CASE i = object.parts
  BY <1>2, <1>3, PartBytes
<1>4. CASE i # object.parts
  <2>1. i + 1 \in 1..object.parts /\ i \in 1..object.parts /\ i \in Nat
    BY <1>2, <1>4, PartBytes
  <2>2. i + 1 \notin S
    BY <1>2, <2>1
  <2>3. ~(FirstByte(i + 1) <= b)
    BY <2>1, <2>2
  <2>4. LastByte(i) + 1 = FirstByte(i + 1) /\ LastByte(i) \in Nat
    BY <2>1, PartBytes
  <2>. QED  BY <1>2, <2>1, <2>3, <2>4
<1>. QED  BY <1>3, <1>4

\* The least and the greatest of an interval
LEMMA Bounds ==
  ASSUME NEW a \in Nat, NEW b \in Nat, a <= b
  PROVE  Min(a..b) = a /\ Max(a..b) = b
<1>1. /\ a \in a..b /\ \A y \in a..b : a =< y
      /\ b \in a..b /\ \A y \in a..b : b >= y
  OBVIOUS
<1>2. \A x \in a..b : (\A y \in a..b : x =< y) => x = a
  BY <1>1
<1>3. \A x \in a..b : (\A y \in a..b : x >= y) => x = b
  BY <1>1
<1>4. \E x \in a..b : \A y \in a..b : x =< y
  BY <1>1
<1>5. \E x \in a..b : \A y \in a..b : x >= y
  BY <1>1
<1>. QED  BY <1>2, <1>3, <1>4, <1>5 DEF Min, Max

\* The slices of a range of the object make it up.
LEMMA SlicesMakeUp ==
  ASSUME Sizes, NEW range, range.start \in Nat, range.end \in Int, range.end < Size,
         range.start <= range.end \/ (range.start = Size /\ range.end = Size - 1)
  PROVE  MakeUp(Slices(range), range.start, range.end)
<1>. DEFINE required == {i \in 1..object.parts : FirstByte(i) <= range.end /\ range.start <= LastByte(i)}
            slice(i) == [part  |-> i,
                         start |-> Most(FirstByte(i), range.start) - FirstByte(i),
                         end   |-> Least(LastByte(i), range.end) - FirstByte(i)]
            s == Slices(range)
<1>1. s = IF required = {} THEN <<>>
          ELSE [n \in 1..(Max(required) - Min(required) + 1) |-> slice(Min(required) + n - 1)]
  BY DEF Slices, FirstByte, LastByte
<1>2. Size \in Nat \ {0}
  BY PartBytes
<1>3. CASE range.start = Size /\ range.end = Size - 1
  <2>1. ASSUME NEW i \in 1..object.parts  PROVE ~(range.start <= LastByte(i))
    <3>1. i = object.parts \/ i < object.parts
      BY PartBytes
    <3>2. LastByte(i) <= LastByte(object.parts)
      <4>1. object.parts \in 1..object.parts
        BY PartBytes
      <4>. QED  BY <3>1, <4>1, PartBytes
    <3>. QED  BY <1>2, <1>3, <3>2, PartBytes
  <2>2. required = {}
    BY <2>1
  <2>3. s = <<>>
    BY <1>1, <2>2
  <2>. HIDE DEF s
  <2>4. Len(s) = 0 /\ s \in Seq(Slots)
    BY <2>3
  <2>5. range.end + 1 = range.start
    BY <1>2, <1>3
  <2>6. \A i \in 1..Len(s) : FALSE
    BY <2>4
  <2>. QED  BY <2>3, <2>4, <2>5, <2>6 DEF MakeUp, s
<1>4. CASE range.start <= range.end
  <2>1. PICK lo \in 1..object.parts : FirstByte(lo) <= range.start /\ range.start <= LastByte(lo)
    <3>1. range.start \in 0..(Size - 1)
      BY <1>2, <1>4
    <3>. QED  BY <3>1, PartOfByte
  <2>2. PICK hi \in 1..object.parts : FirstByte(hi) <= range.end /\ range.end <= LastByte(hi)
    <3>1. range.end \in 0..(Size - 1)
      BY <1>2, <1>4
    <3>. QED  BY <3>1, PartOfByte
  <2>3. /\ \A i \in 1..object.parts : FirstByte(i) \in Nat /\ LastByte(i) \in Nat /\ FirstByte(i) <= LastByte(i) /\ i \in Nat
        /\ \A i, j \in 1..object.parts : i < j => LastByte(i) < FirstByte(j)
        /\ lo \in Nat /\ hi \in Nat /\ object.parts \in Nat
    BY PartBytes
  <2>4. lo <= hi
    <3>1. ~(hi < lo)
      BY <1>4, <2>1, <2>2, <2>3
    <3>. QED  BY <2>3, <3>1
  <2>5. required = lo..hi
    <3>1. ASSUME NEW i \in 1..object.parts, FirstByte(i) <= range.end, range.start <= LastByte(i)
          PROVE  i \in lo..hi
      <4>1. ~(i < lo) /\ ~(hi < i)
        BY <2>1, <2>2, <2>3, <3>1
      <4>. QED  BY <2>3, <4>1
    <3>2. ASSUME NEW i \in lo..hi
          PROVE  i \in 1..object.parts /\ FirstByte(i) <= range.end /\ range.start <= LastByte(i)
      <4>1. i \in 1..object.parts /\ (lo = i \/ lo < i) /\ (i = hi \/ i < hi)
        BY <2>3
      <4>2. FirstByte(i) <= range.end
        BY <1>4, <2>2, <2>3, <4>1
      <4>3. range.start <= LastByte(i)
        BY <1>4, <2>1, <2>3, <4>1
      <4>. QED  BY <4>1, <4>2, <4>3
    <3>. QED  BY <3>1, <3>2
  <2>6. Min(required) = lo /\ Max(required) = hi /\ required # {}
    <3>1. Min(lo..hi) = lo /\ Max(lo..hi) = hi
      BY <2>3, <2>4, Bounds
    <3>2. lo \in lo..hi
      BY <2>3, <2>4
    <3>. HIDE DEF required
    <3>. QED  BY <2>5, <3>1, <3>2
  <2>. DEFINE n == hi - lo + 1
  <2>7. s = [m \in 1..n |-> slice(lo + m - 1)]
    BY <1>1, <2>6
  <2>8. n \in Nat \ {0}
    BY <2>3, <2>4
  <2>9. ASSUME NEW i \in lo..hi
        PROVE  /\ slice(i) \in Slots
               /\ SliceFirst(slice(i)) = Most(FirstByte(i), range.start)
               /\ SliceLast(slice(i)) = Least(LastByte(i), range.end)
               /\ Most(FirstByte(i), range.start) <= Least(LastByte(i), range.end)
    <3>1. i \in 1..object.parts /\ FirstByte(i) <= range.end /\ range.start <= LastByte(i)
      BY <2>5
    <3>2. FirstByte(i) \in Nat /\ LastByte(i) \in Nat /\ FirstByte(i) <= LastByte(i) /\ i \in Nat
      BY <2>3, <3>1
    <3>3. PICK a \in Int, b \in Int : a = Most(FirstByte(i), range.start) /\ b = Least(LastByte(i), range.end)
      BY <3>2 DEF Most, Least
    <3>4. FirstByte(i) <= a /\ a <= b
      BY <1>4, <3>1, <3>2, <3>3 DEF Most, Least
    <3>5. slice(i) = [part |-> i, start |-> a - FirstByte(i), end |-> b - FirstByte(i)]
      BY <3>3
    <3>6. SliceFirst(slice(i)) = a /\ SliceLast(slice(i)) = b
      <4>1. /\ SliceFirst(slice(i)) = FirstByte(i) + (a - FirstByte(i))
            /\ SliceLast(slice(i)) = FirstByte(i) + (b - FirstByte(i))
        BY <3>5 DEF SliceFirst, SliceLast, FirstByte
      <4>. QED  BY <3>2, <4>1
    <3>. HIDE DEF slice
    <3>. QED  BY <3>2, <3>3, <3>4, <3>5, <3>6 DEF Slots
  <2>. HIDE DEF slice, required, s
  <2>10. \A m \in 1..n : lo + m - 1 \in lo..hi /\ s[m] = slice(lo + m - 1)
    BY <2>3, <2>7
  <2>11. Len(s) = n /\ s \in Seq(Slots) /\ s # <<>>
    <3>1. s \in [1..n -> Slots]
      BY <2>7, <2>9, <2>10
    <3>. HIDE DEF n
    <3>2. Len(s) = n /\ s \in Seq(Slots)
      BY <2>8, <3>1
    <3>. QED  BY <2>8, <3>2
  <2>12. \A m \in 1..n : SliceFirst(s[m]) <= SliceLast(s[m])
    BY <2>9, <2>10
  <2>13. ASSUME NEW m \in 1..n, NEW k \in 1..n, k = m + 1
         PROVE  SliceFirst(s[k]) = SliceLast(s[m]) + 1
    <3>1. PICK i \in lo..hi, j \in lo..hi : i = lo + m - 1 /\ j = i + 1 /\ j = lo + k - 1
      BY <2>3, <2>10, <2>13
    <3>2. i \in 1..object.parts /\ j \in 1..object.parts /\ i < j /\ (lo = i \/ lo < i) /\ (j = hi \/ j < hi)
      BY <2>3, <3>1
    <3>3. FirstByte(j) <= range.end /\ range.start <= LastByte(i) /\ LastByte(i) < FirstByte(j)
      BY <2>3, <2>5, <3>2 DEF required
    <3>4. LastByte(i) + 1 = FirstByte(j)
      BY <3>1, <3>2, PartBytes
    <3>5. LastByte(i) \in Nat /\ FirstByte(j) \in Nat
      BY <2>3, <3>2
    <3>6. SliceFirst(s[k]) = FirstByte(j)
      BY <2>9, <2>10, <3>1, <3>3, <3>5 DEF Most
    <3>7. SliceLast(s[m]) = LastByte(i)
      BY <2>9, <2>10, <3>1, <3>3, <3>5 DEF Least
    <3>. QED  BY <3>4, <3>6, <3>7
  <2>14. SliceFirst(s[1]) = range.start
    <3>1. 1 \in 1..n /\ lo + 1 - 1 = lo /\ lo \in lo..hi
      BY <2>3, <2>4, <2>8
    <3>2. FirstByte(lo) \in Nat
      BY <2>3
    <3>. QED  BY <2>1, <2>9, <2>10, <3>1, <3>2 DEF Most
  <2>15. SliceLast(s[n]) = range.end
    <3>1. n \in 1..n /\ lo + n - 1 = hi /\ hi \in lo..hi
      BY <2>3, <2>4, <2>8
    <3>2. LastByte(hi) \in Nat
      BY <2>3
    <3>. QED  BY <2>2, <2>9, <2>10, <3>1, <3>2 DEF Least
  <2>. HIDE DEF n
  <2>. QED  BY <2>11, <2>12, <2>13, <2>14, <2>15 DEF MakeUp, s
<1>. QED  BY <1>3, <1>4

\* The range that is asked for is one of the object, and what the client means.
LEMMA RangeFits ==
  ASSUME Sizes, request \in HeaderRequests \cup OptionRequests, ~InvalidRange
  PROVE  /\ AskedRange.start \in Nat /\ AskedRange.end \in Int /\ AskedRange.end < Size
         /\ \/ AskedRange.start <= AskedRange.end
            \/ AskedRange.start = Size /\ AskedRange.end = Size - 1
         /\ Meant = AskedRange.start..AskedRange.end
<1>1. PICK size \in Nat \ {0} : size = Size
  BY PartBytes
<1>2. \A x \in Numbers : x # Unset => x \in Nat
  BY PartSizeAssumption DEF Numbers
<1>3. CASE request \in HeaderRequests
  <2>1. request.by = "header" /\ request.start \in Numbers /\ request.end \in Numbers
    BY <1>3 DEF HeaderRequests
  <2>2. PICK start \in Numbers, end \in Numbers : start = request.start /\ end = request.end
    BY <2>1
  <2>. DEFINE all == 0..(size - 1)
              valid == CASE start # Unset /\ end # Unset -> start <= end /\ start < size
                         [] start # Unset /\ end = Unset -> start < size
                         [] start = Unset /\ end # Unset -> end < size /\ end # 0
                         [] OTHER -> FALSE
  <2>3. AskedRange = IF ~valid THEN [start |-> 0, end |-> size - 1]
                     ELSE IF start = Unset THEN [start |-> size - end, end |-> size - 1]
                     ELSE [start |-> start, end |-> Least(Default(end, size - 1), size - 1)]
    BY <1>1, <2>1, <2>2 DEF AskedRange, HeaderRange
  <2>4. Meant = CASE start # Unset ->
                       LET hit == {i \in all : i >= start /\ i <= Default(end, size)} IN
                       IF hit = {} THEN all ELSE hit
                  [] start = Unset /\ end \notin {Unset, 0} -> {i \in all : i >= size - end}
                  [] OTHER -> all
    BY <1>1, <2>1, <2>2 DEF Meant
  <2>5. CASE start # Unset
    <3>. DEFINE hit == {i \in all : i >= start /\ i <= Default(end, size)}
                last == Least(Default(end, size - 1), size - 1)
    <3>1. start \in Nat /\ (end # Unset => end \in Nat)
      BY <1>2, <2>5
    <3>2. valid <=> start < size /\ (end # Unset => start <= end)
      BY <2>5
    <3>3. last \in Int /\ last < size /\ (end # Unset => last <= end)
          /\ (last = size - 1 \/ (end # Unset /\ last = end))
      BY <3>1 DEF Least, Default
    <3>4. CASE start < size /\ (end # Unset => start <= end)
      <4>1. AskedRange = [start |-> start, end |-> last]
        BY <2>3, <2>5, <3>2, <3>4
      <4>2. start <= last
        BY <3>1, <3>3, <3>4
      <4>3. hit = start..last
        BY <3>1, <3>3, <4>2 DEF Default
      <4>4. hit # {}
        BY <3>1, <3>3, <4>2, <4>3
      <4>. HIDE DEF last, hit
      <4>5. Meant = hit
        BY <2>4, <2>5, <4>4 DEF hit
      <4>. QED  BY <1>1, <3>1, <3>3, <4>1, <4>2, <4>3, <4>5
    <3>5. CASE ~(start < size /\ (end # Unset => start <= end))
      <4>1. AskedRange = [start |-> 0, end |-> size - 1]
        BY <2>3, <3>2, <3>5
      <4>2. hit = {}
        BY <3>1, <3>5 DEF Default
      <4>. HIDE DEF hit
      <4>3. Meant = all
        BY <2>4, <2>5, <4>2 DEF hit
      <4>. QED  BY <1>1, <4>1, <4>3
    <3>. QED  BY <3>4, <3>5
  <2>6. CASE start = Unset /\ end # Unset /\ end # 0
    <3>1. end \in Nat \ {0}
      BY <1>2, <2>6
    <3>2. valid <=> end < size
      BY <2>6
    <3>3. Meant = {i \in all : i >= size - end}
      BY <2>4, <2>6
    <3>4. CASE end < size
      <4>1. AskedRange = [start |-> size - end, end |-> size - 1]
        BY <2>3, <2>6, <3>2, <3>4
      <4>2. size - end \in Nat /\ size - end <= size - 1
        BY <3>1, <3>4
      <4>3. {i \in all : i >= size - end} = (size - end)..(size - 1)
        BY <3>1, <4>2
      <4>. QED  BY <1>1, <3>3, <4>1, <4>2, <4>3
    <3>5. CASE ~(end < size)
      <4>1. AskedRange = [start |-> 0, end |-> size - 1]
        BY <2>3, <3>2, <3>5
      <4>2. {i \in all : i >= size - end} = all
        BY <3>1, <3>5
      <4>. QED  BY <1>1, <3>3, <4>1, <4>2
    <3>. QED  BY <3>4, <3>5
  <2>7. CASE start = Unset /\ (end = Unset \/ end = 0)
    <3>1. ~valid /\ Meant = all
      BY <2>4, <2>7
    <3>2. AskedRange = [start |-> 0, end |-> size - 1]
      BY <2>3, <3>1
    <3>. QED  BY <1>1, <3>1, <3>2
  <2>. QED  BY <2>5, <2>6, <2>7
<1>4. CASE request \in OptionRequests
  <2>1. request.by = "options" /\ request.offset \in Numbers /\ request.length \in Numbers /\ request.suffix \in Numbers
    BY <1>4 DEF OptionRequests
  <2>2. CASE request.suffix # Unset
    <3>1. PICK suffix \in Nat : suffix = request.suffix /\ suffix # 0
      BY <1>2, <2>1, <2>2 DEF InvalidRange
    <3>2. PICK least \in Nat \ {0} :
            /\ least = Least(suffix, size) /\ least <= size /\ least <= suffix
            /\ least = size \/ least = suffix
      BY <3>1 DEF Least
    <3>3. AskedRange = [start |-> size - least, end |-> size - 1]
      <4>1. AskedRange = [start |-> size - least, end |-> Least((size - least) + least, size) - 1]
        BY <1>1, <2>1, <2>2, <3>1, <3>2 DEF AskedRange, OptionRange
      <4>2. Least((size - least) + least, size) = size
        BY DEF Least
      <4>. QED  BY <4>1, <4>2
    <3>4. Meant = {i \in 0..(size - 1) : i >= size - suffix}
      BY <1>1, <2>1, <2>2, <3>1 DEF Meant
    <3>5. {i \in 0..(size - 1) : i >= size - suffix} = (size - least)..(size - 1)
      BY <3>2
    <3>. QED  BY <1>1, <3>2, <3>3, <3>4, <3>5
  <2>3. CASE request.suffix = Unset
    <3>1. PICK offset \in Nat : offset = Default(request.offset, 0) /\ offset <= size
      BY <1>1, <1>2, <2>1, <2>3 DEF InvalidRange, Default
    <3>2. PICK length \in Nat \ {0} :
            /\ length = Default(request.length, size - offset)
            /\ request.length = Unset => length = size - offset
            /\ request.length # Unset => length = request.length
      BY <1>1, <1>2, <2>1, <2>3, <3>1 DEF InvalidRange, Default
    <3>3. PICK last \in Int :
            /\ last = Least(offset + length, size) - 1
            /\ last < size /\ last < offset + length
            /\ last = size - 1 \/ last = offset + length - 1
      BY DEF Least
    <3>4. AskedRange = [start |-> offset, end |-> last]
      <4>1. AskedRange = OptionRange
        BY <2>1 DEF AskedRange
      <4>2. OptionRange = [start |-> offset, end |-> Least(offset + length, size) - 1]
        BY <1>1, <2>3, <3>1, <3>2 DEF OptionRange
      <4>. QED  BY <3>3, <4>1, <4>2
    <3>5. PICK counted \in Nat : counted = Default(request.length, size) /\ (counted = length \/ counted = size)
      BY <3>2 DEF Default
    <3>6. Meant = {i \in 0..(size - 1) : i >= offset /\ i < offset + counted}
      BY <1>1, <2>1, <2>3, <3>1, <3>5 DEF Meant
    <3>7. {i \in 0..(size - 1) : i >= offset /\ i < offset + counted} = offset..last
      <4>1. CASE request.length = Unset
        <5>1. counted = size /\ length = size - offset /\ last = size - 1
          BY <3>2, <3>3, <3>5, <4>1 DEF Default
        <5>. QED  BY <5>1
      <4>2. CASE request.length # Unset
        <5>1. counted = length
          BY <3>2, <3>5, <4>2 DEF Default
        <5>2. \A i \in Int : i <= last <=> (i <= size - 1 /\ i < offset + length)
          BY <3>3
        <5>. QED  BY <3>3, <5>1, <5>2
      <4>. QED  BY <4>1, <4>2
    <3>8. offset <= last \/ (offset = size /\ last = size - 1)
      BY <3>1, <3>3
    <3>. QED  BY <1>1, <3>3, <3>4, <3>6, <3>7, <3>8
  <2>. QED  BY <2>2, <2>3
<1>. QED  BY <1>3, <1>4

\* A range is read
LEMMA RangeIsCut ==
  ASSUME RangeInv, RangeRead
  PROVE  RangeInv'
<1>1. /\ Sizes /\ request \in HeaderRequests \cup OptionRequests
      /\ object' = object /\ request' = request
  BY DEF RangeInv, RangeRead
<1>2. Sizes' /\ (request \in HeaderRequests \cup OptionRequests)' /\ (InvalidRange' <=> InvalidRange) /\ AskedRange' = AskedRange
  BY <1>1 DEF Sizes, InvalidRange, AskedRange, HeaderRange, OptionRange, Size
<1>3. CASE InvalidRange
  <2>1. /\ response' = [response EXCEPT !.stage = "invalid"]
        /\ response \in [stage : {"asked", "invalid", "sending", "sent"}, length : Int, slices : Seq(Slots), sent : Seq(Nat)]
    BY <1>3 DEF RangeRead, RangeInv
  <2>2. /\ response' \in [stage : {"asked", "invalid", "sending", "sent"}, length : Int, slices : Seq(Slots), sent : Seq(Nat)]
        /\ response'.stage = "invalid"
    BY <2>1
  <2>. QED  BY <1>2, <1>3, <2>2 DEF RangeInv
<1>4. CASE ~InvalidRange
  <2>. DEFINE range == AskedRange
  <2>1. response' = [stage |-> "sending", length |-> Least(range.end, Size) - range.start + 1,
                     slices |-> Slices(range), sent |-> <<>>]
    BY <1>4 DEF RangeRead
  <2>2. /\ range.start \in Nat /\ range.end \in Int /\ range.end < Size
        /\ range.start <= range.end \/ (range.start = Size /\ range.end = Size - 1)
        /\ Size \in Nat
    BY <1>1, <1>4, RangeFits, PartBytes
  <2>. HIDE DEF range
  <2>3. MakeUp(Slices(range), range.start, range.end)
    BY <1>1, <2>2, SlicesMakeUp
  <2>4. Least(range.end, Size) = range.end
    BY <2>2 DEF Least
  <2>5. /\ response'.stage = "sending" /\ response'.length = range.end - range.start + 1
        /\ response'.sent = <<>> /\ response'.slices = Slices(range)
    BY <2>1, <2>4
  <2>6. range.start + Len(response'.sent) = range.start
    BY <2>2, <2>5
  <2>7. MakeUp(response'.slices, range.start + Len(response'.sent), range.end)
    BY <2>3, <2>5, <2>6
  <2>8. MakeUp(response.slices, AskedRange.start + Len(response.sent), AskedRange.end)'
    BY <1>2, <1>1, <2>7 DEF MakeUp, SliceFirst, SliceLast, range
  <2>9. response' \in [stage : {"asked", "invalid", "sending", "sent"}, length : Int, slices : Seq(Slots), sent : Seq(Nat)]
    <3>1. Slices(range) \in Seq(Slots)
      BY <2>3 DEF MakeUp
    <3>2. <<>> \in Seq(Nat) /\ range.end - range.start + 1 \in Int
      BY <2>2
    <3>. QED  BY <2>1, <2>4, <3>1, <3>2
  <2>10. /\ response'.length = AskedRange'.end - AskedRange'.start + 1
         /\ \A i \in 1..Len(response'.sent) : FALSE
    BY <1>2, <2>5 DEF range
  <2>. QED  BY <1>2, <1>4, <2>5, <2>8, <2>9, <2>10 DEF RangeInv
<1>. QED  BY <1>3, <1>4

\* A slice is sent
LEMMA Appended ==
  ASSUME NEW S, NEW a \in Seq(S), NEW b \in Seq(S), NEW k \in Nat, NEW l \in Nat, k = Len(a), l = Len(b)
  PROVE  /\ a \o b \in Seq(S) /\ Len(a \o b) = k + l
         /\ \A i \in 1..(k + l) : (a \o b)[i] = IF i <= k THEN a[i] ELSE b[i - k]
OBVIOUS

LEMMA SliceIsSent ==
  ASSUME RangeInv, SliceSent
  PROVE  RangeInv'
<1>. DEFINE slices == response.slices
            slice == Head(slices)
            first == SliceFirst(slice)
            m == slice.end - slice.start + 1
            bytes == [n \in 1..m |-> first + n - 1]
            range == AskedRange
<1>1. /\ Sizes /\ request \in HeaderRequests \cup OptionRequests
      /\ object' = object /\ request' = request /\ response.stage = "sending"
      /\ response' = [response EXCEPT !.slices = Tail(slices), !.sent = response.sent \o bytes]
      /\ slices # <<>>
  BY DEF RangeInv, SliceSent, SliceFirst
<1>2. Sizes' /\ (request \in HeaderRequests \cup OptionRequests)' /\ (InvalidRange' <=> InvalidRange) /\ AskedRange' = AskedRange
  BY <1>1 DEF Sizes, InvalidRange, AskedRange, HeaderRange, OptionRange, Size
<1>3. /\ ~InvalidRange /\ response.length = range.end - range.start + 1
      /\ \A i \in 1..Len(response.sent) : response.sent[i] = range.start + i - 1
      /\ MakeUp(slices, range.start + Len(response.sent), range.end)
  BY <1>1 DEF RangeInv
<1>4. range.start \in Nat /\ range.end \in Int
  BY <1>1, <1>3, RangeFits
<1>5. response \in [stage : {"asked", "invalid", "sending", "sent"}, length : Int, slices : Seq(Slots), sent : Seq(Nat)]
  BY DEF RangeInv
<1>6. slices \in Seq(Slots) /\ response.sent \in Seq(Nat) /\ response.length \in Int
  BY <1>5
<1>. HIDE DEF range
<1>7. PICK t \in Nat, l \in Nat \ {0} : t = Len(response.sent) /\ l = Len(slices)
  <2>1. Len(response.sent) \in Nat /\ Len(slices) \in Nat
    BY <1>6
  <2>2. Len(slices) # 0
    BY <1>1, <1>6
  <2>. QED  BY <2>1, <2>2
<1>8. /\ \A i \in 1..l : SliceFirst(slices[i]) <= SliceLast(slices[i])
      /\ \A i, j \in 1..l : j = i + 1 => SliceFirst(slices[j]) = SliceLast(slices[i]) + 1
      /\ SliceFirst(slices[1]) = range.start + t /\ SliceLast(slices[l]) = range.end
  BY <1>1, <1>3, <1>7 DEF MakeUp
<1>9. /\ slice = slices[1] /\ slice \in Slots
      /\ Tail(slices) \in Seq(Slots) /\ Len(Tail(slices)) = l - 1
      /\ \A i \in 1..(l - 1) : Tail(slices)[i] = slices[i + 1]
  BY <1>1, <1>6, <1>7
<1>10. PICK p \in Nat, q \in Nat : p = slice.part /\ q = PartSize
  BY <1>9, PartSizeAssumption DEF Slots
<1>11. PICK base \in Int : base = (slice.part - 1) * PartSize
  <2>1. (p - 1) * q \in Int
    OBVIOUS
  <2>. QED  BY <1>10, <2>1
<1>12. /\ first = base + slice.start /\ SliceLast(slice) = base + slice.end
       /\ slice.start \in Nat /\ slice.end \in Nat
  BY <1>9, <1>11 DEF SliceFirst, SliceLast, Slots
<1>13. /\ first = range.start + t /\ first <= SliceLast(slice)
       /\ m \in Nat \ {0} /\ SliceLast(slice) = first + m - 1
  <2>1. first = range.start + t /\ first <= SliceLast(slice)
    BY <1>7, <1>8, <1>9
  <2>2. PICK a \in Nat, b \in Nat : a = slice.start /\ b = slice.end
    BY <1>12
  <2>3. first = base + a /\ SliceLast(slice) = base + b /\ m = b - a + 1
    BY <1>12, <2>2
  <2>. HIDE DEF first, slice, m
  <2>4. a <= b
    BY <2>1, <2>3
  <2>. QED  BY <2>1, <2>3, <2>4
<1>. HIDE DEF m, first
<1>14. bytes \in Seq(Nat) /\ Len(bytes) = m /\ \A i \in 1..m : bytes[i] = range.start + t + i - 1
  BY <1>4, <1>7, <1>13
<1>. HIDE DEF bytes
<1>15. /\ response.sent \o bytes \in Seq(Nat) /\ Len(response.sent \o bytes) = t + m
       /\ \A i \in 1..(t + m) : (response.sent \o bytes)[i] = range.start + i - 1
  <2>1. /\ response.sent \o bytes \in Seq(Nat) /\ Len(response.sent \o bytes) = t + m
        /\ \A i \in 1..(t + m) : (response.sent \o bytes)[i] = IF i <= t THEN response.sent[i] ELSE bytes[i - t]
    <3>1. response.sent \in Seq(Nat) /\ bytes \in Seq(Nat) /\ t = Len(response.sent) /\ m = Len(bytes) /\ m \in Nat
      BY <1>6, <1>7, <1>13, <1>14
    <3>. QED  BY <3>1, Appended
  <2>2. ASSUME NEW i \in 1..(t + m)  PROVE (response.sent \o bytes)[i] = range.start + i - 1
    <3>0. m \in Nat /\ i \in Nat \ {0}
      BY <1>13
    <3>1. CASE i <= t
      <4>1. response.sent[i] = range.start + i - 1
        BY <1>3, <1>7, <3>0, <3>1
      <4>. QED  BY <2>1, <3>1, <4>1
    <3>2. CASE ~(i <= t)
      <4>1. i - t \in 1..m
        BY <3>0, <3>2
      <4>2. bytes[i - t] = range.start + t + (i - t) - 1
        BY <1>14, <4>1
      <4>3. range.start + t + (i - t) - 1 = range.start + i - 1
        BY <1>4, <3>0
      <4>4. (response.sent \o bytes)[i] = bytes[i - t]
        BY <2>1, <3>2
      <4>. QED  BY <4>2, <4>3, <4>4
    <3>. QED  BY <3>1, <3>2
  <2>. QED  BY <2>1, <2>2
<1>16. MakeUp(Tail(slices), range.start + (t + m), range.end)
  <2>1. PICK rest \in Seq(Slots) :
          /\ rest = Tail(slices) /\ Len(rest) = l - 1
          /\ \A i \in 1..(l - 1) : rest[i] = slices[i + 1]
    BY <1>9
  <2>2. \A i \in 1..(l - 1) : SliceFirst(rest[i]) <= SliceLast(rest[i])
    <3>1. \A i \in 1..(l - 1) : i + 1 \in 1..l
      BY <1>7
    <3>. QED  BY <1>8, <2>1, <3>1
  <2>3. \A i, j \in 1..(l - 1) : j = i + 1 => SliceFirst(rest[j]) = SliceLast(rest[i]) + 1
    <3>. TAKE i, j \in 1..(l - 1)
    <3>1. i + 1 \in 1..l /\ j + 1 \in 1..l /\ (j = i + 1 => j + 1 = (i + 1) + 1)
      OBVIOUS
    <3>. QED  BY <1>8, <2>1, <3>1
  <2>4. CASE l = 1
    <3>1. rest = <<>> /\ SliceLast(slice) = range.end
      BY <1>8, <1>9, <2>1, <2>4
    <3>2. range.end + 1 = range.start + (t + m)
      BY <1>4, <1>13, <3>1
    <3>. QED  BY <2>1, <2>2, <2>3, <3>1, <3>2 DEF MakeUp
  <2>5. CASE l # 1
    <3>1. rest # <<>> /\ 1 \in 1..(l - 1) /\ l - 1 \in 1..(l - 1) /\ rest[1] = slices[1 + 1] /\ rest[l - 1] = slices[l]
      <4>1. 1 \in 1..(l - 1) /\ l - 1 \in 1..(l - 1) /\ (l - 1) + 1 = l
        BY <2>5
      <4>2. rest[1] = slices[1 + 1] /\ rest[l - 1] = slices[l]
        BY <2>1, <4>1
      <4>3. rest # <<>>
        <5>1. Len(rest) # 0
          BY <2>1, <2>5
        <5>. QED  BY <5>1
      <4>. QED  BY <4>1, <4>2, <4>3
    <3>2. 1 \in 1..l /\ 1 + 1 \in 1..l
      BY <2>5
    <3>3. SliceFirst(slices[1 + 1]) = SliceLast(slice) + 1
      BY <1>8, <1>9, <3>2
    <3>4. SliceFirst(rest[1]) = range.start + (t + m) /\ SliceLast(rest[l - 1]) = range.end
      BY <1>4, <1>8, <1>13, <3>1, <3>3
    <3>. QED  BY <2>1, <2>2, <2>3, <3>1, <3>4 DEF MakeUp
  <2>. QED  BY <2>4, <2>5
<1>17. /\ response' \in [stage : {"asked", "invalid", "sending", "sent"}, length : Int, slices : Seq(Slots), sent : Seq(Nat)]
       /\ response'.stage = "sending" /\ response'.length = response.length
       /\ response'.slices = Tail(slices) /\ response'.sent = response.sent \o bytes
  <2>1. response' = [stage |-> response.stage, length |-> response.length,
                     slices |-> Tail(slices), sent |-> response.sent \o bytes]
    BY <1>1, <1>5
  <2>. QED  BY <1>1, <1>6, <1>9, <1>15, <2>1
<1>18. MakeUp(response.slices, AskedRange.start + Len(response.sent), AskedRange.end)'
  <2>1. MakeUp(response'.slices, AskedRange'.start + Len(response'.sent), AskedRange'.end)
    BY <1>2, <1>15, <1>16, <1>17 DEF range
  <2>. QED  BY <2>1 DEF MakeUp, SliceFirst, SliceLast
<1>. QED  BY <1>1, <1>2, <1>3, <1>15, <1>17, <1>18 DEF RangeInv, range

\* The response is always as RangeInv says.
THEOREM RangesInvariance == RangesSpec => []RangeInv
<1>1. RangesInit => RangeInv
  BY DEF RangesInit, RangeInv, Sizes
<1>2. RangeInv /\ [RangesNext]_rangeVars => RangeInv'
  <2>. SUFFICES ASSUME RangeInv, [RangesNext]_rangeVars PROVE RangeInv'
    OBVIOUS
  <2>1. CASE RangeRead
    BY <2>1, RangeIsCut
  <2>2. CASE SliceSent
    BY <2>2, SliceIsSent
  <2>3. CASE BodyEnds
    <3>1. /\ object' = object /\ request' = request /\ response.stage = "sending" /\ response.slices = <<>>
          /\ response' = [response EXCEPT !.stage = "sent"]
      BY <2>3 DEF BodyEnds
    <3>2. response \in [stage : {"asked", "invalid", "sending", "sent"}, length : Int, slices : Seq(Slots), sent : Seq(Nat)]
      BY DEF RangeInv
    <3>3. /\ response' \in [stage : {"asked", "invalid", "sending", "sent"}, length : Int, slices : Seq(Slots), sent : Seq(Nat)]
          /\ response'.stage = "sent" /\ response'.length = response.length
          /\ response'.slices = response.slices /\ response'.sent = response.sent
      BY <3>1, <3>2
    <3>. QED  BY <3>1, <3>3 DEF RangeInv, Sizes, InvalidRange, AskedRange, HeaderRange, OptionRange, Size,
                                MakeUp, SliceFirst, SliceLast
  <2>4. CASE UNCHANGED rangeVars
    BY <2>4 DEF rangeVars, RangeInv, Sizes, InvalidRange, AskedRange, HeaderRange, OptionRange, Size,
                MakeUp, SliceFirst, SliceLast
  <2>. QED  BY <2>1, <2>2, <2>3, <2>4 DEF RangesNext
<1>. QED  BY <1>1, <1>2, PTL DEF RangesSpec

\* Whatever is asked for, of an object of any number of parts: what is sent is what was
\* meant, byte by byte, and as long as was announced; only nothing is refused.
THEOREM RangedReadsAreExact == RangesSpec => []RangesAreExact
<1>1. RangeInv => RangesAreExact
  <2>. SUFFICES ASSUME RangeInv PROVE RangesAreExact
    OBVIOUS
  <2>1. Sizes /\ request \in HeaderRequests \cup OptionRequests
    BY DEF RangeInv
  <2>2. CASE response.stage = "sent"
    <3>. DEFINE range == AskedRange
                sent == response.sent
    <3>1. /\ ~InvalidRange /\ response.length = range.end - range.start + 1 /\ response.slices = <<>>
          /\ \A i \in 1..Len(sent) : sent[i] = range.start + i - 1
          /\ MakeUp(response.slices, range.start + Len(sent), range.end)
      BY <2>2 DEF RangeInv
    <3>2. sent \in Seq(Nat)
      <4>1. response \in [stage : {"asked", "invalid", "sending", "sent"}, length : Int, slices : Seq(Slots), sent : Seq(Nat)]
        BY DEF RangeInv
      <4>. QED  BY <4>1
    <3>3. range.start \in Nat /\ range.end \in Int /\ Meant = range.start..range.end
      BY <2>1, <3>1, RangeFits
    <3>. HIDE DEF range, sent
    <3>4. PICK t \in Nat : t = Len(sent) /\ DOMAIN sent = 1..t
      BY <3>2
    <3>5. range.end + 1 = range.start + t
      BY <3>1, <3>4 DEF MakeUp
    <3>6. t = response.length
      BY <3>1, <3>3, <3>5
    <3>7. {sent[i] : i \in DOMAIN sent} = Meant
      <4>1. \A i \in 1..t : sent[i] \in range.start..range.end
        BY <3>1, <3>3, <3>4, <3>5
      <4>2. ASSUME NEW b \in range.start..range.end  PROVE \E i \in 1..t : sent[i] = b
        <5>1. b - range.start + 1 \in 1..t
          BY <3>3, <3>5
        <5>2. sent[b - range.start + 1] = b
          BY <3>1, <3>3, <3>4, <5>1
        <5>. QED  BY <5>1, <5>2
      <4>. QED  BY <3>3, <3>4, <4>1, <4>2
    <3>8. \A i \in DOMAIN sent : sent[i] = sent[1] + i - 1
      BY <3>1, <3>3, <3>4
    <3>. QED  BY <2>2, <3>4, <3>6, <3>7, <3>8 DEF RangesAreExact, sent
  <2>3. CASE response.stage = "invalid"
    <3>1. InvalidRange
      BY <2>3 DEF RangeInv
    <3>2. CASE request.suffix # Unset
      BY <2>3, <3>1, <3>2 DEF RangesAreExact, InvalidRange
    <3>3. CASE request.suffix = Unset
      <4>1. /\ request.by = "options" /\ request \in OptionRequests
            /\ request.offset \in Numbers /\ request.length \in Numbers
        BY <2>1, <3>1 DEF InvalidRange, HeaderRequests, OptionRequests
      <4>2. PICK size \in Nat \ {0} : size = Size
        BY <2>1, PartBytes
      <4>3. PICK offset \in Nat : offset = Default(request.offset, 0)
        BY <4>1, PartSizeAssumption DEF Default, Numbers
      <4>4. offset > size \/ Default(request.length, size - offset) <= 0
        BY <3>1, <3>3, <4>2, <4>3 DEF InvalidRange
      <4>5. Meant = {i \in 0..(size - 1) : i >= offset /\ i < offset + Default(request.length, size)}
        BY <3>3, <4>1, <4>2, <4>3 DEF Meant
      <4>6. CASE offset >= size
        <5>1. \A i \in 0..(size - 1) : ~(i >= offset)
          BY <4>6
        <5>2. Meant = {}
          BY <4>5, <5>1
        <5>. QED  BY <2>3, <5>2 DEF RangesAreExact
      <4>7. CASE offset < size
        <5>1. request.length # Unset /\ request.length \in Nat
          BY <4>1, <4>4, <4>7, PartSizeAssumption DEF Default, Numbers
        <5>2. request.length = 0
          BY <4>4, <4>7, <5>1 DEF Default
        <5>. QED  BY <2>3, <5>2 DEF RangesAreExact
      <4>. QED  BY <4>6, <4>7
    <3>. QED  BY <3>2, <3>3
  <2>. QED  BY <2>2, <2>3 DEF RangesAreExact
<1>. QED  BY <1>1, RangesInvariance, PTL
-----------------------------------------------------------------------------
(* The sum of the stores that run Storage checks *)

\* A behaviour of the sum is one of every store: resting is a stutter.
THEOREM StoresDoNotMix ==
  StorageSpec => Spec /\ BucketSpec /\ ListingSpec /\ RangesSpec /\ StreamSpec
<1>1. StorageInit => Init /\ BucketInit /\ ListingInit /\ RangesInit /\ StreamInit
  BY DEF StorageInit
<1>2. [StorageNext]_storageVars =>
        /\ [Next]_vars /\ [BucketNext]_bucketVars /\ [ListingNext]_listingVars
        /\ [RangesNext]_rangeVars /\ [StreamNext]_streamVars
  BY DEF StorageNext, storageVars
<1>. QED
  BY <1>1, <1>2, PTL DEF StorageSpec, Spec, BucketSpec, ListingSpec, RangesSpec, StreamSpec

\* Every variable of every store keeps its type.
THEOREM StoresTypeCorrect == StorageSpec => []StorageTypeOK
<1>1. TypeOK /\ BucketTypeOK /\ ListingTypeOK /\ StreamTypeOK => StorageTypeOK
  BY DEF StorageTypeOK
<1>. QED
  BY <1>1, StoresDoNotMix, StorageTypeCorrect, BucketTypeCorrect, ListingTypeCorrect,
     StreamTypeCorrect, PTL

\* All that run Storage checks, for any keys, calls, parts and pages.
THEOREM StoresHold ==
  StorageSpec => [](/\ RowsHaveBlobs /\ NothingLeaks /\ UndisturbedGetSucceeds
                    /\ ListingIsComplete
                    /\ ObjectsMatchParts /\ BlobsAreKept /\ NoLostUpdate /\ OnlyInvalidPutsLeak
                    /\ PagesAreComplete /\ RangesAreExact
                    /\ TablesMatchBlobs)
BY StoresDoNotMix, EveryRowHasItsBlob, OnlyFailuresLeak, UndisturbedGets, ListingsAreComplete,
   PartsMakeTheObject, BlobsInUseAreKept, ConditionalPutsExclude, LeaksAreKnown,
   PageAfterPageIsComplete, RangedReadsAreExact, TablesAndBlobsAgree, PTL
=============================================================================
