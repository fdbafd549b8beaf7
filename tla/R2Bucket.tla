------------------------------- MODULE R2Bucket -------------------------------
(***************************************************************************)
(* The R2 simulator (src/bindings/r2-bucket/R2Bucket.worker.ts): a Durable *)
(* Object with the SQLite tables _mf_objects, _mf_multipart_uploads and    *)
(* _mf_multipart_parts, and a BlobStore on disk.  An object is one blob,   *)
(* or, with blob_id NULL, the parts of a completed multipart upload that   *)
(* are linked to its key.  SQL runs in synchronous transactions, every     *)
(* access to a blob is awaited, and in between any other operation may     *)
(* run.  Tables and blobs survive a crash, operations and locks do not.    *)
(*                                                                         *)
(* A write (put or uploadPart) stores a new blob under a random id before  *)
(* its transaction, so blob, ETag and version are named by the write.  A   *)
(* request that is refused before it changes anything (bad key, unknown    *)
(* upload, invalid part) is no step.                                       *)
(***************************************************************************)
EXTENDS Integers

CONSTANTS
  ObjectKeys,
  Uploads,       \* multipart uploads, and the objects they become
  Writes,        \* put() and uploadPart() calls, and the blobs they store
  Reads,         \* get() calls
  PartNumbers,
  SizeOf,        \* [w] the length of the value of a write
  MinPartSize,   \* MIN_MULTIPART_PART_SIZE
  Nothing,       \* no row, no key
  Anything       \* a put without onlyIf

ASSUME PartNumbersAssumption == PartNumbers \subseteq Nat /\ MinPartSize \in Nat
ASSUME SizeOfAssumption == SizeOf \in [Writes -> Nat]
ASSUME NamesAssumption ==
  /\ Nothing \notin ObjectKeys \cup Uploads \cup Writes
  /\ Anything \notin Uploads \cup Writes \cup {Nothing}
  /\ Uploads \cap Writes = {}

VARIABLES
  objects,    \* [k] the row of _mf_objects: a blob, an upload, or Nothing
  uploads,    \* [u] the row of _mf_multipart_uploads
  parts,      \* the rows of _mf_multipart_parts
  disk,       \* the blobs on disk
  deletions,  \* blobs given to #backgroundDelete
  writes,     \* [w] how far a write has come, and what it is for
  reads,      \* [r] how far a read has come, and the blobs it has still to send
  selected,   \* history: [u] the parts that complete() was asked for
  stranded    \* history: blobs that nothing will ever delete

bucketVars ==
  <<objects, uploads, parts, disk, deletions, writes, reads, selected, stranded>>

UploadStates == {"none", "inProgress", "completed", "aborted"}
WriteStages == {"idle", "writing", "stored", "done", "failed"}
ReadStages == {"idle", "fetching", "streaming", "missed", "broken"}

PartRows ==
  [upload : Uploads, number : PartNumbers, blob : Writes, object : ObjectKeys \cup {Nothing}]

\* What a write is for: an object, with its pre-condition, or a part
PutTargets == [key : ObjectKeys, onlyIf : Uploads \cup Writes \cup {Nothing, Anything}]
PartTargets == [upload : Uploads, number : PartNumbers]

ASSUME TargetsAssumption == Nothing \notin PutTargets \cup PartTargets

BucketTypeOK ==
  /\ objects \in [ObjectKeys -> Uploads \cup Writes \cup {Nothing}]
  /\ uploads \in [Uploads -> [state : UploadStates, key : ObjectKeys \cup {Nothing}]]
  /\ parts \subseteq PartRows
  /\ disk \subseteq Writes
  /\ deletions \subseteq Writes
  /\ writes \in [Writes -> [stage : WriteStages, target : PutTargets \cup PartTargets \cup {Nothing}]]
  /\ reads \in [Reads -> [stage : ReadStages, key : ObjectKeys \cup {Nothing},
                          row : Uploads \cup Writes \cup {Nothing}, todo : SUBSET PartRows]]
  /\ selected \in [Uploads -> SUBSET Writes]
  /\ stranded \subseteq Writes

NoRead == [stage |-> "idle", key |-> Nothing, row |-> Nothing, todo |-> {}]

BucketInit ==
  /\ objects = [k \in ObjectKeys |-> Nothing]
  /\ uploads = [u \in Uploads |-> [state |-> "none", key |-> Nothing]]
  /\ parts = {}
  /\ disk = {}
  /\ deletions = {}
  /\ writes = [w \in Writes |-> [stage |-> "idle", target |-> Nothing]]
  /\ reads = [r \in Reads |-> NoRead]
  /\ selected = [u \in Uploads |-> {}]
  /\ stranded = {}

-----------------------------------------------------------------------------
(* The tables *)

LinkedTo(K) == {p \in parts : p.object \in K}
PartsOf(u) == {p \in parts : p.upload = u}
BlobsOf(P) == {p.blob : p \in P}

\* Mutant: the parts of a multipart object are forgotten.
OldBlobsWithoutParts(K) == {objects[k] : k \in K} \cap Writes

\* The blobs that are free once the rows of K are replaced or deleted: those of
\* the parts if blob_id is NULL
OldBlobs(K) ==
  BlobsOf(LinkedTo({k \in K : objects[k] \in Uploads})) \cup ({objects[k] : k \in K} \cap Writes)

\* What deletePartsByKey leaves
PartsWithout(K) == parts \ LinkedTo({k \in K : objects[k] \in Uploads})

\* Mutant: the pre-condition is not tested with the row that is replaced.
ConditionForgotten(target) == target.key \in ObjectKeys

\* validate.condition: "etagMatches" what the caller has seen, or nothing there
ConditionHolds(target) == target.onlyIf \in {Anything, objects[target.key]}

\* Mutant: any upload that exists takes parts.
ExistingTakesParts(u) == uploads[u].state # "none"

\* The upload exists and is in progress.
TakesParts(u) == uploads[u].state = "inProgress"

BackgroundDelete(B) == deletions' = deletions \cup B

SetWrite(w, stage) == writes' = [writes EXCEPT ![w].stage = stage]

\* The write answers and is forgotten.
EndWrite(w, stage) == writes' = [writes EXCEPT ![w] = [stage |-> stage, target |-> Nothing]]

-----------------------------------------------------------------------------
(* #put and #uploadPart: the blob first *)

\* A put, which may ask for the object that its caller has seen last
PutRequested(w) ==
  /\ writes[w].stage = "idle"
  /\ \E k \in ObjectKeys : \E seen \in {Anything, objects[k]} :
       writes' = [writes EXCEPT ![w] = [stage |-> "writing", target |-> [key |-> k, onlyIf |-> seen]]]
  /\ UNCHANGED <<objects, uploads, parts, disk, deletions, reads, selected, stranded>>

PartRequested(w) ==
  /\ writes[w].stage = "idle"
  /\ \E u \in Uploads, n \in PartNumbers :
       /\ uploads[u].state # "none"
       /\ writes' = [writes EXCEPT ![w] = [stage |-> "writing", target |-> [upload |-> u, number |-> n]]]
  /\ UNCHANGED <<objects, uploads, parts, disk, deletions, reads, selected, stranded>>

\* blob.put() resolves, with the digests, or rejects.
ValueStored(w) ==
  /\ writes[w].stage = "writing"
  /\ \/ SetWrite(w, "stored") /\ disk' = disk \cup {w}
     \/ EndWrite(w, "failed") /\ UNCHANGED disk
  /\ UNCHANGED <<objects, uploads, parts, deletions, reads, selected, stranded>>

\* validate.key().size().metadataSize().hash() throws before the try block, and
\* nobody deletes the blob.
PutInvalid(w) ==
  /\ writes[w].stage = "stored"
  /\ writes[w].target \in PutTargets
  /\ EndWrite(w, "failed")
  /\ stranded' = stranded \cup {w}
  /\ UNCHANGED <<objects, uploads, parts, disk, deletions, reads, selected>>

\* put: test the pre-condition, replace the row, free the old blobs.
PutCommitted(w) ==
  LET k == writes[w].target.key IN
    /\ writes[w].stage = "stored"
    /\ writes[w].target \in PutTargets
    /\ ConditionHolds(writes[w].target)
    /\ objects' = [objects EXCEPT ![k] = w]
    /\ parts' = PartsWithout({k})
    /\ BackgroundDelete(OldBlobs({k}))
    /\ SetWrite(w, "done")
    /\ UNCHANGED <<uploads, disk, reads, selected, stranded>>

\* PreconditionFailed: the transaction did nothing.
PutRefused(w) ==
  /\ writes[w].stage = "stored"
  /\ writes[w].target \in PutTargets
  /\ ~ConditionHolds(writes[w].target)
  /\ EndWrite(w, "failed")
  /\ BackgroundDelete({w})
  /\ UNCHANGED <<objects, uploads, parts, disk, reads, selected, stranded>>

\* putPart: the part replaces one of the same number.
PartCommitted(w) ==
  LET u == writes[w].target.upload
      n == writes[w].target.number
      old == {p \in PartsOf(u) : p.number = n}
  IN
  /\ writes[w].stage = "stored"
  /\ writes[w].target \in PartTargets
  /\ TakesParts(u)
  /\ parts' = (parts \ old) \cup {[upload |-> u, number |-> n, blob |-> w, object |-> Nothing]}
  /\ BackgroundDelete(BlobsOf(old))
  /\ EndWrite(w, "done")
  /\ UNCHANGED <<objects, uploads, disk, reads, selected, stranded>>

\* NoSuchUpload: it was completed or aborted while the value was stored.
PartRefused(w) ==
  /\ writes[w].stage = "stored"
  /\ writes[w].target \in PartTargets
  /\ ~TakesParts(writes[w].target.upload)
  /\ EndWrite(w, "failed")
  /\ BackgroundDelete({w})
  /\ UNCHANGED <<objects, uploads, parts, disk, reads, selected, stranded>>

-----------------------------------------------------------------------------
(* Deletions and uploads: a transaction each *)

DeleteObjects(K) ==
  /\ \E k \in K : objects[k] # Nothing
  /\ objects' = [k \in ObjectKeys |-> IF k \in K THEN Nothing ELSE objects[k]]
  /\ parts' = PartsWithout(K)
  /\ BackgroundDelete(OldBlobs(K))
  /\ UNCHANGED <<uploads, disk, writes, reads, selected, stranded>>

CreateMultipartUpload(u) ==
  /\ uploads[u].state = "none"
  /\ \E k \in ObjectKeys : uploads' = [uploads EXCEPT ![u] = [state |-> "inProgress", key |-> k]]
  /\ UNCHANGED <<objects, parts, disk, deletions, writes, reads, selected, stranded>>

\* What completeMultipartUpload asks of the sizes, in the order of the numbers:
\* the parts are of one size, big enough, but for the last one.
SizesFit(P) ==
  \A p, q \in P : p.number < q.number =>
    /\ SizeOf[p.blob] >= MinPartSize
    /\ SizeOf[q.blob] <= SizeOf[p.blob]
    /\ (\E last \in P : q.number < last.number) => SizeOf[q.blob] = SizeOf[p.blob]

\* The client names some of the parts that are there, by number and ETag: they
\* are linked with the object, which replaces the one before; the rest goes.
CompleteMultipartUpload(u) ==
  LET k == uploads[u].key IN
    /\ TakesParts(u)
    /\ \E P \in SUBSET PartsOf(u) :
         /\ SizesFit(P)
         /\ parts' = (PartsWithout({k}) \ PartsOf(u)) \cup {[p EXCEPT !.object = k] : p \in P}
         /\ BackgroundDelete(OldBlobs({k}) \cup BlobsOf(PartsOf(u) \ P))
         /\ selected' = [selected EXCEPT ![u] = BlobsOf(P)]
    /\ objects' = [objects EXCEPT ![k] = u]
    /\ uploads' = [uploads EXCEPT ![u].state = "completed"]
    /\ UNCHANGED <<disk, writes, reads, stranded>>

\* Aborting a completed upload changes nothing.
AbortMultipartUpload(u) ==
  /\ TakesParts(u)
  /\ parts' = parts \ PartsOf(u)
  /\ BackgroundDelete(BlobsOf(PartsOf(u)))
  /\ uploads' = [uploads EXCEPT ![u].state = "aborted"]
  /\ UNCHANGED <<objects, disk, writes, reads, selected, stranded>>

-----------------------------------------------------------------------------
(* #get *)

\* Row and parts are read in one transaction.  The parts that the range needs,
\* neighbours by number, are acquired before the first is fetched.
GetRequested(r, k) ==
  /\ reads[r] = NoRead
  /\ objects[k] # Nothing
  /\ \/ /\ objects[k] \in Writes
        /\ reads' = [reads EXCEPT ![r] =
             [stage |-> "fetching", key |-> k, row |-> objects[k], todo |-> {}]]
     \/ /\ objects[k] \in Uploads
        /\ \E lo, hi \in PartNumbers :
             reads' = [reads EXCEPT ![r] =
               [stage |-> "streaming", key |-> k, row |-> objects[k],
                todo  |-> {p \in LinkedTo({k}) : p.number \in lo..hi}]]
  /\ UNCHANGED <<objects, uploads, parts, disk, deletions, writes, selected, stranded>>

\* The blob of an object that is not multipart, or NoSuchKey
ObjectFetched(r) ==
  /\ reads[r].stage = "fetching"
  /\ reads' = [reads EXCEPT ![r] = IF @.row \in disk THEN NoRead ELSE [@ EXCEPT !.stage = "missed"]]
  /\ UNCHANGED <<objects, uploads, parts, disk, deletions, writes, selected, stranded>>

\* The next part is fetched, sent and released; an assertion fails if there is
\* no such blob, and the rest is released.
PartSent(r) ==
  /\ reads[r].stage = "streaming"
  /\ \E p \in reads[r].todo :
       /\ \A q \in reads[r].todo : p.number <= q.number
       /\ reads' = [reads EXCEPT ![r] =
            IF p.blob \in disk THEN [reads[r] EXCEPT !.todo = reads[r].todo \ {p}]
            ELSE [reads[r] EXCEPT !.stage = "broken", !.todo = {}]]
  /\ UNCHANGED <<objects, uploads, parts, disk, deletions, writes, selected, stranded>>

\* The stream is closed, or its reader cancels it: pipeTo() rejects and all
\* that is left is released.
StreamEnds(r) ==
  /\ reads[r].stage = "streaming"
  /\ reads' = [reads EXCEPT ![r] = NoRead]
  /\ UNCHANGED <<objects, uploads, parts, disk, deletions, writes, selected, stranded>>

-----------------------------------------------------------------------------
(* #backgroundDelete *)

\* Mutant: the deletion does not wait for the wait group.
NeverInUse(b) == b \notin Writes

\* #inUseBlobs: acquired by a multipart read and not yet released
InUse(b) == \E r \in Reads : b \in BlobsOf(reads[r].todo)

\* The wait group is empty: the blob is deleted, or the error ignored.
BackgroundDeleted(b) ==
  /\ b \in deletions
  /\ ~InUse(b)
  /\ deletions' = deletions \ {b}
  /\ \/ disk' = disk \ {b} /\ UNCHANGED stranded
     \/ stranded' = stranded \cup {b} /\ UNCHANGED disk
  /\ UNCHANGED <<objects, uploads, parts, writes, reads, selected>>

\* The process dies, and with it operations, locks and deletions.
BucketCrash ==
  LET lost == {w \in Writes : writes[w].stage \in {"writing", "stored"}}
      cut == {r \in Reads : reads[r].stage \in {"fetching", "streaming"}}
  IN
  /\ lost \cup cut \cup deletions # {}
  /\ writes' = [w \in Writes |->
       IF w \in lost THEN [stage |-> "failed", target |-> Nothing] ELSE writes[w]]
  /\ reads' = [r \in Reads |-> IF r \in cut THEN NoRead ELSE reads[r]]
  /\ stranded' = stranded \cup deletions \cup (lost \cap disk)
  /\ deletions' = {}
  /\ UNCHANGED <<objects, uploads, parts, disk, selected>>

BucketNext ==
  \/ \E w \in Writes :
       \/ PutRequested(w)
       \/ PartRequested(w)
       \/ ValueStored(w)
       \/ PutInvalid(w)
       \/ PutCommitted(w)
       \/ PutRefused(w)
       \/ PartCommitted(w)
       \/ PartRefused(w)
       \/ BackgroundDeleted(w)
  \/ \E K \in SUBSET ObjectKeys : DeleteObjects(K)
  \/ \E u \in Uploads :
       CreateMultipartUpload(u) \/ CompleteMultipartUpload(u) \/ AbortMultipartUpload(u)
  \/ \E r \in Reads :
       \/ \E k \in ObjectKeys : GetRequested(r, k)
       \/ ObjectFetched(r)
       \/ PartSent(r)
       \/ StreamEnds(r)
  \/ BucketCrash

BucketSpec == BucketInit /\ [][BucketNext]_bucketVars

-----------------------------------------------------------------------------
(* Properties *)

ReferencedBlobs == BlobsOf(parts) \cup ({objects[k] : k \in ObjectKeys} \cap Writes)

\* A multipart object consists of exactly the parts its completion selected, all
\* other objects of none, and unlinked parts belong to uploads in progress:
\* "put,delete will never delete parts for in-progress uploads", and an abort
\* never those of a completed one.
ObjectsMatchParts ==
  /\ \A k \in ObjectKeys :
       IF objects[k] \in Uploads
       THEN /\ uploads[objects[k]] = [state |-> "completed", key |-> k]
            /\ LinkedTo({k}) \subseteq PartsOf(objects[k])
            /\ BlobsOf(LinkedTo({k})) = selected[objects[k]]
       ELSE LinkedTo({k}) = {}
  /\ \A p \in parts : p.object = Nothing <=> uploads[p.upload].state = "inProgress"

\* What a row names is on disk, and so is every blob that a multipart read has
\* still to send, whatever is put, deleted or completed while it streams.
BlobsAreKept ==
  /\ ReferencedBlobs \subseteq disk
  /\ \A r \in Reads :
       /\ reads[r].stage # "broken"
       /\ BlobsOf(reads[r].todo) \subseteq disk
       /\ reads[r].stage = "missed" => objects[reads[r].key] # reads[r].row

\* Of the puts that ask for the object their caller has seen, only one gets to
\* replace that object: the condition and the row change together, although the
\* value was stored in between.
NoLostUpdate ==
  \A v, w \in Writes :
    (/\ v # w
     /\ writes[v].stage = "done" /\ writes[w].stage = "done"
     /\ writes[v].target \in PutTargets /\ writes[w].target = writes[v].target)
      => writes[v].target.onlyIf \in {Anything, Nothing}

\* A blob without a row is about to be deleted, unless its put was found invalid,
\* its deletion failed or the process died.
OnlyInvalidPutsLeak ==
  disk \ ReferencedBlobs \subseteq
    deletions \cup stranded \cup {w \in Writes : writes[w].stage = "stored"}
=============================================================================
