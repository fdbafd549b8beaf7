----------------------------- MODULE StreamStore -----------------------------
(***************************************************************************)
(* The store of the Stream simulator: StreamObject                         *)
(* (src/bindings/stream/Stream.worker.ts), a Durable Object with tables    *)
(* for videos, their captions and downloads, and watermarks, whose bytes   *)
(* are blobs on the disk service.  Videos and watermarks are stored in the *)
(* same way, so they are one set here, the works; only videos have         *)
(* captions and downloads.  All captions of a video here have one language *)
(* and all downloads one type: the rows of others do not interact.         *)
(*                                                                         *)
(* A blob has the name of the call that writes it.  The calls of an object *)
(* interleave wherever they await the disk service, whose answer may be an *)
(* error: BlobStore.delete throws unless the blob is deleted or not there. *)
(* A crash ends all calls; the rows and the blobs stay.                    *)
(***************************************************************************)
EXTENDS Integers

CONSTANTS
  Videos,
  Watermarks,
  Captions,    \* calls of uploadCaption and generateCaption
  NoCaption,   \* there is no row
  NoBlob       \* the blob_id of a generated caption

ASSUME CaptionsAssumption ==
  /\ NoCaption # NoBlob
  /\ {NoCaption, NoBlob} \cap (Captions \cup Videos \cup Watermarks) = {}
  /\ Captions \cap (Videos \cup Watermarks) = {}
  /\ Videos \cap Watermarks = {}

VARIABLES
  works,         \* [w] the row of a video or a watermark
  captionRows,   \* [v] the blob of v's caption row
  downloads,     \* the videos with a download row
  streamBlobs,   \* the blobs on the disk
  doomed,        \* blobs whose rows are deleted, and which are about to be
  captions,      \* [c] a caption call, how far it has come
  abandoned,     \* history: blobs whose deletion failed or was cut off after their rows were gone
  overlapping    \* history: caption calls that ran while another one did

streamVars == <<works, captionRows, downloads, streamBlobs, doomed, captions, abandoned, overlapping>>

Works == Videos \cup Watermarks
Blobs == Works \cup Captions
CaptionStages == {"idle", "clearing", "writing", "done", "failed"}

StreamTypeOK ==
  /\ works \in [Works -> {"none", "writing", "stored", "deleted", "failed"}]
  /\ captionRows \in [Videos -> Captions \cup {NoCaption, NoBlob}]
  /\ downloads \subseteq Videos
  /\ streamBlobs \subseteq Blobs
  /\ doomed \subseteq Blobs
  /\ abandoned \subseteq Blobs
  /\ captions \in [Captions -> [video : Videos, generated : BOOLEAN, stage : CaptionStages,
                                old : Captions \cup {NoCaption, NoBlob}]]
  /\ overlapping \subseteq Captions

StreamInit ==
  /\ works = [w \in Works |-> "none"]
  /\ captionRows = [v \in Videos |-> NoCaption]
  /\ downloads = {}
  /\ streamBlobs = {}
  /\ doomed = {}
  /\ abandoned = {}
  /\ captions \in [Captions -> [video : Videos, generated : BOOLEAN, stage : {"idle"}, old : {NoCaption}]]
  /\ overlapping = {}

-----------------------------------------------------------------------------
(* Videos, watermarks and downloads *)

\* createVideo, createWatermarkFromBody: the bytes are written first.
WorkBegins(w) ==
  /\ works[w] = "none"
  /\ works' = [works EXCEPT ![w] = "writing"]
  /\ UNCHANGED <<captionRows, downloads, streamBlobs, doomed, captions, abandoned, overlapping>>

WorkStored(w) ==
  /\ works[w] = "writing"
  /\ works' = [works EXCEPT ![w] = "stored"]
  /\ streamBlobs' = streamBlobs \cup {w}
  /\ UNCHANGED <<captionRows, downloads, doomed, captions, abandoned, overlapping>>

\* The body fails on its way; what has been written stays.
WorkFails(w) ==
  /\ works[w] = "writing"
  /\ works' = [works EXCEPT ![w] = "failed"]
  /\ streamBlobs' \in {streamBlobs, streamBlobs \cup {w}}
  /\ UNCHANGED <<captionRows, downloads, doomed, captions, abandoned, overlapping>>

BlobOfRow(v) == IF v \in Videos THEN {captionRows[v]} \cap Captions ELSE {}

\* Mutant: the blobs of the captions are forgotten when CASCADE deletes the rows.
DeleteWorkOnly(w) ==
  /\ works[w] = "stored"
  /\ works' = [works EXCEPT ![w] = "deleted"]
  /\ captionRows' = [v \in Videos |-> IF v = w THEN NoCaption ELSE captionRows[v]]
  /\ downloads' = downloads \ {w}
  /\ doomed' = doomed \cup {w}
  /\ UNCHANGED <<streamBlobs, captions, abandoned, overlapping>>

\* deleteVideo, deleteWatermark: one transaction for the rows, then the blobs.
DeleteWork(w) ==
  /\ works[w] = "stored"
  /\ works' = [works EXCEPT ![w] = "deleted"]
  /\ captionRows' = [v \in Videos |-> IF v = w THEN NoCaption ELSE captionRows[v]]
  /\ downloads' = downloads \ {w}
  /\ doomed' = doomed \cup {w} \cup BlobOfRow(w)
  /\ UNCHANGED <<streamBlobs, captions, abandoned, overlapping>>

DoomedDeleted(b) ==
  /\ b \in doomed
  /\ doomed' = doomed \ {b}
  /\ streamBlobs' = streamBlobs \ {b}
  /\ UNCHANGED <<works, captionRows, downloads, captions, abandoned, overlapping>>

\* The call throws when its rows are gone; the others of the same Promise.all go on.
DoomedDeleteFails(b) ==
  /\ b \in doomed
  /\ doomed' = doomed \ {b}
  /\ abandoned' = abandoned \cup {b}
  /\ streamBlobs' \in {streamBlobs, streamBlobs \ {b}}
  /\ UNCHANGED <<works, captionRows, downloads, captions, overlapping>>

GenerateDownload(v) ==
  /\ works[v] = "stored"
  /\ downloads' = downloads \cup {v}
  /\ UNCHANGED <<works, captionRows, streamBlobs, doomed, captions, abandoned, overlapping>>

DeleteDownload(v) ==
  /\ v \in downloads
  /\ downloads' = downloads \ {v}
  /\ UNCHANGED <<works, captionRows, streamBlobs, doomed, captions, abandoned, overlapping>>

-----------------------------------------------------------------------------
(* Captions *)

Running(v) == {c \in Captions : captions[c].video = v /\ captions[c].stage \in {"clearing", "writing"}}

\* #upsertCaption, which the foreign key refuses when the video is gone
Upsert(c, blob) ==
  LET v == captions[c].video IN
    IF works[v] = "stored"
    THEN captionRows' = [captionRows EXCEPT ![v] = blob] /\ captions' = [captions EXCEPT ![c].stage = "done"]
    ELSE UNCHANGED captionRows /\ captions' = [captions EXCEPT ![c].stage = "failed"]

\* The first part of both calls, as far as the first await: the blob of the row
\* that is there is deleted.  Without one, generateCaption does not wait.
CaptionBegins(c) ==
  LET v == captions[c].video  old == captionRows[v] IN
    /\ captions[c].stage = "idle"
    /\ works[v] = "stored"
    /\ \/ /\ old \in Captions
          /\ captions' = [captions EXCEPT ![c] =
               [video |-> v, generated |-> captions[c].generated, stage |-> "clearing", old |-> old]]
          /\ UNCHANGED captionRows
       \/ /\ old \notin Captions
          /\ ~captions[c].generated
          /\ captions' = [captions EXCEPT ![c].stage = "writing"]
          /\ UNCHANGED captionRows
       \/ /\ old \notin Captions
          /\ captions[c].generated
          /\ Upsert(c, NoBlob)
    /\ overlapping' = IF Running(v) = {} THEN overlapping ELSE overlapping \cup Running(v) \cup {c}
    /\ UNCHANGED <<works, downloads, streamBlobs, doomed, abandoned>>

\* The old blob is gone, its row still there.
OldBlobDeleted(c) ==
  /\ captions[c].stage = "clearing"
  /\ streamBlobs' = streamBlobs \ {captions[c].old}
  /\ IF captions[c].generated
     THEN Upsert(c, NoBlob)
     ELSE captions' = [captions EXCEPT ![c].stage = "writing"] /\ UNCHANGED captionRows
  /\ UNCHANGED <<works, downloads, doomed, abandoned, overlapping>>

\* The call throws, and the old row stays, perhaps without its blob.
OldBlobDeleteFails(c) ==
  /\ captions[c].stage = "clearing"
  /\ streamBlobs' \in {streamBlobs, streamBlobs \ {captions[c].old}}
  /\ captions' = [captions EXCEPT ![c].stage = "failed"]
  /\ UNCHANGED <<works, captionRows, downloads, doomed, abandoned, overlapping>>

CaptionWritten(c) ==
  /\ captions[c].stage = "writing"
  /\ streamBlobs' = streamBlobs \cup {c}
  /\ Upsert(c, c)
  /\ UNCHANGED <<works, downloads, doomed, abandoned, overlapping>>

\* The input fails on its way.
CaptionFails(c) ==
  /\ captions[c].stage = "writing"
  /\ captions' = [captions EXCEPT ![c].stage = "failed"]
  /\ streamBlobs' \in {streamBlobs, streamBlobs \cup {c}}
  /\ UNCHANGED <<works, captionRows, downloads, doomed, abandoned, overlapping>>

DeleteCaption(v) ==
  /\ captionRows[v] # NoCaption
  /\ captionRows' = [captionRows EXCEPT ![v] = NoCaption]
  /\ doomed' = doomed \cup BlobOfRow(v)
  /\ UNCHANGED <<works, downloads, streamBlobs, captions, abandoned, overlapping>>

\* The process dies, and with it every call; nobody makes up for deletions that were
\* not sent.  (A call that has taken effect in part fails first.)
StreamCrash ==
  LET cut == {w \in Works : works[w] = "writing"}
      lost == {c \in Captions : captions[c].stage \in {"clearing", "writing"}}
  IN
  /\ cut \cup lost \cup doomed # {}
  /\ works' = [w \in Works |-> IF w \in cut THEN "failed" ELSE works[w]]
  /\ captions' = [c \in Captions |->
       IF c \in lost THEN [captions[c] EXCEPT !.stage = "failed"] ELSE captions[c]]
  /\ abandoned' = abandoned \cup doomed
  /\ doomed' = {}
  /\ UNCHANGED <<captionRows, downloads, streamBlobs, overlapping>>

StreamNext ==
  \/ \E w \in Works : WorkBegins(w) \/ WorkStored(w) \/ WorkFails(w) \/ DeleteWork(w)
  \/ \E b \in Blobs : DoomedDeleted(b) \/ DoomedDeleteFails(b)
  \/ \E v \in Videos : GenerateDownload(v) \/ DeleteDownload(v) \/ DeleteCaption(v)
  \/ \E c \in Captions :
       CaptionBegins(c) \/ OldBlobDeleted(c) \/ OldBlobDeleteFails(c) \/ CaptionWritten(c)
       \/ CaptionFails(c)
  \/ StreamCrash

StreamSpec == StreamInit /\ [][StreamNext]_streamVars

-----------------------------------------------------------------------------
(* Properties *)

HasRow(b) ==
  IF b \in Works THEN works[b] = "stored" ELSE \E v \in Videos : captionRows[v] = b

\* Rows of a video exist only with the video.
RowsOfVideos ==
  \A v \in Videos : works[v] # "stored" => captionRows[v] = NoCaption /\ v \notin downloads

\* A row's blob is there.  The exception are captions that are being replaced, or
\* whose replacement failed: their blob is deleted first.
RowsHaveTheirBlobs ==
  \A b \in Blobs \ streamBlobs : HasRow(b) =>
    \E c \in Captions : captions[c].old = b /\ (captions[c].stage # "done" \/ c \in overlapping)

\* A blob without a row is about to be deleted, or its deletion failed or was cut
\* off; or it was written by a call that failed or overlapped with another.
BlobsHaveTheirRows ==
  \A b \in streamBlobs : ~HasRow(b) =>
    \/ b \in doomed \cup abandoned
    \/ b \in Works /\ works[b] = "failed"
    \/ b \in Captions /\ (captions[b].stage = "failed" \/ b \in overlapping)

\* Tables and blobs agree, over overlapping calls, failures and crashes, but for what
\* the calls that overlapped or failed account for.
TablesMatchBlobs == RowsOfVideos /\ RowsHaveTheirBlobs /\ BlobsHaveTheirRows
=============================================================================
