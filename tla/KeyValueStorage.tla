---------------------------- MODULE KeyValueStorage ----------------------------
(***************************************************************************)
(* The storage below the KV and Cache simulators                           *)
(* (src/internal/shared.worker.ts): the SQLite table _mf_entries maps a    *)
(* key to the id of a blob, and a BlobStore on disk holds the bytes.  One  *)
(* Durable Object runs all operations; SQL is synchronous, every access to *)
(* a blob is awaited, and in between any other operation may run.  Table   *)
(* and blobs survive a crash of the process, operations do not.            *)
(*                                                                         *)
(* A put writes a new blob under a fresh random id, so a blob is named by  *)
(* the put that wrote it.  Keys are strings of which only the order        *)
(* matters; ranges of bytes are abstracted to a number of parts.           *)
(***************************************************************************)
EXTENDS Integers, FiniteSets, Sequences, Functions

CONSTANTS
  Keys,         \* naturals, in the order of the strings
  Matching,     \* those that start with the prefix of the listing
  Puts,         \* put() calls, and the blobs they write
  Gets,         \* get() calls
  Expirations,  \* what a caller may pass as `expiration', Never among it
  Never,        \* no expiration: NULL
  NoRow,
  Limit,        \* the limit of the listing, at least one key
  Parts,        \* ranges of a multi-range get
  MaxNow        \* bound: the last instant of the clock

ASSUME KeysAssumption == Keys \subseteq Nat \ {0} /\ Matching \subseteq Keys
ASSUME ExpirationsAssumption == Never \notin Nat /\ Expirations \subseteq Nat \cup {Never}
ASSUME NoRowAssumption == NoRow \notin [blob : Puts, expiration : Expirations]
ASSUME LimitsAssumption == Limit \in Nat \ {0} /\ Parts \in Nat \ {0} /\ MaxNow \in Nat

VARIABLES
  table,     \* [k] the row of _mf_entries
  blobs,     \* the blobs on disk
  garbage,   \* blobs whose background deletion has not been carried out
  puts,      \* [p] a put() call: how far it has come, and what it writes
  gets,      \* [g] a get() call: how far it has come, and the row it found
  now,       \* timers.now()
  lister,    \* a caller that lists page after page
  due,       \* history: keys the listing has to return
  dangling   \* history: blobs given up by a crash or a failed deletion

vars == <<table, blobs, garbage, puts, gets, now, lister, due, dangling>>

PutStages == {"idle", "writing", "written", "done", "aborted", "failed", "insertFailed"}
GetStages ==
  {"idle", "fetching", "heading", "streaming", "value", "null", "missed", "broken", "failed"}
Rows == [blob : Puts, expiration : Expirations]

TypeOK ==
  /\ table \in [Keys -> Rows \cup {NoRow}]
  /\ blobs \subseteq Puts
  /\ garbage \subseteq Puts
  /\ puts \in [Puts -> [stage : PutStages, key : Keys, expiration : Expirations]]
  /\ gets \in [Gets -> [stage : GetStages, key : Keys, row : Rows \cup {NoRow}, parts : 0..Parts]]
  /\ now \in 0..MaxNow
  /\ lister \in [stage : {"paging", "done"}, after : Keys \cup {0}, keys : Seq(Keys)]
  /\ due \subseteq Keys
  /\ dangling \subseteq Puts

Init ==
  /\ table = [k \in Keys |-> NoRow]
  /\ blobs = {}
  /\ garbage = {}
  /\ puts \in [Puts -> [stage : {"idle"}, key : Keys, expiration : Expirations]]
  /\ gets \in [Gets -> [stage : {"idle"}, key : Keys, row : {NoRow}, parts : {Parts}]]
  /\ now = 0
  /\ lister = [stage |-> "paging", after |-> 0, keys |-> <<>>]
  /\ due = {}
  /\ dangling = {}

-----------------------------------------------------------------------------
(* The table *)

\* The blob of a row, if there is one
BlobOf(row) == IF row = NoRow THEN {} ELSE {row.blob}

Permanent(row) == row # NoRow /\ row.expiration = Never

\* #hasExpired
HasExpired(row) == row.expiration # Never /\ row.expiration <= now

\* The table becomes t.  A key that never expires has to be listed if it was
\* there when its page was still to come, and has been there ever since.
SetTable(t) ==
  /\ table' = t
  /\ due' = {k \in Matching : /\ Permanent(t[k])
                              /\ k \in due \/ (lister.stage = "paging" /\ k > lister.after)}

RemoveRows(K) == SetTable([k \in Keys |-> IF k \in K THEN NoRow ELSE table[k]])

\* #backgroundDelete of the blobs of the rows of K
Collect(K) == garbage' = garbage \cup UNION {BlobOf(table[k]) : k \in K}

-----------------------------------------------------------------------------
(* put() *)

SetPut(p, stage) == puts' = [puts EXCEPT ![p].stage = stage]

PutBegins(p) ==
  /\ puts[p].stage = "idle"
  /\ SetPut(p, "writing")
  /\ UNCHANGED <<table, blobs, garbage, gets, now, lister, due, dangling>>

\* blob.put() rejects: nothing was written.
PutFails(p) ==
  /\ puts[p].stage = "writing"
  /\ SetPut(p, "failed")
  /\ UNCHANGED <<table, blobs, garbage, gets, now, lister, due, dangling>>

\* The blob is there; the signal may have been aborted while it was written.
BlobWritten(p) ==
  /\ puts[p].stage = "writing"
  /\ blobs' = blobs \cup {p}
  /\ \/ SetPut(p, "written") /\ UNCHANGED garbage
     \/ SetPut(p, "aborted") /\ garbage' = garbage \cup {p}
  /\ UNCHANGED <<table, gets, now, lister, due, dangling>>

\* Mutant: the blob of the row that is replaced is forgotten.
CommitsWithoutCollecting(p) ==
  LET k == puts[p].key IN
    /\ puts[p].stage = "written"
    /\ SetTable([table EXCEPT ![k] = [blob |-> p, expiration |-> puts[p].expiration]])
    /\ SetPut(p, "done")
    /\ UNCHANGED <<blobs, garbage, gets, now, lister, dangling>>

\* Mutant: the signal is looked at after the transaction.
CommitsBeforeAbort(p) ==
  LET k == puts[p].key IN
    /\ puts[p].stage = "written"
    /\ SetTable([table EXCEPT ![k] = [blob |-> p, expiration |-> puts[p].expiration]])
    /\ \/ SetPut(p, "done") /\ Collect({k})
       \/ SetPut(p, "aborted") /\ garbage' = garbage \cup BlobOf(table[k]) \cup {p}
    /\ UNCHANGED <<blobs, gets, now, lister, dangling>>

\* The metadata is there too: the transaction replaces the row.
PutCommits(p) ==
  LET k == puts[p].key IN
    /\ puts[p].stage = "written"
    /\ SetTable([table EXCEPT ![k] = [blob |-> p, expiration |-> puts[p].expiration]])
    /\ SetPut(p, "done")
    /\ Collect({k})
    /\ UNCHANGED <<blobs, gets, now, lister, dangling>>

\* The metadata promise rejects or the INSERT fails: the exception passes through.
InsertFails(p) ==
  /\ puts[p].stage = "written"
  /\ SetPut(p, "insertFailed")
  /\ UNCHANGED <<table, blobs, garbage, gets, now, lister, due, dangling>>

-----------------------------------------------------------------------------
(* get() *)

SetGet(g, stage) == gets' = [gets EXCEPT ![g].stage = stage]

\* The row is read, and an expired one removed, before the first await; then a
\* plain or single-range get fetches the blob, a multi-range get its length.
GetBegins(g) ==
  LET k == gets[g].key
      row == table[k]
  IN
  /\ gets[g].stage = "idle"
  /\ \/ /\ row = NoRow
        /\ SetGet(g, "null")
        /\ UNCHANGED <<table, garbage, due>>
     \/ /\ row # NoRow
        /\ HasExpired(row)
        /\ SetGet(g, "null")
        /\ RemoveRows({k})
        /\ Collect({k})
     \/ /\ row # NoRow
        /\ ~HasExpired(row)
        /\ \E stage \in {"fetching", "heading"} :
             gets' = [gets EXCEPT ![g].stage = stage, ![g].row = row]
        /\ UNCHANGED <<table, garbage, due>>
  /\ UNCHANGED <<blobs, puts, now, lister, dangling>>

\* The disk answers 200 with the stream of the blob, or 404.
BlobFetched(g) ==
  /\ gets[g].stage = "fetching"
  /\ SetGet(g, IF gets[g].row.blob \in blobs THEN "value" ELSE "missed")
  /\ UNCHANGED <<table, blobs, garbage, puts, now, lister, due, dangling>>

\* The HEAD of a multi-range get; get() returns a stream that is written later.
BlobHeaded(g) ==
  /\ gets[g].stage = "heading"
  /\ SetGet(g, IF gets[g].row.blob \in blobs THEN "streaming" ELSE "missed")
  /\ UNCHANGED <<table, blobs, garbage, puts, now, lister, due, dangling>>

\* writeMultipleRanges: the next range, or the end of the stream; a range that
\* is not there fails an assertion and the stream with it.
RangeFetched(g) ==
  /\ gets[g].stage = "streaming"
  /\ gets' = [gets EXCEPT
       ![g].parts = IF gets[g].row.blob \in blobs THEN @ - 1 ELSE @,
       ![g].stage = IF gets[g].row.blob \notin blobs THEN "broken"
                    ELSE IF gets[g].parts = 1 THEN "value" ELSE @]
  /\ UNCHANGED <<table, blobs, garbage, puts, now, lister, due, dangling>>

-----------------------------------------------------------------------------
(* delete(), deleteAll() and the background deletions *)

Delete(k) ==
  /\ table[k] # NoRow
  /\ RemoveRows({k})
  /\ Collect({k})
  /\ UNCHANGED <<blobs, puts, gets, now, lister, dangling>>

DeleteAll ==
  /\ \E k \in Keys : table[k] # NoRow
  /\ RemoveRows(Keys)
  /\ Collect(Keys)
  /\ UNCHANGED <<blobs, puts, gets, now, lister, dangling>>

BlobDeleted(b) ==
  /\ b \in garbage
  /\ garbage' = garbage \ {b}
  /\ blobs' = blobs \ {b}
  /\ UNCHANGED <<table, puts, gets, now, lister, due, dangling>>

\* Errors are ignored.
BlobDeleteFails(b) ==
  /\ b \in garbage
  /\ garbage' = garbage \ {b}
  /\ dangling' = dangling \cup {b}
  /\ UNCHANGED <<table, blobs, puts, gets, now, lister, due>>

-----------------------------------------------------------------------------
(* list() *)

\* The rows of the SELECT, without its LIMIT
Listable ==
  {k \in Matching : /\ k > lister.after
                    /\ table[k] # NoRow
                    /\ table[k].expiration = Never \/ table[k].expiration >= now}

\* The rows that list() removes
Outdated ==
  {k \in Keys : table[k] # NoRow /\ table[k].expiration # Never /\ table[k].expiration < now}

\* The first n keys of S, or all of them
FirstKeys(S, n) == {k \in S : Cardinality({j \in S : j < k}) < n}

Ascending(S) ==
  CHOOSE s \in [1..Cardinality(S) -> S] : \A i, j \in DOMAIN s : i < j => s[i] < s[j]

\* Mutant: the cursor is the key to start at, one that is already there.
CursorToStartAt(page) ==
  IF Listable = page THEN lister.after
  ELSE CHOOSE k \in Listable \ page : \A j \in Listable \ page : k <= j

\* The key to start after: the last of the page, if there are more
NextCursor(page) ==
  IF Listable = page THEN lister.after
  ELSE CHOOSE k \in page : \A j \in page : j <= k

\* One call of list() by the lister, until there is no cursor
ListPage ==
  LET page == FirstKeys(Listable, Limit) IN
    /\ lister.stage = "paging"
    /\ lister' = [stage |-> IF Listable = page THEN "done" ELSE "paging",
                  after |-> NextCursor(page),
                  keys  |-> lister.keys \o Ascending(page)]
    /\ RemoveRows(Outdated)
    /\ Collect(Outdated)
    /\ UNCHANGED <<blobs, puts, gets, now, dangling>>

-----------------------------------------------------------------------------
Tick ==
  /\ now < MaxNow
  /\ now' = now + 1
  /\ UNCHANGED <<table, blobs, garbage, puts, gets, lister, due, dangling>>

\* The process dies: operations and background deletions are gone.
Crash ==
  LET lost == {p \in Puts : puts[p].stage \in {"writing", "written"}}
      cut == {g \in Gets : gets[g].stage \in {"fetching", "heading", "streaming"}}
  IN
  /\ lost \cup cut \cup garbage # {}
  /\ puts' = [p \in Puts |-> IF p \in lost THEN [puts[p] EXCEPT !.stage = "failed"] ELSE puts[p]]
  /\ gets' = [g \in Gets |-> IF g \in cut THEN [gets[g] EXCEPT !.stage = "failed"] ELSE gets[g]]
  /\ dangling' = dangling \cup garbage \cup (lost \cap blobs)
  /\ garbage' = {}
  /\ UNCHANGED <<table, blobs, now, lister, due>>

Next ==
  \/ \E p \in Puts :
       \/ PutBegins(p)
       \/ PutFails(p)
       \/ BlobWritten(p)
       \/ PutCommits(p)
       \/ InsertFails(p)
       \/ BlobDeleted(p)
       \/ BlobDeleteFails(p)
  \/ \E g \in Gets : GetBegins(g) \/ BlobFetched(g) \/ BlobHeaded(g) \/ RangeFetched(g)
  \/ \E k \in Keys : Delete(k)
  \/ DeleteAll
  \/ ListPage
  \/ Tick
  \/ Crash

Spec == Init /\ [][Next]_vars

-----------------------------------------------------------------------------
(* Properties *)

Referenced == UNION {BlobOf(table[k]) : k \in Keys}

\* A row always has its blob on disk, whatever the order of puts, deletions,
\* expirations, background deletions and crashes: "atomic updates".
RowsHaveBlobs == Referenced \subseteq blobs

\* A blob without a row is on its way out, unless its deletion failed, a crash
\* interrupted the operation that owned it, or its row was never inserted.
NothingLeaks ==
  blobs \ Referenced \subseteq
    garbage \cup dangling \cup {p \in Puts : puts[p].stage \in {"written", "insertFailed"}}

\* A value that was aborted while it was written is never seen: not in the
\* table, and so by no get().
AbortedNeverVisible ==
  \A p \in Puts : puts[p].stage = "aborted" =>
    p \notin Referenced /\ \A g \in Gets : gets[g].row # NoRow => gets[g].row.blob # p

\* A get() that found a row comes back without its value only if that row was
\* replaced or removed in the meantime.
UndisturbedGetSucceeds ==
  \A g \in Gets : gets[g].stage \in {"missed", "broken"} => table[gets[g].key] # gets[g].row

\* A listing that follows the cursors to the end returns, once and in order,
\* every key that was there, or was added behind the cursor, and has stayed:
\* "to ensure keys added between list() calls are returned".
ListingIsComplete ==
  /\ \A i, j \in DOMAIN lister.keys : i < j => lister.keys[i] < lister.keys[j]
  /\ lister.stage = "done" => due \subseteq Range(lister.keys)
=============================================================================
